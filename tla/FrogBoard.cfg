CONSTANTS
  Phones = {p1, p2}
  MaxClients = 2
  ArmWindow = 3
  DisableWindow = 4
  SyncGrace = 1
  PhoneTimeout = 4
  IdlePeriod = 1
  McuTimeout = 3
  MaxDrops = 1
SPECIFICATION BoardSpec
SYMMETRY Symmetry
INVARIANTS EnableReachesChassis DisableReachesChassis
