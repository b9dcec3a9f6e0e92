CONSTANTS
  Axes = {linear}
  MaxSpeed = 2
  NaN = NaN
  MaxIncrease = 1
  DtCap = 1
  EnableLimit = TRUE
  WatchdogTimeout = 2
  WatchdogPeriod = 1
  McuTimeouts = {2, 4}
  Timeout <- MCTimeout
  GatePeriod = 1
  Commands <- MCCommands
  Stop <- MCStop
  Depth = 2
  Reduced <- MCReduced
SPECIFICATION ChainSpec
INVARIANTS
  LimiterKnowsChassis
  MotionIsFresh
  ThreeCommandLossLayers

  
