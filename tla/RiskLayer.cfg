CONSTANTS
  LastCell = 2
  half = 1
  Poses <- MCPoses
  Shifts <- MCShifts
  AnchorLists <- MCAnchorLists
  Decays <- MCDecays
  overrun_disable_count = 2
  watchdog = 0
  tau = 60
  MaxCosts <- MCMaxCosts
  OtherBounds <- MCOtherBounds
  Obstacles <- MCObstacles
  None = None
SPECIFICATION RiskFairSpec
INVARIANTS
  RiskOnlyRaises
PROPERTY
  RiskFades
