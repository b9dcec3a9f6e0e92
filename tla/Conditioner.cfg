CONSTANTS
  GateCommands <- MCCommands
  None = None
  InPlaceLinear = 2
  LinearDeadband = 14
  TurningAngular = 16
  AngularZero = 1
  RatioPercent = 80
  ReferenceTimeout = 1
  MonitorPercent = 50
  TopicDepth = 1
SPECIFICATION ConditionerSpec
PROPERTY OnlySlowedLosesLinear
