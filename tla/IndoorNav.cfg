CONSTANTS
  LocalizationGrace = 2
  ChassisGrace = 1
SPECIFICATION FairSpec
INVARIANTS OneDestination ReservationReleased CancelReachesNav2
INVARIANTS GraceIsBounded NoGhostGoal
PROPERTY GoalsEnd
