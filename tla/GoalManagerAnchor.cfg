CONSTANTS
  Destinations = {d1, d2}
  UnknownName = nowhere
  None = None
  GoalIds = {g1, g2, g3}
  UseRoutePoseStart = FALSE
  RequireNavReady = TRUE
SPECIFICATION FairSpec
INVARIANTS BusyIffOneGoal FollowsCurrentTarget
PROPERTY RequestEnds
