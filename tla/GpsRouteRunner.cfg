SPECIFICATION RouteFairSpec
CONSTANTS
  Nothing = Nothing
  waypoints <- MCWaypoints
  segment_length_m = 1
  waypoint_tolerance_m = 0
  success_shortfall_tolerance_m = 1
  divergence_abort_m = 1
  shift_cancel_threshold_m = 0
  step_warn_m = 1
  step_abort_m = 2
  warn_count_abort = 2
  tf_stale_abort_count = 2
  GoalTolerance = 0
  Offsets <- MCOffsets
  Jumps <- MCJumps
  MaxFaults = 2
PROPERTIES
  StopsWithRoute
  ReachedIsAbreast
  RouteEnds
CHECK_DEADLOCK FALSE
