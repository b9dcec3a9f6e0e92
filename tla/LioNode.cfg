CONSTANTS
  MaxStamp = 6
  MaxImus = 3
  MaxScans = 2
  MaxReorders = 1
  Span = 1
  Durations <- MCDurations
  min_imu_samples_per_lidar = 1
  imu_init_num = 1
  Moves <- MCMoves
  Corrections <- MCCorrections
  MaxPose = 2
  half_cube_len = 3
  det_range = 1
  det_thresh = 1
  mov_dist = 2
SPECIFICATION Spec
INVARIANTS PredictsForward NothingNearIsForgotten
PROPERTIES TilesTime TakesEachScanOnce
CHECK_DEADLOCK FALSE
