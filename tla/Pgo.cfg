CONSTANTS
  MaxTime = 2
  MaxKeys = 3
  MaxClouds = 1
  MaxSessions = 2
  Positions <- MCPositions
  EnuPositions <- MCEnuPositions
  Corrections <- MCCorrections
  MaxGlobal = 2
  key_pose_delta_trans = 0
  min_loop_poses = 2
  min_loop_detect_duration = 1
  loop_time_tresh = 0
  loop_search_radius = 1
  gps_buffer_size = 1
  gps_factor_interval = 1
  gps_window = 1
  gps_alignment_min_points = 2
  gps_alignment_min_spread = 1
  correction_jump_thresh = 1
  correction_window = 1
SPECIFICATION Spec
INVARIANTS
  SolverHasEachFactorOnce
  AlignmentFollowsGraph
  SavedMapIsWhole
PROPERTY
  JumpIsAnnounced
