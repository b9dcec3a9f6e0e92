SPECIFICATION Spec
CONSTANTS
  max_states = 3
  MaxStamp = 4
  GnssStamps = {2}
  WheelTolerance = 1
  HeadingTolerance = 2
  wheel_enabled = TRUE
  rtk_position_enabled = TRUE
  rtk_heading_enabled = TRUE
  use_rtk_heading_for_yaw = TRUE
  recovery_min_samples = 3
  degraded_to_local_samples = 2
  bootstrap_required_consecutive_samples = 2
INVARIANTS GraphSolvable WheelCountedOnce LockedIffStrongTicks
PROPERTY KeepsMeasurements
