SPECIFICATION Spec
CONSTANTS
  Backend = "PX4_LOCAL"
  FeedbackSource = "RIGID_ESTIMATE"
  PlannerReference = FALSE
  SkipInitDisarm = TRUE
  AltctlFrames = 1
  OffboardFrames = 1
  ArmFrames = 1
  SettledFrames = 1
  RequestInterval = 1
  StageTimeout = 1
  AscendingTimeout = 1
  TripDelay = 1
  BatchLimit = 1
  PendingCapacity = 1
  CommandInputs = {"Takeoff", "Hover", "Track"}
  Delivered = {"FcuState", "LocalPosition", "LocalVelocity", "Imu", "Canonical"}
  FcuReports <- MCFcuArming
  PoseReports <- MCAlarmPoses
  GapReports = {"near"}
  UsableReports = {TRUE}
INVARIANTS
  SaturationIsHeard
PROPERTIES
  NoticedAlarmLands
