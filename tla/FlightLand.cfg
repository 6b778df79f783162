SPECIFICATION Spec
CONSTANTS
  Backend = "NMPC"
  FeedbackSource = "RIGID_ESTIMATE"
  PlannerReference = FALSE
  SkipInitDisarm = TRUE
  AltctlFrames = 1
  OffboardFrames = 1
  ArmFrames = 1
  SettledFrames = 1
  RequestInterval = 1
  StageTimeout = 1
  AscendingTimeout = 1
  TripDelay = 1
  BatchLimit = 1
  PendingCapacity = 2
  CommandInputs = {"Takeoff", "Land", "Hover"}
  Delivered = {"Estimate", "FcuState", "LocalPosition", "Canonical"}
  FcuReports <- MCFcuArming
  PoseReports <- MCTwoPoses
  GapReports = {"near"}
  UsableReports = {TRUE}
PROPERTIES
  LandIsHonoured
