SPECIFICATION Spec
CONSTANTS
  Backend = "NMPC"
  FeedbackSource = "RIGID_ESTIMATE"
  PlannerReference = FALSE
  SkipInitDisarm = FALSE
  AltctlFrames = 1
  OffboardFrames = 1
  ArmFrames = 1
  SettledFrames = 2
  RequestInterval = 1
  StageTimeout = 1
  AscendingTimeout = 1
  TripDelay = 1
  BatchLimit = 1
  PendingCapacity = 1
  CommandInputs = {"Takeoff", "Land", "Hover", "Track"}
  Delivered = {"Estimate", "FcuState", "LocalPosition", "Canonical"}
  FcuReports <- MCFcuReports
  PoseReports <- MCFlightPoses
  GapReports = {"near", "far"}
  UsableReports = {TRUE}
INVARIANTS
  SetpointBelongsToState
  LeftoverIsForeign
  DisarmOnlyOnGround
  AttitudeIsOverridden
PROPERTIES
  TouchdownIsConfirmed
  ImplementsPhases
