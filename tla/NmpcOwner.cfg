\* Turns run as soon as they are asked for; the solver may never answer.
SPECIFICATION FairSpec
CONSTANTS
  ControlPeriod = 2
  SolveTimeout = 1
  ResultTimeout = 2
  PublishPeriod = 1
  Prompt = TRUE
  MaxTime = 6
  MaxGenerations = 2
INVARIANTS AttitudeOfThisEntry AnswerIsNotLost OutputGap
PROPERTIES AttitudeIsRecent QuietAfterStop TimeIsNotStarved
CHECK_DEADLOCK FALSE  \* a stopped service stays stopped
