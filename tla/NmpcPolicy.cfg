\* The policy the comment in consumeNmpcResult states.
SPECIFICATION Spec
CONSTANTS
  ControlPeriod = 1
  SolveTimeout = 1
  ResultTimeout = 2
  PublishPeriod = 2
  Prompt = TRUE
  MaxTime = 6
  MaxGenerations = 1
PROPERTIES AttitudeObeysPolicy
\* A stopped service stays stopped.
CHECK_DEADLOCK FALSE
