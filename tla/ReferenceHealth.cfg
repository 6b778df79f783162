\* The host may refuse any output of a step.
SPECIFICATION Spec
CONSTANTS
  StatusPeriod = 2
  ActivePeriod = 1
  LeadTime = 1
  ReferenceGrace = 1
  Starts = {0}
  Durations = {0, 1}
  Delays = {0}
  MayRefuse = TRUE
  MaxTime = 3
  MaxRequests = 2
PROPERTIES HealthTellsLastStep
CHECK_DEADLOCK FALSE
