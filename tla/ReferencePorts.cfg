\* Requests may arrive late and out of order.
SPECIFICATION Spec
CONSTANTS
  StatusPeriod = 2
  ActivePeriod = 1
  LeadTime = 1
  ReferenceGrace = 1
  Starts = {0}
  Durations = {0, 1}
  Delays = {0, 1}
  MayRefuse = FALSE
  MaxTime = 5
  MaxRequests = 3
INVARIANTS RequestsAreServed ReportIsTrue
PROPERTIES KeepsPromise
CHECK_DEADLOCK FALSE
