\* Turns and messages may be arbitrarily late; full queues drop messages.
SPECIFICATION FairChainSpec
CONSTANTS
  StatusPeriod = 1
  ActivePeriod = 1
  LeadTime = 0
  ReferenceGrace = 1
  Starts = {0}
  Durations = {0, 1}
  Prompt = FALSE
  MaxTime = 4
  MaxAccepted = 3
  Queue = 1
  Delay = 1
  Lasting = 1
  Operators <- AnalyticOnly
  Refused = {2}
  MaxEntries = 2
PROPERTIES ReferenceComes
CHECK_DEADLOCK FALSE
