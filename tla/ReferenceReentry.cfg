\* Prompt turns; messages take up to one unit.  (ReferenceAnswer: late ones.)
SPECIFICATION ChainSpec
CONSTANTS
  StatusPeriod = 4
  ActivePeriod = 2
  LeadTime = 1
  ReferenceGrace = 1
  Starts = {0, 4}
  Durations = {0, 1, 4}
  Prompt = TRUE
  MaxTime = 9
  MaxAccepted = 4
  Queue = 2
  Delay = 1
  Lasting = 4
  Operators <- SomeOfEach
  Refused = {2}
  MaxEntries = 2
INVARIANTS AcceptedIsFlown WakeIsArmed RuntimeIsInTime StaleIsBrief CacheFollows
PROPERTIES TurnsRest KeepsPromise
CHECK_DEADLOCK FALSE  \* nothing moves at the bound of time
