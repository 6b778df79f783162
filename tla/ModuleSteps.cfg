\* One unit is half a second, but for the period of the statistics.
SPECIFICATION Spec
CONSTANTS
  Streams = {"Estimate", "Battery"}
  Battery = "Battery"
  StatsPeriod = 2
  Heartbeat = 2
  Timeout = 1
  NotFinite = NotFinite
  Profile <- MCProfile
  Created <- MCCreated
  Documents <- MCDocuments
  Turns <- MCTurns
  Bursts <- MCBursts
  Lateness = 1
  Delay = 0
  Depth = 1
  PendingCapacity = 1
  BatchLimit = 1
  MaxTime = 5
INVARIANTS
  LossIsNoticed
  NeverSleeps
  HealthTellsWrites
  ConfigurationIsSound
