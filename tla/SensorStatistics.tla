--------------------------- MODULE SensorStatistics ---------------------------
(***************************************************************************)
(* Which sensor streams are alive: every sample that is received makes its *)
(* stream active and new, and a heartbeat of the owner's clock finds the   *)
(* streams whose last sample is too old.  Frequencies and jitter are for   *)
(* observers and left out; the clock that computes them still asks for     *)
(* wakes.                                                                  *)
(***************************************************************************)
EXTENDS Integers, FiniteSetsExt

CONSTANTS
  Streams,       \* SensorStream
  StatsPeriod,   \* of updateStatistics
  Heartbeat,     \* of updateHeartbeats
  Timeout        \* the age from which a stream is lost

ASSUME StatisticsAssumption ==
  /\ {StatsPeriod, Heartbeat} \subseteq Nat \ {0}
  /\ Timeout \in Nat

NoSample == -1
Track == [last : Nat \cup {NoSample}, active : BOOLEAN, new : BOOLEAN]

(* start: the two clocks count from now.                                   *)
Started(now) ==
  [nextStats |-> now + StatsPeriod, nextBeat |-> now + Heartbeat,
   track |-> [s \in Streams |-> [last |-> NoSample, active |-> FALSE, new |-> FALSE]]]

Observe(receipt) == [last |-> receipt, active |-> TRUE, new |-> TRUE]

(* Missed periods are skipped; the grid of deadlines is kept.              *)
NextDeadlineAfterNext(deadline, now, period) ==
  now + (2 * period - ((now - deadline) % period))
NextDeadline(deadline, now, period) == now + (period - ((now - deadline) % period))

(* updateHeartbeats.                                                       *)
Beaten(track, now) ==
  [s \in Streams |-> IF track[s].last = NoSample THEN track[s]
                     ELSE [track[s] EXCEPT !.active = (now - track[s].last <= Timeout)]]

Advance(stats, now) ==
  LET beat == now >= stats.nextBeat IN
  [nextStats |-> IF now >= stats.nextStats
                 THEN NextDeadline(stats.nextStats, now, StatsPeriod) ELSE stats.nextStats,
   nextBeat |-> IF beat THEN NextDeadline(stats.nextBeat, now, Heartbeat) ELSE stats.nextBeat,
   track |-> IF beat THEN Beaten(stats.track, now) ELSE stats.track]

StatisticsWake(stats) == Min({stats.nextStats, stats.nextBeat})
ResetNewFlags(stats) ==
  [stats EXCEPT !.track = [s \in Streams |-> [stats.track[s] EXCEPT !.new = FALSE]]]
=============================================================================
