------------------------ MODULE ControllerModuleProofs ------------------------
(***************************************************************************)
(* Proofs about ControllerModule and Configuration.                        *)
(***************************************************************************)
EXTENDS ControllerModule, WellFoundedInduction, TLAPS

(* A set of stamps has a latest one.                                       *)
LEMMA LatestExists ==
  ASSUME NEW n \in Nat, NEW S \in SUBSET (0 .. n), S # {}
  PROVE  Max(S) \in S
<1> DEFINE T == {n - x : x \in S}
<1>1. T \subseteq Nat /\ T # {}
  <2>1. \A x \in S : x \in Int /\ 0 <= x /\ x <= n
    OBVIOUS
  <2>2. \A x \in S : n - x \in Nat
    BY <2>1
  <2> QED BY <2>2
<1>2. PICK t \in T : \A y \in T : ~(<<y, t>> \in OpToRel(<, Nat))
  BY <1>1, WFMin, NatLessThanWellFounded
<1>3. \A y \in T : t <= y
  <2> SUFFICES ASSUME NEW y \in T PROVE t <= y
    OBVIOUS
  <2>1. t \in Nat /\ y \in Nat
    BY <1>1
  <2>2. ~(y < t)
    BY <1>2, <2>1 DEF OpToRel
  <2> QED BY <2>1, <2>2
<1>4. PICK x \in S : t = n - x
  OBVIOUS
<1>5. \A y \in S : x >= y
  BY <1>3, <1>4
<1> QED BY <1>5 DEF Max

(* The next deadline is in the future, within a period of now.             *)
LEMMA NextDeadlineIsNear ==
  ASSUME NEW deadline \in Nat, NEW t \in Nat, NEW period \in Nat \ {0}
  PROVE  NextDeadline(deadline, t, period) \in t + 1 .. t + period
BY DEF NextDeadline
-----------------------------------------------------------------------------
(* The fallbacks are values a configuration may have.                      *)
LEMMA FallbacksMakeSense ==
  /\ \A key \in Positive : PositiveFallback[key] \in Nat \ {0}
  /\ \A key \in NonNegative : NonNegativeFallback[key] \in Nat
BY DEF Positive, NonNegative, PositiveFallback, NonNegativeFallback

(* The numbers that are read are those a controller can compute with.      *)
LEMMA NumbersMakeSense ==
  ASSUME NEW d, IsDocument(d)
  PROVE  /\ \A key \in Positive : PositiveNumber(d, key) \in Nat \ {0}
         /\ \A key \in NonNegative : NonNegativeNumber(d, key) \in Nat
<1>1. \A key \in Positive \cup NonNegative : Number(d, key) \in Int \cup {NotFinite}
  BY ConfigurationAssumption DEF IsDocument, Number, Keys, Checked
<1>2. ASSUME NEW key \in Positive PROVE PositiveNumber(d, key) \in Nat \ {0}
  <2> DEFINE n == Number(d, key)
  <2>1. n \in Int \cup {NotFinite} /\ PositiveFallback[key] \in Nat \ {0}
    BY <1>1, FallbacksMakeSense
  <2> HIDE DEF n
  <2>2. (IF n = NotFinite \/ n <= 0 THEN PositiveFallback[key] ELSE n) \in Nat \ {0}
    BY <2>1
  <2> QED BY <2>2 DEF n, PositiveNumber
<1>3. ASSUME NEW key \in NonNegative PROVE NonNegativeNumber(d, key) \in Nat
  <2> DEFINE n == Number(d, key)
  <2>1. n \in Int \cup {NotFinite} /\ NonNegativeFallback[key] \in Nat
    BY <1>1, FallbacksMakeSense
  <2> HIDE DEF n
  <2>2. (IF n = NotFinite \/ n < 0 THEN NonNegativeFallback[key] ELSE n) \in Nat
    BY <2>1
  <2> QED BY <2>2 DEF n, NonNegativeNumber
<1> QED BY <1>2, <1>3

(* The keys that are clamped or chosen have finite numbers.                *)
LEMMA LimitsAreNumbers ==
  ASSUME NEW d, IsDocument(d)
  PROVE  \A key \in Clamped \cup Chosen : Number(d, key) \in Int
<1>1. \A key \in Clamped \cup Chosen : key \in Keys /\ key \notin Checked \cup Unchecked
  BY DEF Positive, NonNegative, PositiveFallback, NonNegativeFallback, Checked, Unchecked,
         Clamped, Chosen, Keys
<1> QED BY <1>1, ConfigurationAssumption DEF IsDocument, Number

(* No limit of the thrust is above its maximum.                            *)
LEMMA ThrustLimitsAreOrdered ==
  ASSUME NEW d, IsDocument(d)
  PROVE  LET t == ThrustLimits(d) IN
         /\ 0 <= t.min_hover_thrust /\ t.min_hover_thrust <= t.max_hover_thrust
         /\ 0 <= t.normalized_thrust_min /\ t.normalized_thrust_min <= t.normalized_thrust_max
         /\ t.max_hover_thrust <= 1000 /\ t.normalized_thrust_max <= 1000
         /\ t.hover_thrust_ratio \in 50 .. 950
<1>1. /\ Number(d, "hover_thrust_ratio") \in Int
      /\ Number(d, "min_hover_thrust") \in Int /\ Number(d, "max_hover_thrust") \in Int
      /\ Number(d, "normalized_thrust_min") \in Int
      /\ Number(d, "normalized_thrust_max") \in Int
  BY LimitsAreNumbers DEF Clamped
<1> DEFINE hover  == Clamp(Number(d, "min_hover_thrust"), 0, 1000)
           thrust == Clamp(Number(d, "normalized_thrust_min"), 0, 1000)
<1>3. hover \in 0 .. 1000 /\ thrust \in 0 .. 1000
  BY <1>1 DEF Clamp
<1> HIDE DEF hover, thrust
<1>4. /\ Clamp(Number(d, "max_hover_thrust"), hover, 1000) \in hover .. 1000
      /\ Clamp(Number(d, "normalized_thrust_max"), thrust, 1000) \in thrust .. 1000
      /\ Clamp(Number(d, "hover_thrust_ratio"), 50, 950) \in 50 .. 950
  BY <1>1, <1>3 DEF Clamp
<1>5. ThrustLimits(d) =
        [hover_thrust_ratio |-> Clamp(Number(d, "hover_thrust_ratio"), 50, 950),
         min_hover_thrust |-> hover,
         max_hover_thrust |-> Clamp(Number(d, "max_hover_thrust"), hover, 1000),
         normalized_thrust_min |-> thrust,
         normalized_thrust_max |-> Clamp(Number(d, "normalized_thrust_max"), thrust, 1000)]
  BY DEF ThrustLimits, hover, thrust
<1> QED BY <1>3, <1>4, <1>5

(* A document that is accepted makes a configuration to fly with.          *)
LEMMA AcceptedIsSound ==
  ASSUME NEW d, IsDocument(d), Valid(d)
  PROVE  Sound(ReadControllerConfig(d))
<1> DEFINE c == ReadControllerConfig(d)
<1>1. /\ \A key \in Positive : c.positive[key] \in Nat \ {0}
      /\ \A key \in NonNegative : c.nonNegative[key] \in Nat
  BY NumbersMakeSense DEF ReadControllerConfig
<1>2. c.thrust = ThrustLimits(d)
  BY DEF ReadControllerConfig
<1>3. c.local_type_mask \in 0 .. 4095 /\ c.reference_analytic_type \in 0 .. 9
  BY LimitsAreNumbers DEF ReadControllerConfig, LocalTypeMask, AnalyticType, Chosen
<1>4. /\ c.tracking_backend \in Backends
      /\ c.tracking_backend \in AttitudeBackends => c.hover_thrust_enabled
  BY DEF ReadControllerConfig, Backend, Backends, HoverEnabled
<1>5. c.world_boundary # Null =>
        LET b == c.world_boundary
        IN b.xMin < b.xMax /\ b.yMin < b.yMax /\ b.zMin < b.zMax
  BY DEF ReadControllerConfig, Valid, Readable, BoundsParse
<1> HIDE DEF c
<1>6. Sound(c)
  BY <1>1, <1>2, <1>3, <1>4, <1>5, ThrustLimitsAreOrdered DEF Sound
<1> QED BY <1>6 DEF c
-----------------------------------------------------------------------------
Statistics == [nextStats : Nat, nextBeat : Nat, track : [Streams -> Track]]
Machines   == [state : FlightStates, pending : 0 .. PendingCapacity, due : Nat \cup {NoWake}]

(* The constants, as the provers need them.                                *)
LEMMA ConstantFacts ==
  /\ StatsPeriod \in Nat \ {0} /\ Heartbeat \in Nat \ {0} /\ Timeout \in Nat
  /\ Lateness \in Nat /\ Delay \in Nat /\ Depth \in Nat \ {0} /\ MaxTime \in Nat \ {0}
  /\ PendingCapacity \in Nat \ {0} /\ BatchLimit \in Nat \ {0}
  /\ \A turn \in Turns : /\ turn.state \in FlightStates
                         /\ turn.wait \in Nat /\ turn.raised \in Nat
  /\ \A d \in Created \cup Documents : IsDocument(d)
BY StatisticsAssumption, ControllerModuleAssumption DEF FlightStates

(* The samples taken set the last receipt of their streams, and no clock.  *)
LEMMA SamplesApplied ==
  ASSUME TypeOK
  PROVE  /\ Heard \subseteq Streams /\ Applied \in Statistics
         /\ Applied.nextStats = stats.nextStats /\ Applied.nextBeat = stats.nextBeat
         /\ \A s \in Heard : /\ Applied.track[s].last \in 0 .. now
                             /\ Applied.track[s].active
         /\ \A s \in Streams \ Heard : Applied.track[s] = stats.track[s]
<1>1. Heard \subseteq Streams
  BY DEF TypeOK, Heard
<1>2. \A s \in Heard : Max(Waiting(s)) \in 0 .. now
  <2> SUFFICES ASSUME NEW s \in Heard PROVE Max(Waiting(s)) \in 0 .. now
    OBVIOUS
  <2>1. Waiting(s) \subseteq 0 .. now /\ now \in Nat
    BY DEF TypeOK, Waiting
  <2>2. Waiting(s) # {}
    BY DEF Waiting, Heard
  <2> QED BY <2>1, <2>2, LatestExists
<1> DEFINE track == [s \in Streams |-> IF s \in Heard THEN Observe(Max(Waiting(s)))
                                       ELSE stats.track[s]]
<1>3. track \in [Streams -> Track]
  <2> SUFFICES ASSUME NEW s \in Streams PROVE track[s] \in Track
    OBVIOUS
  <2>1. CASE s \in Heard
    <3>1. track[s] = [last |-> Max(Waiting(s)), active |-> TRUE, new |-> TRUE]
      BY <2>1 DEF Observe
    <3>2. Max(Waiting(s)) \in Nat
      BY <2>1, <1>2 DEF TypeOK
    <3>3. \A m \in Nat : [last |-> m, active |-> TRUE, new |-> TRUE] \in Track
      BY DEF Track
    <3> QED BY <3>1, <3>2, <3>3
  <2>2. CASE s \notin Heard
    <3>1. track[s] = stats.track[s] /\ stats.track \in [Streams -> Track]
      BY <2>2 DEF TypeOK
    <3> QED BY <3>1
  <2> QED BY <2>1, <2>2
<1>4. \A s \in Heard : track[s].last = Max(Waiting(s)) /\ track[s].active
  BY <1>1 DEF Observe
<1>5. \A s \in Streams \ Heard : track[s] = stats.track[s]
  OBVIOUS
<1> HIDE DEF track
<1>6. Applied = [stats EXCEPT !.track = track]
  BY DEF Applied, track
<1>7. stats \in Statistics
  BY DEF TypeOK, Statistics
<1>8. /\ Applied \in Statistics /\ Applied.track = track
      /\ Applied.nextStats = stats.nextStats /\ Applied.nextBeat = stats.nextBeat
  BY <1>3, <1>6, <1>7 DEF Statistics
<1> QED BY <1>1, <1>2, <1>4, <1>5, <1>8

(* Statistics x advance to y at t: a heartbeat that is due looks at every  *)
(* stream that has a sample, and the next one is at most its period away.  *)
Advances(x, t, y) ==
  /\ y \in Statistics
  /\ IF t >= x.nextBeat THEN y.nextBeat \in t + 1 .. t + Heartbeat
                        ELSE y.nextBeat = x.nextBeat
  /\ \A s \in Streams :
       /\ y.track[s].last = x.track[s].last
       /\ t >= x.nextBeat /\ x.track[s].last # NoSample =>
            (y.track[s].active <=> t - x.track[s].last <= Timeout)
       /\ t < x.nextBeat \/ x.track[s].last = NoSample =>
            (y.track[s].active <=> x.track[s].active)

(* A beat of the statistics, and what it leaves alone.                     *)
LEMMA StatisticsAdvance ==
  ASSUME NEW x \in Statistics, NEW t \in Nat
  PROVE  Advances(x, t, ResetNewFlags(Advance(x, t)))
<1> DEFINE y == ResetNewFlags(Advance(x, t))
<1> USE ConstantFacts
<1>0. x.nextStats \in Nat /\ x.nextBeat \in Nat /\ x.track \in [Streams -> Track]
  BY DEF Statistics
<1> DEFINE a == Advance(x, t)
           beat == t >= x.nextBeat
           beats == IF beat THEN NextDeadline(x.nextBeat, t, Heartbeat) ELSE x.nextBeat
           computes == IF t >= x.nextStats THEN NextDeadline(x.nextStats, t, StatsPeriod)
                                           ELSE x.nextStats
           track == IF beat THEN Beaten(x.track, t) ELSE x.track
           shown == [s \in Streams |-> [track[s] EXCEPT !.new = FALSE]]
<1>1. beats \in Nat /\ computes \in Nat
      /\ IF beat THEN beats \in t + 1 .. t + Heartbeat ELSE beats = x.nextBeat
  <2>1. NextDeadline(x.nextBeat, t, Heartbeat) \in t + 1 .. t + Heartbeat
    BY <1>0, NextDeadlineIsNear
  <2>2. NextDeadline(x.nextStats, t, StatsPeriod) \in t + 1 .. t + StatsPeriod
    BY <1>0, NextDeadlineIsNear
  <2> QED BY <1>0, <2>1, <2>2
<1>2. \A s \in Streams :
        /\ track[s] \in Track
        /\ track[s].last = x.track[s].last
        /\ beat /\ x.track[s].last # NoSample =>
             (track[s].active <=> t - x.track[s].last <= Timeout)
        /\ ~beat \/ x.track[s].last = NoSample =>
             (track[s].active <=> x.track[s].active)
  <2> SUFFICES ASSUME NEW s \in Streams
               PROVE  /\ track[s] \in Track
                      /\ track[s].last = x.track[s].last
                      /\ beat /\ x.track[s].last # NoSample =>
                             (track[s].active <=> t - x.track[s].last <= Timeout)
                      /\ ~beat \/ x.track[s].last = NoSample =>
                             (track[s].active <=> x.track[s].active)
    OBVIOUS
  <2> DEFINE old == x.track[s]
             young == (t - old.last <= Timeout)
  <2>1. old \in Track
    BY <1>0
  <2>2. young \in BOOLEAN
    OBVIOUS
  <2>3. CASE beat /\ old.last # NoSample
    <3>1. track[s] = [old EXCEPT !.active = young]
      BY <2>3 DEF Beaten
    <3> HIDE DEF old, young
    <3>2. track[s] \in Track /\ track[s].last = old.last /\ track[s].active = young
      BY <2>1, <2>2, <3>1 DEF Track
    <3> QED BY <2>3, <3>2 DEF old, young
  <2>4. CASE ~(beat /\ old.last # NoSample)
    <3>1. track[s] = old
      BY <2>4 DEF Beaten
    <3> QED BY <2>1, <2>4, <3>1
  <2> QED BY <2>3, <2>4
<1> HIDE DEF track
<1>3. /\ shown \in [Streams -> Track]
      /\ \A s \in Streams : /\ shown[s].last = track[s].last
                            /\ shown[s].active = track[s].active
  BY <1>2 DEF Track
<1>4. a = [nextStats |-> computes, nextBeat |-> beats, track |-> track]
  BY DEF Advance, track
<1>5. y = [a EXCEPT !.track = [s \in Streams |-> [a.track[s] EXCEPT !.new = FALSE]]]
  BY DEF ResetNewFlags
<1> HIDE DEF y, a, beats, computes
<1>6. a.track = track
  BY <1>4
<1>7. y = [a EXCEPT !.track = shown]
  BY <1>5, <1>6
<1> HIDE DEF shown
<1>8. y = [nextStats |-> computes, nextBeat |-> beats, track |-> shown]
  BY <1>4, <1>7
<1>9. y \in Statistics
  BY <1>1, <1>3, <1>8 DEF Statistics
<1>10. y.nextBeat = beats /\ y.track = shown
  BY <1>8
<1>11. IF t >= x.nextBeat THEN y.nextBeat \in t + 1 .. t + Heartbeat
                          ELSE y.nextBeat = x.nextBeat
  BY <1>1, <1>10 DEF beat
<1>12. \A s \in Streams :
         /\ y.track[s].last = x.track[s].last
         /\ t >= x.nextBeat /\ x.track[s].last # NoSample =>
              (y.track[s].active <=> t - x.track[s].last <= Timeout)
         /\ t < x.nextBeat \/ x.track[s].last = NoSample =>
              (y.track[s].active <=> x.track[s].active)
  <2> SUFFICES ASSUME NEW s \in Streams
               PROVE  /\ y.track[s].last = x.track[s].last
                      /\ t >= x.nextBeat /\ x.track[s].last # NoSample =>
                           (y.track[s].active <=> t - x.track[s].last <= Timeout)
                      /\ t < x.nextBeat \/ x.track[s].last = NoSample =>
                           (y.track[s].active <=> x.track[s].active)
    OBVIOUS
  <2>1. y.track[s].last = track[s].last /\ y.track[s].active = track[s].active
    BY <1>3, <1>10
  <2>2. t < x.nextBeat => ~beat
    BY <1>0
  <2> QED BY <1>2, <2>1, <2>2
<1>13. Advances(x, t, y)
  BY <1>9, <1>11, <1>12 DEF Advances
<1> QED BY <1>13 DEF y

(* The driver wakes in time for the statistics and for the machine.        *)
LEMMA DriverWakesInTime ==
  ASSUME NEW s \in Statistics, NEW f \in Machines
  PROVE  /\ DriverWake(s, f) \in Nat
         /\ DriverWake(s, f) <= s.nextStats /\ DriverWake(s, f) <= s.nextBeat
         /\ f.due # NoWake => DriverWake(s, f) <= f.due
<1>1. s.nextStats \in Nat /\ s.nextBeat \in Nat /\ f.due \in Nat \cup {NoWake}
  BY DEF Statistics, Machines
<1>2. \A a, b \in Nat : Min({a, b}) \in {a, b} /\ Min({a, b}) <= a /\ Min({a, b}) <= b
  <2> TAKE a, b \in Nat
  <2>1. \E x \in {a, b} : \A y \in {a, b} : x <= y
    OBVIOUS
  <2> QED BY <2>1 DEF Min
<1> DEFINE w == StatisticsWake(s)
<1>3. w \in Nat /\ w <= s.nextStats /\ w <= s.nextBeat
  BY <1>1, <1>2 DEF StatisticsWake
<1> HIDE DEF w
<1>4. CASE f.due = NoWake
  <2>1. DriverWake(s, f) = Min({w} \cup {})
    BY <1>4 DEF DriverWake, w
  <2>2. {w} \cup {} = {w, w}
    OBVIOUS
  <2> QED BY <1>2, <1>3, <1>4, <2>1, <2>2
<1>5. CASE f.due # NoWake
  <2>1. DriverWake(s, f) = Min({w} \cup {f.due})
    BY <1>5 DEF DriverWake, w
  <2>2. {w} \cup {f.due} = {w, f.due} /\ f.due \in Nat
    BY <1>1, <1>5
  <2>3. Min({w, f.due}) \in Nat /\ Min({w, f.due}) <= w /\ Min({w, f.due}) <= f.due
    BY <1>2, <1>3, <2>2
  <2> QED BY <1>1, <1>3, <2>1, <2>2, <2>3
<1> QED BY <1>4, <1>5
-----------------------------------------------------------------------------
(* The configuration was accepted when it came.                            *)
Accepted == Valid(config)

(* The health kept is that of the last step that had something to write,   *)
(* and the report tells it and the state.                                  *)
Told ==
  /\ failed = refused
  /\ running => report = [state |-> flight.state, degraded |-> failed]

(* The next heartbeat is within its period, or a step has been due since.  *)
BeatIsNear ==
  running => /\ stats.nextBeat - Heartbeat <= now
             /\ now >= stats.nextBeat => now - stats.nextBeat <= overdue

(* What is known of a stream since the last heartbeat.                     *)
Tracked ==
  running => \A s \in Streams :
    /\ stats.track[s].active => stats.track[s].last # NoSample
    /\ stats.track[s].active =>
         s \in heard \/ stats.nextBeat - Heartbeat - stats.track[s].last <= Timeout
    /\ stats.track[s].last # NoSample /\ now - stats.track[s].last <= Timeout
       => stats.track[s].active

IInv == TypeOK /\ Accepted /\ Told /\ NeverSleeps /\ BeatIsNear /\ Tracked
-----------------------------------------------------------------------------
(* What an update leaves.                                                  *)
LEMMA UpdateKeeps ==
  ASSUME TypeOK, running, Tracked, BeatIsNear, Posted \in 0 .. PendingCapacity,
         Update(Applied, Posted)
  PROVE  /\ flight' \in Machines /\ stats' \in Statistics /\ heard' \subseteq Streams
         /\ timer' \in Nat /\ asked' \in BOOLEAN
         /\ failed' \in BOOLEAN /\ refused' \in BOOLEAN
         /\ report' = [state |-> flight'.state, degraded |-> failed']
         /\ failed = refused => failed' = refused'
         /\ ~asked' => flight'.pending = 0
         /\ timer' <= stats'.nextStats /\ timer' <= stats'.nextBeat
         /\ flight'.due # NoWake => timer' <= flight'.due
         /\ stats'.nextBeat - Heartbeat <= now /\ stats'.nextBeat > now
         /\ \A s \in Streams :
              /\ stats'.track[s].active => stats'.track[s].last # NoSample
              /\ stats'.track[s].active =>
                   s \in heard' \/ stats'.nextBeat - Heartbeat - stats'.track[s].last <= Timeout
              /\ stats'.track[s].last # NoSample /\ now - stats'.track[s].last <= Timeout
                 => stats'.track[s].active
<1> USE ConstantFacts
<1>0. /\ now \in Nat /\ stats \in Statistics /\ heard \subseteq Streams
      /\ failed \in BOOLEAN /\ refused \in BOOLEAN
  BY DEF TypeOK, Statistics
<1>1. PICK turn \in Turns :
        LET pending == Max({0, Posted - BatchLimit}) + turn.raised
        IN /\ pending <= PendingCapacity
           /\ flight' = [state |-> turn.state, pending |-> pending,
                         due |-> IF turn.wait = 0 THEN NoWake ELSE now + turn.wait]
           /\ timer' = DriverWake(stats', flight')
           /\ asked' = (pending > 0)
  BY DEF Update
<1> DEFINE pending == Max({0, Posted - BatchLimit}) + turn.raised
           due == IF turn.wait = 0 THEN NoWake ELSE now + turn.wait
<1>2. pending \in 0 .. PendingCapacity
  <2>1. Max({0, Posted - BatchLimit}) \in Nat
    <3>1. \E x \in {0, Posted - BatchLimit} : \A y \in {0, Posted - BatchLimit} : x >= y
      OBVIOUS
    <3> QED BY <3>1 DEF Max
  <2> QED BY <1>1, <2>1
<1>3. due \in Nat \cup {NoWake}
  BY <1>0
<1> HIDE DEF pending, due
<1>4. /\ flight' = [state |-> turn.state, pending |-> pending, due |-> due]
      /\ timer' = DriverWake(stats', flight') /\ asked' = (pending > 0)
  BY <1>1 DEF pending, due
<1>5. flight' \in Machines
  BY <1>2, <1>3, <1>4 DEF Machines
<1>6. /\ asked' \in BOOLEAN /\ (~asked' => flight'.pending = 0)
  <2>1. flight'.pending = pending
    BY <1>4
  <2>2. (pending > 0) \in BOOLEAN
    OBVIOUS
  <2>3. asked' \in BOOLEAN
    BY <1>4, <2>2, Zenon
  <2>4. ~asked' => ~(pending > 0)
    BY <1>4, Zenon
  <2>5. ~(pending > 0) => pending = 0
    BY <1>2
  <2> QED BY <2>1, <2>3, <2>4, <2>5
<1>7. /\ stats' = ResetNewFlags(Advance(Applied, now))
      /\ heard' = IF now >= stats.nextBeat THEN {} ELSE heard \cup Heard
  BY SamplesApplied DEF Update
<1>8. /\ Advances(Applied, now, stats')
      /\ stats' \in Statistics /\ Applied.nextBeat = stats.nextBeat
  <2>1. Applied \in Statistics /\ Applied.nextBeat = stats.nextBeat
    BY SamplesApplied
  <2>2. Advances(Applied, now, stats')
    BY <1>0, <1>7, <2>1, StatisticsAdvance
  <2>3. stats' \in Statistics
    BY <2>2 DEF Advances
  <2> QED BY <2>1, <2>2, <2>3
<1>9. /\ timer' \in Nat /\ timer' <= stats'.nextStats /\ timer' <= stats'.nextBeat
      /\ flight'.due # NoWake => timer' <= flight'.due
  BY <1>4, <1>5, <1>8, DriverWakesInTime
<1>10. /\ failed' \in BOOLEAN /\ refused' \in BOOLEAN
       /\ report' = [state |-> flight'.state, degraded |-> failed']
       /\ failed = refused => failed' = refused'
  <2>1. PICK effects \in Bursts : \E failing \in SUBSET DOMAIN effects : Send(effects, failing)
    BY DEF Update
  <2>2. PICK failing \in SUBSET DOMAIN effects : Send(effects, failing)
    BY <2>1
  <2>3. CASE failing # {}
    BY <2>2, <2>3 DEF Send, Health, Update
  <2>4. CASE failing = {} /\ "Write" \in ToSet(effects)
    BY <2>2, <2>4 DEF Send, Health, Update
  <2>5. CASE failing = {} /\ "Write" \notin ToSet(effects)
    BY <1>0, <2>2, <2>5 DEF Send, Health, Update
  <2> QED BY <2>3, <2>4, <2>5
<1>11. heard' \subseteq Streams
  BY <1>0, <1>7, SamplesApplied
<1>12. stats'.nextBeat - Heartbeat <= now /\ stats'.nextBeat > now
  <2>1. stats.nextBeat \in Nat /\ stats.nextBeat - Heartbeat <= now
    BY <1>0 DEF BeatIsNear, Statistics
  <2> QED BY <1>0, <1>8, <2>1 DEF Advances, Statistics
<1>13. ASSUME NEW s \in Streams
       PROVE  /\ stats'.track[s].active => stats'.track[s].last # NoSample
              /\ stats'.track[s].active =>
                   s \in heard' \/ stats'.nextBeat - Heartbeat - stats'.track[s].last <= Timeout
              /\ stats'.track[s].last # NoSample /\ now - stats'.track[s].last <= Timeout
                 => stats'.track[s].active
  <2> DEFINE t == stats'.track[s]
             a == Applied.track[s]
  <2>1. /\ t.last = a.last /\ a.last \in Nat \cup {NoSample}
        /\ now >= stats.nextBeat /\ a.last # NoSample =>
             (t.active <=> now - a.last <= Timeout)
        /\ now < stats.nextBeat \/ a.last = NoSample => (t.active <=> a.active)
        /\ stats'.nextBeat \in Nat
    <3>1. a \in Track /\ stats'.nextBeat \in Nat
      BY <1>8, SamplesApplied DEF Statistics
    <3> QED BY <1>8, <3>1 DEF Advances, Track
  <2>2. /\ now \in Nat /\ stats.nextBeat \in Nat /\ Heartbeat \in Nat /\ Timeout \in Nat /\ NoSample = -1
        /\ stats'.nextBeat - Heartbeat <= now
    BY <1>0, <1>12 DEF NoSample, Statistics
  <2>3. CASE s \in Heard
    <3>1. a.last \in Nat /\ a.active
      BY <1>0, <2>3, SamplesApplied
    <3>2. CASE now >= stats.nextBeat
      <4>1. t.active <=> now - a.last <= Timeout
        BY <2>1, <2>2, <3>1, <3>2
      <4> QED BY <2>1, <2>2, <3>1, <4>1
    <3>3. CASE ~(now >= stats.nextBeat)
      <4>1. (t.active <=> a.active) /\ s \in heard'
        BY <1>7, <2>1, <2>2, <2>3, <3>3
      <4> QED BY <2>1, <2>2, <3>1, <4>1
    <3> QED BY <3>2, <3>3
  <2>4. CASE s \notin Heard
    <3>1. a = stats.track[s]
      BY <2>4, SamplesApplied
    <3>2. /\ a.active => a.last # NoSample
          /\ a.active => s \in heard \/ stats.nextBeat - Heartbeat - a.last <= Timeout
          /\ a.last # NoSample /\ now - a.last <= Timeout => a.active
      BY <3>1 DEF Tracked
    <3>3. CASE now >= stats.nextBeat /\ a.last # NoSample
      <4>1. t.active <=> now - a.last <= Timeout /\ a.last \in Nat
        BY <2>1, <2>2, <3>3
      <4> QED BY <2>1, <2>2, <4>1
    <3>4. CASE now >= stats.nextBeat /\ a.last = NoSample
      BY <2>1, <3>2, <3>4
    <3>5. CASE ~(now >= stats.nextBeat)
      <4>1. (t.active <=> a.active) /\ (s \in heard => s \in heard')
            /\ stats'.nextBeat = stats.nextBeat
        BY <1>7, <1>8, <2>1, <2>2, <3>5 DEF Advances
      <4> QED BY <2>1, <3>2, <4>1
    <3> QED BY <3>3, <3>4, <3>5
  <2> QED BY <2>3, <2>4
<1> QED BY <1>5, <1>6, <1>8, <1>9, <1>10, <1>11, <1>12, <1>13
-----------------------------------------------------------------------------
(* Statistics that have just been started know of no sample.               *)
LEMMA StartedAfresh ==
  ASSUME NEW t \in Nat
  PROVE  /\ Started(t) \in Statistics /\ Started(t).nextBeat = t + Heartbeat
         /\ \A s \in Streams : /\ Started(t).track[s].last = NoSample
                               /\ ~Started(t).track[s].active
<1> DEFINE track == [s \in Streams |-> [last |-> NoSample, active |-> FALSE, new |-> FALSE]]
<1>1. track \in [Streams -> Track]
  BY DEF Track
<1>2. \A s \in Streams : track[s].last = NoSample /\ ~track[s].active
  OBVIOUS
<1>3. Started(t) = [nextStats |-> t + StatsPeriod, nextBeat |-> t + Heartbeat,
                    track |-> track]
  BY DEF Started
<1> HIDE DEF track
<1>4. t + StatsPeriod \in Nat /\ t + Heartbeat \in Nat
  BY ConstantFacts
<1>5. Started(t).nextBeat = t + Heartbeat /\ Started(t).track = track
  BY <1>3
<1>6. Started(t) \in Statistics
  BY <1>1, <1>3, <1>4 DEF Statistics
<1> QED BY <1>2, <1>5, <1>6

(* The invariant holds at first.                                           *)
LEMMA InitIInv == Init => IInv
<1> SUFFICES ASSUME Init PROVE IInv
  OBVIOUS
<1> USE ConstantFacts
<1>1. FreshFlight \in Machines
  BY DEF FreshFlight, Machines, FlightStates, NoWake
<1>2. Started(0) \in Statistics
  BY StartedAfresh
<1>3. TypeOK
  <2>1. config \in Created /\ Valid(config)
    BY DEF Init
  <2>2. report \in [state : FlightStates, degraded : BOOLEAN]
    BY DEF Init, FlightStates
  <2>3. /\ now \in 0 .. MaxTime /\ overdue \in 0 .. Lateness /\ commands \in 0 .. Depth
        /\ inbox \subseteq [port : Streams, stamp : 0 .. now] /\ heard \subseteq Streams
    BY DEF Init
  <2>4. /\ running \in BOOLEAN /\ asked \in BOOLEAN
        /\ failed \in BOOLEAN /\ refused \in BOOLEAN
    BY DEF Init
  <2>5. timer \in Nat \cup {NoWake}
    BY DEF Init
  <2>6. flight \in Machines /\ stats \in Statistics
    BY <1>1, <1>2 DEF Init
  <2> QED BY <2>1, <2>2, <2>3, <2>4, <2>5, <2>6 DEF TypeOK, Machines, Statistics
<1> QED BY <1>3 DEF Init, IInv, Accepted, Told, NeverSleeps, BeatIsNear, Tracked

(* What the actions other than Step, Start and Stop leave alone keeps all  *)
(* but the clock.                                                          *)
LEMMA QuietIInv ==
  ASSUME IInv, TypeOK', Accepted',
         UNCHANGED <<now, running, flight, stats, timer, failed, report, refused, heard,
                     overdue>>,
         asked => asked'
  PROVE  IInv'
<1>1. NeverSleeps'
  BY DEF IInv, NeverSleeps
<1>2. BeatIsNear'
  BY DEF IInv, BeatIsNear
<1>3. Tracked'
  BY DEF IInv, Tracked
<1>4. Told'
  BY DEF IInv, Told
<1> QED BY <1>1, <1>2, <1>3, <1>4 DEF IInv

(* A step of the worker.                                                   *)
LEMMA StepKeepsIInv ==
  ASSUME IInv, NEW seen \in BOOLEAN, Step(seen)
  PROVE  IInv'
<1> USE ConstantFacts
<1>0. /\ TypeOK /\ Accepted /\ Told /\ NeverSleeps /\ BeatIsNear /\ Tracked
      /\ running /\ running' = running /\ now' = now /\ config' = config
      /\ inbox' = {} /\ commands' = 0
  BY DEF IInv, Step
<1>1. Accepted'
  BY <1>0 DEF Accepted
<1>2. Posted \in 0 .. PendingCapacity
  <2>1. flight.pending + commands \in Nat
    BY <1>0 DEF TypeOK
  <2>2. \E x \in {PendingCapacity, flight.pending + commands} :
          \A y \in {PendingCapacity, flight.pending + commands} : x <= y
    BY <2>1
  <2>3. /\ Posted \in {PendingCapacity, flight.pending + commands}
        /\ Posted <= PendingCapacity
    BY <2>2 DEF Posted, Min
  <2> QED BY <2>1, <2>3
<1>3. CASE RelevantInput \/ asked \/ seen
  <2>1. Update(Applied, Posted) /\ overdue' = 0
    BY <1>3 DEF Step
  <2>2. /\ flight' \in Machines /\ stats' \in Statistics /\ heard' \subseteq Streams
        /\ timer' \in Nat /\ asked' \in BOOLEAN
        /\ failed' \in BOOLEAN /\ refused' \in BOOLEAN
        /\ report' = [state |-> flight'.state, degraded |-> failed']
        /\ failed = refused => failed' = refused'
        /\ ~asked' => flight'.pending = 0
        /\ timer' <= stats'.nextStats /\ timer' <= stats'.nextBeat
        /\ flight'.due # NoWake => timer' <= flight'.due
        /\ stats'.nextBeat - Heartbeat <= now /\ stats'.nextBeat > now
        /\ \A s \in Streams :
             /\ stats'.track[s].active => stats'.track[s].last # NoSample
             /\ stats'.track[s].active =>
                  s \in heard' \/ stats'.nextBeat - Heartbeat - stats'.track[s].last <= Timeout
             /\ stats'.track[s].last # NoSample /\ now - stats'.track[s].last <= Timeout
                => stats'.track[s].active
    BY <1>0, <1>2, <2>1, UpdateKeeps
  <2>3. TypeOK'
    <3>1. report' \in [state : FlightStates, degraded : BOOLEAN]
      BY <2>2 DEF Machines
    <3>2. now' \in 0 .. MaxTime /\ running' \in BOOLEAN /\ config' \in Created \cup Documents
      BY <1>0 DEF TypeOK
    <3>3. overdue' \in 0 .. Lateness /\ commands' \in 0 .. Depth
      BY <1>0, <2>1
    <3>4. inbox' \subseteq [port : Streams, stamp : 0 .. now']
      BY <1>0
    <3> QED BY <2>2, <3>1, <3>2, <3>3, <3>4 DEF TypeOK, Machines, Statistics
  <2>4. Told'
    BY <1>0, <2>2 DEF Told
  <2>5. NeverSleeps'
    <3>1. timer' # NoWake
      BY <2>2 DEF NoWake
    <3> QED BY <2>2, <3>1 DEF NeverSleeps
  <2>6. BeatIsNear'
    <3>1. now \in Nat /\ stats'.nextBeat \in Nat
      BY <1>0, <2>2 DEF TypeOK, Statistics
    <3>2. stats'.nextBeat - Heartbeat <= now' /\ ~(now' >= stats'.nextBeat)
      BY <1>0, <2>2, <3>1
    <3> QED BY <3>2 DEF BeatIsNear
  <2>7. Tracked'
    BY <1>0, <2>2 DEF Tracked
  <2> QED BY <1>1, <2>3, <2>4, <2>5, <2>6, <2>7 DEF IInv
<1>4. CASE ~(RelevantInput \/ asked \/ seen)
  <2>1. /\ stats' = Applied /\ heard' = heard \cup Heard
        /\ overdue' = IF DeadlinePassed THEN overdue ELSE 0
        /\ flight' = flight /\ asked' = asked /\ timer' = timer
        /\ failed' = failed /\ report' = report /\ refused' = refused
    BY <1>4 DEF Step, outputs
  <2>2. /\ Applied \in Statistics /\ Heard \subseteq Streams
        /\ Applied.nextStats = stats.nextStats /\ Applied.nextBeat = stats.nextBeat
    BY <1>0, SamplesApplied
  <2>3. TypeOK'
    <3>1. now' \in 0 .. MaxTime /\ running' \in BOOLEAN /\ config' \in Created \cup Documents
      BY <1>0 DEF TypeOK
    <3>2. overdue' \in 0 .. Lateness /\ commands' \in 0 .. Depth
      BY <1>0, <2>1 DEF TypeOK
    <3>3. inbox' \subseteq [port : Streams, stamp : 0 .. now']
      BY <1>0
    <3>4. /\ flight' \in [state : FlightStates, pending : 0 .. PendingCapacity,
                          due : Nat \cup {NoWake}]
          /\ asked' \in BOOLEAN /\ timer' \in Nat \cup {NoWake}
          /\ failed' \in BOOLEAN /\ refused' \in BOOLEAN
          /\ report' \in [state : FlightStates, degraded : BOOLEAN]
      BY <1>0, <2>1 DEF TypeOK
    <3>5. heard' \subseteq Streams
      BY <1>0, <2>1, <2>2 DEF TypeOK
    <3>6. stats' \in [nextStats : Nat, nextBeat : Nat, track : [Streams -> Track]]
      BY <2>1, <2>2 DEF Statistics
    <3> QED BY <3>1, <3>2, <3>3, <3>4, <3>5, <3>6 DEF TypeOK
  <2>4. Told'
    BY <1>0, <2>1 DEF Told
  <2>5. NeverSleeps'
    BY <1>0, <2>1, <2>2 DEF NeverSleeps
  <2>6. BeatIsNear'
    <3>1. /\ now \in Nat /\ timer \in Nat \cup {NoWake} /\ stats.nextBeat \in Nat
          /\ timer # NoWake /\ timer <= stats.nextBeat
      BY <1>0, <1>4 DEF TypeOK, NeverSleeps
    <3>2. now >= stats.nextBeat => DeadlinePassed
      BY <3>1 DEF DeadlinePassed, NoWake
    <3> QED BY <1>0, <2>1, <2>2, <3>2 DEF BeatIsNear
  <2>7. Tracked'
    <3> SUFFICES ASSUME NEW s \in Streams
                 PROVE  LET t == stats'.track[s] IN
                        /\ t.active => t.last # NoSample
                        /\ t.active => s \in heard'
                                       \/ stats'.nextBeat - Heartbeat - t.last <= Timeout
                        /\ t.last # NoSample /\ now - t.last <= Timeout => t.active
      BY <1>0 DEF Tracked
    <3>1. CASE s \in Heard
      <4>1. Applied.track[s].last \in 0 .. now /\ Applied.track[s].active
        BY <1>0, <3>1, SamplesApplied
      <4>2. Applied.track[s].last # NoSample
        BY <4>1 DEF NoSample
      <4> QED BY <2>1, <3>1, <4>1, <4>2
    <3>2. CASE s \notin Heard
      <4>1. Applied.track[s] = stats.track[s]
        BY <1>0, <3>2, SamplesApplied
      <4> QED BY <1>0, <2>1, <2>2, <4>1 DEF Tracked
    <3> QED BY <3>1, <3>2
  <2> QED BY <1>1, <2>3, <2>4, <2>5, <2>6, <2>7 DEF IInv
<1> QED BY <1>3, <1>4

(* A start.                                                                *)
LEMMA StartKeepsIInv ==
  ASSUME IInv, Start
  PROVE  IInv'
<1> USE ConstantFacts
<1>0. TypeOK /\ Accepted /\ Told
  BY DEF IInv
<1>1. /\ now' = now /\ config' = config /\ inbox' = inbox /\ commands' = commands
      /\ timer' = timer /\ failed' = failed /\ refused' = refused
      /\ running' = TRUE /\ flight' = FreshFlight /\ stats' = Started(now) /\ heard' = {}
      /\ asked' = TRUE /\ overdue' = 0
      /\ report' = [state |-> "SelfCheck", degraded |-> failed]
  BY DEF Start
<1>2. now \in Nat
  BY <1>0 DEF TypeOK
<1>3. FreshFlight \in Machines /\ FreshFlight.state = "SelfCheck"
  BY DEF FreshFlight, Machines, FlightStates, NoWake
<1>4. /\ Started(now) \in Statistics /\ Started(now).nextBeat = now + Heartbeat
      /\ \A s \in Streams : Started(now).track[s].last = NoSample
                            /\ ~Started(now).track[s].active
  BY <1>2, StartedAfresh
<1>5. TypeOK'
  <2>1. report' \in [state : FlightStates, degraded : BOOLEAN]
    BY <1>0, <1>1 DEF TypeOK, FlightStates
  <2>2. /\ now' \in 0 .. MaxTime /\ config' \in Created \cup Documents
        /\ inbox' \subseteq [port : Streams, stamp : 0 .. now'] /\ commands' \in 0 .. Depth
        /\ timer' \in Nat \cup {NoWake} /\ failed' \in BOOLEAN /\ refused' \in BOOLEAN
    BY <1>0, <1>1 DEF TypeOK
  <2>3. running' \in BOOLEAN /\ overdue' \in 0 .. Lateness /\ asked' \in BOOLEAN
        /\ heard' \subseteq Streams
    BY <1>1
  <2>4. flight' \in Machines /\ stats' \in Statistics
    BY <1>1, <1>3, <1>4
  <2> QED BY <2>1, <2>2, <2>3, <2>4 DEF TypeOK, Machines, Statistics
<1>6. Told'
  BY <1>0, <1>1, <1>3 DEF Told
<1>7. NeverSleeps'
  BY <1>1 DEF NeverSleeps
<1>8. BeatIsNear'
  <2>1. stats'.nextBeat = now + Heartbeat
    BY <1>1, <1>4
  <2>2. stats'.nextBeat - Heartbeat <= now' /\ ~(now' >= stats'.nextBeat)
    BY <1>1, <1>2, <2>1
  <2> QED BY <2>2 DEF BeatIsNear
<1>9. Tracked'
  BY <1>1, <1>4 DEF Tracked
<1>10. Accepted'
  BY <1>0, <1>1 DEF Accepted
<1> QED BY <1>5, <1>6, <1>7, <1>8, <1>9, <1>10 DEF IInv

(* A stop.                                                                 *)
LEMMA StopKeepsIInv ==
  ASSUME IInv, Stop
  PROVE  IInv'
<1> USE ConstantFacts
<1>0. TypeOK /\ Accepted /\ Told
  BY DEF IInv
<1>1. /\ now' = now /\ config' = config /\ inbox' = inbox /\ commands' = commands
      /\ failed' = failed /\ refused' = refused /\ report' = report
      /\ running' = FALSE /\ flight' = FreshFlight /\ stats' = Started(0) /\ heard' = {}
      /\ asked' = FALSE /\ overdue' = 0 /\ timer' = NoWake
  BY DEF Stop, outputs
<1>2. FreshFlight \in Machines
  BY DEF FreshFlight, Machines, FlightStates, NoWake
<1>3. Started(0) \in Statistics
  BY StartedAfresh
<1>4. TypeOK'
  <2>1. /\ now' \in 0 .. MaxTime /\ config' \in Created \cup Documents
        /\ inbox' \subseteq [port : Streams, stamp : 0 .. now'] /\ commands' \in 0 .. Depth
        /\ failed' \in BOOLEAN /\ refused' \in BOOLEAN
        /\ report' \in [state : FlightStates, degraded : BOOLEAN]
    BY <1>0, <1>1 DEF TypeOK
  <2>2. running' \in BOOLEAN /\ asked' \in BOOLEAN /\ heard' \subseteq Streams
    BY <1>1
  <2>4. overdue' \in 0 .. Lateness /\ timer' \in Nat \cup {NoWake}
    BY <1>1
  <2>3. flight' \in Machines /\ stats' \in Statistics
    BY <1>1, <1>2, <1>3
  <2> QED BY <2>1, <2>2, <2>3, <2>4 DEF TypeOK, Machines, Statistics
<1>5. Told' /\ NeverSleeps' /\ BeatIsNear' /\ Tracked' /\ Accepted'
  BY <1>0, <1>1 DEF Told, NeverSleeps, BeatIsNear, Tracked, Accepted
<1> QED BY <1>4, <1>5 DEF IInv

(* A configuration, accepted or refused.                                   *)
LEMMA ConfigureKeepsIInv ==
  ASSUME IInv, NEW document \in Documents, Configure(document)
  PROVE  IInv'
<1>1. /\ asked \in BOOLEAN /\ running \in BOOLEAN
      /\ asked' = (asked \/ running) /\ config' = document /\ Valid(document)
      /\ UNCHANGED <<now, running, flight, stats, inbox, commands, timer, outputs, heard,
                     overdue>>
  BY DEF IInv, TypeOK, Configure
<1>2. asked' \in BOOLEAN /\ (asked => asked')
  BY <1>1
<1>3. TypeOK'
  BY <1>1, <1>2 DEF IInv, TypeOK, outputs
<1>4. Accepted'
  BY <1>1 DEF Accepted
<1> QED BY <1>1, <1>2, <1>3, <1>4, QuietIInv DEF outputs

(* The writers: a sample, a command, an answer.                            *)
LEMMA WritersKeepIInv ==
  ASSUME IInv,
         \/ \E stream \in Streams, delay \in 0 .. Delay : SampleArrives(stream, delay)
         \/ CommandArrives
         \/ SolverAnswers
  PROVE  IInv'
<1> USE ConstantFacts
<1>0. TypeOK /\ Accepted
  BY DEF IInv
<1>1. CASE \E stream \in Streams, delay \in 0 .. Delay : SampleArrives(stream, delay)
  <2>1. PICK stream \in Streams, delay \in 0 .. Delay : SampleArrives(stream, delay)
    BY <1>1
  <2>2. now - delay \in 0 .. now
    BY <1>0, <2>1 DEF TypeOK, SampleArrives
  <2>3. inbox' \subseteq [port : Streams, stamp : 0 .. now]
    BY <1>0, <2>1, <2>2 DEF TypeOK, SampleArrives
  <2>4. TypeOK' /\ Accepted'
    BY <1>0, <2>1, <2>3 DEF TypeOK, SampleArrives, outputs, Accepted
  <2> QED BY <2>1, <2>4, QuietIInv DEF SampleArrives, outputs
<1>2. CASE CommandArrives
  <2>1. commands' \in 0 .. Depth
    BY <1>0, <1>2 DEF TypeOK, CommandArrives
  <2>2. TypeOK' /\ Accepted'
    BY <1>0, <1>2, <2>1 DEF TypeOK, CommandArrives, outputs, Accepted
  <2> QED BY <1>2, <2>2, QuietIInv DEF CommandArrives, outputs
<1>3. CASE SolverAnswers
  <2>1. TypeOK' /\ Accepted'
    BY <1>0, <1>3 DEF TypeOK, SolverAnswers, outputs, Accepted
  <2> QED BY <1>3, <2>1, QuietIInv DEF SolverAnswers, outputs
<1> QED BY <1>1, <1>2, <1>3

(* Time.                                                                   *)
LEMMA TickKeepsIInv ==
  ASSUME IInv, Tick
  PROVE  IInv'
<1> USE ConstantFacts
<1>0. TypeOK /\ Accepted /\ Told /\ NeverSleeps /\ BeatIsNear /\ Tracked
  BY DEF IInv
<1>1. /\ now < MaxTime /\ now' = now + 1 /\ overdue' <= Lateness
      /\ overdue' = IF StepDue THEN overdue + 1 ELSE 0
      /\ running' = running /\ config' = config /\ flight' = flight /\ stats' = stats
      /\ inbox' = inbox /\ commands' = commands /\ asked' = asked /\ timer' = timer
      /\ failed' = failed /\ report' = report /\ refused' = refused /\ heard' = heard
  BY DEF Tick, host, outputs
<1>2. now \in Nat /\ overdue \in Nat
  BY <1>0 DEF TypeOK
<1>3. TypeOK'
  <2>1. now' \in 0 .. MaxTime /\ overdue' \in 0 .. Lateness
    BY <1>0, <1>1, <1>2 DEF TypeOK
  <2>2. inbox' \subseteq [port : Streams, stamp : 0 .. now']
    <3>1. 0 .. now \subseteq 0 .. now'
      BY <1>1, <1>2
    <3>2. inbox \subseteq [port : Streams, stamp : 0 .. now]
      BY <1>0 DEF TypeOK
    <3> QED BY <1>1, <3>1, <3>2
  <2> QED BY <1>0, <1>1, <2>1, <2>2 DEF TypeOK
<1>4. Told' /\ NeverSleeps' /\ Accepted'
  BY <1>0, <1>1 DEF Told, NeverSleeps, Accepted
<1>5. BeatIsNear'
  <2> SUFFICES ASSUME running
               PROVE  /\ stats.nextBeat - Heartbeat <= now'
                      /\ now' >= stats.nextBeat => now' - stats.nextBeat <= overdue'
    BY <1>1, Zenon DEF BeatIsNear
  <2>1. stats.nextBeat \in Nat
    BY <1>0 DEF TypeOK
  <2>2. /\ stats.nextBeat - Heartbeat <= now
        /\ now >= stats.nextBeat => now - stats.nextBeat <= overdue
    BY <1>0 DEF BeatIsNear
  <2>3. CASE now >= stats.nextBeat
    <3>1. asked \/ (timer # NoWake /\ timer <= stats.nextBeat)
      BY <1>0 DEF NeverSleeps
    <3>2. timer # NoWake /\ timer <= stats.nextBeat => timer <= now
      BY <1>0, <1>2, <2>1, <2>3 DEF TypeOK, NoWake
    <3>3. StepDue
      BY <3>1, <3>2 DEF StepDue, DeadlinePassed
    <3> QED BY <1>1, <1>2, <2>1, <2>2, <2>3, <3>3
  <2>4. CASE ~(now >= stats.nextBeat)
    <3>1. overdue' \in Nat
      BY <1>1, <1>2
    <3> QED BY <1>1, <1>2, <2>1, <2>2, <2>4, <3>1
  <2> QED BY <2>3, <2>4
<1>6. Tracked'
  <2> SUFFICES ASSUME running, NEW s \in Streams
               PROVE  LET t == stats.track[s] IN
                      /\ t.active => t.last # NoSample
                      /\ t.active => s \in heard
                                     \/ stats.nextBeat - Heartbeat - t.last <= Timeout
                      /\ t.last # NoSample /\ now' - t.last <= Timeout => t.active
    BY <1>1, Zenon DEF Tracked
  <2>1. stats.track[s] \in Track
    BY <1>0 DEF TypeOK
  <2>2. stats.track[s].last \in Nat \cup {NoSample}
    BY <2>1 DEF Track
  <2>3. stats.track[s].last # NoSample /\ now' - stats.track[s].last <= Timeout
        => now - stats.track[s].last <= Timeout
    BY <1>1, <1>2, <2>2
  <2> QED BY <1>0, <2>3 DEF Tracked
<1> QED BY <1>3, <1>4, <1>5, <1>6 DEF IInv

(* A step that changes nothing.                                            *)
LEMMA StutterIInv ==
  ASSUME IInv, UNCHANGED vars
  PROVE  IInv'
<1>1. TypeOK' /\ Accepted'
  BY DEF IInv, TypeOK, Accepted, vars, host, outputs
<1> QED BY <1>1, QuietIInv DEF vars, host, outputs

(* Every step keeps the invariant.                                         *)
LEMMA NextIInv == IInv /\ [Next]_vars => IInv'
<1> SUFFICES ASSUME IInv, [Next]_vars PROVE IInv'
  OBVIOUS
<1>1. CASE \E seen \in BOOLEAN : Step(seen)
  BY <1>1, StepKeepsIInv
<1>2. CASE Start
  BY <1>2, StartKeepsIInv
<1>3. CASE Stop
  BY <1>3, StopKeepsIInv
<1>4. CASE \E document \in Documents : Configure(document)
  BY <1>4, ConfigureKeepsIInv
<1>5. CASE \/ \E stream \in Streams, delay \in 0 .. Delay : SampleArrives(stream, delay)
           \/ CommandArrives
           \/ SolverAnswers
  BY <1>5, WritersKeepIInv
<1>6. CASE Tick
  BY <1>6, TickKeepsIInv
<1>7. CASE UNCHANGED vars
  BY <1>7, StutterIInv
<1> QED BY <1>1, <1>2, <1>3, <1>4, <1>5, <1>6, <1>7 DEF Next

(* The inductive invariant of the module.                                  *)
THEOREM ModuleInvariant == Spec => []IInv
BY InitIInv, NextIInv, PTL DEF Spec
-----------------------------------------------------------------------------
(* Every variable keeps its type, however many samples, commands, turns    *)
(* and documents there are.                                                *)
THEOREM ModuleTypes == Spec => []TypeOK
<1>1. IInv => TypeOK
  BY DEF IInv
<1> QED BY <1>1, ModuleInvariant, PTL

(* A running module has asked for a step, or has a deadline no later than  *)
(* what the statistics and the flight machine wait for.                    *)
THEOREM NeverSleepsAlways == Spec => []NeverSleeps
<1>1. IInv => NeverSleeps
  BY DEF IInv
<1> QED BY <1>1, ModuleInvariant, PTL

(* The host knows the present state, and of a write that was refused.      *)
THEOREM HealthIsTold == Spec => []HealthTellsWrites
<1>1. IInv => HealthTellsWrites
  BY DEF IInv, Told, HealthTellsWrites
<1> QED BY <1>1, ModuleInvariant, PTL

(* A stream that fell silent is found lost within the timeout, a heartbeat *)
(* and the lateness of the host, and none is found lost before.            *)
THEOREM SilenceIsNoticed == Spec => []LossIsNoticed
<1>1. ASSUME IInv PROVE LossIsNoticed
  <2> USE ConstantFacts
  <2> SUFFICES ASSUME running
               PROVE  /\ stats.nextBeat - Heartbeat <= now /\ now <= stats.nextBeat + Lateness
                      /\ \A s \in Streams :
                           /\ stats.track[s].active => s \in heard
                                \/ now - stats.track[s].last <= Timeout + Heartbeat + Lateness
                           /\ stats.track[s].last # NoSample
                              /\ now - stats.track[s].last <= Timeout => stats.track[s].active
    BY DEF LossIsNoticed
  <2>1. /\ now \in Nat /\ overdue \in Nat /\ overdue <= Lateness /\ stats.nextBeat \in Nat
        /\ \A s \in Streams : stats.track[s].last \in Nat \cup {NoSample}
    <3>1. stats.track \in [Streams -> Track]
      BY <1>1 DEF IInv, TypeOK
    <3> QED BY <1>1, <3>1 DEF IInv, TypeOK, Track
  <2>2. stats.nextBeat - Heartbeat <= now /\ now <= stats.nextBeat + Lateness
    BY <1>1, <2>1 DEF IInv, BeatIsNear
  <2>3. ASSUME NEW s \in Streams
        PROVE  /\ stats.track[s].active => s \in heard
                    \/ now - stats.track[s].last <= Timeout + Heartbeat + Lateness
               /\ stats.track[s].last # NoSample
                  /\ now - stats.track[s].last <= Timeout => stats.track[s].active
    <3>1. /\ stats.track[s].active => stats.track[s].last # NoSample
          /\ stats.track[s].active =>
               s \in heard \/ stats.nextBeat - Heartbeat - stats.track[s].last <= Timeout
          /\ stats.track[s].last # NoSample /\ now - stats.track[s].last <= Timeout
             => stats.track[s].active
      BY <1>1 DEF IInv, Tracked
    <3>2. /\ stats.track[s].last # NoSample
          /\ stats.nextBeat - Heartbeat - stats.track[s].last <= Timeout
          => now - stats.track[s].last <= Timeout + Heartbeat + Lateness
      BY <2>1, <2>2
    <3> QED BY <3>1, <3>2
  <2> QED BY <2>2, <2>3
<1> QED BY <1>1, ModuleInvariant, PTL

(* Whatever is accepted is a configuration to fly with: for every document *)
(* and every built-in profile.                                             *)
THEOREM ConfigurationStaysSound == Spec => []ConfigurationIsSound
<1>1. IInv => ConfigurationIsSound
  BY ConstantFacts, AcceptedIsSound DEF IInv, TypeOK, Accepted, ConfigurationIsSound
<1> QED BY <1>1, ModuleInvariant, PTL
=============================================================================
