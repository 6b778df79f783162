------------------------- MODULE ReferenceNodeProofs -------------------------
(***************************************************************************)
(* Proofs about ReferenceNode, for every period, lead time, grace, set of  *)
(* requests and bound its assumptions allow.                               *)
(***************************************************************************)
EXTENDS ReferenceNode, ReferenceRuntimeProofs

(* What the invariants need to be inductive: a reference waits only for a  *)
(* turn asked for, is the latest, and, unless the node is late, starts no  *)
(* sooner than now; an active node has a reference; the clock only runs on.*)
Held ==
  /\ rt.state = "Active" => rt.active # None
  /\ rt.pending # None =>
       /\ turn /\ latest = rt.pending /\ rt.active # rt.pending
       /\ ~late => rt.pending.start >= now
  /\ rt.time <= now
NodeInv == TypeOK /\ Held /\ AcceptedIsFlown /\ WakeIsArmed
TimeInv == NodeInv /\ PublishedInTime /\ EndsInTime

(* A turn, by what it does to the state.                                   *)
LEMMA TurnFacts ==
  ASSUME TypeOK, Held, Turn
  PROVE  /\ UNCHANGED <<now, accepted, latest, late>>
         /\ rt' \in Runtimes(1 .. accepted)
         /\ rt'.time = now /\ rt'.pending = None
         /\ rt'.active = IF rt.pending # None THEN rt.pending ELSE rt.active
         /\ rt'.state = IF rt.pending # None \/ (rt.state = "Active" /\ ~Expired(rt.active, now))
                        THEN "Active" ELSE "Ready"
         /\ rt'.state = "Active" => rt'.active # None
         /\ now - rt'.status < StatusPeriod
         /\ rt'.state = "Active" => now - rt'.posted < ActivePeriod
         /\ effects' \in Seq({"Status"} \cup Kinds)
         /\ NextWake(rt') \in Nat
         /\ turn' = (NextWake(rt') <= now)
         /\ deadline' = IF NextWake(rt') <= now THEN deadline ELSE NextWake(rt')
<1>1. now \in Nat \ {0} /\ accepted \in Nat /\ rt \in Runtimes(1 .. accepted)
  BY NodeAssumption DEF TypeOK
<1>2. rt.state = "Active" => rt.active # None
  BY DEF Held
<1>3. /\ rt' = Updated(rt, now).runtime /\ effects' = Updated(rt, now).effects
      /\ turn' = (NextWake(rt') <= now) /\ deadline' = DeadlineAfter(NextWake(rt'))
      /\ UNCHANGED <<now, accepted, latest, late>>
  BY DEF Turn
<1>4. /\ rt' \in Runtimes(1 .. accepted)
      /\ rt'.time = now /\ rt'.pending = None
      /\ rt'.active = IF rt.pending # None THEN rt.pending ELSE rt.active
      /\ rt'.state = IF rt.pending # None \/ (rt.state = "Active" /\ ~Expired(rt.active, now))
                     THEN "Active" ELSE "Ready"
      /\ now - rt'.status < StatusPeriod
      /\ rt'.state = "Active" => now - rt'.posted < ActivePeriod
  BY <1>1, <1>2, <1>3, UpdatedFacts
<1>5. effects' \in Seq({"Status"} \cup Kinds)
  BY <1>1, <1>2, <1>3, EffectsFacts
<1>6. rt'.state = "Active" => rt'.active # None
  BY <1>2, <1>4
<1>7. NextWake(rt') \in Nat
  BY <1>1, <1>4, <1>6, NextWakeFacts
<1>8. QED
  BY <1>3, <1>4, <1>5, <1>6, <1>7 DEF DeadlineAfter

(* A request, by what it does to the state.                                *)
LEMMA RequestFacts ==
  ASSUME TypeOK, Held, NEW request \in Requests, OnRequest(request)
  PROVE  /\ UNCHANGED <<now, deadline, effects, late>>
         /\ accepted' = accepted + 1 /\ accepted' <= MaxAccepted
         /\ turn' = TRUE /\ latest' = rt'.pending
         /\ rt' \in Runtimes(1 .. accepted')
         /\ rt'.pending \in References({accepted'}) /\ rt'.pending.start >= now
         /\ rt'.state = rt.state /\ rt'.active = rt.active /\ rt'.time = rt.time
         /\ rt'.status = rt.status /\ rt'.posted = rt.posted
<1>1. now \in Nat \ {0} /\ accepted \in Nat /\ rt \in Runtimes(1 .. accepted)
  BY NodeAssumption DEF TypeOK
<1>2. /\ rt' = Accept(rt, request, now, accepted + 1) /\ accepted' = accepted + 1
      /\ accepted + 1 <= MaxAccepted /\ turn' = TRUE /\ latest' = rt'.pending
      /\ UNCHANGED <<now, deadline, effects, late>>
  BY <1>1, NodeAssumption DEF OnRequest
<1>3. request.kind \in Kinds /\ request.start \in Nat /\ request.duration \in Nat
  BY NodeAssumption DEF Requests
<1>4. /\ rt' \in Runtimes(1 .. accepted')
      /\ rt'.pending \in References({accepted'}) /\ rt'.pending.start >= now
      /\ rt'.state = rt.state /\ rt'.active = rt.active /\ rt'.time = rt.time
      /\ rt'.status = rt.status /\ rt'.posted = rt.posted
  <2> DEFINE start == Start(request, now)
             reference == [id |-> accepted + 1, kind |-> request.kind, start |-> start,
                           duration |-> request.duration]
  <2>1. start \in Nat /\ start > LeadTime /\ start >= now
    BY <1>1, <1>3, StartFacts
  <2>2. rt' = [rt EXCEPT !.pending = reference]
    BY <1>2 DEF Accept
  <2> HIDE DEF start
  <2>3. reference \in References({accepted + 1}) /\ reference.start = start
    BY <1>3, <2>1 DEF References
  <2> HIDE DEF reference
  <2>4. /\ rt' \in Runtimes(1 .. accepted + 1) /\ rt'.pending = reference
        /\ rt'.state = rt.state /\ rt'.active = rt.active /\ rt'.time = rt.time
        /\ rt'.status = rt.status /\ rt'.posted = rt.posted
    BY <1>1, <2>2, <2>3, WaitingIsRuntime
  <2>5. QED
    BY <1>2, <2>1, <2>3, <2>4
<1>5. QED
  BY <1>2, <1>4

(* A node that starts satisfies every invariant.                           *)
LEMMA InitHolds == Init => TimeInv
<1> SUFFICES ASSUME Init PROVE TimeInv
  OBVIOUS
<1>1. rt = Fresh /\ Fresh \in Runtimes(1 .. accepted)
  BY FreshIsRuntime DEF Init
<1>2. TypeOK
  <2>1. <<>> \in Seq({"Status"} \cup Kinds)
    OBVIOUS
  <2>2. Never \in Nat
    BY DEF Never
  <2>3. now \in 1 .. MaxTime /\ accepted \in 0 .. MaxAccepted
    BY NodeAssumption DEF Init
  <2>4. turn \in BOOLEAN /\ late \in BOOLEAN
    BY Zenon DEF Init
  <2>5. deadline \in Nat /\ effects \in Seq({"Status"} \cup Kinds) /\ latest = None
    BY <2>1, <2>2 DEF Init
  <2>6. QED
    BY <1>1, <2>3, <2>4, <2>5 DEF TypeOK
<1>3. Held /\ AcceptedIsFlown /\ WakeIsArmed
  BY DEF Init, Held, AcceptedIsFlown, WakeIsArmed, Fresh
<1>4. PublishedInTime /\ EndsInTime
  BY DEF Init, PublishedInTime, EndsInTime, Fresh
<1>5. QED
  BY <1>2, <1>3, <1>4 DEF TimeInv, NodeInv

(* A step keeps the types.                                                 *)
LEMMA TypeStep ==
  ASSUME TypeOK, Held, [Next]_vars
  PROVE  TypeOK'
<1>1. ASSUME NEW request \in Requests, OnRequest(request)
      PROVE  TypeOK'
  <2>1. /\ accepted' = accepted + 1 /\ accepted' <= MaxAccepted /\ turn' = TRUE
        /\ latest' = rt'.pending /\ rt' \in Runtimes(1 .. accepted')
        /\ rt'.pending \in References({accepted'})
        /\ UNCHANGED <<now, deadline, effects, late>>
    BY <1>1, RequestFacts
  <2>2. References({accepted'}) \subseteq References(1 .. accepted')
    BY <2>1 DEF TypeOK, References
  <2>3. accepted' \in 0 .. MaxAccepted
    BY <2>1, NodeAssumption DEF TypeOK
  <2>4. turn' \in BOOLEAN
    BY <2>1, Zenon
  <2>5. latest' \in References(1 .. accepted')
    BY <2>1, <2>2
  <2>6. QED
    BY <2>1, <2>3, <2>4, <2>5 DEF TypeOK
<1>2. CASE OnReset
  BY <1>2, FreshIsRuntime DEF OnReset, TypeOK
<1>3. CASE Turn
  <2>1. /\ UNCHANGED <<now, accepted, latest, late>>
        /\ rt' \in Runtimes(1 .. accepted)
        /\ effects' \in Seq({"Status"} \cup Kinds)
    BY <1>3, TurnFacts
  <2>2. turn' = (NextWake(rt') <= now) /\ NextWake(rt') \in Nat
    BY <1>3, TurnFacts, Zenon
  <2>3. turn' \in BOOLEAN
    <3>1. now \in Nat
      BY DEF TypeOK
    <3>2. QED
      BY <2>2, <3>1
  <2>4. deadline' \in Nat
    <3>1. /\ NextWake(rt') \in Nat
          /\ deadline' = IF NextWake(rt') <= now THEN deadline ELSE NextWake(rt')
      BY <1>3, TurnFacts, Zenon
    <3>2. deadline \in Nat
      BY DEF TypeOK
    <3>3. QED
      BY <3>1, <3>2
  <2>5. QED
    BY <2>1, <2>3, <2>4 DEF TypeOK
<1>4. CASE OnDeadline
  BY <1>4 DEF OnDeadline, TypeOK, Never
<1>5. CASE Tick
  BY <1>5, NodeAssumption DEF Tick, TypeOK, DeadlinePassed
<1>6. CASE UNCHANGED vars
  BY <1>6 DEF vars, TypeOK
<1>7. QED
  BY <1>1, <1>2, <1>3, <1>4, <1>5, <1>6 DEF Next

(* A step keeps a waiting reference the latest, and asked for.             *)
LEMMA HeldStep ==
  ASSUME TypeOK, Held, [Next]_vars
  PROVE  Held'
<1>1. ASSUME NEW request \in Requests, OnRequest(request)
      PROVE  Held'
  <2>1. /\ accepted' = accepted + 1 /\ turn' = TRUE /\ latest' = rt'.pending
        /\ rt'.pending \in References({accepted'}) /\ rt'.pending.start >= now
        /\ rt'.state = rt.state /\ rt'.active = rt.active /\ rt'.time = rt.time
        /\ UNCHANGED <<now, deadline, effects, late>>
    BY <1>1, RequestFacts
  <2>2. rt'.pending.id = accepted + 1
    BY <2>1 DEF References
  <2>3. accepted \in Nat /\ (rt.active = None \/ rt.active \in References(1 .. accepted))
    BY DEF TypeOK, Runtimes
  <2>4. rt.active.id # accepted + 1
    BY <2>3 DEF References, None
  <2>5. QED
    BY <2>1, <2>2, <2>4 DEF Held
<1>2. CASE OnReset
  BY <1>2 DEF OnReset, Held, Fresh, TypeOK
<1>3. CASE Turn
  BY <1>3, TurnFacts DEF TypeOK, Held
<1>4. CASE OnDeadline
  BY <1>4 DEF OnDeadline, Held
<1>5. CASE Tick
  BY <1>5 DEF Tick, Held, TypeOK, Runtimes
<1>6. CASE UNCHANGED vars
  BY <1>6 DEF vars, Held
<1>7. QED
  BY <1>1, <1>2, <1>3, <1>4, <1>5, <1>6 DEF Next

(* A step loses no accepted reference.                                     *)
LEMMA FlownStep ==
  ASSUME TypeOK, Held, AcceptedIsFlown, [Next]_vars
  PROVE  AcceptedIsFlown'
<1>1. ASSUME NEW request \in Requests, OnRequest(request)
      PROVE  AcceptedIsFlown'
  BY <1>1, RequestFacts DEF AcceptedIsFlown
<1>2. CASE OnReset
  BY <1>2 DEF OnReset, AcceptedIsFlown
<1>3. CASE Turn
  BY <1>3, TurnFacts DEF AcceptedIsFlown, Held
<1>4. CASE OnDeadline
  BY <1>4 DEF OnDeadline, AcceptedIsFlown
<1>5. CASE Tick
  BY <1>5, RatesAssumption
  DEF Tick, AcceptedIsFlown, TypeOK, Runtimes, References, Expired, Expiry
<1>6. CASE UNCHANGED vars
  BY <1>6 DEF vars, AcceptedIsFlown
<1>7. QED
  BY <1>1, <1>2, <1>3, <1>4, <1>5, <1>6 DEF Next

(* A step leaves a turn asked for or a deadline soon enough.               *)
LEMMA ArmedStep ==
  ASSUME TypeOK, Held, WakeIsArmed, [Next]_vars
  PROVE  WakeIsArmed'
<1>1. ASSUME NEW request \in Requests, OnRequest(request)
      PROVE  WakeIsArmed'
  BY <1>1 DEF OnRequest, WakeIsArmed
<1>2. CASE OnReset
  BY <1>2 DEF OnReset, WakeIsArmed
<1>3. CASE Turn
  <2>1. now \in Nat \ {0}
    BY NodeAssumption DEF TypeOK
  <2>2. CASE turn'
    BY <2>2 DEF WakeIsArmed
  <2>3. CASE ~turn'
    <3>1. /\ now' = now /\ NextWake(rt') \in Nat
          /\ turn' = (NextWake(rt') <= now)
          /\ deadline' = IF NextWake(rt') <= now THEN deadline ELSE NextWake(rt')
      BY <1>3, TurnFacts
    <3>2. ~(NextWake(rt') <= now)
      BY <2>3, <3>1, Zenon
    <3>3. NextWake(rt') > now /\ deadline' = NextWake(rt')
      BY <2>1, <3>1, <3>2
    <3>4. NextWake(rt)' = NextWake(rt')
      OBVIOUS
    <3>5. QED
      BY <2>1, <3>1, <3>3, <3>4 DEF WakeIsArmed, Never
  <2>4. QED
    BY <2>2, <2>3
<1>4. CASE OnDeadline
  BY <1>4 DEF OnDeadline, WakeIsArmed
<1>5. CASE Tick
  BY <1>5 DEF Tick, WakeIsArmed
<1>6. CASE UNCHANGED vars
  BY <1>6 DEF vars, WakeIsArmed
<1>7. QED
  BY <1>1, <1>2, <1>3, <1>4, <1>5, <1>6 DEF Next

(* Prompt time can only pass up to the wake: what the node waits for has   *)
(* not happened yet, or happens at the next instant.                       *)
LEMMA PromptTick ==
  ASSUME NodeInv, Tick, ~late'
  PROVE  /\ now \in Nat \ {0} /\ now' = now + 1 /\ UNCHANGED <<rt, turn, deadline>>
         /\ ~late /\ deadline # Never /\ deadline \in Nat
         /\ rt.state # "SelfCheck" /\ now <= rt.status + StatusPeriod
         /\ rt.state = "Active" => now <= rt.posted + ActivePeriod
         /\ rt.state = "Active" /\ rt.active.duration > 0 =>
              now <= Expiry(rt.active) /\ deadline <= Expiry(rt.active) + 1
<1> DEFINE wake == NextWake(rt)
<1>1. /\ now \in Nat \ {0} /\ now' = now + 1 /\ UNCHANGED <<rt, turn, deadline>>
      /\ rt \in Runtimes(1 .. accepted) /\ accepted \in Nat /\ deadline \in Nat
  BY NodeAssumption DEF Tick, NodeInv, TypeOK
<1>2. ~late /\ ~turn /\ ~DeadlinePassed
  BY Zenon DEF Tick
<1>3. deadline # Never /\ deadline <= wake /\ deadline > now
  BY <1>1, <1>2 DEF NodeInv, WakeIsArmed, DeadlinePassed
<1>4. /\ rt.state = "Active" => rt.active # None
      /\ rt.time <= now /\ rt.time \in Nat
  BY <1>1 DEF NodeInv, Held, Runtimes
<1>5. /\ wake \in Nat
      /\ rt.state = "SelfCheck" \/ rt.pending # None => wake = rt.time
      /\ rt.state # "SelfCheck" /\ rt.pending = None =>
           /\ wake <= rt.status + StatusPeriod + 1
           /\ rt.state = "Active" => wake <= rt.posted + ActivePeriod + 1
           /\ rt.state = "Active" /\ rt.active.duration > 0 => wake <= Expiry(rt.active) + 1
  BY <1>1, <1>4, NextWakeFacts
<1> HIDE DEF wake
<1>6. rt.state # "SelfCheck" /\ rt.pending = None
  BY <1>1, <1>3, <1>4, <1>5
<1>7. /\ rt.status \in Nat /\ rt.posted \in Nat
      /\ StatusPeriod \in Nat /\ ActivePeriod \in Nat
  BY <1>1, RatesAssumption DEF Runtimes
<1>8. rt.state = "Active" => Expiry(rt.active) \in Nat
  BY <1>1, <1>4, RatesAssumption DEF Runtimes, References, Expiry
<1>9. QED
  BY <1>1, <1>2, <1>3, <1>5, <1>6, <1>7, <1>8

(* A step keeps the periods: a turn publishes what is due, and prompt time *)
(* does not pass the next one.                                             *)
LEMMA PublishedStep ==
  ASSUME NodeInv, PublishedInTime, [Next]_vars
  PROVE  PublishedInTime'
<1> USE DEF NodeInv
<1>1. ASSUME NEW request \in Requests, OnRequest(request)
      PROVE  PublishedInTime'
  BY <1>1, RequestFacts DEF PublishedInTime
<1>2. CASE OnReset
  BY <1>2 DEF OnReset, PublishedInTime, Fresh
<1>3. CASE Turn
  <2>1. now \in Nat /\ accepted \in Nat
    BY DEF TypeOK
  <2>2. /\ now' = now /\ rt' \in Runtimes(1 .. accepted)
        /\ now - rt'.status < StatusPeriod
        /\ rt'.state = "Active" => now - rt'.posted < ActivePeriod
    BY <1>3, TurnFacts
  <2>3. rt'.status \in Nat /\ rt'.posted \in Nat
    BY <2>2 DEF Runtimes
  <2>4. QED
    BY <2>1, <2>2, <2>3, RatesAssumption DEF PublishedInTime
<1>4. CASE OnDeadline
  BY <1>4 DEF OnDeadline, PublishedInTime
<1>5. CASE Tick
  <2>1. SUFFICES ASSUME ~late' PROVE PublishedInTime'
    BY DEF PublishedInTime
  <2>2. /\ now \in Nat /\ now' = now + 1 /\ rt' = rt
        /\ now <= rt.status + StatusPeriod
        /\ rt.state = "Active" => now <= rt.posted + ActivePeriod
    BY <1>5, <2>1, PromptTick
  <2>3. rt.status \in Nat /\ rt.posted \in Nat
    BY DEF TypeOK, Runtimes
  <2>4. QED
    BY <2>2, <2>3, RatesAssumption DEF PublishedInTime
<1>6. CASE UNCHANGED vars
  BY <1>6 DEF vars, PublishedInTime
<1>7. QED
  BY <1>1, <1>2, <1>3, <1>4, <1>5, <1>6 DEF Next

(* A step keeps the ends: only prompt time makes a reference be over.      *)
LEMMA EndsStep ==
  ASSUME NodeInv, EndsInTime, [Next]_vars
  PROVE  EndsInTime'
<1> USE DEF NodeInv
<1>1. ASSUME NEW request \in Requests, OnRequest(request)
      PROVE  EndsInTime'
  <2>1. turn' /\ UNCHANGED <<now, late>> /\ rt'.state = rt.state /\ rt'.active = rt.active
    BY <1>1, RequestFacts
  <2>2. QED
    BY <2>1 DEF EndsInTime
<1>2. CASE OnReset
  BY <1>2 DEF OnReset, EndsInTime, Fresh
<1>3. CASE Turn
  <2>1. /\ now' = now /\ late' = late
        /\ rt'.active = IF rt.pending # None THEN rt.pending ELSE rt.active
        /\ rt'.state = IF rt.pending # None \/ (rt.state = "Active" /\ ~Expired(rt.active, now))
                       THEN "Active" ELSE "Ready"
    BY <1>3, TurnFacts
  <2>2. rt.pending # None /\ ~late => ~Expired(rt.pending, now)
    BY RatesAssumption DEF Held, TypeOK, Runtimes, References, Expired, Expiry
  <2>3. QED
    BY <2>1, <2>2 DEF EndsInTime
<1>4. CASE OnDeadline
  BY <1>4 DEF OnDeadline, EndsInTime
<1>5. CASE Tick
  <2>1. SUFFICES ASSUME ~late', rt'.state = "Active", Expired(rt'.active, now')
                 PROVE  now' = Expiry(rt'.active) + 1 /\ (turn' \/ DeadlinePassed')
    BY DEF EndsInTime
  <2>2. /\ now \in Nat /\ now' = now + 1 /\ rt' = rt /\ deadline' = deadline
        /\ deadline # Never /\ deadline \in Nat
        /\ rt.state = "Active" /\ rt.active.duration > 0 =>
              now <= Expiry(rt.active) /\ deadline <= Expiry(rt.active) + 1
    BY <1>5, <2>1, PromptTick
  <2>3. rt.active.duration > 0 /\ now' > Expiry(rt.active)
    BY <2>1, <2>2 DEF Expired
  <2>4. Expiry(rt.active) \in Nat
    <3>1. rt.state = "Active" /\ rt.active # None
      BY <2>1, <2>2 DEF Held
    <3>2. rt.active \in References(1 .. accepted)
      BY <3>1 DEF TypeOK, Runtimes
    <3>3. QED
      BY <3>2, RatesAssumption DEF References, Expiry
  <2>5. now' = Expiry(rt.active) + 1 /\ deadline <= now'
    BY <2>1, <2>2, <2>3, <2>4
  <2>6. QED
    BY <2>2, <2>5 DEF DeadlinePassed
<1>6. CASE UNCHANGED vars
  BY <1>6 DEF vars, EndsInTime, DeadlinePassed
<1>7. QED
  BY <1>1, <1>2, <1>3, <1>4, <1>5, <1>6 DEF Next

(* A step keeps them all.                                                  *)
LEMMA InvariantStep ==
  ASSUME TimeInv, [Next]_vars
  PROVE  TimeInv'
BY TypeStep, HeldStep, FlownStep, ArmedStep, PublishedStep, EndsStep DEF TimeInv, NodeInv

(* Every state of the node satisfies them.                                 *)
LEMMA Invariance == Spec => []TimeInv
<1>1. TimeInv /\ [Next]_vars => TimeInv'
  BY InvariantStep
<1>2. QED
  BY <1>1, InitHolds, PTL DEF Spec
-----------------------------------------------------------------------------
(* Every state of the node is of its type, whatever is asked of it.        *)
THEOREM TypeIsKept == Spec => []TypeOK
<1>1. TimeInv => TypeOK
  BY DEF TimeInv, NodeInv
<1>2. QED
  BY <1>1, Invariance, PTL

(* A reference that was accepted waits for a turn, is flown or is over.    *)
THEOREM AcceptedFliesOn == Spec => []AcceptedIsFlown
<1>1. TimeInv => AcceptedIsFlown
  BY DEF TimeInv, NodeInv
<1>2. QED
  BY <1>1, Invariance, PTL

(* A node without a turn always has a deadline no later than its wake.     *)
THEOREM WakeStaysArmed == Spec => []WakeIsArmed
<1>1. TimeInv => WakeIsArmed
  BY DEF TimeInv, NodeInv
<1>2. QED
  BY <1>1, Invariance, PTL

(* Publications are as frequent as their periods while turns are prompt.   *)
THEOREM PeriodsAreKept == Spec => []PublishedInTime
<1>1. TimeInv => PublishedInTime
  BY DEF TimeInv
<1>2. QED
  BY <1>1, Invariance, PTL

(* A reference is left at the first instant after its end while turns are  *)
(* prompt.                                                                 *)
THEOREM ReferencesEnd == Spec => []EndsInTime
<1>1. TimeInv => EndsInTime
  BY DEF TimeInv
<1>2. QED
  BY <1>1, Invariance, PTL

(* A turn asks for another at once only for a reference already over.      *)
LEMMA RestStep ==
  ASSUME NodeInv, Turn, turn'
  PROVE  rt'.active # rt.active /\ Expired(rt'.active, now)
<1> USE DEF NodeInv
<1>1. /\ now \in Nat \ {0} /\ accepted \in Nat
  BY NodeAssumption DEF TypeOK
<1>2. /\ rt' \in Runtimes(1 .. accepted) /\ rt'.pending = None
      /\ rt'.active = IF rt.pending # None THEN rt.pending ELSE rt.active
      /\ rt'.state = IF rt.pending # None \/ (rt.state = "Active" /\ ~Expired(rt.active, now))
                     THEN "Active" ELSE "Ready"
      /\ rt'.state = "Active" => rt'.active # None
      /\ now - rt'.status < StatusPeriod
      /\ rt'.state = "Active" => now - rt'.posted < ActivePeriod
      /\ turn' = (NextWake(rt') <= now)
  BY TurnFacts
<1> DEFINE next == rt'
           wake == NextWake(next)
<1>3. wake <= now
  BY <1>2, Zenon
<1>4. /\ wake \in Nat
      /\ next.state # "SelfCheck" /\ next.pending = None =>
           \/ wake = next.status + StatusPeriod + 1
           \/ next.state = "Active" /\ wake = next.posted + ActivePeriod + 1
           \/ next.state = "Active" /\ next.active.duration > 0 /\ wake = Expiry(next.active) + 1
  BY <1>1, <1>2, NextWakeFacts
<1>5. next.status \in Nat /\ next.posted \in Nat
  BY <1>2 DEF Runtimes
<1>6. next.state = "Active" /\ next.active.duration > 0 /\ wake = Expiry(next.active) + 1
  <2> HIDE DEF wake
  <2>1. QED
    BY <1>1, <1>2, <1>3, <1>4, <1>5, RatesAssumption
<1>7. Expiry(next.active) \in Nat
  BY <1>1, <1>2, <1>6, RatesAssumption DEF Runtimes, References, Expiry
<1>8. Expired(rt'.active, now)
  <2> HIDE DEF wake
  <2>1. QED
    BY <1>1, <1>3, <1>6, <1>7 DEF Expired
<1>9. rt.pending # None
  BY <1>2, <1>6, <1>8
<1>10. QED
  BY <1>2, <1>8, <1>9 DEF Held

(* The periods and the ends are kept while turns are prompt.               *)
THEOREM RuntimeKeepsTime == Spec => []RuntimeIsInTime
<1>1. (PublishedInTime /\ EndsInTime) => RuntimeIsInTime
  BY DEF RuntimeIsInTime
<1>2. QED
  BY <1>1, PeriodsAreKept, ReferencesEnd, PTL

(* The node cannot spin: no turn asks for the next one at once but to end  *)
(* a reference that was over when it was taken up (nextWake).              *)
THEOREM NodeRests == Spec => TurnsRest
<1>1. NodeInv /\ Turn /\ turn' => rt'.active # rt.active /\ Expired(rt'.active, now)
  BY RestStep
<1>2. TimeInv => [(Turn /\ turn') => /\ rt'.active # rt.active
                                     /\ Expired(rt'.active, now)]_vars
  BY <1>1 DEF TimeInv
<1>3. QED
  BY <1>2, Invariance, PTL DEF TurnsRest
-----------------------------------------------------------------------------
(* A node that starts has nothing offered and flies nothing.               *)
LEMMA InitKeeps == Init => Promise!ServiceInit
BY DEF Init, Fresh, None, Promise!ServiceInit, Promise!None

(* Every step is one of the promise, or changes nothing it speaks of.      *)
LEMMA StepKeeps ==
  ASSUME NodeInv, [Next]_vars
  PROVE  [Promise!ServiceNext]_(Promise!ServiceVars)
<1> USE DEF NodeInv, Promise!ServiceNext
<1> DEFINE Flown == IF rt.state = "Active" THEN rt.active ELSE None
<1>0. None = Promise!None
  BY DEF None, Promise!None
<1>1. ASSUME NEW request \in Requests, OnRequest(request)
      PROVE  Promise!Offer
  <2>1. /\ accepted' = accepted + 1 /\ latest' = rt'.pending /\ now' = now
        /\ rt'.pending \in References({accepted'})
        /\ rt'.state = rt.state /\ rt'.active = rt.active
    BY <1>1, RequestFacts
  <2>2. latest'.id = accepted' /\ accepted' > accepted
    BY <2>1 DEF References, TypeOK
  <2>3. QED
    BY <2>1, <2>2 DEF Promise!Offer, Promise!Accepted
<1>2. CASE OnReset
  <2>1. Promise!Withdraw
    BY <1>0, <1>2 DEF OnReset, Fresh, Promise!Withdraw, TypeOK
  <2>2. QED
    BY <2>1
<1>3. CASE Turn
  <2>1. /\ UNCHANGED <<now, accepted, latest>> /\ rt'.pending = None
        /\ rt'.active = IF rt.pending # None THEN rt.pending ELSE rt.active
        /\ rt'.state = IF rt.pending # None \/ (rt.state = "Active" /\ ~Expired(rt.active, now))
                       THEN "Active" ELSE "Ready"
    BY <1>3, TurnFacts
  <2>2. CASE rt.pending # None
    <3>1. Promise!Begin
      BY <1>0, <2>1, <2>2 DEF Held, Promise!Begin
    <3>2. QED
      BY <3>1
  <2>3. CASE rt.pending = None /\ rt.state = "Active" /\ Expired(rt.active, now)
    <3>1. Promise!End
      BY <1>0, <2>1, <2>3
      DEF Held, Expired, Expiry, Promise!End, Promise!Finite, Promise!EndOf
    <3>2. QED
      BY <3>1
  <2>4. CASE rt.pending = None /\ ~(rt.state = "Active" /\ Expired(rt.active, now))
    BY <2>1, <2>4 DEF Promise!ServiceVars
  <2>5. QED
    BY <2>2, <2>3, <2>4
<1>4. CASE OnDeadline
  BY <1>4 DEF OnDeadline, Promise!ServiceVars
<1>5. CASE Tick
  <2>1. Promise!Elapse
    BY <1>5 DEF Tick, Promise!Elapse, TypeOK
  <2>2. QED
    BY <2>1
<1>6. CASE UNCHANGED vars
  BY <1>6 DEF vars, Promise!ServiceVars
<1>7. QED
  BY <1>1, <1>2, <1>3, <1>4, <1>5, <1>6 DEF Next

(* References are flown as they were offered, the latest first, to their   *)
(* end, and none that was let go is taken up again.                        *)
THEOREM PromiseIsKept == Spec => KeepsPromise
<1>1. TimeInv /\ [Next]_vars => [Promise!ServiceNext]_(Promise!ServiceVars)
  BY StepKeeps DEF TimeInv
<1>2. QED
  BY <1>1, InitKeeps, Invariance, PTL DEF Spec, KeepsPromise, Promise!Service
=============================================================================
