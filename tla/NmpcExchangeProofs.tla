-------------------------- MODULE NmpcExchangeProofs --------------------------
(***************************************************************************)
(* Proofs about NmpcExchange, for every period and timeout, every bound,   *)
(* and turns as late as they may be.                                       *)
(***************************************************************************)
EXTENDS NmpcExchange, SequenceTheorems, TLAPS

Requests == [sequence : Nat \ {0}, stamp : Nat, generation : Nat]
Results  == [sequence : Nat \ {0}, stamp : Nat, generation : Nat, outcome : Outcomes]
Buffers  == [generation : Nat, generations : Nat, requests : Nat,
             latest : Results \cup {None}]
Leaves   == [tracking : BOOLEAN, generation : Nat, inFlight : Nat, consumed : Nat,
             waiting : BOOLEAN, lastRequest : Nat, deadline : Nat,
             lastSuccess : Nat, lastPublish : Nat, finished : BOOLEAN]
Effects  == {"Setpoint", "Attitude"}
Views    == [leaf : Leaves, buffer : Buffers, target : Results \cup {None},
             out : Seq(Effects), request : Requests \cup {None}]
Runs     == {Idle} \cup [phase : {"solving"}, result : Requests]
                   \cup [phase : {"solved", "notifying", "calling"}, result : Results]

(* A request or result of buffer b: numbered, of one of its generations,   *)
(* and of the past.                                                        *)
Within(c, b) == c.sequence <= b.requests /\ c.generation <= b.generations /\ c.stamp <= now

(* The target answers this entry, and was fresh when it was taken.         *)
Recent(v) ==
  /\ v.target # None /\ v.target.generation = v.leaf.generation
  /\ v.target.stamp <= v.leaf.lastSuccess
  /\ v.leaf.lastSuccess - v.target.stamp <= ResultTimeout

(* What holds of the owner's view at every stage of a tick.                *)
Sound(v) ==
  /\ v \in Views
  /\ v.leaf.lastPublish <= now /\ v.leaf.lastRequest <= now /\ v.leaf.lastSuccess <= now
  /\ v.leaf.inFlight <= v.buffer.requests /\ v.leaf.consumed <= v.buffer.requests
  /\ v.leaf.generation <= v.buffer.generations
  /\ v.buffer.generation <= v.buffer.generations
  /\ v.target # None => Within(v.target, v.buffer)
  /\ v.buffer.latest # None => Within(v.buffer.latest, v.buffer)
  /\ v.leaf.lastSuccess # Never => Recent(v)
  /\ "Attitude" \in ToSet(v.out) =>
       /\ v.target # None /\ v.target.generation = v.leaf.generation
       /\ now - v.target.stamp <= 2 * ResultTimeout

(* A stage that asks for no solve leads from v to w.                       *)
Follows(v, w) ==
  /\ w.buffer = v.buffer /\ w.request = v.request
  /\ w.leaf.tracking = v.leaf.tracking /\ w.leaf.generation = v.leaf.generation
  /\ w.leaf.inFlight = v.leaf.inFlight
  /\ w.leaf.waiting => v.leaf.waiting /\ w.leaf.consumed = v.leaf.consumed

(* The buffer has the answer the leaf waits for.                           *)
Answered(v) ==
  /\ v.leaf.waiting /\ NewerThan(v.buffer, v.leaf.consumed)
  /\ v.buffer.latest.sequence = v.leaf.inFlight
-----------------------------------------------------------------------------
(* Appending an effect to those emitted.                                   *)
LEMMA ToSetOfAppend ==
  ASSUME NEW S, NEW s \in Seq(S), NEW e \in S
  PROVE  Append(s, e) \in Seq(S) /\ ToSet(Append(s, e)) = ToSet(s) \cup {e}
<1>1. /\ Append(s, e) \in Seq(S)
      /\ DOMAIN Append(s, e) = 1 .. Len(s) + 1 /\ DOMAIN s = 1 .. Len(s)
      /\ Len(s) \in Nat
      /\ \A i \in 1 .. Len(s) : Append(s, e)[i] = s[i]
      /\ Append(s, e)[Len(s) + 1] = e
  BY AppendProperties
<1>2. \A x : x \in ToSet(Append(s, e)) <=> \E i \in 1 .. Len(s) + 1 : Append(s, e)[i] = x
  BY <1>1 DEF ToSet
<1>3. \A x : x \in ToSet(s) <=> \E i \in 1 .. Len(s) : s[i] = x
  BY <1>1 DEF ToSet
<1>4. \A i : i \in 1 .. Len(s) + 1 <=> i \in 1 .. Len(s) \/ i = Len(s) + 1
  BY <1>1
<1>5. ASSUME NEW x
      PROVE  x \in ToSet(Append(s, e)) <=> x \in ToSet(s) \cup {e}
  <2>1. ASSUME x \in ToSet(Append(s, e))  PROVE  x \in ToSet(s) \cup {e}
    <3>1. PICK i \in 1 .. Len(s) + 1 : Append(s, e)[i] = x
      BY <1>2, <2>1
    <3>2. QED
      BY <1>1, <1>3, <1>4, <3>1
  <2>2. ASSUME x \in ToSet(s)  PROVE  x \in ToSet(Append(s, e))
    <3>1. PICK i \in 1 .. Len(s) : s[i] = x
      BY <1>3, <2>2
    <3>2. QED
      BY <1>1, <1>2, <1>4, <3>1
  <2>3. e \in ToSet(Append(s, e))
    BY <1>1, <1>2
  <2>4. QED
    BY <2>1, <2>2, <2>3
<1>6. QED
  BY <1>1, <1>5

(* Publishing keeps a view sound; rates may be published if they are of    *)
(* this entry and recent.                                                  *)
LEMMA PublishFacts ==
  ASSUME now \in Nat, NEW v, Sound(v), NEW e \in Effects,
         e = "Attitude" => /\ v.target # None /\ v.target.generation = v.leaf.generation
                           /\ now - v.target.stamp <= 2 * ResultTimeout
  PROVE  Sound(Publish(v, e)) /\ Follows(v, Publish(v, e))
<1> DEFINE w == Publish(v, e)
<1>1. v \in Views
  BY DEF Sound
<1>2. /\ w.leaf = [v.leaf EXCEPT !.lastPublish = now] /\ w.buffer = v.buffer
      /\ w.target = v.target /\ w.out = Append(v.out, e) /\ w.request = v.request
      /\ w = [leaf |-> w.leaf, buffer |-> w.buffer, target |-> w.target,
              out |-> w.out, request |-> w.request]
  <2>1. v = [leaf |-> v.leaf, buffer |-> v.buffer, target |-> v.target,
             out |-> v.out, request |-> v.request]
    BY <1>1 DEF Views
  <2>2. w.leaf = [v.leaf EXCEPT !.lastPublish = now]
    BY <2>1 DEF Publish
  <2>3. w.buffer = v.buffer /\ w.target = v.target /\ w.request = v.request
    BY <2>1 DEF Publish
  <2>4. w.out = Append(v.out, e)
    BY <2>1 DEF Publish
  <2>5. w = [leaf |-> w.leaf, buffer |-> w.buffer, target |-> w.target,
              out |-> w.out, request |-> w.request]
    <3>1. w = [[v EXCEPT !.out = Append(v.out, e)] EXCEPT !.leaf = [v.leaf EXCEPT !.lastPublish = now]]
      BY <2>1 DEF Publish
    <3>2. QED
      BY <1>1, <3>1 DEF Views
  <2>6. QED
    BY <2>2, <2>3, <2>4, <2>5
<1>3. w.leaf \in Leaves
  BY <1>1, <1>2 DEF Views, Leaves
<1>4. w.out \in Seq(Effects) /\ ToSet(w.out) = ToSet(v.out) \cup {e}
  BY <1>1, <1>2, ToSetOfAppend DEF Views
<1>5. w \in Views
  <2> HIDE DEF w
  <2> QED  BY <1>1, <1>2, <1>3, <1>4 DEF Views
<1>6. /\ w.leaf.lastPublish = now /\ w.leaf.lastRequest = v.leaf.lastRequest
      /\ w.leaf.lastSuccess = v.leaf.lastSuccess /\ w.leaf.inFlight = v.leaf.inFlight
      /\ w.leaf.consumed = v.leaf.consumed /\ w.leaf.generation = v.leaf.generation
      /\ w.leaf.tracking = v.leaf.tracking /\ w.leaf.waiting = v.leaf.waiting
  BY <1>1, <1>2 DEF Views, Leaves
<1> HIDE DEF w
<1>7. "Attitude" \in ToSet(w.out) => "Attitude" \in ToSet(v.out) \/ e = "Attitude"
  BY <1>4
<1>8. Sound(w)
  BY <1>2, <1>5, <1>6, <1>7 DEF Sound, Recent
<1>9. Follows(v, w)
  BY <1>2, <1>6 DEF Follows
<1>10. QED
  BY <1>8, <1>9 DEF w

(* A stage follows itself.                                                 *)
LEMMA FollowsItself ==
  ASSUME NEW v  PROVE Follows(v, v)
BY DEF Follows

(* Stages in a row follow the first.                                       *)
LEMMA FollowsOn ==
  ASSUME NEW u, NEW v, NEW w, Follows(u, v), Follows(v, w)
  PROVE  Follows(u, w)
BY DEF Follows

(* A stage that only stops waiting, and may take an answer.                *)
LEMMA LeafFacts ==
  ASSUME now \in Nat, NEW v, Sound(v), NEW l \in Leaves,
         l.tracking = v.leaf.tracking, l.generation = v.leaf.generation,
         l.inFlight = v.leaf.inFlight, l.lastRequest = v.leaf.lastRequest,
         l.lastSuccess = v.leaf.lastSuccess, l.lastPublish = v.leaf.lastPublish,
         l.consumed <= v.buffer.requests, l.waiting = FALSE
  PROVE  LET w == [v EXCEPT !.leaf = l] IN
         /\ Sound(w) /\ Follows(v, w) /\ w.leaf = l
         /\ w.buffer = v.buffer /\ w.target = v.target
<1> DEFINE w == [v EXCEPT !.leaf = l]
<1>1. v \in Views
  BY DEF Sound
<1>2. /\ w \in Views /\ w.leaf = l /\ w.buffer = v.buffer /\ w.target = v.target
      /\ w.out = v.out /\ w.request = v.request
  BY <1>1 DEF Views
<1> HIDE DEF w
<1>3. Sound(w)
  BY <1>2 DEF Sound, Recent
<1>4. Follows(v, w)
  BY <1>2 DEF Follows
<1>5. QED
  BY <1>2, <1>3, <1>4 DEF w

(* Finishing: the event is posted once, and the hover keeps being sent.    *)
LEMMA FinishFacts ==
  ASSUME now \in Nat, NEW v, Sound(v)
  PROVE  Sound(FinishPosted(v)) /\ Follows(v, FinishPosted(v))
<1> DEFINE l == [v.leaf EXCEPT !.finished = TRUE, !.waiting = FALSE]
           w == [v EXCEPT !.leaf = l]
<1>1. v \in Views /\ v.leaf \in Leaves
  BY DEF Sound, Views
<1>2. [v EXCEPT !.leaf.finished = TRUE, !.leaf.waiting = FALSE] = w
  BY <1>1 DEF Views
<1>3. /\ l \in Leaves /\ l.tracking = v.leaf.tracking /\ l.generation = v.leaf.generation
      /\ l.inFlight = v.leaf.inFlight /\ l.lastRequest = v.leaf.lastRequest
      /\ l.lastSuccess = v.leaf.lastSuccess /\ l.lastPublish = v.leaf.lastPublish
      /\ l.consumed = v.leaf.consumed /\ l.waiting = FALSE
  BY <1>1 DEF Leaves
<1>4. v.leaf.consumed <= v.buffer.requests
  BY DEF Sound
<1> HIDE DEF l
<1>5. Sound(w) /\ Follows(v, w)
  BY <1>3, <1>4, LeafFacts
<1> HIDE DEF w
<1>6. Sound(Publish(w, "Setpoint")) /\ Follows(w, Publish(w, "Setpoint"))
  BY <1>5, PublishFacts DEF Effects
<1>7. Sound(Publish(v, "Setpoint")) /\ Follows(v, Publish(v, "Setpoint"))
  BY PublishFacts DEF Effects
<1>8. FinishPosted(v) \in {v, Publish(v, "Setpoint"), Publish(w, "Setpoint")}
  BY <1>2 DEF FinishPosted
<1>9. QED
  BY <1>5, <1>6, <1>7, <1>8, FollowsItself, FollowsOn

(* Giving up at the deadline stops waiting, and keeps the view sound.      *)
LEMMA TimedOutFacts ==
  ASSUME now \in Nat, NEW v, Sound(v)
  PROVE  Sound(TimedOut(v)) /\ Follows(v, TimedOut(v))
<1> DEFINE l == [v.leaf EXCEPT !.waiting = FALSE]
           w == [v EXCEPT !.leaf = l]
<1>1. v \in Views /\ v.leaf \in Leaves
  BY DEF Sound, Views
<1>2. [v EXCEPT !.leaf.waiting = FALSE] = w
  BY <1>1 DEF Views
<1>3. /\ l \in Leaves /\ l.tracking = v.leaf.tracking /\ l.generation = v.leaf.generation
      /\ l.inFlight = v.leaf.inFlight /\ l.lastRequest = v.leaf.lastRequest
      /\ l.lastSuccess = v.leaf.lastSuccess /\ l.lastPublish = v.leaf.lastPublish
      /\ l.consumed = v.leaf.consumed /\ l.waiting = FALSE
  BY <1>1 DEF Leaves
<1>4. v.leaf.consumed <= v.buffer.requests
  BY DEF Sound
<1> HIDE DEF l
<1>5. Sound(w) /\ Follows(v, w)
  BY <1>3, <1>4, LeafFacts
<1> HIDE DEF w
<1>6. Sound(Publish(w, "Setpoint")) /\ Follows(w, Publish(w, "Setpoint"))
  BY <1>5, PublishFacts DEF Effects
<1>7. TimedOut(v) \in {v, Publish(w, "Setpoint")}
  BY <1>2 DEF TimedOut
<1>8. QED
  BY <1>5, <1>6, <1>7, FollowsItself, FollowsOn

(* Taking an answer: one that is taken is waited for no longer, and one    *)
(* that is waited for is taken if it has come.                             *)
LEMMA ConsumedFacts ==
  ASSUME now \in Nat, ResultTimeout \in Nat, NEW v, Sound(v), NEW ending \in BOOLEAN,
         Answered(v) => v.buffer.latest.generation = v.leaf.generation
  PROVE  LET w == Consumed(v, ending) IN
         Sound(w) /\ Follows(v, w) /\ ~Answered(w)
<1> DEFINE result == v.buffer.latest
           l == [v.leaf EXCEPT !.consumed = result.sequence, !.waiting = FALSE]
           taken == [v EXCEPT !.leaf = l]
           skips == \/ ~NewerThan(v.buffer, v.leaf.consumed)
                    \/ result.generation # v.leaf.generation
                    \/ result.sequence # v.leaf.inFlight
<1>1. v \in Views /\ v.leaf \in Leaves /\ v.buffer \in Buffers
  BY DEF Sound, Views
<1>2. [v EXCEPT !.leaf.consumed = result.sequence, !.leaf.waiting = FALSE] = taken
  BY <1>1 DEF Views
<1>3. CASE skips
  <2>1. Consumed(v, ending) = v
    BY <1>3 DEF Consumed
  <2>2. ~Answered(v)
    BY <1>3 DEF Answered
  <2>3. QED
    BY <2>1, <2>2, FollowsItself
<1>4. CASE ~skips
  <2>1. result \in Results
    <3>1. result.sequence > v.leaf.consumed /\ v.leaf.consumed \in Nat
      BY <1>1, <1>4 DEF NewerThan, Leaves
    <3>2. result # None
      BY <3>1 DEF None
    <3>3. QED
      BY <1>1, <3>2 DEF Buffers
  <2>2. /\ l \in Leaves /\ l.tracking = v.leaf.tracking /\ l.generation = v.leaf.generation
        /\ l.inFlight = v.leaf.inFlight /\ l.lastRequest = v.leaf.lastRequest
        /\ l.lastSuccess = v.leaf.lastSuccess /\ l.lastPublish = v.leaf.lastPublish
        /\ l.consumed = result.sequence /\ l.waiting = FALSE
    BY <1>1, <2>1 DEF Leaves, Results
  <2>3. result # None /\ result.sequence <= v.buffer.requests
    BY <2>1 DEF Sound, Within, None, Results
  <2>4. Sound(taken) /\ Follows(v, taken) /\ taken.leaf = l /\ taken.target = v.target
        /\ taken.buffer = v.buffer
    <3> HIDE DEF l, result
    <3> QED  BY <2>2, <2>3, LeafFacts
  <2>5. ~taken.leaf.waiting
    BY <2>2, <2>4
  <2>6. ASSUME NEW w, Sound(w), Follows(taken, w)
        PROVE  Sound(w) /\ Follows(v, w) /\ ~Answered(w)
    BY <2>4, <2>5, <2>6, FollowsOn DEF Follows, Answered
  <2>7. CASE ~Fresh(result.stamp, now)
    BY <1>2, <1>4, <2>4, <2>6, <2>7, FollowsItself DEF Consumed
  <2>8. CASE Fresh(result.stamp, now) /\ result.outcome = "success"
    <3> DEFINE s == [taken EXCEPT !.leaf = [l EXCEPT !.lastSuccess = now], !.target = result]
    <3>1. Consumed(v, ending) = Succeeded(taken, result)
      BY <1>2, <1>4, <2>8 DEF Consumed
    <3>2. taken \in Views
      BY <2>4 DEF Sound
    <3>3. Succeeded(taken, result) = Publish(s, "Attitude")
      BY <2>4, <3>2 DEF Succeeded, Views
    <3>4. /\ s \in Views /\ s.leaf = [l EXCEPT !.lastSuccess = now] /\ s.target = result
          /\ s.buffer = taken.buffer /\ s.out = taken.out /\ s.request = taken.request
          /\ s.leaf.lastSuccess = now
      BY <2>1, <2>2, <3>2 DEF Views, Leaves
    <3>5. /\ s.leaf.tracking = l.tracking /\ s.leaf.generation = l.generation
          /\ s.leaf.inFlight = l.inFlight /\ s.leaf.consumed = l.consumed
          /\ s.leaf.lastPublish = l.lastPublish /\ s.leaf.lastRequest = l.lastRequest
          /\ s.leaf.waiting = FALSE
      <4> HIDE DEF s, l, taken, result
      <4> QED  BY <2>2, <3>4 DEF Leaves
    <3>6. /\ result.stamp <= now /\ now - result.stamp <= ResultTimeout
          /\ result.generation = l.generation /\ result.stamp \in Nat
      BY <1>4, <2>1, <2>2, <2>8 DEF Fresh, Results
    <3>7. Recent(s) /\ now - s.target.stamp <= 2 * ResultTimeout
      <4>1. s.target = result /\ s.target # None /\ s.target.generation = s.leaf.generation
        BY <2>3, <3>4, <3>5, <3>6
      <4>2. QED
        BY <3>4, <3>6, <4>1 DEF Recent
    <3>8. Sound(s)
      <4>1. Within(result, s.buffer)
        BY <2>3, <2>4, <3>4 DEF Sound
      <4> HIDE DEF s, l, result, taken
      <4>2. s.target # None /\ s.target.generation = s.leaf.generation
        BY <3>7 DEF Recent
      <4>3. QED
        BY <2>3, <2>4, <3>4, <3>5, <3>7, <4>1, <4>2 DEF Sound
    <3>9. Follows(taken, s)
      BY <2>4, <3>4, <3>5 DEF Follows
    <3> HIDE DEF s, taken, l, result
    <3>10. Sound(Publish(s, "Attitude")) /\ Follows(s, Publish(s, "Attitude"))
      BY <3>7, <3>8, PublishFacts DEF Effects, Recent
    <3>11. QED
      BY <2>6, <3>1, <3>3, <3>9, <3>10, FollowsOn
  <2>9. CASE Fresh(result.stamp, now) /\ result.outcome # "success"
    <3>1. Consumed(v, ending) = Failed(taken, result, ending)
      BY <1>2, <1>4, <2>9 DEF Consumed
    <3> HIDE DEF taken, l, result, skips
    <3>2. Sound(FinishPosted(taken)) /\ Follows(taken, FinishPosted(taken))
      BY <2>4, FinishFacts
    <3>3. Sound(Publish(taken, "Setpoint")) /\ Follows(taken, Publish(taken, "Setpoint"))
      BY <2>4, PublishFacts DEF Effects
    <3>4. ASSUME taken.leaf.lastSuccess # Never,
                 now - taken.leaf.lastSuccess <= ResultTimeout
          PROVE  Sound(Publish(taken, "Attitude")) /\ Follows(taken, Publish(taken, "Attitude"))
      <4>1. Recent(taken)
        BY <2>4, <3>4 DEF Sound
      <4>2. taken.leaf.lastSuccess \in Nat /\ taken.target.stamp \in Nat
        BY <2>4, <4>1 DEF Sound, Views, Leaves, Results, Recent
      <4>3. now - taken.target.stamp <= 2 * ResultTimeout
        BY <3>4, <4>1, <4>2 DEF Recent
      <4>4. QED
        BY <2>4, <4>1, <4>3, PublishFacts DEF Effects, Recent
    <3>5. \/ Failed(taken, result, ending) \in {FinishPosted(taken), Publish(taken, "Setpoint")}
          \/ /\ taken.leaf.lastSuccess # Never /\ now - taken.leaf.lastSuccess <= ResultTimeout
             /\ Failed(taken, result, ending) = Publish(taken, "Attitude")
      BY DEF Failed
    <3>6. QED
      BY <2>6, <3>1, <3>2, <3>3, <3>4, <3>5
  <2>10. QED
    BY <2>7, <2>8, <2>9
<1>5. QED
  BY <1>3, <1>4

(* Asking for a solve.                                                     *)
Asks(v, w) ==
  /\ w.buffer = [v.buffer EXCEPT !.requests = @ + 1] /\ w.target = v.target
  /\ w.leaf.tracking = v.leaf.tracking /\ w.leaf.generation = v.leaf.generation
  /\ w.leaf.inFlight = v.buffer.requests + 1
  /\ w.request = [sequence |-> v.buffer.requests + 1, stamp |-> now,
                  generation |-> v.leaf.generation]

(* Asking for a solve takes the next number; the view stays sound.         *)
LEMMA DispatchedFacts ==
  ASSUME now \in Nat, ControlPeriod \in Nat, SolveTimeout \in Nat, NEW v, Sound(v)
  PROVE  /\ Sound(Dispatched(v))
         /\ Dispatched(v) = v \/ Asks(v, Dispatched(v))
<1>1. CASE ~DispatchDue(v)
  BY <1>1 DEF Dispatched
<1>2. CASE DispatchDue(v)
  <2> DEFINE w == Dispatched(v)
             sequence == v.buffer.requests + 1
             b == [v.buffer EXCEPT !.requests = sequence]
             l == [v.leaf EXCEPT !.inFlight = sequence, !.waiting = TRUE,
                                 !.lastRequest = NextRequestTime(v.leaf.lastRequest),
                                 !.deadline = now + SolveTimeout]
             q == [sequence |-> sequence, stamp |-> now, generation |-> v.leaf.generation]
  <2>1. v \in Views /\ v.leaf \in Leaves /\ v.buffer \in Buffers
    BY DEF Sound, Views
  <2>2. NextRequestTime(v.leaf.lastRequest) \in Nat /\ NextRequestTime(v.leaf.lastRequest) <= now
    <3>1. v.leaf.lastRequest \in Nat
      BY <2>1 DEF Leaves
    <3>2. v.leaf.lastRequest = Never \/ now - v.leaf.lastRequest >= ControlPeriod
      BY <1>2 DEF DispatchDue
    <3>3. QED
      BY <3>1, <3>2 DEF NextRequestTime
  <2>3. b \in Buffers /\ q \in Requests /\ l \in Leaves
    <3>1. b \in Buffers
      BY <2>1 DEF Buffers
    <3>2. sequence \in Nat \ {0} /\ v.leaf.generation \in Nat /\ now + SolveTimeout \in Nat
      BY <2>1 DEF Buffers, Leaves
    <3> HIDE DEF sequence
    <3>3. q \in Requests
      BY <3>2 DEF Requests
    <3>4. l \in Leaves
      BY <2>1, <2>2, <3>2 DEF Leaves
    <3>5. QED
      BY <3>1, <3>3, <3>4
  <2>4. /\ b.requests = sequence /\ b.generation = v.buffer.generation
        /\ b.generations = v.buffer.generations /\ b.latest = v.buffer.latest
    BY <2>1 DEF Buffers
  <2>5. /\ l.tracking = v.leaf.tracking /\ l.generation = v.leaf.generation
        /\ l.inFlight = sequence /\ l.consumed = v.leaf.consumed
        /\ l.lastRequest = NextRequestTime(v.leaf.lastRequest)
        /\ l.lastSuccess = v.leaf.lastSuccess /\ l.lastPublish = v.leaf.lastPublish
    BY <2>1 DEF Leaves
  <2>6. w = [[[v EXCEPT !.buffer = b] EXCEPT !.leaf = l] EXCEPT !.request = q]
    BY <1>2, <2>1 DEF Dispatched, Views
  <2> HIDE DEF w, b, l, q
  <2>7. /\ w \in Views /\ w.leaf = l /\ w.buffer = b /\ w.request = q
        /\ w.target = v.target /\ w.out = v.out
    BY <2>1, <2>3, <2>6 DEF Views
  <2>8. sequence \in Nat /\ v.buffer.requests \in Nat /\ v.buffer.requests < sequence
    BY <2>1 DEF Buffers
  <2> HIDE DEF sequence
  <2>9. /\ v.target # None => v.target.sequence \in Nat
        /\ v.buffer.latest # None => v.buffer.latest.sequence \in Nat
        /\ v.leaf.consumed \in Nat
    BY <2>1 DEF Views, Buffers, Results, Leaves
  <2>10. Sound(w)
    BY <2>2, <2>4, <2>5, <2>7, <2>8, <2>9 DEF Sound, Recent, Within
  <2>11. Asks(v, w)
    BY <2>4, <2>5, <2>7 DEF Asks, b, q, sequence
  <2>12. QED
    BY <2>10, <2>11 DEF w
<1>3. QED
  BY <1>1, <1>2

(* A tick of the tracking state, from the owner's view to what it leaves.  *)
LEMMA TrackedFacts ==
  ASSUME now \in Nat, Sound(View), GenerationActive(buffer, custom1.generation),
         Answered(View) => buffer.latest.generation = custom1.generation,
         NEW ending \in BOOLEAN
  PROVE  LET w == Tracked(ending) IN
         /\ Sound(w)
         /\ \/ Follows(View, w) /\ ~Answered(w)
            \/ /\ w.buffer = [buffer EXCEPT !.requests = @ + 1]
               /\ w.leaf.tracking = custom1.tracking /\ w.leaf.generation = custom1.generation
               /\ w.leaf.inFlight = buffer.requests + 1
               /\ w.request = [sequence |-> buffer.requests + 1, stamp |-> now,
                               generation |-> custom1.generation]
<1>1. ControlPeriod \in Nat /\ SolveTimeout \in Nat /\ ResultTimeout \in Nat
  BY TimingAssumption
<1>2. /\ View.leaf = custom1 /\ View.buffer = buffer /\ View.target = target
      /\ View.request = None
  BY DEF View
<1>3. Regenerated(View) = View
  BY <1>2 DEF Regenerated
<1> DEFINE c == Consumed(View, ending)
           v == TimedOut(c)
<1>4. Sound(c) /\ Follows(View, c) /\ ~Answered(c)
  BY <1>1, <1>2, ConsumedFacts
<1> HIDE DEF c
<1>5. Sound(v) /\ Follows(c, v)
  BY <1>4, TimedOutFacts
<1> HIDE DEF v
<1>6. ASSUME NEW u, Follows(v, u)
      PROVE  Follows(View, u) /\ ~Answered(u)
  BY <1>4, <1>5, <1>6 DEF Follows, Answered
<1>7. Sound(Publish(v, "Setpoint")) /\ Follows(v, Publish(v, "Setpoint"))
  BY <1>5, PublishFacts DEF Effects
<1>8. Sound(FinishPosted(v)) /\ Follows(v, FinishPosted(v))
  BY <1>5, FinishFacts
<1>9. Sound(BackedUp(v)) /\ Follows(v, BackedUp(v))
  BY <1>5, <1>7, FollowsItself DEF BackedUp
<1>10. Tracked(ending) \in {v, Publish(v, "Setpoint"), FinishPosted(v), Dispatched(BackedUp(v))}
  BY <1>3 DEF Tracked, c, v
<1>11. CASE Tracked(ending) \in {v, Publish(v, "Setpoint"), FinishPosted(v)}
  BY <1>5, <1>6, <1>7, <1>8, <1>11, FollowsItself
<1>12. CASE Tracked(ending) = Dispatched(BackedUp(v))
  <2> DEFINE u == BackedUp(v)
  <2>1. Sound(u) /\ Follows(View, u) /\ ~Answered(u)
    BY <1>6, <1>9
  <2> HIDE DEF u
  <2>2. Sound(Dispatched(u)) /\ (Dispatched(u) = u \/ Asks(u, Dispatched(u)))
    BY <1>1, <2>1, DispatchedFacts
  <2>3. Tracked(ending) = Dispatched(u)
    BY <1>12 DEF u
  <2>4. CASE Dispatched(u) = u
    BY <2>1, <2>2, <2>3, <2>4
  <2>5. CASE Asks(u, Dispatched(u))
    BY <1>2, <2>1, <2>2, <2>3, <2>5 DEF Asks, Follows
  <2>6. QED
    BY <2>2, <2>4, <2>5
<1>13. QED
  BY <1>10, <1>11, <1>12
-----------------------------------------------------------------------------
(* The inductive invariant.                                                *)
Typed ==
  /\ now \in 1 .. MaxTime /\ buffer.generations <= MaxGenerations
  /\ cache \in BOOLEAN /\ wake \in BOOLEAN /\ outputs \in Seq(Effects)
  /\ handoff \in Requests \cup {None} /\ job \in Requests \cup {None} /\ run \in Runs
  /\ service \in {"running", "closing", "stopping", "stopped"}

(* Whatever is on its way was asked for.                                   *)
Numbered ==
  /\ handoff # None => Within(handoff, buffer)
  /\ job # None => Within(job, buffer)
  /\ run.result # None => Within(run.result, buffer)

(* While the service runs, the entry flown has the active generation; what *)
(* the buffer holds is of that generation.  A stop leaves nothing to the   *)
(* owner, then no generation, and in the end no worker.                    *)
Telling == {"notifying", "calling"}
Current ==
  /\ service = "running" /\ custom1.tracking => GenerationActive(buffer, custom1.generation)
  /\ service # "running" => handoff = None
  /\ service \in {"stopping", "stopped"} => buffer.generation = 0
  /\ service = "stopped" => run = Idle
  /\ buffer.latest # None => buffer.latest.generation = buffer.generation
                           /\ buffer.generation # 0
  /\ custom1.waiting => custom1.tracking
  /\ run.phase \in Telling /\ GenerationActive(buffer, run.result.generation) =>
       buffer.latest.sequence >= run.result.sequence

(* The request waited for is the last one made, and its number is of this  *)
(* entry wherever it is found.                                             *)
Newest(c) == c.sequence = buffer.requests => c.generation = custom1.generation
Awaited ==
  /\ handoff # None => handoff.sequence = buffer.requests
  /\ custom1.waiting =>
       /\ custom1.inFlight = buffer.requests /\ custom1.inFlight # 0
       /\ Newest(handoff) /\ Newest(job) /\ Newest(run.result) /\ Newest(buffer.latest)

(* An answer waited for that has come is seen, or told by the worker that  *)
(* solved it.                                                              *)
Seen ==
  Answered(View) => \/ wake
                    \/ run.phase \in Telling /\ run.result.sequence = buffer.requests

IInv ==
  /\ Typed /\ Sound(View) /\ Numbered /\ Current /\ Awaited
  /\ AnswerIsComing /\ Seen /\ AttitudeOfThisEntry
-----------------------------------------------------------------------------
(* What the invariant says of the values the actions use.                  *)
LEMMA Values ==
  ASSUME Typed, Sound(View)
  PROVE  /\ now \in Nat /\ custom1 \in Leaves /\ buffer \in Buffers
         /\ target \in Results \cup {None}
         /\ None.sequence = 0
         /\ buffer.latest.sequence \in Nat
         /\ buffer.latest # None => buffer.latest \in Results /\ Within(buffer.latest, buffer)
         /\ buffer.generation <= buffer.generations
         /\ custom1.generation <= buffer.generations
         /\ custom1.inFlight <= buffer.requests
         /\ custom1.consumed <= buffer.requests
<1>1. View.leaf = custom1 /\ View.buffer = buffer /\ View.target = target
  BY DEF View
<1>2. View \in Views
  BY DEF Sound
<1>3. custom1 \in Leaves /\ buffer \in Buffers /\ target \in Results \cup {None}
  BY <1>1, <1>2 DEF Views
<1>4. None.sequence = 0
  BY DEF None
<1>5. buffer.latest \in Results \cup {None}
  BY <1>3 DEF Buffers
<1>6. buffer.latest.sequence \in Nat
  BY <1>4, <1>5 DEF Results
<1>7. now \in Nat
  BY TimingAssumption DEF Typed
<1>8. QED
  BY <1>1, <1>3, <1>4, <1>5, <1>6, <1>7 DEF Sound

(* A view of a state with no outputs yet is sound with the state.          *)
LEMMA ViewSound ==
  ASSUME Sound(View), custom1' = custom1, buffer' = buffer, target' = target,
         now \in Nat, now' \in Nat, now' >= now, Typed
  PROVE  Sound(View)'
<1>1. View' = View /\ View.out = <<>>
  BY DEF View
<1>2. "Attitude" \notin ToSet(<<>>)
  BY DEF ToSet
<1>3. /\ custom1 \in Leaves /\ buffer \in Buffers /\ target \in Results \cup {None}
      /\ buffer.latest \in Results \cup {None}
  BY Values DEF Buffers
<1>4. View.leaf = custom1 /\ View.buffer = buffer /\ View.target = target
  BY DEF View
<1>5. ASSUME NEW c, c \in Results, Within(c, buffer)
      PROVE  /\ c.sequence <= buffer.requests /\ c.generation <= buffer.generations
             /\ c.stamp <= now'
  BY <1>5 DEF Within, Results
<1>6. Sound(View)
  OBVIOUS
<1>7. QED
  BY <1>1, <1>2, <1>3, <1>4, <1>5 DEF Sound, Recent, Within, Leaves

(* Storing a result: it replaces an older one of the active generation.    *)
LEMMA StoreFacts ==
  ASSUME NEW b \in Buffers, NEW result \in Results
  PROVE  LET n == Store(b, result) IN
         /\ n \in Buffers /\ n.generation = b.generation /\ n.generations = b.generations
         /\ n.requests = b.requests
         /\ Admits(b, result) =>
              /\ n.latest = result /\ GenerationActive(b, result.generation)
              /\ result.sequence <= b.requests /\ result.sequence > b.latest.sequence
         /\ ~Admits(b, result) => n = b
  BY DEF Store, Admits, Buffers, Results

(* The invariant holds at first.                                           *)
LEMMA InitKeeps == Init => IInv
<1> SUFFICES ASSUME Init PROVE IInv
  OBVIOUS
<1>1. MaxTime \in Nat \ {0} /\ MaxGenerations \in Nat
  BY TimingAssumption
<1>2. "Attitude" \notin ToSet(<<>>) /\ <<>> \in Seq(Effects)
  BY DEF ToSet
<1>3. custom1 \in Leaves /\ buffer \in Buffers
  BY DEF Init, Leaves, Buffers, Never
<1>4. View \in Views
  BY <1>2, <1>3 DEF Init, View, Views
<1>5. Sound(View)
  BY <1>2, <1>4 DEF Init, Sound, View, Never
<1>6. Typed
  <2>1. now \in 1 .. MaxTime /\ buffer.generations <= MaxGenerations
    BY <1>1 DEF Init
  <2>2. run \in Runs
    BY DEF Init, Runs
  <2>3. QED
    BY <1>2, <2>1, <2>2 DEF Init, Typed
<1>7. Numbered /\ Current /\ Awaited
  <2>1. run.result = None /\ run.phase = "idle"
    BY DEF Init, Idle
  <2>2. Numbered
    BY <2>1 DEF Init, Numbered
  <2>3. Current
    BY <2>1 DEF Init, Current, Telling
  <2>4. Awaited
    BY DEF Init, Awaited
  <2>5. QED
    BY <2>2, <2>3, <2>4
<1>8. AnswerIsComing /\ Seen /\ AttitudeOfThisEntry
  BY <1>2 DEF Init, AnswerIsComing, Seen, Answered, View, AttitudeOfThisEntry, Commands
<1>9. QED
  BY <1>5, <1>6, <1>7, <1>8 DEF IInv

(* A step that leaves the owner's data alone leaves its view sound.        *)
LEMMA OwnerRests ==
  ASSUME IInv, UNCHANGED <<now, custom1, buffer, target, outputs>>
  PROVE  Sound(View)' /\ AttitudeOfThisEntry' /\ (Answered(View)' <=> Answered(View))
<1>1. now \in Nat
  BY Values DEF IInv
<1>2. Sound(View)'
  BY <1>1, ViewSound DEF IInv
<1>3. QED
  BY <1>2 DEF IInv, AttitudeOfThisEntry, Commands, Answered, View, NewerThan

(* A turn of the tracking state keeps it, whether it stays or leaves.      *)
LEMMA TurnKeeps == IInv /\ Turn => IInv'
<1> SUFFICES ASSUME IInv, Turn PROVE IInv'
  OBVIOUS
<1> USE DEF IInv
<1>1. /\ now \in Nat /\ custom1 \in Leaves /\ buffer \in Buffers
      /\ target \in Results \cup {None} /\ None.sequence = 0
      /\ buffer.latest.sequence \in Nat
      /\ buffer.latest # None => buffer.latest \in Results /\ Within(buffer.latest, buffer)
      /\ buffer.generation <= buffer.generations
      /\ custom1.generation <= buffer.generations
  BY Values
<1>2. /\ custom1.tracking /\ service = "running" /\ handoff = None
      /\ UNCHANGED <<now, cache, job, run, service>>
  BY DEF Turn, OwnerFree, worker
<1>3. GenerationActive(buffer, custom1.generation)
  BY <1>2 DEF Current
<1>4. View.leaf = custom1 /\ View.buffer = buffer /\ View.target = target /\ View.request = None
  BY DEF View
<1>5. Answered(View) => buffer.latest.generation = custom1.generation
  BY <1>4 DEF Answered, Awaited, Newest
<1>6. PICK ending \in BOOLEAN, leaves \in BOOLEAN :
        LET w == Tracked(ending)
            v == IF leaves THEN Left(w) ELSE w
        IN /\ custom1' = v.leaf /\ buffer' = v.buffer /\ target' = v.target
           /\ outputs' = v.out /\ handoff' = v.request
           /\ wake' \in BOOLEAN
  BY Zenon DEF Turn
<1> DEFINE w == Tracked(ending)
<1>7. /\ Sound(w)
      /\ \/ Follows(View, w) /\ ~Answered(w)
         \/ /\ w.buffer = [buffer EXCEPT !.requests = @ + 1]
            /\ w.leaf.tracking = custom1.tracking /\ w.leaf.generation = custom1.generation
            /\ w.leaf.inFlight = buffer.requests + 1
            /\ w.request = [sequence |-> buffer.requests + 1, stamp |-> now,
                            generation |-> custom1.generation]
  BY <1>1, <1>3, <1>5, TrackedFacts
<1> HIDE DEF w
<1>8. w \in Views /\ w.leaf \in Leaves /\ w.buffer \in Buffers /\ w.out \in Seq(Effects)
      /\ w.request \in Requests \cup {None}
  BY <1>7 DEF Sound, Views
<1>9. /\ w.buffer.generation = buffer.generation /\ w.buffer.generations = buffer.generations
      /\ w.buffer.latest = buffer.latest /\ w.buffer.requests >= buffer.requests
      /\ w.leaf.generation = custom1.generation /\ w.leaf.tracking
      /\ w.request # None => /\ w.buffer.requests = buffer.requests + 1
                             /\ w.request.sequence = w.buffer.requests
                             /\ w.request.generation = custom1.generation
                             /\ w.request.stamp = now
                             /\ w.leaf.inFlight = w.buffer.requests
      /\ w.request = None => /\ w.buffer = buffer
                             /\ w.leaf.inFlight = custom1.inFlight
                             /\ w.leaf.waiting => custom1.waiting /\ w.leaf.consumed = custom1.consumed
                             /\ ~Answered(w)
  <2>1. CASE Follows(View, w) /\ ~Answered(w)
    BY <1>1, <1>2, <1>4, <2>1 DEF Follows, Buffers
  <2>2. CASE /\ w.buffer = [buffer EXCEPT !.requests = @ + 1]
             /\ w.leaf.tracking = custom1.tracking /\ w.leaf.generation = custom1.generation
             /\ w.leaf.inFlight = buffer.requests + 1
             /\ w.request = [sequence |-> buffer.requests + 1, stamp |-> now,
                             generation |-> custom1.generation]
    <3>1. w.request.sequence = buffer.requests + 1
      BY <2>2
    <3>2. buffer.requests \in Nat
      BY <1>1 DEF Buffers
    <3>3. w.request # None
      BY <1>1, <3>1, <3>2
    <3>4. QED
      BY <1>1, <1>2, <2>2, <3>2, <3>3 DEF Buffers
  <2>3. QED
    BY <1>7, <2>1, <2>2
<1>10. "Attitude" \notin ToSet(<<>>) /\ <<>> \in Seq(Effects)
  BY DEF ToSet
<1>11. w.buffer.requests \in Nat /\ buffer.requests \in Nat /\ buffer.latest.sequence <= buffer.requests
  BY <1>1, <1>8 DEF Buffers, Within
<1>12. /\ custom1' \in Leaves /\ buffer' \in Buffers
       /\ target' = w.target /\ outputs' = w.out /\ handoff' = w.request /\ wake' \in BOOLEAN
       /\ buffer'.requests = w.buffer.requests /\ buffer'.generations = w.buffer.generations
       /\ custom1'.generation = w.leaf.generation /\ custom1'.inFlight = w.leaf.inFlight
       /\ custom1'.consumed = w.leaf.consumed /\ custom1'.lastSuccess = w.leaf.lastSuccess
       /\ custom1'.lastPublish = w.leaf.lastPublish /\ custom1'.lastRequest = w.leaf.lastRequest
       /\ \/ custom1' = w.leaf /\ buffer' = w.buffer
          \/ /\ ~custom1'.waiting /\ ~custom1'.tracking
             /\ buffer'.generation = 0 /\ buffer'.latest = None
  <2>1. CASE ~leaves
    BY <1>6, <1>8, <2>1 DEF w
  <2>2. CASE leaves
    <3> DEFINE l == [w.leaf EXCEPT !.tracking = FALSE, !.waiting = FALSE]
               b == [w.buffer EXCEPT !.generation = 0, !.latest = None]
    <3>1. Invalidate(w.buffer, w.leaf.generation) = b
      BY <1>3, <1>9 DEF Invalidate, GenerationActive
    <3>2. Left(w) = [[w EXCEPT !.buffer = b] EXCEPT !.leaf = l]
      BY <1>8, <3>1 DEF Left, Views
    <3>3. l \in Leaves /\ l.generation = w.leaf.generation /\ l.inFlight = w.leaf.inFlight
          /\ l.consumed = w.leaf.consumed /\ l.lastSuccess = w.leaf.lastSuccess
          /\ l.lastPublish = w.leaf.lastPublish /\ l.lastRequest = w.leaf.lastRequest
          /\ ~l.waiting /\ ~l.tracking
      BY <1>8 DEF Leaves
    <3>4. b \in Buffers /\ b.requests = w.buffer.requests /\ b.generation = 0
          /\ b.generations = w.buffer.generations /\ b.latest = None
      BY <1>8 DEF Buffers
    <3> HIDE DEF l, b
    <3>5. /\ Left(w).leaf = l /\ Left(w).buffer = b /\ Left(w).target = w.target
          /\ Left(w).out = w.out /\ Left(w).request = w.request
      BY <1>8, <3>2 DEF Views
    <3>6. /\ custom1' = Left(w).leaf /\ buffer' = Left(w).buffer /\ target' = Left(w).target
          /\ outputs' = Left(w).out /\ handoff' = Left(w).request /\ wake' \in BOOLEAN
      BY <1>6, <2>2 DEF w
    <3>7. QED
      BY <3>3, <3>4, <3>5, <3>6
  <2>3. QED
    BY <2>1, <2>2
<1>13. Sound(View)'
  <2>1. /\ View'.leaf = custom1' /\ View'.buffer = buffer' /\ View'.target = target'
        /\ View'.out = <<>> /\ View' \in Views
    BY <1>8, <1>10, <1>12 DEF View, Views
  <2>2. target' # None => Within(w.target, w.buffer)
    BY <1>7, <1>12 DEF Sound
  <2>3. buffer'.latest # None => buffer' = w.buffer /\ Within(w.buffer.latest, w.buffer)
    BY <1>7, <1>12 DEF Sound
  <2>4. custom1'.lastSuccess # Never => Recent(w)
    BY <1>7, <1>12 DEF Sound
  <2>5. buffer'.generation <= buffer'.generations
    BY <1>7, <1>12 DEF Sound, Buffers
  <2>6. QED
    BY <1>2, <1>7, <1>10, <1>12, <2>1, <2>2, <2>3, <2>4, <2>5 DEF Sound, Recent, Within
<1>14. Typed'
  BY <1>2, <1>8, <1>9, <1>12 DEF Typed
<1>15. Numbered'
  <2>1. ASSUME NEW c, Within(c, buffer), c.sequence \in Nat
        PROVE  /\ c.sequence <= buffer'.requests /\ c.generation <= buffer'.generations
               /\ c.stamp <= now'
    BY <1>2, <1>9, <1>11, <1>12, <2>1 DEF Within
  <2>2. /\ job # None => job.sequence \in Nat
        /\ run.result # None => run.result.sequence \in Nat
    BY DEF Typed, Runs, Requests, Results, Idle
  <2>3. handoff' # None => Within(handoff, buffer)'
    BY <1>1, <1>2, <1>9, <1>11, <1>12 DEF Within
  <2>4. (job # None => Within(job, buffer)) /\ (run.result # None => Within(run.result, buffer))
    BY DEF Numbered
  <2>5. job' = job /\ run' = run
    BY <1>2
  <2>6. job' # None => Within(job, buffer)'
    BY <2>1, <2>2, <2>4, <2>5 DEF Within
  <2>7. run'.result # None => Within(run.result, buffer)'
    BY <2>1, <2>2, <2>4, <2>5 DEF Within
  <2>8. QED
    BY <2>3, <2>6, <2>7 DEF Numbered
<1>16. Current'
  BY <1>2, <1>3, <1>9, <1>12 DEF Current, GenerationActive
<1>17. /\ (job # None => job.sequence <= buffer.requests)
       /\ (run.result # None => run.result.sequence <= buffer.requests)
       /\ job.sequence \in Nat /\ run.result.sequence \in Nat
  BY <1>1 DEF Numbered, Within, Typed, Runs, Requests, Results, Idle
<1>18. Awaited'
  <2>1. CASE w.request # None
    BY <1>1, <1>2, <1>9, <1>11, <1>12, <1>17, <2>1 DEF Awaited, Newest
  <2>2. CASE w.request = None
    BY <1>2, <1>9, <1>12, <2>2 DEF Awaited, Newest
  <2>3. QED
    BY <2>1, <2>2
<1>19. AnswerIsComing'
  <2>1. CASE w.request # None
    BY <1>9, <1>12, <2>1 DEF AnswerIsComing
  <2>2. CASE w.request = None
    BY <1>2, <1>3, <1>9, <1>12, <2>2 DEF AnswerIsComing, GenerationActive
  <2>3. QED
    BY <2>1, <2>2
<1>20. Seen'
  <2>1. ~Answered(View)'
    <3>1. View'.leaf = custom1' /\ View'.buffer = buffer'
      BY DEF View
    <3>2. CASE w.request # None
      BY <1>1, <1>9, <1>11, <1>12, <3>1, <3>2 DEF Answered, NewerThan
    <3>3. CASE w.request = None
      BY <1>9, <1>12, <3>1, <3>3 DEF Answered, NewerThan
    <3>4. QED
      BY <3>2, <3>3
  <2>2. QED
    BY <2>1 DEF Seen
<1>21. AttitudeOfThisEntry'
  BY <1>7, <1>12 DEF Sound, AttitudeOfThisEntry, Commands
<1>22. QED
  BY <1>13, <1>14, <1>15, <1>16, <1>18, <1>19, <1>20, <1>21

(* An entry begins a generation no request or result was made for.         *)
LEMMA EnterKeeps == IInv /\ Enter => IInv'
<1> SUFFICES ASSUME IInv, Enter PROVE IInv'
  OBVIOUS
<1> USE DEF IInv
<1>1. /\ now \in Nat /\ custom1 \in Leaves /\ buffer \in Buffers
      /\ target \in Results \cup {None} /\ None.sequence = 0
  BY Values
<1>2. /\ service = "running" /\ handoff = None /\ buffer.generations < MaxGenerations
      /\ buffer' = Begin(buffer) /\ custom1' = FreshEntry(buffer') /\ cache' = FALSE
      /\ outputs' = <<>> /\ wake' = TRUE
      /\ UNCHANGED <<now, target, handoff, job, run, service>>
  BY DEF Enter, OwnerFree, worker
<1>3. /\ buffer' \in Buffers /\ buffer'.generation = buffer.generations + 1
      /\ buffer'.generations = buffer.generations + 1
      /\ buffer'.requests = buffer.requests /\ buffer'.latest = None
  <2>1. buffer.generations + 1 \in Nat
    BY <1>1 DEF Buffers
  <2>2. buffer' = [buffer EXCEPT !.generation = buffer.generations + 1,
                                 !.generations = buffer.generations + 1, !.latest = None]
    BY <1>2 DEF Begin
  <2> DEFINE n == buffer.generations + 1
  <2>3. n \in Nat /\ buffer' = [buffer EXCEPT !.generation = n, !.generations = n, !.latest = None]
    BY <2>1, <2>2
  <2> HIDE DEF n
  <2>4. buffer' \in Buffers
    BY <1>1, <2>3 DEF Buffers
  <2>5. /\ buffer'.generation = n /\ buffer'.generations = n
        /\ buffer'.requests = buffer.requests /\ buffer'.latest = None
    BY <1>1, <2>3 DEF Buffers
  <2>6. QED
    BY <2>4, <2>5 DEF n
<1>4. /\ custom1' \in Leaves /\ custom1'.tracking /\ ~custom1'.waiting
      /\ custom1'.generation = buffer.generations + 1
      /\ custom1'.inFlight = 0 /\ custom1'.consumed = buffer.requests
      /\ custom1'.lastSuccess = Never /\ custom1'.lastPublish = 0 /\ custom1'.lastRequest = 0
  BY <1>2, <1>3 DEF FreshEntry, Leaves, Buffers, Never
<1>5. "Attitude" \notin ToSet(<<>>) /\ <<>> \in Seq(Effects)
  BY DEF ToSet
<1>6. buffer.generations \in Nat /\ buffer.requests \in Nat /\ MaxGenerations \in Nat
  BY <1>1, TimingAssumption DEF Buffers
<1>7. Sound(View)'
  <2>1. /\ View'.leaf = custom1' /\ View'.buffer = buffer' /\ View'.target = target
        /\ View'.out = <<>> /\ View' \in Views
    BY <1>1, <1>2, <1>3, <1>4, <1>5 DEF View, Views
  <2>2. target # None => Within(target, buffer)
    BY DEF Sound, View
  <2>3. target # None => target.generation \in Nat
    BY <1>1 DEF Results
  <2>4. target # None => Within(target, buffer)'
    BY <1>2, <1>3, <1>6, <2>2, <2>3 DEF Within
  <2>5. /\ custom1'.lastPublish <= now' /\ custom1'.lastRequest <= now'
        /\ custom1'.lastSuccess = Never /\ custom1'.lastSuccess <= now'
    BY <1>1, <1>2, <1>4 DEF Never
  <2>6. /\ custom1'.inFlight <= buffer'.requests /\ custom1'.consumed <= buffer'.requests
        /\ custom1'.generation <= buffer'.generations
        /\ buffer'.generation <= buffer'.generations
    BY <1>3, <1>4, <1>6
  <2>7. QED
    BY <1>2, <1>3, <1>5, <2>1, <2>4, <2>5, <2>6 DEF Sound, Within
<1>8. Typed'
  <2>1. buffer'.generations <= MaxGenerations
    BY <1>2, <1>3, <1>6
  <2>2. QED
    BY <1>2, <1>5, <2>1 DEF Typed
<1>9. Numbered'
  <2>1. ASSUME NEW c, Within(c, buffer), c.generation \in Nat
        PROVE  /\ c.sequence <= buffer'.requests /\ c.generation <= buffer'.generations
               /\ c.stamp <= now'
    BY <1>2, <1>3, <1>6, <2>1 DEF Within
  <2>2. (job # None => job.generation \in Nat)
        /\ (run.result # None => run.result.generation \in Nat)
    BY DEF Typed, Runs, Requests, Results, Idle
  <2>3. (job # None => Within(job, buffer)) /\ (run.result # None => Within(run.result, buffer))
    BY DEF Numbered
  <2>4. QED
    BY <1>2, <2>1, <2>2, <2>3 DEF Numbered, Within
<1>10. Current'
  <2>1. ASSUME run.phase \in Telling
        PROVE  run.result.generation <= buffer.generations /\ run.result.generation \in Nat
    <3>1. run.result \in Results
      BY <2>1 DEF Typed, Runs, Idle, Telling
    <3>2. run.result # None
      BY <1>1, <3>1 DEF Results
    <3>3. QED
      BY <3>1, <3>2 DEF Numbered, Within, Results
  <2>2. QED
    BY <1>2, <1>3, <1>4, <1>6, <2>1 DEF Current, GenerationActive
<1>11. Awaited' /\ AnswerIsComing' /\ Seen'
  BY <1>2, <1>4 DEF Awaited, AnswerIsComing, Seen, Answered, View
<1>12. AttitudeOfThisEntry'
  BY <1>2, <1>5 DEF AttitudeOfThisEntry, Commands
<1>13. QED
  BY <1>7, <1>8, <1>9, <1>10, <1>11, <1>12

(* Storing an answer that was asked for.                                   *)
LEMMA StoreKeeps ==
  ASSUME IInv, NEW result \in Results, Within(result, buffer),
         custom1.waiting => Newest(result),
         buffer' = Store(buffer, result), UNCHANGED <<now, custom1, target, outputs>>
  PROVE  /\ Sound(View)' /\ AttitudeOfThisEntry'
         /\ buffer'.generation = buffer.generation /\ buffer'.generations = buffer.generations
         /\ buffer'.requests = buffer.requests
         /\ buffer'.latest.sequence >= buffer.latest.sequence
         /\ buffer'.latest.sequence \in Nat
         /\ buffer'.latest.sequence <= buffer.requests
         /\ (buffer'.latest # None => buffer'.latest.generation = buffer.generation
                                      /\ buffer.generation # 0)
         /\ (custom1.waiting => Newest(buffer'.latest))
         /\ (GenerationActive(buffer, result.generation) =>
                buffer'.latest.sequence >= result.sequence)
         /\ (Admits(buffer, result) => buffer'.latest = result
                                       /\ GenerationActive(buffer, result.generation))
         /\ (~Admits(buffer, result) => buffer' = buffer)
<1> USE DEF IInv
<1>1. /\ now \in Nat /\ custom1 \in Leaves /\ buffer \in Buffers
      /\ target \in Results \cup {None} /\ None.sequence = 0
      /\ buffer.latest.sequence \in Nat
      /\ buffer.latest # None => buffer.latest \in Results /\ Within(buffer.latest, buffer)
  BY Values
<1>2. /\ buffer' \in Buffers /\ buffer'.generation = buffer.generation
      /\ buffer'.generations = buffer.generations /\ buffer'.requests = buffer.requests
      /\ Admits(buffer, result) =>
           /\ buffer'.latest = result /\ GenerationActive(buffer, result.generation)
           /\ result.sequence <= buffer.requests /\ result.sequence > buffer.latest.sequence
      /\ ~Admits(buffer, result) => buffer' = buffer
  BY <1>1, StoreFacts
<1>3. result.sequence \in Nat \ {0} /\ buffer.requests \in Nat /\ result.sequence <= buffer.requests
  BY <1>1 DEF Results, Buffers, Within
<1>4. GenerationActive(buffer, result.generation) =>
        buffer'.latest.sequence >= result.sequence
  BY <1>1, <1>2, <1>3 DEF Admits
<1>5. /\ buffer'.latest.sequence >= buffer.latest.sequence
      /\ buffer'.latest.sequence \in Nat
      /\ buffer'.latest.sequence <= buffer.requests
  BY <1>1, <1>2, <1>3 DEF Within
<1>6. buffer'.latest # None => buffer'.latest.generation = buffer.generation
                              /\ buffer.generation # 0
  BY <1>2 DEF Current, GenerationActive
<1>7. custom1.waiting => Newest(buffer'.latest)
  BY <1>2 DEF Awaited
<1>8. Sound(View)'
  <2>1. "Attitude" \notin ToSet(<<>>) /\ <<>> \in Seq(Effects)
    BY DEF ToSet
  <2>2. /\ View'.leaf = custom1 /\ View'.buffer = buffer' /\ View'.target = target
        /\ View'.out = <<>> /\ View' \in Views
    BY <1>1, <1>2, <2>1 DEF View, Views
  <2>3. View.leaf = custom1 /\ View.buffer = buffer /\ View.target = target
    BY DEF View
  <2>4. buffer'.latest # None => Within(buffer'.latest, buffer)
    BY <1>1, <1>2
  <2>5. QED
    BY <1>2, <2>1, <2>2, <2>3, <2>4 DEF Sound, Recent, Within
<1>9. AttitudeOfThisEntry'
  BY DEF AttitudeOfThisEntry, Commands
<1>10. QED
  BY <1>2, <1>4, <1>5, <1>6, <1>7, <1>8, <1>9

(* What is on its way has the numbers of a request.                        *)
LEMMA OnItsWay ==
  ASSUME IInv
  PROVE  /\ None.sequence = 0 /\ buffer.requests \in Nat
         /\ handoff.sequence \in Nat /\ job.sequence \in Nat /\ run.result.sequence \in Nat
         /\ handoff.sequence <= buffer.requests /\ job.sequence <= buffer.requests
         /\ run.result.sequence <= buffer.requests
         /\ run.phase \in {"idle", "solving", "solved", "notifying", "calling"}
         /\ run.phase = "idle" => run = Idle /\ run.result = None
         /\ run.phase = "solving" => run.result \in Requests /\ run.result # None
         /\ run.phase \in {"solved", "notifying", "calling"} =>
              run.result \in Results /\ run.result # None
<1> USE DEF IInv
<1>1. None.sequence = 0 /\ buffer.requests \in Nat
  BY Values DEF Buffers
<1>2. handoff \in Requests \cup {None} /\ job \in Requests \cup {None} /\ run \in Runs
  BY DEF Typed
<1>3. \A c \in Requests \cup Results : c.sequence \in Nat \ {0} /\ c # None
  BY <1>1 DEF Requests, Results
<1>4. /\ run.phase \in {"idle", "solving", "solved", "notifying", "calling"}
      /\ run.phase = "idle" => run = Idle /\ run.result = None
      /\ run.phase = "solving" => run.result \in Requests
      /\ run.phase \in {"solved", "notifying", "calling"} => run.result \in Results
  BY <1>2 DEF Runs, Idle
<1>5. run.result \in Requests \cup Results \cup {None}
  BY <1>4
<1>6. QED
  BY <1>1, <1>2, <1>3, <1>4, <1>5 DEF Numbered, Within

(* A request handed over is refused, accepted, or of an earlier entry.     *)
LEMMA HandleKeeps == IInv /\ Handle => IInv'
<1> SUFFICES ASSUME IInv, Handle PROVE IInv'
  OBVIOUS
<1> USE DEF IInv
<1>1. /\ handoff # None /\ handoff' = None /\ handoff \in Requests /\ Within(handoff, buffer)
      /\ UNCHANGED <<now, custom1, cache, target, outputs, service, run>>
  BY DEF Handle, Typed, Numbered, worker, Rejected, Submitted
<1>2. /\ None.sequence = 0 /\ buffer.requests \in Nat /\ handoff.sequence = buffer.requests
      /\ job.sequence <= buffer.requests /\ run.result.sequence <= buffer.requests
      /\ job.sequence \in Nat /\ run.result.sequence \in Nat
  BY <1>1, OnItsWay DEF Awaited
<1>3. handoff.sequence # 0 /\ service = "running"
  BY <1>1 DEF Requests, Current, Typed
<1>4. ASSUME NEW outcome \in Outcomes, Rejected(outcome),
             GenerationActive(buffer, handoff.generation)
      PROVE  IInv'
  <2> DEFINE result == Answer(handoff, outcome)
  <2>1. /\ result \in Results /\ result.sequence = handoff.sequence
        /\ result.generation = handoff.generation /\ result.stamp = handoff.stamp
    BY <1>1 DEF Answer, Requests, Results
  <2>2. /\ buffer' = Store(buffer, result) /\ job' = job
        /\ wake' = (wake \/ Admits(buffer, result))
    BY <1>4 DEF Rejected, worker
  <2> HIDE DEF result
  <2>3. Within(result, buffer) /\ (custom1.waiting => Newest(result))
    BY <1>1, <2>1 DEF Within, Awaited, Newest
  <2>4. /\ Sound(View)' /\ AttitudeOfThisEntry'
        /\ buffer'.generation = buffer.generation /\ buffer'.generations = buffer.generations
        /\ buffer'.requests = buffer.requests
        /\ buffer'.latest.sequence >= buffer.latest.sequence
        /\ buffer'.latest.sequence \in Nat
        /\ buffer'.latest.sequence <= buffer.requests
        /\ (buffer'.latest # None => buffer'.latest.generation = buffer.generation
                                     /\ buffer.generation # 0)
        /\ (custom1.waiting => Newest(buffer'.latest))
        /\ (GenerationActive(buffer, result.generation) =>
               buffer'.latest.sequence >= result.sequence)
        /\ (Admits(buffer, result) => buffer'.latest = result)
        /\ (~Admits(buffer, result) => buffer' = buffer)
    BY <1>1, <2>1, <2>2, <2>3, StoreKeeps
  <2>5. Typed'
    BY <1>1, <2>2, <2>4 DEF Typed
  <2>6. Numbered'
    BY <1>1, <2>2, <2>4 DEF Numbered, Within
  <2>7. Current'
    <3>1. buffer.latest.sequence \in Nat
      BY Values
    <3>2. run.phase \in Telling => run.result.sequence \in Nat
      BY <1>2
    <3>3. QED
      BY <1>1, <1>3, <2>4, <3>1, <3>2 DEF Current, GenerationActive
  <2>8. Awaited'
    BY <1>1, <1>2, <1>3, <2>2, <2>4 DEF Awaited, Newest
  <2>9. AnswerIsComing'
    <3>1. buffer'.latest.sequence = buffer.requests
      BY <1>2, <1>4, <2>1, <2>4
    <3>2. QED
      BY <1>1, <2>4, <3>1 DEF AnswerIsComing, Awaited
  <2>10. Seen'
    <3>1. CASE Admits(buffer, result)
      BY <2>2, <3>1 DEF Seen
    <3>2. CASE ~Admits(buffer, result)
      <4>1. buffer' = buffer /\ (Answered(View)' <=> Answered(View))
        BY <1>1, <2>4, <3>2 DEF Answered, View, NewerThan
      <4>2. QED
        BY <1>1, <2>2, <4>1 DEF Seen
    <3>3. QED
      BY <3>1, <3>2
  <2>11. QED
    BY <2>4, <2>5, <2>6, <2>7, <2>8, <2>9, <2>10
<1>5. ASSUME buffer' = buffer, wake' = wake,
             \/ job' = job /\ ~GenerationActive(buffer, handoff.generation)
             \/ job = None /\ job' = handoff
      PROVE  IInv'
  <2>1. Sound(View)' /\ AttitudeOfThisEntry' /\ (Answered(View)' <=> Answered(View))
    BY <1>1, <1>5, OwnerRests
  <2>2. Typed'
    BY <1>1, <1>5 DEF Typed
  <2>3. Numbered'
    BY <1>1, <1>5 DEF Numbered, Within
  <2>4. Current'
    BY <1>1, <1>5 DEF Current, GenerationActive
  <2>5. Awaited'
    BY <1>1, <1>2, <1>3, <1>5 DEF Awaited, Newest
  <2>6. AnswerIsComing'
    BY <1>1, <1>2, <1>5 DEF AnswerIsComing, Awaited, Newest, GenerationActive
  <2>7. Seen'
    BY <1>1, <1>5, <2>1 DEF Seen
  <2>8. QED
    BY <2>1, <2>2, <2>3, <2>4, <2>5, <2>6, <2>7
<1>6. CASE GenerationActive(buffer, handoff.generation)
  <2>1. \/ \E outcome \in {"sampling", "failure"} : Rejected(outcome)
        \/ Submitted
    BY <1>6 DEF Handle
  <2>2. CASE Submitted
    BY <1>5, <2>2 DEF Submitted
  <2>3. QED
    BY <1>4, <1>6, <2>1, <2>2 DEF Outcomes
<1>7. CASE ~GenerationActive(buffer, handoff.generation)
  BY <1>5, <1>7 DEF Handle, worker
<1>8. QED
  BY <1>6, <1>7

(* The worker takes a request and solves it.                               *)
LEMMA WorkerKeeps == IInv /\ (Take \/ Solve) => IInv'
<1> SUFFICES ASSUME IInv, Take \/ Solve PROVE IInv'
  OBVIOUS
<1> USE DEF IInv
<1>1. UNCHANGED <<now, custom1, cache, target, outputs, handoff, service, buffer, wake>>
  BY DEF Take, Solve, ownerState
<1>2. Sound(View)' /\ AttitudeOfThisEntry' /\ (Answered(View)' <=> Answered(View))
  BY <1>1, OwnerRests
<1>3. \/ /\ run = Idle /\ service = "running"
         /\ job # None /\ job' = None /\ job \in Requests
         /\ run' = [phase |-> "solving", result |-> job]
      \/ \E outcome \in Outcomes :
           /\ run.phase = "solving" /\ job' = job
           /\ run' = [phase |-> "solved", result |-> Answer(run.result, outcome)]
  BY DEF Take, Solve, Outcomes, Typed
<1>4. CASE /\ run = Idle /\ service = "running"
           /\ job # None /\ job' = None /\ job \in Requests
           /\ run' = [phase |-> "solving", result |-> job]
  <2>1. run'.phase = "solving" /\ run'.result = job /\ run' \in Runs
    BY <1>4 DEF Runs
  <2>2. run.phase = "idle" /\ run.result = None /\ None.sequence = 0
    BY <1>4 DEF Idle, None
  <2>3. Typed' /\ Numbered' /\ Current' /\ Awaited' /\ Seen'
    <3>1. Typed'
      BY <1>1, <1>4, <2>1 DEF Typed
    <3>2. Numbered'
      BY <1>1, <1>4, <2>1 DEF Numbered, Within
    <3>3. Current'
      BY <1>1, <1>4, <2>1 DEF Current, GenerationActive, Telling
    <3>4. Awaited'
      BY <1>1, <1>4, <2>1, <2>2 DEF Awaited, Newest
    <3>5. Seen'
      BY <1>1, <1>2, <2>2 DEF Seen, Telling
    <3>6. QED
      BY <3>1, <3>2, <3>3, <3>4, <3>5
  <2>4. AnswerIsComing'
    BY <1>1, <1>4, <2>1, <2>2 DEF AnswerIsComing, GenerationActive, Awaited
  <2>5. QED
    BY <1>2, <2>3, <2>4
<1>5. ASSUME NEW outcome \in Outcomes, run.phase = "solving", job' = job,
             run' = [phase |-> "solved", result |-> Answer(run.result, outcome)]
      PROVE  IInv'
  <2> DEFINE answer == Answer(run.result, outcome)
  <2>1. run.result \in Requests /\ run.result # None /\ None.sequence = 0
    BY <1>5, OnItsWay
  <2>2. /\ answer \in Results /\ answer # None /\ answer.sequence = run.result.sequence
        /\ answer.generation = run.result.generation /\ answer.stamp = run.result.stamp
    BY <2>1 DEF Answer, Requests, Results
  <2>3. run'.phase = "solved" /\ run'.result = answer
    BY <1>5
  <2>4. run' \in Runs
    BY <1>5, <2>2 DEF Runs
  <2> HIDE DEF answer
  <2>5. Typed'
    BY <1>1, <1>5, <2>4 DEF Typed
  <2>6. Numbered'
    BY <1>1, <1>5, <2>1, <2>2, <2>3 DEF Numbered, Within
  <2>7. Current'
    BY <1>1, <1>5, <2>3 DEF Current, GenerationActive, Telling, Idle
  <2>8. Awaited'
    BY <1>1, <1>5, <2>2, <2>3 DEF Awaited, Newest
  <2>9. AnswerIsComing'
    BY <1>1, <1>5, <2>2, <2>3 DEF AnswerIsComing, GenerationActive
  <2>10. Seen'
    BY <1>1, <1>2, <1>5 DEF Seen, Telling
  <2>11. QED
    BY <1>2, <2>5, <2>6, <2>7, <2>8, <2>9, <2>10
<1>6. QED
  BY <1>3, <1>4, <1>5

(* A result stored by the worker is the one waited for, or older.          *)
LEMMA StoreResultKeeps == IInv /\ StoreResult => IInv'
<1> SUFFICES ASSUME IInv, StoreResult PROVE IInv'
  OBVIOUS
<1> USE DEF IInv
<1>1. /\ run.phase = "solved" /\ buffer' = Store(buffer, run.result)
      /\ UNCHANGED <<now, custom1, cache, target, outputs, handoff, service, job, wake>>
  BY DEF StoreResult, ownerState
<1>2. /\ run.result \in Results /\ run.result # None /\ None.sequence = 0
      /\ run.result.sequence <= buffer.requests /\ run.result.sequence \in Nat
      /\ buffer.requests \in Nat /\ run \in Runs
  BY <1>1, OnItsWay DEF Typed
<1>3. Within(run.result, buffer) /\ (custom1.waiting => Newest(run.result))
  BY <1>2 DEF Numbered, Awaited
<1>4. /\ Sound(View)' /\ AttitudeOfThisEntry'
      /\ buffer'.generation = buffer.generation /\ buffer'.generations = buffer.generations
      /\ buffer'.requests = buffer.requests
      /\ buffer'.latest.sequence >= buffer.latest.sequence
      /\ buffer'.latest.sequence \in Nat
      /\ buffer'.latest.sequence <= buffer.requests
      /\ (buffer'.latest # None => buffer'.latest.generation = buffer.generation
                                   /\ buffer.generation # 0)
      /\ (custom1.waiting => Newest(buffer'.latest))
      /\ (GenerationActive(buffer, run.result.generation) =>
             buffer'.latest.sequence >= run.result.sequence)
      /\ (Admits(buffer, run.result) => buffer'.latest = run.result)
      /\ (~Admits(buffer, run.result) => buffer' = buffer)
  BY <1>1, <1>2, <1>3, StoreKeeps
<1>5. \/ /\ Admits(buffer, run.result) /\ run'.phase = "notifying" /\ run'.result = run.result
         /\ run' \in Runs /\ run'.phase \in Telling
      \/ /\ ~Admits(buffer, run.result) /\ run' = Idle /\ run'.phase = "idle"
         /\ run'.result = None /\ run' \in Runs
  <2>1. run \in [phase : {"solved", "notifying", "calling"}, result : Results]
    BY <1>1, <1>2 DEF Runs, Idle
  <2>2. CASE Admits(buffer, run.result)
    BY <2>1, <2>2 DEF StoreResult, Runs, Telling
  <2>3. CASE ~Admits(buffer, run.result)
    BY <2>3 DEF StoreResult, Runs, Idle
  <2>4. QED
    BY <2>2, <2>3
<1>6. Typed'
  BY <1>1, <1>4, <1>5 DEF Typed
<1>7. Numbered'
  BY <1>1, <1>4, <1>5 DEF Numbered, Within
<1>8. Current'
  BY <1>1, <1>4, <1>5 DEF Current, GenerationActive, Telling, Idle
<1>9. Awaited'
  BY <1>1, <1>2, <1>4, <1>5 DEF Awaited, Newest
<1>10. AnswerIsComing'
  <2>1. buffer.latest.sequence \in Nat /\ buffer.latest.sequence <= buffer.requests
    <3>1. buffer.latest # None => Within(buffer.latest, buffer)
      BY Values
    <3>2. QED
      BY <1>2, <3>1, Values DEF Within
  <2>2. custom1.waiting => custom1.inFlight = buffer.requests
    BY DEF Awaited
  <2>3. ASSUME custom1.waiting, GenerationActive(buffer, custom1.generation),
               run.result.sequence = buffer.requests
        PROVE  buffer'.latest.sequence = buffer.requests
    BY <1>2, <1>3, <1>4, <2>3 DEF Newest
  <2>4. ASSUME custom1.waiting, buffer.latest.sequence = buffer.requests
        PROVE  buffer'.latest.sequence = buffer.requests
    BY <1>2, <1>4, <2>1, <2>4
  <2>5. QED
    BY <1>1, <1>4, <2>2, <2>3, <2>4 DEF AnswerIsComing, GenerationActive
<1>11. Seen'
  <2>1. CASE Admits(buffer, run.result)
    <3>1. Answered(View)' => run.result.sequence = buffer.requests
      BY <1>1, <1>4, <2>1 DEF Answered, View, Awaited
    <3>2. QED
      BY <1>4, <1>5, <2>1, <3>1 DEF Seen
  <2>2. CASE ~Admits(buffer, run.result)
    <3>1. Answered(View)' <=> Answered(View)
      BY <1>1, <1>4, <2>2 DEF Answered, View, NewerThan
    <3>2. QED
      BY <1>1, <3>1 DEF Seen, Telling
  <2>3. QED
    BY <2>1, <2>2
<1>12. QED
  BY <1>4, <1>6, <1>7, <1>8, <1>9, <1>10, <1>11

(* An answer that is still waited for and is the last one is of the active *)
(* generation: the worker that stored it will not find it outdated.        *)
LEMMA StillActive ==
  ASSUME IInv, Answered(View), run.result.sequence = buffer.requests
  PROVE  GenerationActive(buffer, run.result.generation)
<1> USE DEF IInv
<1>0. None.sequence = 0
  BY OnItsWay
<1>1. custom1.waiting /\ buffer.latest.sequence = custom1.inFlight
  BY DEF Answered, View
<1>2. custom1.inFlight = buffer.requests /\ custom1.inFlight # 0
  BY <1>1 DEF Awaited
<1>3. run.result.generation = custom1.generation /\ buffer.latest.generation = custom1.generation
  <2>1. Newest(run.result) /\ Newest(buffer.latest)
    BY <1>1 DEF Awaited
  <2>2. QED
    BY <1>1, <1>2, <2>1 DEF Newest
<1>4. buffer.latest # None
  BY <1>0, <1>1, <1>2
<1>5. buffer.generation # 0 /\ buffer.latest.generation = buffer.generation
  BY <1>4 DEF Current
<1>6. QED
  BY <1>3, <1>5 DEF GenerationActive

(* A worker that is done with an answer has left it in the buffer.         *)
LEMMA DoneLeavesAnswer ==
  ASSUME IInv, run.phase \in Telling, run' = Idle,
         UNCHANGED <<custom1, handoff, service, buffer, job>>
  PROVE  AnswerIsComing'
<1> USE DEF IInv
<1>0. /\ run'.result = None /\ None.sequence = 0
      /\ run.result.sequence \in Nat /\ buffer.requests \in Nat
  BY OnItsWay DEF Idle
<1>1. buffer.latest.sequence \in Nat /\ buffer.latest.sequence <= buffer.requests
  <2>1. buffer.latest # None => Within(buffer.latest, buffer)
    BY Values
  <2>2. QED
    BY <1>0, <2>1, Values DEF Within
<1>2. ASSUME custom1.waiting, GenerationActive(buffer, custom1.generation),
             run.result.sequence = custom1.inFlight
      PROVE  buffer.latest.sequence = custom1.inFlight
  <2>1. run.result.generation = custom1.generation /\ custom1.inFlight = buffer.requests
    BY <1>2 DEF Awaited, Newest
  <2>2. buffer.latest.sequence >= run.result.sequence
    BY <1>2, <2>1 DEF Current
  <2>3. QED
    BY <1>0, <1>1, <1>2, <2>1, <2>2
<1>3. QED
  BY <1>0, <1>2 DEF AnswerIsComing, GenerationActive

(* A worker that checks whether to tell the owner leaves nothing unseen:   *)
(* what it does not tell is outdated.                                      *)
LEMMA NotifyKeeps == IInv /\ Notify => IInv'
<1> SUFFICES ASSUME IInv, Notify PROVE IInv'
  OBVIOUS
<1> USE DEF IInv
<1>1. /\ run.phase = "notifying" /\ run.phase \in Telling
      /\ UNCHANGED <<now, custom1, cache, target, outputs, handoff, service, buffer, job, wake>>
  BY DEF Notify, ownerState, Telling
<1>2. /\ run.result \in Results /\ run.result # None
      /\ None.sequence = 0 /\ run.result.sequence \in Nat /\ buffer.requests \in Nat
  BY <1>1, OnItsWay
<1>3. Sound(View)' /\ AttitudeOfThisEntry' /\ (Answered(View)' <=> Answered(View))
  BY <1>1, OwnerRests
<1>4. \/ /\ GenerationActive(buffer, run.result.generation)
         /\ run'.phase \in Telling /\ run'.result = run.result /\ run' \in Runs
      \/ /\ ~GenerationActive(buffer, run.result.generation)
         /\ run' = Idle /\ run'.phase \notin Telling /\ run'.result = None /\ run' \in Runs
  <2>1. run \in [phase : {"solved", "notifying", "calling"}, result : Results]
    BY <1>1, <1>2 DEF Typed, Runs, Idle
  <2>2. QED
    BY <2>1 DEF Notify, Runs, Idle, Telling
<1>5. Typed'
  BY <1>1, <1>4 DEF Typed
<1>6. Numbered'
  BY <1>1, <1>4 DEF Numbered, Within
<1>7. Current'
  <2>1. service # "stopped"
    BY <1>1 DEF Current, Idle, Telling
  <2>2. QED
    BY <1>1, <1>4, <2>1 DEF Current, GenerationActive
<1>8. Awaited'
  BY <1>1, <1>2, <1>4 DEF Awaited, Newest
<1>9. AnswerIsComing'
  <2>1. CASE run' = Idle
    BY <1>1, <2>1, DoneLeavesAnswer
  <2>2. CASE run'.result = run.result
    BY <1>1, <2>2 DEF AnswerIsComing, GenerationActive
  <2>3. QED
    BY <1>4, <2>1, <2>2
<1>10. Seen'
  <2>1. Answered(View) /\ run.result.sequence = buffer.requests =>
          run'.phase \in Telling /\ run'.result = run.result
    BY <1>4, StillActive
  <2>2. QED
    BY <1>1, <1>3, <2>1 DEF Seen
<1>11. QED
  BY <1>3, <1>5, <1>6, <1>7, <1>8, <1>9, <1>10

(* A worker that has called the owner leaves nothing unseen.               *)
LEMMA CallKeeps == IInv /\ Call => IInv'
<1> SUFFICES ASSUME IInv, Call PROVE IInv'
  OBVIOUS
<1> USE DEF IInv
<1>1. /\ run.phase \in Telling /\ run.phase = "calling" /\ run' = Idle /\ wake' = TRUE
      /\ UNCHANGED <<now, custom1, cache, target, outputs, handoff, service, buffer, job>>
  BY DEF Call, ownerState, Telling
<1>2. Sound(View)' /\ AttitudeOfThisEntry'
  BY <1>1, OwnerRests
<1>3. /\ run'.phase \notin Telling /\ run'.result = None /\ run' \in Runs
      /\ None.sequence = 0 /\ buffer.requests \in Nat
  BY <1>1, OnItsWay DEF Idle, Runs, Telling
<1>4. Typed'
  BY <1>1, <1>3 DEF Typed
<1>5. Numbered'
  BY <1>1, <1>3 DEF Numbered, Within
<1>6. Current'
  BY <1>1, <1>3 DEF Current, GenerationActive
<1>7. Awaited'
  BY <1>1, <1>3 DEF Awaited, Newest
<1>8. AnswerIsComing'
  BY <1>1, DoneLeavesAnswer
<1>9. Seen'
  BY <1>1 DEF Seen
<1>10. QED
  BY <1>2, <1>4, <1>5, <1>6, <1>7, <1>8, <1>9

(* A stop drops the job, closes the generation, and waits for the worker.  *)
LEMMA StopKeeps == IInv /\ (StopBegin \/ StopInvalidate \/ StopEnd) => IInv'
<1> SUFFICES ASSUME IInv, StopBegin \/ StopInvalidate \/ StopEnd PROVE IInv'
  OBVIOUS
<1> USE DEF IInv
<1>0. CASE StopBegin
  <2>1. /\ service = "running" /\ handoff = None /\ service' = "closing" /\ job' = None
        /\ UNCHANGED <<now, buffer, custom1, cache, target, outputs, handoff, run, wake>>
    BY <1>0 DEF StopBegin, OwnerFree
  <2>2. Sound(View)' /\ AttitudeOfThisEntry' /\ (Answered(View)' <=> Answered(View))
    BY <2>1, OwnerRests
  <2>3. None.sequence = 0 /\ buffer.requests \in Nat
    BY OnItsWay
  <2>4. Typed' /\ Numbered'
    BY <2>1 DEF Typed, Numbered, Within
  <2>5. Current'
    BY <2>1 DEF Current, GenerationActive
  <2>6. Awaited'
    BY <2>1, <2>3 DEF Awaited, Newest
  <2>7. AnswerIsComing' /\ Seen'
    BY <2>1, <2>2 DEF AnswerIsComing, Seen
  <2>8. QED
    BY <2>2, <2>4, <2>5, <2>6, <2>7
<1>1. CASE StopInvalidate
  <2>1. /\ service = "closing" /\ service' = "stopping"
        /\ buffer' = [buffer EXCEPT !.generation = 0, !.latest = None]
        /\ UNCHANGED <<now, custom1, cache, target, outputs, handoff, job, run, wake>>
        /\ handoff = None
    BY <1>1 DEF StopInvalidate, BufferAtStop, Invalidate, worker, Current
  <2>2. /\ now \in Nat /\ custom1 \in Leaves /\ buffer \in Buffers
        /\ target \in Results \cup {None} /\ None.sequence = 0
    BY Values
  <2>3. /\ buffer' \in Buffers /\ buffer'.generation = 0 /\ buffer'.latest = None
        /\ buffer'.requests = buffer.requests /\ buffer'.generations = buffer.generations
    BY <2>1, <2>2 DEF Buffers
  <2>4. Sound(View)'
    <3>1. "Attitude" \notin ToSet(<<>>) /\ <<>> \in Seq(Effects)
      BY DEF ToSet
    <3>2. /\ View'.leaf = custom1 /\ View'.buffer = buffer' /\ View'.target = target
          /\ View'.out = <<>> /\ View' \in Views
      BY <2>1, <2>2, <2>3, <3>1 DEF View, Views
    <3>3. View.leaf = custom1 /\ View.buffer = buffer /\ View.target = target
      BY DEF View
    <3>4. buffer'.generation <= buffer'.generations
      BY <2>2, <2>3 DEF Buffers
    <3>5. QED
      BY <2>1, <2>3, <3>1, <3>2, <3>3, <3>4 DEF Sound, Recent, Within
  <2>5. Typed'
    BY <2>1, <2>3 DEF Typed
  <2>6. Numbered'
    BY <2>1, <2>3 DEF Numbered, Within
  <2>7. Current'
    BY <2>1, <2>3 DEF Current, GenerationActive
  <2>8. Awaited'
    BY <2>1, <2>2, <2>3 DEF Awaited, Newest
  <2>9. AnswerIsComing' /\ Seen'
    BY <2>3 DEF AnswerIsComing, Seen, Answered, View, GenerationActive, NewerThan
  <2>10. AttitudeOfThisEntry'
    BY <2>1 DEF AttitudeOfThisEntry, Commands
  <2>11. QED
    BY <2>4, <2>5, <2>6, <2>7, <2>8, <2>9, <2>10
<1>2. CASE StopEnd
  <2>1. /\ service = "stopping" /\ service' = "stopped"
        /\ UNCHANGED <<now, buffer, custom1, cache, target, outputs, handoff, job, run, wake>>
        /\ run = Idle
    BY <1>2 DEF StopEnd, worker
  <2>2. Sound(View)' /\ AttitudeOfThisEntry' /\ (Answered(View)' <=> Answered(View))
    BY <2>1, OwnerRests
  <2>3. Typed'
    BY <2>1 DEF Typed
  <2>4. Numbered'
    BY <2>1 DEF Numbered, Within
  <2>5. Current'
    BY <2>1 DEF Current, GenerationActive
  <2>6. Awaited'
    BY <2>1 DEF Awaited, Newest
  <2>7. AnswerIsComing' /\ Seen'
    BY <2>1, <2>2 DEF AnswerIsComing, Seen, GenerationActive
  <2>8. QED
    BY <2>2, <2>3, <2>4, <2>5, <2>6, <2>7
<1>3. QED
  BY <1>0, <1>1, <1>2

(* Turns elsewhere, inputs, references and time.                           *)
LEMMA RestKeeps ==
  IInv /\ (TurnElsewhere \/ Input \/ ReferenceArrives \/ Tick) => IInv'
<1> SUFFICES ASSUME IInv, TurnElsewhere \/ Input \/ ReferenceArrives \/ Tick PROVE IInv'
  OBVIOUS
<1> USE DEF IInv
<1>1. /\ UNCHANGED <<buffer, custom1, target, handoff, job, run, service>>
      /\ outputs' = outputs \/ outputs' = <<>>
      /\ wake' \in BOOLEAN /\ cache' \in BOOLEAN
  BY DEF TurnElsewhere, Input, ReferenceArrives, Tick, worker, Typed
<1>2. wake => wake' \/ ~custom1.tracking
  BY DEF TurnElsewhere, Input, ReferenceArrives, Tick
<1>3. now \in Nat /\ now' \in 1 .. MaxTime /\ now' >= now /\ now' \in Nat
  <2>1. MaxTime \in Nat /\ now \in 1 .. MaxTime
    BY TimingAssumption DEF Typed
  <2>2. now' = now \/ (now < MaxTime /\ now' = now + 1)
    BY DEF TurnElsewhere, Input, ReferenceArrives, Tick
  <2>3. QED
    BY <2>1, <2>2
<1>4. Sound(View)'
  BY <1>1, <1>3, ViewSound
<1>5. "Attitude" \notin ToSet(<<>>) /\ <<>> \in Seq(Effects)
  BY DEF ToSet
<1>6. Typed'
  BY <1>1, <1>3, <1>5 DEF Typed
<1>7. Numbered'
  <2>1. ASSUME NEW c \in Requests \cup Results, Within(c, buffer)
        PROVE  c.sequence <= buffer.requests /\ c.generation <= buffer.generations /\ c.stamp <= now'
    BY <1>3, <2>1 DEF Within, Requests, Results
  <2>2. /\ handoff # None => handoff \in Requests
        /\ job # None => job \in Requests
        /\ run.result # None => run.result \in Requests \cup Results
    BY DEF Typed, Runs, Idle
  <2>3. QED
    BY <1>1, <2>1, <2>2 DEF Numbered, Within
<1>8. Current'
  BY <1>1 DEF Current, GenerationActive
<1>9. Awaited'
  BY <1>1 DEF Awaited, Newest
<1>10. AnswerIsComing'
  BY <1>1 DEF AnswerIsComing, GenerationActive
<1>11. Seen'
  <2>1. Answered(View)' <=> Answered(View)
    BY <1>1 DEF Answered, View, NewerThan
  <2>2. Answered(View) => custom1.tracking
    BY DEF Answered, View, Current
  <2>3. QED
    BY <1>1, <1>2, <2>1, <2>2 DEF Seen
<1>12. AttitudeOfThisEntry'
  BY <1>1, <1>5 DEF AttitudeOfThisEntry, Commands
<1>13. QED
  BY <1>4, <1>6, <1>7, <1>8, <1>9, <1>10, <1>11, <1>12

(* A step that changes nothing keeps the invariant.                        *)
LEMMA StutterKeeps == IInv /\ UNCHANGED vars => IInv'
<1> SUFFICES ASSUME IInv, UNCHANGED vars PROVE IInv'
  OBVIOUS
<1> USE DEF IInv
<1>1. UNCHANGED <<now, buffer, custom1, cache, target, outputs, handoff, job, run, service, wake>>
  BY DEF vars, worker
<1>2. Sound(View)' /\ AttitudeOfThisEntry' /\ (Answered(View)' <=> Answered(View))
  BY <1>1, OwnerRests
<1>3. Typed' /\ Numbered'
  BY <1>1 DEF Typed, Numbered, Within
<1>4. Current' /\ Awaited'
  BY <1>1 DEF Current, GenerationActive, Awaited, Newest
<1>5. AnswerIsComing' /\ Seen'
  BY <1>1, <1>2 DEF AnswerIsComing, Seen, GenerationActive
<1>6. QED
  BY <1>2, <1>3, <1>4, <1>5
-----------------------------------------------------------------------------
(* The invariant holds in every state the exchange reaches.                *)
THEOREM ExchangeInvariant == Spec => []IInv
<1>1. Init => IInv
  BY InitKeeps
<1>2. IInv /\ [Next]_vars => IInv'
  <2> SUFFICES ASSUME IInv, [Next]_vars PROVE IInv'
    OBVIOUS
  <2>1. CASE Turn  BY <2>1, TurnKeeps
  <2>2. CASE Enter  BY <2>2, EnterKeeps
  <2>3. CASE Handle  BY <2>3, HandleKeeps
  <2>4. CASE Take \/ Solve  BY <2>4, WorkerKeeps
  <2>5. CASE StoreResult  BY <2>5, StoreResultKeeps
  <2>6. CASE Notify  BY <2>6, NotifyKeeps
  <2>7. CASE StopBegin \/ StopInvalidate \/ StopEnd  BY <2>7, StopKeeps
  <2>8. CASE TurnElsewhere \/ Input \/ ReferenceArrives \/ Tick  BY <2>8, RestKeeps
  <2>9. CASE UNCHANGED vars  BY <2>9, StutterKeeps
  <2>10. CASE Call  BY <2>10, CallKeeps
  <2>11. QED
    BY <2>1, <2>2, <2>3, <2>4, <2>5, <2>6, <2>7, <2>8, <2>9, <2>10 DEF Next, OwnerTurns, Others
<1>3. QED
  BY <1>1, <1>2, PTL DEF Spec
-----------------------------------------------------------------------------
(* Every variable keeps its type, and a request or result names a sequence *)
(* that was reserved and a generation that was begun.                      *)
THEOREM ExchangeTypes == Spec => []TypeOK
<1>1. IInv => TypeOK
  <2> SUFFICES ASSUME IInv PROVE TypeOK
    OBVIOUS
  <2> USE DEF IInv
  <2>1. /\ now \in Nat /\ custom1 \in Leaves /\ buffer \in Buffers
        /\ target \in Results \cup {None} /\ None.sequence = 0
        /\ buffer.latest # None => buffer.latest \in Results /\ Within(buffer.latest, buffer)
        /\ buffer.generation <= buffer.generations
        /\ custom1.generation <= buffer.generations
        /\ custom1.inFlight <= buffer.requests /\ custom1.consumed <= buffer.requests
    BY Values
  <2>2. MaxTime \in Nat /\ MaxGenerations \in Nat /\ now \in 1 .. MaxTime
    BY TimingAssumption DEF Typed
  <2> DEFINE Q == [sequence : (0 .. buffer.requests) \ {0}, stamp : Never .. MaxTime,
                   generation : 0 .. buffer.generations]
             R == [sequence : (0 .. buffer.requests) \ {0}, stamp : Never .. MaxTime,
                   generation : 0 .. buffer.generations, outcome : Outcomes]
  <2>3. buffer.requests \in Nat /\ buffer.generations \in Nat /\ buffer.generation \in Nat
    BY <2>1 DEF Buffers
  <2>4. ASSUME NEW c \in Requests, Within(c, buffer)  PROVE c \in Q
    BY <2>1, <2>2, <2>3, <2>4 DEF Requests, Within, Never
  <2>5. ASSUME NEW c \in Results, Within(c, buffer)  PROVE c \in R
    BY <2>1, <2>2, <2>3, <2>5 DEF Results, Within, Never
  <2> HIDE DEF Q, R
  <2>6. now \in 1 .. MaxTime /\ buffer.generations \in 0 .. MaxGenerations /\ buffer.requests \in Nat
    BY <2>2, <2>3 DEF Typed
  <2>7. buffer.generation \in 0 .. buffer.generations /\ buffer.latest \in R \cup {None}
    BY <2>1, <2>3, <2>5
  <2>8. /\ custom1.generation \in 0 .. buffer.generations
        /\ {custom1.inFlight, custom1.consumed} \subseteq 0 .. buffer.requests
    BY <2>1, <2>3 DEF Leaves
  <2>9. {custom1.lastSuccess, custom1.lastPublish, custom1.lastRequest} \subseteq Never .. MaxTime
    <3>1. /\ custom1.lastSuccess \in Nat /\ custom1.lastPublish \in Nat
          /\ custom1.lastRequest \in Nat
      BY <2>1 DEF Leaves
    <3>2. /\ custom1.lastSuccess <= now /\ custom1.lastPublish <= now
          /\ custom1.lastRequest <= now
      BY DEF Sound, View
    <3>3. QED
      BY <2>2, <3>1, <3>2 DEF Never
  <2>10. target \in R \cup {None}
    BY <2>1, <2>5 DEF Sound, View
  <2>11. handoff \in Q \cup {None} /\ job \in Q \cup {None}
    BY <2>4 DEF Typed, Numbered
  <2>12. run.phase \in {"idle", "solving", "solved", "notifying", "calling"}
         /\ run.result \in Q \cup R \cup {None}
    BY <2>4, <2>5, OnItsWay DEF Numbered
  <2>13. /\ cache \in BOOLEAN /\ wake \in BOOLEAN
         /\ service \in {"running", "closing", "stopping", "stopped"}
    BY DEF Typed
  <2>14. QED
    BY <2>6, <2>7, <2>8, <2>9, <2>10, <2>11, <2>12, <2>13 DEF TypeOK, Q, R
<1>2. QED
  BY <1>1, ExchangeInvariant, PTL

(* Attitude rates are sent only if they were solved for this very entry of *)
(* the tracking state.                                                     *)
THEOREM RatesOfThisEntry == Spec => []AttitudeOfThisEntry
<1>1. IInv => AttitudeOfThisEntry
  BY DEF IInv
<1>2. QED
  BY <1>1, ExchangeInvariant, PTL

(* The answer the state waits for is on its way or in the buffer, and does *)
(* not lie there unseen, whatever else is answered or refused meanwhile.   *)
THEOREM AnswersArrive == Spec => []AnswerIsNotLost
<1>1. IInv => AnswerIsNotLost
  BY DEF IInv, AnswerIsNotLost, Seen, Answered, View, ResultWakesOwner, Telling
<1>2. QED
  BY <1>1, ExchangeInvariant, PTL

(* Attitude rates sent were solved from a state at most two result         *)
(* timeouts old, however late the turns come.                              *)
THEOREM RatesAreRecent == Spec => AttitudeIsRecent
<1>1. ASSUME IInv, Turn, "Attitude" \in ToSet(outputs')
      PROVE  now - target'.stamp <= 2 * ResultTimeout
  <2>1. now \in Nat /\ service = "running" /\ custom1.tracking
    BY <1>1, Values DEF IInv, Turn, OwnerFree
  <2>2. GenerationActive(buffer, custom1.generation) /\ Sound(View)
    BY <1>1, <2>1 DEF IInv, Current
  <2>3. Answered(View) => buffer.latest.generation = custom1.generation
    BY <1>1 DEF IInv, Answered, View, Awaited, Newest
  <2>4. PICK ending \in BOOLEAN, leaves \in BOOLEAN :
          LET w == Tracked(ending)
              v == IF leaves THEN Left(w) ELSE w
          IN target' = v.target /\ outputs' = v.out
    BY <1>1, Zenon DEF Turn
  <2> DEFINE w == Tracked(ending)
  <2>5. Sound(w)
    BY <2>1, <2>2, <2>3, TrackedFacts
  <2> HIDE DEF w
  <2>6. w \in Views
    BY <2>5 DEF Sound
  <2>7. Left(w).target = w.target /\ Left(w).out = w.out
    BY <2>6 DEF Left, Views
  <2>8. target' = w.target /\ outputs' = w.out
    BY <2>4, <2>7 DEF w
  <2>9. QED
    BY <1>1, <2>5, <2>8 DEF Sound
<1>2. IInv /\ [Next]_vars =>
        [(Turn /\ "Attitude" \in ToSet(outputs')) => now - target'.stamp <= 2 * ResultTimeout]_vars
  BY <1>1
<1>3. QED
  BY <1>2, ExchangeInvariant, PTL DEF Spec, AttitudeIsRecent

(* A stop ends in silence, wherever the worker is when it begins: what it  *)
(* is at it finishes, from the invalidation on it stores nothing and makes *)
(* at most the call it has already checked for, and once the stop has      *)
(* returned it rests (NmpcExecution::stop, its notifyResult).              *)
THEOREM StopIsQuiet == Spec => QuietAfterStop
<1> DEFINE
      Closed == UNCHANGED <<outputs, target, job>> /\ (run = Idle => UNCHANGED <<run, wake>>)
      Invalid == /\ UNCHANGED buffer
                 /\ (run.phase # "calling") => (run'.phase # "calling" /\ wake' = wake)
<1>1. ASSUME IInv, Next, service # "running"
      PROVE  Closed /\ (service \in {"stopping", "stopped"} => Invalid)
             /\ (service = "stopped" => run' = Idle)
  <2>1. /\ handoff = None /\ (service = "stopped" => run = Idle)
        /\ service \in {"stopping", "stopped"} => buffer.generation = 0
    BY <1>1 DEF IInv, Current
  <2>2. ~OwnerFree
    BY <1>1 DEF OwnerFree
  <2>3. \/ Take \/ Solve \/ StoreResult \/ Notify \/ Call
        \/ StopInvalidate \/ StopEnd \/ Tick
    BY <1>1, <2>1, <2>2 DEF Next, OwnerTurns, Others, Turn, TurnElsewhere, Enter, Input,
       ReferenceArrives, Handle, StopBegin
  <2>4. Idle.phase = "idle"
    BY DEF Idle
  <2>5. ~Take
    BY <1>1 DEF Take
  <2>6. CASE Solve
    <3>1. /\ run.phase = "solving" /\ UNCHANGED <<outputs, target, job, buffer, wake>>
          /\ run'.phase = "solved"
      BY <2>6 DEF Solve, ownerState
    <3>2. QED
      BY <2>1, <2>4, <3>1
  <2>7. CASE StoreResult
    <3>1. /\ run.phase = "solved" /\ UNCHANGED <<outputs, target, job, wake>>
          /\ buffer' = Store(buffer, run.result)
      BY <2>7 DEF StoreResult, ownerState
    <3>2. run'.phase # "calling"
      <4>1. run \in Runs
        BY <1>1 DEF IInv, Typed
      <4>2. QED
        BY <2>4, <2>7, <3>1, <4>1 DEF StoreResult, Runs
    <3>3. service \in {"stopping", "stopped"} => buffer' = buffer
      BY <2>1, <3>1 DEF Store, Admits, GenerationActive
    <3>4. QED
      BY <2>1, <2>4, <3>1, <3>2, <3>3
  <2>8. CASE Notify
    <3>1. /\ run.phase = "notifying" /\ UNCHANGED <<outputs, target, job, buffer, wake>>
      BY <2>8 DEF Notify, ownerState
    <3>2. service \in {"stopping", "stopped"} => run' = Idle
      BY <2>1, <2>8 DEF Notify, GenerationActive
    <3>3. QED
      BY <2>1, <2>4, <3>1, <3>2
  <2>9. CASE Call
    <3>1. /\ run.phase = "calling" /\ UNCHANGED <<outputs, target, job, buffer>>
      BY <2>9 DEF Call, ownerState
    <3>2. QED
      BY <2>1, <2>4, <3>1
  <2>10. CASE StopInvalidate
    BY <2>1, <2>10 DEF StopInvalidate, worker
  <2>11. CASE StopEnd
    BY <2>1, <2>11 DEF StopEnd, worker
  <2>12. CASE Tick
    <3>1. UNCHANGED <<buffer, outputs, target, job, run>>
      BY <2>12 DEF Tick, worker
    <3>2. wake' = wake
      <4>1. wake' = (wake \/ (service = "running" /\ DueBy(custom1, now')))
        BY <2>12 DEF Tick
      <4>2. wake \in BOOLEAN
        BY <1>1 DEF IInv, Typed
      <4>3. QED
        BY <1>1, <4>1, <4>2, Zenon
    <3>3. QED
      BY <2>1, <3>1, <3>2
  <2>13. QED
    BY <2>3, <2>5, <2>6, <2>7, <2>8, <2>9, <2>10, <2>11, <2>12
<1>2. ASSUME IInv, Next, service' = "stopped" PROVE run' = Idle
  <2>1. CASE service = "stopped"
    BY <1>1, <1>2, <2>1
  <2>2. CASE service # "stopped"
    <3>1. StopEnd
      BY <1>2, <2>2 DEF Next, OwnerTurns, Others, Turn, TurnElsewhere, Enter, Input,
         ReferenceArrives, Handle, Take, Solve, StoreResult, Notify, Call, ownerState,
         StopBegin, StopInvalidate, Tick
    <3>2. QED
      BY <3>1 DEF StopEnd, worker
  <2>3. QED
    BY <2>1, <2>2
<1>3. IInv /\ [Next]_vars =>
        [/\ (service # "running") => Closed
         /\ (service \in {"stopping", "stopped"}) => Invalid
         /\ (service' = "stopped") => (run' = Idle)]_vars
  BY <1>1, <1>2
<1>4. QED
  BY <1>3, ExchangeInvariant, PTL DEF Spec, QuietAfterStop
-----------------------------------------------------------------------------
(***************************************************************************)
(* Tracking with the NMPC keeps commanding: with prompt turns, and a       *)
(* result timeout above the solve timeout, the longest silence is the      *)
(* longer period, the patience with one request, and an instant.           *)
(***************************************************************************)

(* Before a request no answer is waited for, and the hover is on time.     *)
Unasked(l, t) ==
  l.lastRequest = Never =>
    /\ ~l.waiting
    /\ l.lastPublish # Never => t <= l.lastPublish + PublishPeriod

(* A request was made in time, and is not waited for past its deadline.    *)
Waits(l, t) ==
  l.waiting =>
    /\ t <= l.deadline + 1 /\ l.deadline <= t + SolveTimeout
    /\ l.lastRequest + SolveTimeout <= l.deadline
    /\ l.lastPublish # Never => l.deadline <= l.lastPublish + LongerPeriod + SolveTimeout

(* After one, a command was given for it and the next is not overdue.      *)
Rests(l, t) ==
  l.lastRequest # Never /\ ~l.waiting =>
    l.lastRequest <= l.lastPublish /\ t <= l.lastRequest + ControlPeriod

InTime(l, c, t) ==
  /\ Unasked(l, t) /\ Waits(l, t) /\ Rests(l, t)
  /\ ~l.finished /\ (l.lastRequest # Never => c)

(* The turn that was asked for is in the future.                           *)
Ahead(l, c, t) ==
  /\ l.waiting => l.deadline + 1 > t
  /\ c /\ ~l.waiting => l.lastRequest # Never /\ l.lastRequest + ControlPeriod > t
  /\ ~c => l.lastPublish + PublishPeriod > t

(* Wherever the request waited for is, it is as old as the wait.           *)
Carriers == {handoff, job, run.result, buffer.latest}
Dated ==
  \A c \in Carriers : c.sequence = buffer.requests => c.stamp + SolveTimeout = custom1.deadline

Paced ==
  service = "running" /\ custom1.tracking =>
    /\ InTime(custom1, cache, now)
    /\ ~wake => Ahead(custom1, cache, now)
    /\ custom1.waiting => Dated

(* What the bound is claimed for.                                          *)
Served == Prompt /\ SolveTimeout < ResultTimeout
-----------------------------------------------------------------------------
(* What the provers need to know of the constants.                         *)
LEMMA GapConstants ==
  /\ ControlPeriod \in Nat \ {0} /\ SolveTimeout \in Nat \ {0} /\ ResultTimeout \in Nat \ {0}
  /\ PublishPeriod \in Nat \ {0} /\ Never = 0
  /\ LongerPeriod \in Nat /\ PublishPeriod <= LongerPeriod /\ ControlPeriod <= LongerPeriod
BY TimingAssumption DEF LongerPeriod, Never

(* The members of the leaf the timing is about.                            *)
LEMMA LeafTimes ==
  ASSUME NEW l \in Leaves
  PROVE  /\ l.lastRequest \in Nat /\ l.lastPublish \in Nat /\ l.deadline \in Nat
         /\ l.waiting \in BOOLEAN /\ l.finished \in BOOLEAN /\ l.tracking \in BOOLEAN
BY DEF Leaves

(* A stage asks for no solve, and ends a wait only with a command.         *)
Speaks(v, w) ==
  /\ w.leaf.lastRequest = v.leaf.lastRequest
  /\ w.leaf.lastPublish = v.leaf.lastPublish \/ w.leaf.lastPublish = now
  /\ w.leaf.waiting => v.leaf.waiting /\ w.leaf.deadline = v.leaf.deadline
  /\ v.leaf.waiting /\ ~w.leaf.waiting => w.leaf.lastPublish = now

(* Stages in a row do as the first.                                        *)
LEMMA SpeaksOn ==
  ASSUME NEW u, NEW v, NEW w, Speaks(u, v), Speaks(v, w)
  PROVE  Speaks(u, w)
BY DEF Speaks

(* A command is one.                                                       *)
LEMMA PublishSpeaks ==
  ASSUME now \in Nat, NEW v \in Views, NEW e
  PROVE  /\ Speaks(v, Publish(v, e)) /\ Publish(v, e).leaf.lastPublish = now
         /\ Publish(v, e).leaf.lastRequest = v.leaf.lastRequest
         /\ Publish(v, e).leaf.waiting = v.leaf.waiting
         /\ Publish(v, e).leaf.deadline = v.leaf.deadline
         /\ Publish(v, e).leaf.finished = v.leaf.finished
<1> DEFINE w == Publish(v, e)
<1>1. v.leaf \in Leaves
  BY DEF Views
<1>2. w.leaf = [v.leaf EXCEPT !.lastPublish = now]
  <2>1. v = [leaf |-> v.leaf, buffer |-> v.buffer, target |-> v.target,
             out |-> v.out, request |-> v.request]
    BY DEF Views
  <2> QED BY <2>1 DEF Publish
<1> HIDE DEF w
<1>3. /\ w.leaf.lastPublish = now /\ w.leaf.lastRequest = v.leaf.lastRequest
      /\ w.leaf.waiting = v.leaf.waiting /\ w.leaf.deadline = v.leaf.deadline
      /\ w.leaf.finished = v.leaf.finished
  BY <1>1, <1>2 DEF Leaves
<1>4. Speaks(v, w)
  BY <1>3 DEF Speaks
<1> QED BY <1>3, <1>4 DEF w

(* Finishing says so when it has not been said.                            *)
LEMMA FinishSpeaks ==
  ASSUME now \in Nat, NEW v \in Views
  PROVE  /\ Speaks(v, FinishPosted(v)) /\ FinishPosted(v).leaf.finished
         /\ ~v.leaf.finished => FinishPosted(v).leaf.lastPublish = now
<1> DEFINE l == [v.leaf EXCEPT !.finished = TRUE, !.waiting = FALSE]
           w == [v EXCEPT !.leaf = l]
<1>1. v.leaf \in Leaves
  BY DEF Views
<1>2. [v EXCEPT !.leaf.finished = TRUE, !.leaf.waiting = FALSE] = w
  BY <1>1 DEF Views
<1>3. /\ l \in Leaves /\ l.lastRequest = v.leaf.lastRequest
      /\ l.finished = TRUE /\ l.waiting = FALSE
  BY <1>1 DEF Leaves
<1> HIDE DEF l
<1>4. w \in Views /\ w.leaf = l
  BY <1>3 DEF Views
<1> HIDE DEF w
<1>5. CASE v.leaf.finished
  <2>1. FinishPosted(v) = v \/ FinishPosted(v) = Publish(v, "Setpoint")
    BY <1>5 DEF FinishPosted
  <2>2. Speaks(v, v)
    BY DEF Speaks
  <2> QED BY <1>5, <2>1, <2>2, PublishSpeaks
<1>6. CASE ~v.leaf.finished
  <2>1. FinishPosted(v) = Publish(w, "Setpoint")
    BY <1>2, <1>6 DEF FinishPosted
  <2> DEFINE p == Publish(w, "Setpoint")
  <2>2. /\ p.leaf.lastPublish = now /\ p.leaf.lastRequest = w.leaf.lastRequest
        /\ p.leaf.waiting = w.leaf.waiting /\ p.leaf.finished = w.leaf.finished
    BY <1>4, PublishSpeaks
  <2> HIDE DEF p
  <2>3. Speaks(v, p) /\ p.leaf.finished /\ p.leaf.lastPublish = now
    BY <1>3, <1>4, <2>2 DEF Speaks
  <2> QED BY <2>1, <2>3 DEF p
<1> QED BY <1>5, <1>6

(* Giving up is said.                                                      *)
LEMMA TimedOutSpeaks ==
  ASSUME now \in Nat, NEW v \in Views
  PROVE  /\ Speaks(v, TimedOut(v)) /\ TimedOut(v).leaf.finished = v.leaf.finished
<1> DEFINE l == [v.leaf EXCEPT !.waiting = FALSE]
           w == [v EXCEPT !.leaf = l]
<1>1. v.leaf \in Leaves
  BY DEF Views
<1>2. [v EXCEPT !.leaf.waiting = FALSE] = w
  BY <1>1 DEF Views
<1>3. /\ l \in Leaves /\ l.lastRequest = v.leaf.lastRequest
      /\ l.finished = v.leaf.finished /\ l.waiting = FALSE
  BY <1>1 DEF Leaves
<1> HIDE DEF l
<1>4. w \in Views /\ w.leaf = l
  BY <1>3 DEF Views
<1> HIDE DEF w
<1>5. TimedOut(v) = v \/ TimedOut(v) = Publish(w, "Setpoint")
  BY <1>2 DEF TimedOut
<1>6. Speaks(v, v)
  BY DEF Speaks
<1> DEFINE p == Publish(w, "Setpoint")
<1>7. /\ p.leaf.lastPublish = now /\ p.leaf.lastRequest = w.leaf.lastRequest
      /\ p.leaf.waiting = w.leaf.waiting /\ p.leaf.finished = w.leaf.finished
  BY <1>4, PublishSpeaks
<1> HIDE DEF p
<1>8. Speaks(v, p) /\ p.leaf.finished = v.leaf.finished
  BY <1>3, <1>4, <1>7 DEF Speaks
<1> QED BY <1>5, <1>6, <1>8 DEF p

(* So is taking an answer that was waited for: it is not stale yet.        *)
LEMMA ConsumedSpeaks ==
  ASSUME now \in Nat, NEW v, Sound(v), NEW ending \in BOOLEAN, ~v.leaf.finished,
         v.leaf.waiting /\ v.buffer.latest.sequence = v.leaf.inFlight
           => Fresh(v.buffer.latest.stamp, now)
  PROVE  Speaks(v, Consumed(v, ending))
<1> DEFINE result == v.buffer.latest
           l == [v.leaf EXCEPT !.consumed = result.sequence, !.waiting = FALSE]
           taken == [v EXCEPT !.leaf = l]
           skips == \/ ~NewerThan(v.buffer, v.leaf.consumed)
                    \/ result.generation # v.leaf.generation
                    \/ result.sequence # v.leaf.inFlight
<1>1. v \in Views /\ v.leaf \in Leaves /\ v.buffer \in Buffers
  BY DEF Sound, Views
<1>2. [v EXCEPT !.leaf.consumed = result.sequence, !.leaf.waiting = FALSE] = taken
  BY <1>1 DEF Views
<1>3. CASE skips
  <2>1. Consumed(v, ending) = v
    BY <1>3 DEF Consumed
  <2> QED BY <2>1 DEF Speaks
<1>4. CASE ~skips
  <2>1. result \in Results
    <3>1. result.sequence > v.leaf.consumed /\ v.leaf.consumed \in Nat
      BY <1>1, <1>4 DEF NewerThan, Leaves
    <3>2. result # None
      BY <3>1 DEF None
    <3> QED BY <1>1, <3>2 DEF Buffers
  <2>2. /\ l \in Leaves /\ l.lastRequest = v.leaf.lastRequest
        /\ l.lastPublish = v.leaf.lastPublish /\ l.waiting = FALSE
        /\ l.finished = v.leaf.finished
    BY <1>1, <2>1 DEF Leaves, Results
  <2>3. taken \in Views /\ taken.leaf = l
    BY <1>1, <2>2 DEF Views
  <2>4. ASSUME NEW w, Speaks(taken, w), w.leaf.lastPublish = now
        PROVE  Speaks(v, w)
    <3> HIDE DEF taken, l
    <3> QED BY <2>2, <2>3, <2>4 DEF Speaks
  <2>5. CASE ~Fresh(result.stamp, now)
    <3>1. Consumed(v, ending) = taken
      BY <1>2, <1>4, <2>5 DEF Consumed
    <3>2. ~v.leaf.waiting
      BY <1>4, <2>5
    <3> HIDE DEF taken, l
    <3> QED BY <2>2, <2>3, <3>1, <3>2 DEF Speaks
  <2>6. CASE Fresh(result.stamp, now) /\ result.outcome = "success"
    <3> DEFINE s == [taken EXCEPT !.leaf = [l EXCEPT !.lastSuccess = now], !.target = result]
    <3>1. Consumed(v, ending) = Succeeded(taken, result)
      BY <1>2, <1>4, <2>6 DEF Consumed
    <3>2. Succeeded(taken, result) = Publish(s, "Attitude")
      BY <2>3 DEF Succeeded, Views
    <3>3. s \in Views /\ s.leaf = [l EXCEPT !.lastSuccess = now]
      BY <2>1, <2>2, <2>3 DEF Views, Leaves
    <3>4. s.leaf.lastRequest = l.lastRequest /\ s.leaf.waiting = FALSE
          /\ s.leaf.lastPublish = l.lastPublish
      <4> HIDE DEF s, l, taken, result
      <4> QED BY <2>2, <3>3 DEF Leaves
    <3>5. Speaks(taken, s)
      <4> HIDE DEF s, l, taken, result
      <4> QED BY <2>2, <2>3, <3>4 DEF Speaks
    <3> HIDE DEF s, taken, l, result
    <3>6. Speaks(s, Publish(s, "Attitude")) /\ Publish(s, "Attitude").leaf.lastPublish = now
      BY <3>3, PublishSpeaks
    <3> QED BY <2>4, <3>1, <3>2, <3>5, <3>6, SpeaksOn
  <2>7. CASE Fresh(result.stamp, now) /\ result.outcome # "success"
    <3>1. Consumed(v, ending) = Failed(taken, result, ending)
      BY <1>2, <1>4, <2>7 DEF Consumed
    <3> HIDE DEF taken, l, result, skips
    <3>2. Speaks(taken, FinishPosted(taken)) /\ FinishPosted(taken).leaf.lastPublish = now
      BY <2>2, <2>3, FinishSpeaks
    <3>3. ASSUME NEW e
          PROVE  Speaks(taken, Publish(taken, e)) /\ Publish(taken, e).leaf.lastPublish = now
      BY <2>3, PublishSpeaks
    <3>4. \/ Failed(taken, result, ending) = FinishPosted(taken)
          \/ \E e \in Effects : Failed(taken, result, ending) = Publish(taken, e)
      BY DEF Failed, Effects
    <3> QED BY <2>4, <3>1, <3>2, <3>3, <3>4
  <2> QED BY <2>5, <2>6, <2>7
<1> QED BY <1>3, <1>4

(* Asking for a solve begins the wait.                                     *)
LEMMA DispatchSpeaks ==
  ASSUME now \in Nat, now # 0, NEW v, Sound(v), DispatchDue(v)
  PROVE  LET w == Dispatched(v) IN
         /\ w.leaf.waiting /\ w.leaf.deadline = now + SolveTimeout
         /\ w.leaf.lastRequest \in Nat /\ w.leaf.lastRequest # 0 /\ w.leaf.lastRequest <= now
         /\ w.leaf.lastPublish = v.leaf.lastPublish /\ w.leaf.finished = v.leaf.finished
         /\ w.request # None
<1> DEFINE sequence == v.buffer.requests + 1
           last == NextRequestTime(v.leaf.lastRequest)
           l == [v.leaf EXCEPT !.inFlight = sequence, !.waiting = TRUE,
                               !.lastRequest = last, !.deadline = now + SolveTimeout]
           q == [sequence |-> sequence, stamp |-> now, generation |-> v.leaf.generation]
           b == [v.buffer EXCEPT !.requests = sequence]
           w == [[[v EXCEPT !.buffer = b] EXCEPT !.leaf = l] EXCEPT !.request = q]
<1>1. v \in Views /\ v.leaf \in Leaves /\ v.buffer \in Buffers
  BY DEF Sound, Views
<1>2. last \in Nat /\ last # 0 /\ last <= now
  <2>1. v.leaf.lastRequest \in Nat
    BY <1>1 DEF Leaves
  <2>2. v.leaf.lastRequest = Never \/ now - v.leaf.lastRequest >= ControlPeriod
    BY DEF DispatchDue
  <2> QED BY <2>1, <2>2, GapConstants DEF NextRequestTime
<1>3. Dispatched(v) = w
  BY <1>1 DEF Dispatched, Views
<1>4. v.buffer.requests \in Nat
  BY <1>1 DEF Buffers
<1>5. q.sequence # 0
  BY <1>4
<1> HIDE DEF last
<1>6. /\ l.waiting = TRUE /\ l.deadline = now + SolveTimeout /\ l.lastRequest = last
      /\ l.lastPublish = v.leaf.lastPublish /\ l.finished = v.leaf.finished
  BY <1>1 DEF Leaves
<1> HIDE DEF l, q, b
<1>7. w.leaf = l /\ w.request = q
  BY <1>1 DEF Views
<1>8. w.request # None
  BY <1>5, <1>7 DEF None
<1> HIDE DEF w
<1> QED BY <1>2, <1>3, <1>6, <1>7, <1>8

(* What a tick leaves is on time, and what it waits for is dated.          *)
KeepsTime(w) ==
  \/ w.leaf.finished
  \/ /\ InTime(w.leaf, cache, now)
     /\ w.leaf.waiting =>
          \/ custom1.waiting /\ w.leaf.deadline = custom1.deadline /\ w.request = None
          \/ w.leaf.deadline = now + SolveTimeout /\ w.request # None

(* A stage that asks for nothing, once the wait has been seen to.          *)
LEMMA QuietKeepsTime ==
  ASSUME now \in Nat, NEW v, Sound(v), Sound(View), Speaks(View, v), v.request = None,
         InTime(custom1, cache, now), cache \in BOOLEAN,
         v.leaf.lastRequest = Never /\ v.leaf.lastPublish # Never =>
           now <= v.leaf.lastPublish + PublishPeriod,
         v.leaf.lastRequest # Never /\ ~v.leaf.waiting =>
           now <= v.leaf.lastRequest + ControlPeriod
  PROVE  KeepsTime(v)
<1>1. View.leaf = custom1
  BY DEF View
<1>2. custom1 \in Leaves /\ v.leaf \in Leaves
  BY <1>1 DEF Sound, Views
<1> DEFINE l == v.leaf
<1>3. /\ l.lastRequest = custom1.lastRequest
      /\ l.lastPublish = custom1.lastPublish \/ l.lastPublish = now
      /\ l.waiting => custom1.waiting /\ l.deadline = custom1.deadline
      /\ custom1.waiting /\ ~l.waiting => l.lastPublish = now
      /\ custom1.lastPublish <= now /\ custom1.lastRequest <= now
  BY <1>1 DEF Speaks, Sound
<1>4. /\ l.lastRequest \in Nat /\ l.lastPublish \in Nat /\ l.deadline \in Nat
      /\ l.waiting \in BOOLEAN /\ l.finished \in BOOLEAN
      /\ custom1.lastRequest \in Nat /\ custom1.lastPublish \in Nat
      /\ custom1.deadline \in Nat
  BY <1>2, LeafTimes
<1>5. /\ l.lastRequest = Never /\ l.lastPublish # Never =>
           now <= l.lastPublish + PublishPeriod
      /\ l.lastRequest # Never /\ ~l.waiting => now <= l.lastRequest + ControlPeriod
  OBVIOUS
<1> HIDE DEF l
<1>6. Unasked(custom1, now) /\ Waits(custom1, now) /\ Rests(custom1, now)
  BY DEF InTime
<1>7. Unasked(l, now)
  BY <1>3, <1>4, <1>5, <1>6 DEF Unasked
<1>8. Waits(l, now)
  <2> SUFFICES ASSUME l.waiting PROVE Waits(l, now)
    BY DEF Waits
  <2>1. /\ now <= custom1.deadline + 1 /\ custom1.deadline <= now + SolveTimeout
        /\ custom1.lastRequest + SolveTimeout <= custom1.deadline
        /\ custom1.lastPublish # Never =>
             custom1.deadline <= custom1.lastPublish + LongerPeriod + SolveTimeout
    BY <1>3, <1>6 DEF Waits
  <2>2. l.lastPublish = now => l.deadline <= l.lastPublish + LongerPeriod + SolveTimeout
    BY <1>3, <1>4, <2>1, GapConstants
  <2> QED BY <1>3, <1>4, <2>1, <2>2 DEF Waits
<1>9. Rests(l, now)
  <2>1. l.lastRequest # Never /\ ~l.waiting => l.lastRequest <= l.lastPublish
    BY <1>3, <1>4, <1>6 DEF Rests
  <2> QED BY <1>5, <2>1 DEF Rests
<1>10. l.lastRequest # Never => cache
  BY <1>3 DEF InTime
<1> QED BY <1>3, <1>7, <1>8, <1>9, <1>10 DEF KeepsTime, InTime, l

(* A tick is in time: whatever it finds, it commands when it must.         *)
LEMMA TrackedInTime ==
  ASSUME now \in Nat, now # 0, cache \in BOOLEAN, Sound(View),
         GenerationActive(buffer, custom1.generation),
         Answered(View) => buffer.latest.generation = custom1.generation,
         InTime(custom1, cache, now),
         custom1.waiting /\ buffer.latest.sequence = custom1.inFlight
           => Fresh(buffer.latest.stamp, now),
         NEW ending \in BOOLEAN
  PROVE  KeepsTime(Tracked(ending))
<1>1. /\ View.leaf = custom1 /\ View.buffer = buffer /\ View.target = target
      /\ View.request = None
  BY DEF View
<1>2. Regenerated(View) = View
  BY <1>1 DEF Regenerated
<1> DEFINE c == Consumed(View, ending)
           v == TimedOut(c)
<1>3. Sound(c) /\ Follows(View, c)
  BY <1>1, ConsumedFacts, GapConstants
<1>4. Speaks(View, c)
  BY <1>1, ConsumedSpeaks DEF InTime
<1> HIDE DEF c
<1>5. Sound(v) /\ Follows(c, v)
  BY <1>3, TimedOutFacts
<1>6. Speaks(c, v)
  BY <1>3, TimedOutSpeaks DEF Sound
<1>7. Tracked(ending) = IF ~cache THEN IF PublishDue(v) THEN Publish(v, "Setpoint") ELSE v
                        ELSE IF ending THEN FinishPosted(v)
                        ELSE Dispatched(BackedUp(v))
  BY <1>2 DEF Tracked, c
<1> HIDE DEF v
<1>8. Speaks(View, v) /\ v.request = None /\ v \in Views
  BY <1>1, <1>3, <1>4, <1>5, <1>6, SpeaksOn DEF Follows, Sound
<1> DEFINE p == Publish(v, "Setpoint")
<1>9. /\ Sound(p) /\ Follows(v, p) /\ Speaks(v, p) /\ p.leaf.lastPublish = now
      /\ p.leaf.lastRequest = v.leaf.lastRequest
  BY <1>5, <1>8, PublishFacts, PublishSpeaks DEF Effects
<1> HIDE DEF p
<1>10. Speaks(View, p) /\ p.request = None
  BY <1>8, <1>9, SpeaksOn DEF Follows
<1>11. /\ custom1.lastRequest \in Nat /\ custom1.lastPublish \in Nat
       /\ v.leaf.lastRequest = custom1.lastRequest /\ v.leaf.lastPublish \in Nat
  <2>1. custom1 \in Leaves /\ v.leaf \in Leaves
    BY <1>1, <1>8 DEF Sound, Views
  <2> QED BY <1>1, <1>8, <2>1, LeafTimes DEF Speaks
<1>12. CASE ~cache
  <2>1. v.leaf.lastRequest = Never
    BY <1>11, <1>12 DEF InTime
  <2>2. CASE PublishDue(v)
    <3>1. KeepsTime(p)
      BY <1>9, <1>10, <2>1, QuietKeepsTime, GapConstants
    <3> QED BY <1>7, <1>12, <2>2, <3>1 DEF p
  <2>3. CASE ~PublishDue(v)
    <3>1. now <= v.leaf.lastPublish + PublishPeriod
      BY <1>11, <2>3, GapConstants DEF PublishDue
    <3>2. KeepsTime(v)
      BY <1>5, <1>8, <2>1, <3>1, QuietKeepsTime
    <3> QED BY <1>7, <1>12, <2>3, <3>2
  <2> QED BY <2>2, <2>3
<1>13. CASE cache /\ ending
  BY <1>7, <1>8, <1>13, FinishSpeaks DEF KeepsTime
<1>14. CASE cache /\ ~ending
  <2> DEFINE u == BackedUp(v)
  <2>1. u = v \/ u = p
    BY DEF BackedUp, p
  <2>2. Sound(u) /\ Speaks(View, u) /\ u.request = None
    BY <1>5, <1>8, <1>9, <1>10, <2>1
  <2>3. Tracked(ending) = Dispatched(u)
    BY <1>7, <1>14
  <2> HIDE DEF u
  <2>4. /\ u.leaf.lastRequest = custom1.lastRequest
        /\ u.leaf.lastPublish = custom1.lastPublish \/ u.leaf.lastPublish = now
        /\ u.leaf.waiting => custom1.waiting
        /\ custom1.waiting /\ ~u.leaf.waiting => u.leaf.lastPublish = now
    BY <1>1, <2>2 DEF Speaks
  <2>5. Unasked(custom1, now) /\ Rests(custom1, now)
    BY DEF InTime
  <2>6. CASE ~DispatchDue(u)
    <3>1. Dispatched(u) = u
      BY <2>6 DEF Dispatched
    <3>2. u.leaf.lastRequest # Never
      BY <2>4, <2>5, <2>6 DEF DispatchDue, Unasked
    <3>3. ~u.leaf.waiting => now <= u.leaf.lastRequest + ControlPeriod
      BY <1>11, <2>4, <2>6, GapConstants DEF DispatchDue
    <3>4. KeepsTime(u)
      BY <2>2, <3>2, <3>3, QuietKeepsTime
    <3> QED BY <2>3, <3>1, <3>4
  <2>7. CASE DispatchDue(u)
    <3> DEFINE w == Dispatched(u)
    <3>1. /\ w.leaf.waiting /\ w.leaf.deadline = now + SolveTimeout
          /\ w.leaf.lastRequest \in Nat /\ w.leaf.lastRequest # 0
          /\ w.leaf.lastRequest <= now
          /\ w.leaf.lastPublish = u.leaf.lastPublish /\ w.leaf.finished = u.leaf.finished
          /\ w.request # None
      BY <2>2, <2>7, DispatchSpeaks
    <3> HIDE DEF w
    <3>2. u.leaf.lastPublish # Never => now <= u.leaf.lastPublish + LongerPeriod
      <4>1. CASE u.leaf.lastPublish = now
        BY <4>1, GapConstants
      <4>2. CASE u.leaf.lastPublish # now
        <5>1. ~custom1.waiting /\ u.leaf.lastPublish = custom1.lastPublish
          BY <2>4, <2>7, <4>2 DEF DispatchDue
        <5>2. CASE custom1.lastRequest = Never
          BY <1>11, <2>5, <5>1, <5>2, GapConstants DEF Unasked
        <5>3. CASE custom1.lastRequest # Never
          BY <1>11, <2>5, <5>1, <5>3, GapConstants DEF Rests
        <5> QED BY <5>2, <5>3
      <4> QED BY <4>1, <4>2
    <3>3. u.leaf.lastPublish \in Nat
      BY <1>11, <2>4
    <3>4. Unasked(w.leaf, now) /\ Rests(w.leaf, now)
      BY <3>1, GapConstants DEF Unasked, Rests
    <3>5. Waits(w.leaf, now)
      BY <3>1, <3>2, <3>3, GapConstants DEF Waits
    <3>6. KeepsTime(w)
      BY <1>14, <3>1, <3>4, <3>5 DEF KeepsTime, InTime
    <3> QED BY <2>3, <3>6 DEF w
  <2> QED BY <2>6, <2>7
<1> QED BY <1>12, <1>13, <1>14
-----------------------------------------------------------------------------
(* Nothing due by now: nextWake's answer is in the future.                 *)
LEMMA NotDueIsAhead ==
  ASSUME NEW l \in Leaves, l.tracking, cache \in BOOLEAN, NEW t \in Nat, t >= now,
         now \in Nat, ~DueBy(l, t)
  PROVE  Ahead(l, cache, t)
<1>1. \A due \in NextDue(l) : ~(due <= t)
  BY DEF DueBy
<1>2. /\ l.lastRequest \in Nat /\ l.lastPublish \in Nat /\ l.deadline \in Nat
      /\ l.waiting \in BOOLEAN
  BY LeafTimes
<1>3. ASSUME l.waiting PROVE l.deadline + 1 > t
  <2>1. l.deadline + 1 \in NextDue(l)
    BY <1>3 DEF NextDue
  <2> QED BY <1>1, <1>2, <2>1
<1>4. ASSUME cache, ~l.waiting PROVE l.lastRequest # Never /\ l.lastRequest + ControlPeriod > t
  <2>1. l.lastRequest = Never => now \in NextDue(l)
    BY <1>4 DEF NextDue
  <2>2. l.lastRequest # Never
    BY <1>1, <2>1
  <2>3. l.lastRequest + ControlPeriod \in NextDue(l)
    BY <1>4, <2>2 DEF NextDue
  <2> QED BY <1>1, <1>2, <2>2, <2>3, GapConstants
<1>5. ASSUME ~cache PROVE l.lastPublish + PublishPeriod > t
  <2>1. l.lastPublish + PublishPeriod \in NextDue(l)
    BY <1>5 DEF NextDue
  <2> QED BY <1>1, <1>2, <2>1, GapConstants
<1> QED BY <1>3, <1>4, <1>5 DEF Ahead

(* A turn keeps the pace.                                                  *)
LEMMA TurnKeepsPace == IInv /\ Served /\ Paced /\ Turn => Paced'
<1> SUFFICES ASSUME IInv, Served, Paced, Turn PROVE Paced'
  OBVIOUS
<1>1. /\ now \in Nat /\ custom1 \in Leaves /\ buffer \in Buffers /\ None.sequence = 0
      /\ buffer.latest.sequence \in Nat
      /\ buffer.latest # None => buffer.latest \in Results /\ Within(buffer.latest, buffer)
  BY Values DEF IInv
<1>2. /\ custom1.tracking /\ service = "running" /\ handoff = None
      /\ UNCHANGED <<now, cache, job, run, service>>
  BY DEF Turn, OwnerFree, worker
<1>3. now # 0 /\ cache \in BOOLEAN /\ wake \in BOOLEAN
  BY DEF IInv, Typed
<1>4. GenerationActive(buffer, custom1.generation)
  BY <1>2 DEF IInv, Current
<1>5. /\ View.leaf = custom1 /\ View.buffer = buffer /\ View.target = target
      /\ View.request = None /\ Sound(View)
  BY DEF View, IInv
<1>6. Answered(View) => buffer.latest.generation = custom1.generation
  BY <1>5 DEF Answered, IInv, Awaited, Newest
<1>7. InTime(custom1, cache, now) /\ (custom1.waiting => Dated)
  BY <1>2 DEF Paced
<1>8. custom1.waiting => custom1.inFlight = buffer.requests /\ custom1.inFlight # 0
  BY DEF IInv, Awaited
<1>9. custom1.waiting /\ buffer.latest.sequence = custom1.inFlight
        => Fresh(buffer.latest.stamp, now)
  <2> SUFFICES ASSUME custom1.waiting, buffer.latest.sequence = custom1.inFlight
               PROVE  Fresh(buffer.latest.stamp, now)
    OBVIOUS
  <2>1. buffer.latest # None
    BY <1>1, <1>8
  <2>2. buffer.latest.stamp \in Nat /\ buffer.latest.stamp <= now
    BY <1>1, <2>1 DEF Results, Within
  <2>3. buffer.latest.stamp + SolveTimeout = custom1.deadline
    BY <1>7, <1>8 DEF Dated, Carriers
  <2>4. now <= custom1.deadline + 1
    BY <1>7 DEF InTime, Waits
  <2> QED BY <1>1, <2>2, <2>3, <2>4, GapConstants DEF Fresh, Served
<1>10. PICK ending \in BOOLEAN, leaves \in BOOLEAN :
         LET w == Tracked(ending)
             v == IF leaves THEN Left(w) ELSE w
         IN /\ w.leaf.finished => leaves
            /\ custom1' = v.leaf /\ buffer' = v.buffer /\ handoff' = v.request
            /\ wake' = (leaves \/ DueBy(v.leaf, now))
  BY Zenon DEF Turn
<1> DEFINE w == Tracked(ending)
<1>11. /\ Sound(w)
       /\ \/ Follows(View, w)
          \/ /\ w.buffer = [buffer EXCEPT !.requests = @ + 1]
             /\ w.leaf.tracking = custom1.tracking
             /\ w.request = [sequence |-> buffer.requests + 1, stamp |-> now,
                             generation |-> custom1.generation]
  BY <1>1, <1>4, <1>5, <1>6, TrackedFacts
<1>12. KeepsTime(w)
  BY <1>1, <1>3, <1>4, <1>5, <1>6, <1>7, <1>9, TrackedInTime
<1> HIDE DEF w
<1>13. w \in Views /\ w.leaf \in Leaves
  BY <1>11 DEF Sound, Views
<1>14. w.leaf.tracking
  BY <1>2, <1>5, <1>11 DEF Follows
<1>15. CASE leaves
  <2>1. custom1' = Left(w).leaf
    BY <1>10, <1>15 DEF w
  <2>2. Left(w).leaf.tracking = FALSE
    BY <1>13 DEF Left, Views, Leaves
  <2> QED BY <2>1, <2>2 DEF Paced
<1>16. CASE ~leaves
  <2>1. /\ custom1' = w.leaf /\ buffer' = w.buffer /\ handoff' = w.request
        /\ ~w.leaf.finished /\ (~wake' => ~DueBy(w.leaf, now))
    BY <1>10, <1>16 DEF w
  <2>2. /\ InTime(w.leaf, cache, now)
        /\ w.leaf.waiting =>
             \/ custom1.waiting /\ w.leaf.deadline = custom1.deadline /\ w.request = None
             \/ w.leaf.deadline = now + SolveTimeout /\ w.request # None
    BY <1>12, <2>1 DEF KeepsTime
  <2>3. ~wake' => Ahead(w.leaf, cache, now)
    BY <1>1, <1>3, <1>13, <1>14, <2>1, NotDueIsAhead
  <2>4. /\ buffer.requests \in Nat /\ job.sequence \in Nat /\ run.result.sequence \in Nat
        /\ job.sequence <= buffer.requests /\ run.result.sequence <= buffer.requests
    BY OnItsWay
  <2>5. buffer.latest.sequence <= buffer.requests
    BY <1>1, <2>4 DEF Within
  <2>6. ASSUME w.leaf.waiting PROVE Dated'
    <3>1. CASE w.request = None
      <4>1. Follows(View, w)
        <5>1. [sequence |-> buffer.requests + 1, stamp |-> now,
               generation |-> custom1.generation].sequence # 0
          BY <2>4
        <5> QED BY <1>1, <1>11, <3>1, <5>1
      <4>2. buffer' = buffer /\ handoff' = None
        BY <1>5, <2>1, <3>1, <4>1 DEF Follows
      <4>3. custom1.waiting /\ custom1'.deadline = custom1.deadline
        BY <2>1, <2>2, <2>6, <3>1
      <4>4. Dated /\ buffer.requests # 0
        BY <1>7, <1>8, <4>3
      <4>5. Carriers' = {None, job, run.result, buffer.latest}
        BY <1>2, <4>2 DEF Carriers
      <4> QED BY <1>1, <4>2, <4>3, <4>4, <4>5 DEF Dated, Carriers
    <3>2. CASE w.request # None
      <4>1. /\ w.buffer = [buffer EXCEPT !.requests = @ + 1]
            /\ w.request = [sequence |-> buffer.requests + 1, stamp |-> now,
                            generation |-> custom1.generation]
        BY <1>5, <1>11, <3>2 DEF Follows
      <4>2. buffer'.requests = buffer.requests + 1 /\ buffer'.latest = buffer.latest
        BY <1>1, <2>1, <4>1 DEF Buffers
      <4>3. custom1'.deadline = now + SolveTimeout
        BY <2>1, <2>2, <2>6, <3>2
      <4>4. Carriers' = {w.request, job, run.result, buffer.latest}
        BY <1>2, <2>1, <4>2 DEF Carriers
      <4>5. w.request.stamp = now
        BY <4>1
      <4>6. \A c \in {job, run.result, buffer.latest} : c.sequence # buffer'.requests
        BY <1>1, <2>4, <2>5, <4>2
      <4> QED BY <4>3, <4>4, <4>5, <4>6 DEF Dated
    <3> QED BY <3>1, <3>2
  <2> QED BY <1>2, <2>1, <2>2, <2>3, <2>6 DEF Paced
<1> QED BY <1>15, <1>16

(* What the worker and the handler of a request do leaves the tracking     *)
(* state alone; whatever carries a request, carried it before.             *)
LEMMA OthersKeepPace ==
  ASSUME IInv, Paced, UNCHANGED <<now, custom1, cache>>, wake => wake',
         service' = "running" => service = "running" /\ buffer'.requests = buffer.requests,
         service' = "running" => \A c \in Carriers' :
           c = None \/ \E d \in Carriers : c.sequence = d.sequence /\ c.stamp = d.stamp
  PROVE  Paced'
<1> SUFFICES ASSUME service' = "running", custom1.tracking
             PROVE  /\ InTime(custom1, cache, now)
                    /\ ~wake' => Ahead(custom1, cache, now)
                    /\ custom1.waiting => Dated'
  BY DEF Paced
<1>1. /\ InTime(custom1, cache, now) /\ (~wake' => Ahead(custom1, cache, now))
      /\ custom1.waiting => Dated
  BY DEF Paced
<1>2. ASSUME custom1.waiting PROVE Dated'
  <2>1. None.sequence = 0 /\ buffer.requests # 0
    BY <1>2 DEF None, IInv, Awaited
  <2>2. Dated
    BY <1>1, <1>2
  <2>3. ASSUME NEW c \in Carriers', c.sequence = buffer.requests
        PROVE  c.stamp + SolveTimeout = custom1.deadline
    <3>1. PICK d \in Carriers : c.sequence = d.sequence /\ c.stamp = d.stamp
      BY <2>1, <2>3
    <3> QED BY <2>2, <2>3, <3>1 DEF Dated
  <2> QED BY <2>3 DEF Dated
<1> QED BY <1>1, <1>2

(* Handing a request over, or refusing it.                                 *)
LEMMA HandleKeepsPace == IInv /\ Paced /\ Handle => Paced'
<1> SUFFICES ASSUME IInv, Paced, Handle PROVE Paced'
  OBVIOUS
<1>1. /\ handoff' = None /\ UNCHANGED <<now, custom1, cache, service, run>>
      /\ handoff \in Requests
  BY DEF Handle, IInv, Typed, worker, Rejected, Submitted
<1>2. buffer \in Buffers
  BY Values DEF IInv
<1>3. ASSUME NEW outcome, Rejected(outcome) PROVE Paced'
  <2> DEFINE result == Answer(handoff, outcome)
  <2>1. result.sequence = handoff.sequence /\ result.stamp = handoff.stamp
    BY DEF Answer
  <2>2. buffer' = Store(buffer, result) /\ job' = job /\ (wake => wake')
    BY <1>3 DEF Rejected, worker
  <2> HIDE DEF result
  <2>3. buffer'.requests = buffer.requests /\ buffer'.latest \in {buffer.latest, result}
    BY <1>2, <2>2 DEF Store, Buffers
  <2>4. Carriers' = {None, job, run.result, buffer'.latest}
    BY <1>1, <2>2 DEF Carriers
  <2>5. \A c \in Carriers' :
          c = None \/ \E d \in Carriers : c.sequence = d.sequence /\ c.stamp = d.stamp
    BY <2>1, <2>3, <2>4 DEF Carriers
  <2> QED BY <1>1, <2>2, <2>3, <2>5, OthersKeepPace
<1>4. ASSUME Submitted \/ UNCHANGED <<buffer, worker, wake>> PROVE Paced'
  <2>1. buffer' = buffer /\ wake' = wake /\ job' \in {job, handoff}
    BY <1>4 DEF Submitted, worker
  <2>2. Carriers' = {None, job', run.result, buffer.latest}
    BY <1>1, <2>1 DEF Carriers
  <2>3. \A c \in Carriers' :
          c = None \/ \E d \in Carriers : c.sequence = d.sequence /\ c.stamp = d.stamp
    BY <2>1, <2>2 DEF Carriers
  <2> QED BY <1>1, <2>1, <2>3, OthersKeepPace
<1> QED BY <1>3, <1>4 DEF Handle

(* The worker's steps.                                                     *)
LEMMA WorkerKeepsPace ==
  IInv /\ Paced /\ (Take \/ Solve \/ StoreResult \/ Notify \/ Call) => Paced'
<1> SUFFICES ASSUME IInv, Paced, Take \/ Solve \/ StoreResult \/ Notify \/ Call
             PROVE  Paced'
  OBVIOUS
<1>1. UNCHANGED <<now, custom1, cache, service, handoff>> /\ (wake => wake')
  <2>1. UNCHANGED <<now, custom1, cache, service, handoff>>
    BY DEF Take, Solve, StoreResult, Notify, Call, ownerState
  <2>2. CASE Take \/ Solve \/ StoreResult \/ Notify
    BY <2>1, <2>2 DEF Take, Solve, StoreResult, Notify
  <2>3. CASE Call
    BY <2>1, <2>3, Zenon DEF Call
  <2> QED BY <2>2, <2>3
<1>2. buffer \in Buffers
  BY Values DEF IInv
<1>3. Idle.result = None
  BY DEF Idle
<1>4. /\ buffer'.requests = buffer.requests
      /\ \A c \in Carriers' :
           c = None \/ \E d \in Carriers : c.sequence = d.sequence /\ c.stamp = d.stamp
  <2>1. CASE Take
    <3>1. buffer' = buffer /\ job' = None /\ run'.result = job
      BY <2>1 DEF Take
    <3> QED BY <1>1, <3>1 DEF Carriers
  <2>2. CASE Solve
    <3>1. PICK outcome : run' = [phase |-> "solved", result |-> Answer(run.result, outcome)]
      BY <2>2 DEF Solve
    <3>2. run'.result.sequence = run.result.sequence /\ run'.result.stamp = run.result.stamp
      BY <3>1 DEF Answer
    <3>3. buffer' = buffer /\ job' = job
      BY <2>2 DEF Solve
    <3> QED BY <1>1, <3>2, <3>3 DEF Carriers
  <2>3. CASE StoreResult
    <3>1. /\ buffer'.requests = buffer.requests
          /\ buffer'.latest \in {buffer.latest, run.result} /\ job' = job
      BY <1>2, <2>3 DEF StoreResult, Store, Buffers
    <3>2. run'.result \in {run.result, None}
      <4>1. run \in Runs /\ run.phase = "solved"
        BY <2>3 DEF StoreResult, IInv, Typed
      <4> QED BY <1>3, <2>3, <4>1 DEF StoreResult, Runs, Idle
    <3> QED BY <1>1, <3>1, <3>2 DEF Carriers
  <2>4. CASE Notify
    <3>1. buffer' = buffer /\ job' = job /\ run'.result \in {run.result, None}
      <4>1. run \in Runs /\ run.phase = "notifying"
        BY <2>4 DEF Notify, IInv, Typed
      <4> QED BY <1>3, <2>4, <4>1 DEF Notify, Runs, Idle
    <3> QED BY <1>1, <3>1 DEF Carriers
  <2>5. CASE Call
    <3>1. buffer' = buffer /\ job' = job /\ run'.result = None
      BY <1>3, <2>5 DEF Call
    <3> QED BY <1>1, <3>1 DEF Carriers
  <2> QED BY <2>1, <2>2, <2>3, <2>4, <2>5
<1> QED BY <1>1, <1>4, OthersKeepPace

(* Entering.                                                               *)
LEMMA EnterKeepsPace == IInv /\ Enter => Paced'
<1> SUFFICES ASSUME IInv, Enter PROVE Paced'
  OBVIOUS
<1>1. custom1' = FreshEntry(buffer') /\ wake' = TRUE
  BY DEF Enter
<1>2. /\ custom1'.lastRequest = Never /\ ~custom1'.waiting /\ custom1'.lastPublish = Never
      /\ ~custom1'.finished
  BY <1>1 DEF FreshEntry
<1> QED BY <1>1, <1>2 DEF Paced, InTime, Unasked, Waits, Rests

(* Time passes only when no turn is asked for, up to when one is.          *)
LEMMA TickKeepsPace == IInv /\ Served /\ Paced /\ Tick => Paced'
<1> SUFFICES ASSUME IInv, Served, Paced, Tick, service = "running", custom1.tracking
             PROVE  Paced'
  BY DEF Paced, Tick
<1>1. /\ ~wake /\ now' = now + 1 /\ wake' = (wake \/ DueBy(custom1, now'))
      /\ UNCHANGED <<buffer, custom1, cache, handoff, job, run, service>>
  BY DEF Tick, Served, worker
<1>2. /\ now \in Nat /\ custom1 \in Leaves /\ cache \in BOOLEAN
  BY Values DEF IInv, Typed
<1>3. InTime(custom1, cache, now) /\ Ahead(custom1, cache, now) /\ (custom1.waiting => Dated)
  BY <1>1 DEF Paced
<1>4. /\ custom1.lastRequest \in Nat /\ custom1.lastPublish \in Nat
      /\ custom1.deadline \in Nat /\ custom1.waiting \in BOOLEAN
  BY <1>2, LeafTimes
<1>5. Unasked(custom1, now')
  <2> SUFFICES ASSUME custom1.lastRequest = Never, custom1.lastPublish # Never
               PROVE  now' <= custom1.lastPublish + PublishPeriod
    BY <1>3 DEF InTime, Unasked
  <2>1. ~custom1.waiting
    BY <1>3 DEF InTime, Unasked
  <2>2. ~cache
    BY <1>3, <2>1 DEF Ahead
  <2> QED BY <1>1, <1>2, <1>3, <1>4, <2>2, GapConstants DEF Ahead
<1>6. Waits(custom1, now')
  <2> SUFFICES ASSUME custom1.waiting PROVE Waits(custom1, now')
    BY DEF Waits
  <2> QED BY <1>1, <1>2, <1>3, <1>4, GapConstants DEF InTime, Waits, Ahead
<1>7. Rests(custom1, now')
  <2> SUFFICES ASSUME custom1.lastRequest # Never, ~custom1.waiting PROVE Rests(custom1, now')
    BY DEF Rests
  <2>1. cache
    BY <1>3 DEF InTime
  <2> QED BY <1>1, <1>2, <1>3, <1>4, <2>1, GapConstants DEF InTime, Rests, Ahead
<1>8. ~wake' => Ahead(custom1, cache, now')
  <2>1. now' \in Nat /\ now' >= now
    BY <1>1, <1>2
  <2> QED BY <1>1, <1>2, <2>1, NotDueIsAhead
<1>9. custom1.waiting => Dated'
  BY <1>1, <1>3 DEF Dated, Carriers
<1> QED BY <1>1, <1>3, <1>5, <1>6, <1>7, <1>8, <1>9 DEF Paced, InTime

(* Inputs ask for a turn; a stop ends what is claimed.                     *)
LEMMA RestKeepsPace ==
  IInv /\ Paced /\ (TurnElsewhere \/ Input \/ ReferenceArrives
                      \/ StopBegin \/ StopInvalidate \/ StopEnd \/ UNCHANGED vars) => Paced'
<1> SUFFICES ASSUME IInv, Paced, TurnElsewhere \/ Input \/ ReferenceArrives
                      \/ StopBegin \/ StopInvalidate \/ StopEnd \/ UNCHANGED vars
             PROVE  Paced'
  OBVIOUS
<1>1. CASE TurnElsewhere
  BY <1>1 DEF TurnElsewhere, Paced
<1>2. CASE StopBegin \/ StopInvalidate \/ StopEnd
  BY <1>2 DEF StopBegin, StopInvalidate, StopEnd, Paced
<1>3. CASE Input \/ ReferenceArrives
  <2>1. /\ wake' = TRUE /\ (cache' = cache \/ cache' = TRUE)
        /\ UNCHANGED <<now, buffer, custom1, handoff, job, run, service>>
    BY <1>3 DEF Input, ReferenceArrives, worker
  <2>2. Dated' <=> Dated
    BY <2>1 DEF Dated, Carriers
  <2> QED BY <2>1, <2>2 DEF Paced, InTime
<1>4. CASE UNCHANGED vars
  <2>1. UNCHANGED <<now, buffer, custom1, cache, handoff, job, run, service, wake>>
    BY <1>4 DEF vars, worker
  <2>2. Dated' <=> Dated
    BY <2>1 DEF Dated, Carriers
  <2> QED BY <2>1, <2>2 DEF Paced
<1> QED BY <1>1, <1>2, <1>3, <1>4
-----------------------------------------------------------------------------
(* With prompt turns, tracking keeps its pace.                             *)
THEOREM PaceIsKept == Spec => [](Served => Paced)
<1>1. Init => (Served => Paced)
  BY DEF Init, Paced
<1>2. IInv /\ (Served => Paced) /\ [Next]_vars => (Served => Paced)'
  <2> SUFFICES ASSUME IInv, Served, Paced, [Next]_vars PROVE Paced'
    BY DEF Served
  <2>1. CASE Turn  BY <2>1, TurnKeepsPace
  <2>2. CASE Enter  BY <2>2, EnterKeepsPace
  <2>3. CASE Handle  BY <2>3, HandleKeepsPace
  <2>4. CASE Take \/ Solve \/ StoreResult \/ Notify \/ Call  BY <2>4, WorkerKeepsPace
  <2>5. CASE Tick  BY <2>5, TickKeepsPace
  <2>6. CASE TurnElsewhere \/ Input \/ ReferenceArrives
                \/ StopBegin \/ StopInvalidate \/ StopEnd \/ UNCHANGED vars
    BY <2>6, RestKeepsPace
  <2> QED BY <2>1, <2>2, <2>3, <2>4, <2>5, <2>6 DEF Next, OwnerTurns, Others
<1> QED BY <1>1, <1>2, ExchangeInvariant, PTL DEF Spec

(* A tracking state that has published keeps publishing, with a solver     *)
(* that may never answer, for every period and every pair of timeouts.     *)
THEOREM SilenceIsBounded == Spec => []OutputGap
<1>1. IInv /\ (Served => Paced) => OutputGap
  <2> SUFFICES ASSUME IInv, Paced, service = "running", custom1.tracking,
                      custom1.lastPublish # Never
               PROVE  now - custom1.lastPublish <= LongestSilence
    BY DEF OutputGap, Served
  <2>1. now \in Nat /\ custom1 \in Leaves
    BY Values DEF IInv
  <2>2. /\ custom1.lastRequest \in Nat /\ custom1.lastPublish \in Nat
        /\ custom1.deadline \in Nat
    BY <2>1, LeafTimes
  <2>3. Unasked(custom1, now) /\ Waits(custom1, now) /\ Rests(custom1, now)
    BY DEF Paced, InTime
  <2>4. CASE custom1.lastRequest = Never
    BY <2>1, <2>2, <2>3, <2>4, GapConstants DEF Unasked, LongestSilence
  <2>5. CASE custom1.waiting
    BY <2>1, <2>2, <2>3, <2>5, GapConstants DEF Waits, LongestSilence
  <2>6. CASE custom1.lastRequest # Never /\ ~custom1.waiting
    BY <2>1, <2>2, <2>3, <2>6, GapConstants DEF Rests, LongestSilence
  <2> QED BY <2>4, <2>5, <2>6
<1> QED BY <1>1, PaceIsKept, ExchangeInvariant, PTL
-----------------------------------------------------------------------------
(* A wait goes on only up to its deadline.                                 *)
LEMMA TimedOutWaits ==
  ASSUME now \in Nat, NEW v \in Views
  PROVE  TimedOut(v).leaf.waiting => now <= TimedOut(v).leaf.deadline
<1> DEFINE l == [v.leaf EXCEPT !.waiting = FALSE]
           w == [v EXCEPT !.leaf = l]
<1>1. v.leaf \in Leaves /\ v.leaf.deadline \in Nat
  BY DEF Views, Leaves
<1>2. [v EXCEPT !.leaf.waiting = FALSE] = w
  BY <1>1 DEF Views
<1>3. l \in Leaves /\ l.waiting = FALSE
  BY <1>1 DEF Leaves
<1> HIDE DEF l
<1>4. w \in Views /\ w.leaf = l
  BY <1>3 DEF Views
<1> HIDE DEF w
<1>5. CASE v.leaf.waiting /\ now > v.leaf.deadline
  <2>1. TimedOut(v) = Publish(w, "Setpoint")
    BY <1>2, <1>5 DEF TimedOut
  <2> DEFINE p == Publish(w, "Setpoint")
  <2>2. p.leaf.waiting = w.leaf.waiting
    BY <1>4, PublishSpeaks
  <2> HIDE DEF p
  <2> QED BY <1>3, <1>4, <2>1, <2>2 DEF p
<1>6. CASE ~(v.leaf.waiting /\ now > v.leaf.deadline)
  <2>1. TimedOut(v) = v
    BY <1>6 DEF TimedOut
  <2> QED BY <1>1, <1>6, <2>1
<1> QED BY <1>5, <1>6

(* A command, and a request, leave the last success as it is.              *)
LEMMA SuccessStays ==
  ASSUME now \in Nat, NEW v \in Views
  PROVE  /\ \A e : Publish(v, e).leaf.lastSuccess = v.leaf.lastSuccess
         /\ Dispatched(v).leaf.lastSuccess = v.leaf.lastSuccess
<1> DEFINE kept == Dispatched(v).leaf.lastSuccess = v.leaf.lastSuccess
<1>1. v.leaf \in Leaves
  BY DEF Views
<1>2. ASSUME NEW e PROVE Publish(v, e).leaf.lastSuccess = v.leaf.lastSuccess
  <2>1. v = [leaf |-> v.leaf, buffer |-> v.buffer, target |-> v.target,
             out |-> v.out, request |-> v.request]
    BY DEF Views
  <2>2. Publish(v, e).leaf = [v.leaf EXCEPT !.lastPublish = now]
    BY <2>1 DEF Publish
  <2> QED BY <1>1, <2>2 DEF Leaves
<1>3. ASSUME DispatchDue(v) PROVE kept
  <2> DEFINE sequence == v.buffer.requests + 1
             last == NextRequestTime(v.leaf.lastRequest)
             l == [v.leaf EXCEPT !.inFlight = sequence, !.waiting = TRUE,
                                 !.lastRequest = last, !.deadline = now + SolveTimeout]
             q == [sequence |-> sequence, stamp |-> now, generation |-> v.leaf.generation]
             b == [v.buffer EXCEPT !.requests = sequence]
             w == [leaf |-> l, buffer |-> b, target |-> v.target, out |-> v.out, request |-> q]
  <2>1. v = [leaf |-> v.leaf, buffer |-> v.buffer, target |-> v.target,
             out |-> v.out, request |-> v.request]
    BY DEF Views
  <2>2. Dispatched(v) = w
    BY <1>1, <1>3, <2>1 DEF Dispatched
  <2> HIDE DEF last
  <2>3. l.lastSuccess = v.leaf.lastSuccess
    BY <1>1 DEF Leaves
  <2> HIDE DEF l, q, b
  <2>4. w.leaf = l
    OBVIOUS
  <2> HIDE DEF w
  <2> QED BY <2>2, <2>3, <2>4
<1>4. ASSUME ~DispatchDue(v) PROVE kept
  BY <1>4 DEF Dispatched
<1> QED BY <1>2, <1>3, <1>4

(* A leaf whose timers are all in the future waits for nothing now.        *)
LEMMA NothingDue ==
  ASSUME now \in Nat, now # 0, cache \in BOOLEAN, NEW l \in Leaves,
         l.waiting => now <= l.deadline,
         ~cache => now < l.lastPublish + PublishPeriod,
         cache /\ l.lastSuccess # Never /\ now - l.lastSuccess > ResultTimeout
           => now < l.lastPublish + PublishPeriod,
         cache /\ ~l.waiting => l.lastRequest # Never /\ now < l.lastRequest + ControlPeriod
  PROVE  ~DueBy(l, now)
<1>1. /\ l.lastRequest \in Nat /\ l.lastPublish \in Nat /\ l.deadline \in Nat
      /\ l.lastSuccess \in Nat /\ l.waiting \in BOOLEAN
  BY DEF Leaves
<1>2. ASSUME NEW due \in NextDue(l) PROVE due > now
  <2>1. CASE ~cache
    <3>1. (l.waiting /\ due = l.deadline + 1) \/ due = l.lastPublish + PublishPeriod
      BY <2>1 DEF NextDue
    <3> QED BY <1>1, <2>1, <3>1, GapConstants
  <2>2. CASE cache
    <3>1. \/ l.waiting /\ due = l.deadline + 1
          \/ l.lastSuccess # Never /\ now < l.lastSuccess + ResultTimeout + 1
               /\ due = l.lastSuccess + ResultTimeout + 1
          \/ l.lastSuccess # Never /\ ~(now < l.lastSuccess + ResultTimeout + 1)
               /\ due = l.lastPublish + PublishPeriod
          \/ ~l.waiting /\ l.lastRequest = Never
          \/ ~l.waiting /\ due = l.lastRequest + ControlPeriod
      BY <2>2 DEF NextDue
    <3> QED BY <1>1, <2>2, <3>1, GapConstants
  <2> QED BY <2>1, <2>2
<1>3. ASSUME NEW due \in NextDue(l), due <= now PROVE FALSE
  <2>1. \/ due = l.deadline + 1 \/ due = l.lastPublish + PublishPeriod
        \/ due = l.lastSuccess + ResultTimeout + 1 \/ due = now
        \/ due = l.lastRequest + ControlPeriod
    BY DEF NextDue
  <2>2. due \in Nat
    BY <1>1, <2>1, GapConstants
  <2> QED BY <1>2, <1>3, <2>2
<1> QED BY <1>3 DEF DueBy

(* A tick that has not finished has done all that was due: what it waits   *)
(* for next is in the future.                                              *)
LEMMA TrackedSpends ==
  ASSUME now \in Nat, now # 0, cache \in BOOLEAN, Sound(View),
         GenerationActive(buffer, custom1.generation),
         Answered(View) => buffer.latest.generation = custom1.generation,
         NEW ending \in BOOLEAN, ~Tracked(ending).leaf.finished
  PROVE  ~DueBy(Tracked(ending).leaf, now)
<1>1. View.leaf = custom1 /\ View.buffer = buffer /\ Regenerated(View) = View
  BY DEF View, Regenerated
<1> DEFINE c == Consumed(View, ending)
           v == TimedOut(c)
<1>2. Sound(c)
  BY <1>1, ConsumedFacts, GapConstants
<1> HIDE DEF c
<1>3. Sound(v) /\ v \in Views /\ (v.leaf.waiting => now <= v.leaf.deadline)
  BY <1>2, TimedOutFacts, TimedOutWaits DEF Sound
<1>4. Tracked(ending) = IF ~cache THEN IF PublishDue(v) THEN Publish(v, "Setpoint") ELSE v
                        ELSE IF ending THEN FinishPosted(v)
                        ELSE Dispatched(BackedUp(v))
  BY <1>1 DEF Tracked, c
<1> HIDE DEF v
<1> DEFINE p == Publish(v, "Setpoint")
<1>5. /\ Sound(p) /\ p.leaf.lastPublish = now
      /\ p.leaf.waiting = v.leaf.waiting /\ p.leaf.deadline = v.leaf.deadline
      /\ p.leaf.lastSuccess = v.leaf.lastSuccess
  BY <1>3, PublishFacts, PublishSpeaks, SuccessStays DEF Effects
<1> HIDE DEF p
<1>6. /\ v.leaf \in Leaves /\ v.leaf.lastPublish \in Nat /\ p.leaf \in Leaves
      /\ v.leaf.lastSuccess \in Nat
  BY <1>3, <1>5 DEF Sound, Views, Leaves
<1>7. ~PublishDue(v) => now < v.leaf.lastPublish + PublishPeriod
  BY <1>6, GapConstants DEF PublishDue
<1>8. CASE ~cache
  <2>1. Tracked(ending) = IF PublishDue(v) THEN p ELSE v
    BY <1>4, <1>8 DEF p
  <2>2. ~DueBy(p.leaf, now)
    BY <1>3, <1>5, <1>6, <1>8, NothingDue, GapConstants
  <2>3. ~PublishDue(v) => ~DueBy(v.leaf, now)
    BY <1>3, <1>6, <1>7, <1>8, NothingDue
  <2> QED BY <2>1, <2>2, <2>3
<1>9. CASE cache /\ ending
  BY <1>3, <1>4, <1>9, FinishSpeaks
<1>10. CASE cache /\ ~ending
  <2> DEFINE u == BackedUp(v)
  <2>1. u = v \/ u = p
    BY DEF BackedUp, p
  <2>2. /\ Sound(u) /\ u \in Views /\ u.leaf \in Leaves
        /\ u.leaf.waiting => now <= u.leaf.deadline
    BY <1>3, <1>5, <1>6, <2>1 DEF Sound
  <2>3. u.leaf.lastSuccess # Never /\ now - u.leaf.lastSuccess > ResultTimeout
          => now < u.leaf.lastPublish + PublishPeriod
    <3>1. CASE u = p
      BY <1>5, <3>1, GapConstants
    <3>2. CASE u = v /\ u # p
      <4>1. v.leaf.lastSuccess # Never /\ now - v.leaf.lastSuccess > ResultTimeout
              => ~PublishDue(v)
        BY <3>2 DEF BackedUp, p
      <4> QED BY <1>7, <3>2, <4>1
    <3> QED BY <2>1, <3>1, <3>2
  <2>4. Tracked(ending) = Dispatched(u)
    BY <1>4, <1>10
  <2> HIDE DEF u
  <2>5. CASE ~DispatchDue(u)
    <3>1. Dispatched(u) = u /\ u.leaf.lastRequest \in Nat
      BY <2>2, <2>5 DEF Dispatched, Leaves
    <3>2. ~u.leaf.waiting => u.leaf.lastRequest # Never /\ now < u.leaf.lastRequest + ControlPeriod
      BY <2>5, <3>1, GapConstants DEF DispatchDue
    <3>3. ~DueBy(u.leaf, now)
      BY <1>10, <2>2, <2>3, <3>2, NothingDue
    <3> QED BY <2>4, <3>1, <3>3
  <2>6. CASE DispatchDue(u)
    <3> DEFINE w == Dispatched(u)
    <3>1. /\ w.leaf.waiting /\ w.leaf.deadline = now + SolveTimeout
          /\ w.leaf.lastPublish = u.leaf.lastPublish
          /\ w.leaf.lastSuccess = u.leaf.lastSuccess /\ Sound(w)
      BY <2>2, <2>6, DispatchSpeaks, SuccessStays, DispatchedFacts, GapConstants
    <3> HIDE DEF w
    <3>2. w.leaf \in Leaves
      BY <3>1 DEF Sound, Views
    <3>3. now <= w.leaf.deadline
      BY <3>1, GapConstants
    <3>4. ~DueBy(w.leaf, now)
      BY <1>10, <2>3, <3>1, <3>2, <3>3, NothingDue
    <3> QED BY <2>4, <3>4 DEF w
  <2> QED BY <2>5, <2>6
<1> QED BY <1>8, <1>9, <1>10

(* The owner does not spin (nextWake agrees with the guards it serves): a  *)
(* turn of the tracking state asks for another only when it leaves it.     *)
TurnIsSpent == [][(Turn /\ wake') => ~custom1'.tracking]_vars

(* Whatever is due at a turn is done by it, in one.                        *)
LEMMA TurnSpends ==
  ASSUME IInv, Turn, wake'
  PROVE  ~custom1'.tracking
<1>1. /\ now \in Nat /\ now # 0 /\ cache \in BOOLEAN /\ Sound(View)
      /\ GenerationActive(buffer, custom1.generation)
      /\ Answered(View) => buffer.latest.generation = custom1.generation
  <2>1. now \in Nat /\ now # 0 /\ cache \in BOOLEAN /\ Sound(View)
    BY Values DEF IInv, Typed
  <2>2. custom1.tracking /\ service = "running"
    BY DEF Turn, OwnerFree
  <2>3. GenerationActive(buffer, custom1.generation)
    BY <2>2 DEF IInv, Current
  <2>4. View.leaf = custom1 /\ View.buffer = buffer
    BY DEF View
  <2>5. Answered(View) => buffer.latest.generation = custom1.generation
    BY <2>4 DEF Answered, IInv, Awaited, Newest
  <2> QED BY <2>1, <2>3, <2>5
<1>2. PICK ending \in BOOLEAN, leaves \in BOOLEAN :
        LET w == Tracked(ending)
            v == IF leaves THEN Left(w) ELSE w
        IN /\ w.leaf.finished => leaves
           /\ custom1' = v.leaf
           /\ wake' = (leaves \/ DueBy(v.leaf, now))
  BY Zenon DEF Turn
<1> DEFINE w == Tracked(ending)
<1>3. ~w.leaf.finished => ~DueBy(w.leaf, now)
  BY <1>1, TrackedSpends
<1>4. Sound(w)
  BY <1>1, TrackedFacts
<1> HIDE DEF w
<1>5. CASE leaves
  <2>1. custom1' = Left(w).leaf
    BY <1>2, <1>5 DEF w
  <2>2. Left(w).leaf.tracking = FALSE
    BY <1>4 DEF Sound, Left, Views, Leaves
  <2> QED BY <2>1, <2>2
<1>6. CASE ~leaves
  <2>1. ~w.leaf.finished /\ (wake' = DueBy(w.leaf, now))
    BY <1>2, <1>6, Zenon DEF w
  <2> QED BY <1>3, <2>1
<1> QED BY <1>5, <1>6

(* However late the turns come and whatever the solver answers, no turn of *)
(* the tracking state asks for the next at the same instant.               *)
THEOREM TurnsAreSpent == Spec => TurnIsSpent
<1>1. IInv => [(Turn /\ wake') => ~custom1'.tracking]_vars
  BY TurnSpends
<1>2. QED
  BY <1>1, ExchangeInvariant, PTL DEF TurnIsSpent
=============================================================================
