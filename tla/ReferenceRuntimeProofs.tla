------------------------ MODULE ReferenceRuntimeProofs ------------------------
(***************************************************************************)
(* What the operations of the generator's runtime do, for every period,    *)
(* lead time and grace: the lemmas the proofs of both its front ends (the  *)
(* ROS node and the native module) rest on.                                *)
(***************************************************************************)
EXTENDS ReferenceRuntime, SequenceTheorems, TLAPS

(* The greater of two numbers.                                             *)
LEMMA MaxOfTwo ==
  ASSUME NEW a \in Nat, NEW b \in Nat
  PROVE  Max({a, b}) \in Nat /\ Max({a, b}) >= a /\ Max({a, b}) >= b
<1>1. \E x \in {a, b} : \A y \in {a, b} : x >= y
  <2>1. CASE a >= b  BY <2>1
  <2>2. CASE b >= a  BY <2>2
  <2>3. QED  BY <2>1, <2>2
<1>2. Max({a, b}) \in {a, b} /\ \A y \in {a, b} : Max({a, b}) >= y
  BY <1>1 DEF Max
<1>3. QED
  BY <1>2

(* The least of three numbers.                                            *)
LEMMA MinOfThree ==
  ASSUME NEW a \in Nat, NEW b \in Nat, NEW c \in Nat
  PROVE  /\ Min({a, b, c}) \in {a, b, c}
         /\ Min({a, b, c}) <= a /\ Min({a, b, c}) <= b /\ Min({a, b, c}) <= c
<1>1. \E x \in {a, b, c} : \A y \in {a, b, c} : x <= y
  <2>1. CASE a <= b /\ a <= c  BY <2>1
  <2>2. CASE b <= a /\ b <= c  BY <2>2
  <2>3. CASE c <= a /\ c <= b  BY <2>3
  <2>4. QED  BY <2>1, <2>2, <2>3
<1>2. /\ Min({a, b, c}) \in {a, b, c}
      /\ \A y \in {a, b, c} : Min({a, b, c}) <= y
  BY <1>1 DEF Min
<1>3. QED
  BY <1>2
-----------------------------------------------------------------------------
(* No reference starts sooner than the lead time after its receipt.        *)
LEMMA StartFacts ==
  ASSUME NEW request, request.start \in Nat, NEW receipt \in Nat \ {0},
         NEW start, start = Start(request, receipt)
  PROVE  start \in Nat /\ start > LeadTime /\ start >= receipt
BY MaxOfTwo, RatesAssumption DEF Start

(* A new reference waits in the runtime, and the rest is as it was.        *)
LEMMA WaitingIsRuntime ==
  ASSUME NEW n \in Nat, NEW r \in Runtimes(1 .. n), NEW next,
         NEW reference \in References({n + 1}), next = [r EXCEPT !.pending = reference]
  PROVE  /\ next \in Runtimes(1 .. n + 1) /\ next.pending = reference
         /\ next.state = r.state /\ next.active = r.active /\ next.time = r.time
         /\ next.status = r.status /\ next.posted = r.posted
<1>1. References({n + 1}) \subseteq References(1 .. n + 1)
  BY DEF References
<1>2. References(1 .. n) \subseteq References(1 .. n + 1)
  BY DEF References
<1>3. QED
  BY <1>1, <1>2 DEF Runtimes

(* A status is published when it is due, and then the period starts again. *)
LEMMA StatusFacts ==
  ASSUME NEW n \in Nat, NEW r \in Runtimes(1 .. n), NEW out
  PROVE  LET next == WithStatus(r, out).runtime IN
         /\ next \in Runtimes(1 .. n) /\ next.time = r.time /\ next.pending = r.pending
         /\ next.active = r.active /\ next.state = r.state /\ next.posted = r.posted
         /\ r.time - next.status < StatusPeriod
<1>1. CASE StatusDue(r)
  <2>1. WithStatus(r, out).runtime = [r EXCEPT !.status = r.time]
    BY <1>1 DEF WithStatus
  <2>2. QED
    BY <2>1, RatesAssumption DEF Runtimes
<1>2. CASE ~StatusDue(r)
  <2>1. WithStatus(r, out).runtime = r
    BY <1>2 DEF WithStatus
  <2>2. r.time - r.status < StatusPeriod
    BY <1>2, RatesAssumption DEF StatusDue, Due, Runtimes
  <2>3. QED
    BY <2>1, <2>2
<1>3. QED
  BY <1>1, <1>2

(* An update takes up what waits, ends what is over and keeps the periods. *)
LEMMA UpdatedFacts ==
  ASSUME NEW n \in Nat, NEW r \in Runtimes(1 .. n), NEW at \in Nat \ {0},
         r.state = "Active" => r.active # None,
         NEW next, next = Updated(r, at).runtime
  PROVE  /\ next \in Runtimes(1 .. n)
         /\ next.time = at /\ next.pending = None
         /\ next.active = IF r.pending # None THEN r.pending ELSE r.active
         /\ next.state = IF r.pending # None \/ (r.state = "Active" /\ ~Expired(r.active, at))
                         THEN "Active" ELSE "Ready"
         /\ at - next.status < StatusPeriod
         /\ next.state = "Active" => at - next.posted < ActivePeriod
<1> DEFINE s == [r EXCEPT !.time = at]
<1>1. /\ s \in Runtimes(1 .. n) /\ s.time = at /\ s.state = r.state /\ s.pending = r.pending
      /\ s.active = r.active /\ s.status = r.status /\ s.posted = r.posted
  BY DEF Runtimes
<1>2. Updated(r, at) =
        IF s.pending # None
        THEN IF s.state = "Active" THEN ReplaceActive(s) ELSE BecomeActive(s)
        ELSE IF s.state = "SelfCheck" \/ (s.state = "Active" /\ Expired(s.active, at))
             THEN BecomeReady(s) ELSE Republish(s)
  BY DEF Updated
<1> HIDE DEF s
<1>3. CASE /\ r.pending = None
           /\ r.state = "SelfCheck" \/ (r.state = "Active" /\ Expired(r.active, at))
  <2>1. Updated(r, at) = BecomeReady(s)
    BY <1>1, <1>2, <1>3
  <2>2. next = [s EXCEPT !.state = "Ready", !.status = s.time, !.posted = Never]
    BY <2>1 DEF BecomeReady
  <2>3. next \in Runtimes(1 .. n)
    <3>1. Never \in Nat /\ s.time \in Nat
      BY <1>1 DEF Never, Runtimes
    <3>2. QED
      BY <1>1, <2>2, <3>1 DEF Runtimes
  <2>4. /\ next.time = s.time /\ next.pending = s.pending /\ next.active = s.active
        /\ next.state = "Ready" /\ next.status = s.time
    BY <1>1, <2>2 DEF Runtimes
  <2>5. QED
    BY <1>1, <1>3, <2>3, <2>4, RatesAssumption
<1>4. CASE r.pending # None /\ r.state # "Active"
  <2>1. Updated(r, at) = BecomeActive(s)
    BY <1>1, <1>2, <1>4
  <2>2. next = [Activated(s) EXCEPT !.status = s.time]
    BY <2>1 DEF BecomeActive
  <2>3. /\ next \in Runtimes(1 .. n) /\ next.time = at /\ next.pending = None
        /\ next.active = r.pending /\ next.state = "Active"
        /\ next.status = at /\ next.posted = at
    BY <1>1, <1>4, <2>2 DEF Activated, Runtimes
  <2>4. QED
    BY <1>4, <2>3, RatesAssumption
<1>5. CASE r.pending # None /\ r.state = "Active"
  <2> DEFINE a == Activated(s)
  <2>1. Updated(r, at) = WithStatus(a, <<s.pending.kind>>)
    BY <1>1, <1>2, <1>5 DEF ReplaceActive
  <2>2. /\ a \in Runtimes(1 .. n) /\ a.time = at /\ a.pending = None /\ a.active = r.pending
        /\ a.state = "Active" /\ a.posted = at /\ a.status = r.status
    BY <1>1, <1>5 DEF Activated, Runtimes
  <2> HIDE DEF a
  <2>3. QED
    BY <1>5, <2>1, <2>2, StatusFacts, RatesAssumption
<1>6. CASE /\ r.pending = None
           /\ ~(r.state = "SelfCheck" \/ (r.state = "Active" /\ Expired(r.active, at)))
  <2>1. Updated(r, at) = Republish(s)
    BY <1>1, <1>2, <1>6
  <2>2. CASE s.state = "Active" /\ Due(s.posted, s.time, ActivePeriod)
    <3> DEFINE a == [s EXCEPT !.posted = s.time]
    <3>1. Updated(r, at) = WithStatus(a, <<s.active.kind>>)
      BY <2>1, <2>2 DEF Republish
    <3>2. /\ a \in Runtimes(1 .. n) /\ a.time = at /\ a.pending = None /\ a.active = r.active
          /\ a.state = "Active" /\ a.posted = at /\ a.status = r.status
      BY <1>1, <1>6, <2>2 DEF Runtimes
    <3> HIDE DEF a
    <3>3. QED
      BY <1>1, <1>6, <2>2, <3>1, <3>2, StatusFacts, RatesAssumption
  <2>3. CASE ~(s.state = "Active" /\ Due(s.posted, s.time, ActivePeriod))
    <3>1. Updated(r, at) = WithStatus(s, <<>>)
      BY <2>1, <2>3 DEF Republish
    <3>2. s.state = "Active" => at - s.posted < ActivePeriod
      BY <1>1, <2>3, RatesAssumption DEF Due, Runtimes
    <3>3. s.state = "Active" \/ s.state = "Ready"
      BY <1>1, <1>6 DEF Runtimes
    <3>4. QED
      BY <1>1, <1>6, <3>1, <3>2, <3>3, StatusFacts
  <2>4. QED
    BY <2>2, <2>3
<1>7. QED
  BY <1>3, <1>4, <1>5, <1>6

(* An update publishes statuses and references, nothing else.              *)
LEMMA EffectsFacts ==
  ASSUME NEW n \in Nat, NEW r \in Runtimes(1 .. n), NEW at \in Nat \ {0},
         r.state = "Active" => r.active # None
  PROVE  Updated(r, at).effects \in Seq({"Status"} \cup Kinds)
<1> DEFINE s == [r EXCEPT !.time = at]
           Out == {<<>>} \cup {<<kind>> : kind \in Kinds}
<1>1. /\ s.state = r.state /\ s.pending = r.pending /\ s.active = r.active
      /\ r.pending # None => r.pending.kind \in Kinds
      /\ r.active # None => r.active.kind \in Kinds
  BY DEF Runtimes, References
<1>2. Updated(r, at) =
        IF s.pending # None
        THEN IF s.state = "Active" THEN ReplaceActive(s) ELSE BecomeActive(s)
        ELSE IF s.state = "SelfCheck" \/ (s.state = "Active" /\ Expired(s.active, at))
             THEN BecomeReady(s) ELSE Republish(s)
  BY DEF Updated
<1> HIDE DEF s
<1>3. \A t : \A out \in Out : WithStatus(t, out).effects \in {out, <<"Status">> \o out}
  BY DEF WithStatus
<1>4. \A out \in Out : {out, <<"Status">> \o out} \subseteq Seq({"Status"} \cup Kinds)
  <2>1. /\ \A kind \in Kinds : <<kind>> \in Seq({"Status"} \cup Kinds)
        /\ <<>> \in Seq({"Status"} \cup Kinds) /\ <<"Status">> \in Seq({"Status"} \cup Kinds)
    OBVIOUS
  <2>2. Out \subseteq Seq({"Status"} \cup Kinds)
    BY <2>1
  <2>3. \A out \in Seq({"Status"} \cup Kinds) : <<"Status">> \o out \in Seq({"Status"} \cup Kinds)
    BY <2>1, ConcatProperties
  <2>4. QED
    BY <2>2, <2>3
<1>a. ASSUME NEW t, NEW out \in Out
      PROVE  WithStatus(t, out).effects \in Seq({"Status"} \cup Kinds)
  BY <1>3, <1>4
<1>5. CASE s.pending # None /\ s.state = "Active"
  <2>1. Updated(r, at) = WithStatus(Activated(s), <<s.pending.kind>>)
    BY <1>2, <1>5 DEF ReplaceActive
  <2>2. <<s.pending.kind>> \in Out
    BY <1>1, <1>5
  <2>3. WithStatus(Activated(s), <<s.pending.kind>>).effects \in Seq({"Status"} \cup Kinds)
    BY <1>a, <2>2
  <2>4. QED
    BY <2>1, <2>3
<1>6. CASE s.pending # None /\ s.state # "Active"
  <2>1. Updated(r, at).effects = <<"Status", s.pending.kind>>
    BY <1>2, <1>6 DEF BecomeActive
  <2>2. QED
    BY <1>1, <1>6, <2>1
<1>7. CASE s.pending = None /\ (s.state = "SelfCheck" \/ (s.state = "Active" /\ Expired(s.active, at)))
  <2>1. Updated(r, at).effects = <<"Status">>
    BY <1>2, <1>7 DEF BecomeReady
  <2>2. QED
    BY <2>1
<1>8. CASE s.pending = None /\ ~(s.state = "SelfCheck" \/ (s.state = "Active" /\ Expired(s.active, at)))
  <2>1. Updated(r, at) = Republish(s)
    BY <1>2, <1>8
  <2>2. <<s.active.kind>> \in Out \/ s.state # "Active"
    BY <1>1
  <2>3. Updated(r, at) = WithStatus(s, <<>>)
        \/ /\ s.state = "Active"
           /\ Updated(r, at) = WithStatus([s EXCEPT !.posted = s.time], <<s.active.kind>>)
    BY <2>1 DEF Republish
  <2>4. <<>> \in Out
    OBVIOUS
  <2>5. QED
    BY <2>2, <2>3, <2>4, <1>a
<1>9. QED
  BY <1>5, <1>6, <1>7, <1>8

(* The wake is the earliest of what the node waits for, and one of it.     *)
LEMMA NextWakeFacts ==
  ASSUME NEW n \in Nat, NEW r \in Runtimes(1 .. n),
         r.state = "Active" => r.active # None,
         NEW wake, wake = NextWake(r)
  PROVE  /\ wake \in Nat
         /\ r.state = "SelfCheck" \/ r.pending # None => wake = r.time
         /\ r.state # "SelfCheck" /\ r.pending = None =>
              /\ wake <= r.status + StatusPeriod + 1
              /\ r.state = "Active" => wake <= r.posted + ActivePeriod + 1
              /\ r.state = "Active" /\ r.active.duration > 0 => wake <= Expiry(r.active) + 1
              /\ \/ wake = r.status + StatusPeriod + 1
                 \/ r.state = "Active" /\ wake = r.posted + ActivePeriod + 1
                 \/ r.state = "Active" /\ r.active.duration > 0 /\ wake = Expiry(r.active) + 1
<1>1. CASE r.state = "SelfCheck" \/ r.pending # None
  BY <1>1 DEF NextWake, Runtimes
<1>2. CASE r.state # "SelfCheck" /\ r.pending = None
  <2> DEFINE a == r.status + StatusPeriod + 1
             b == IF r.state = "Active" THEN r.posted + ActivePeriod + 1 ELSE a
             c == IF r.state = "Active" /\ r.active.duration > 0 THEN Expiry(r.active) + 1 ELSE a
  <2>1. a \in Nat /\ b \in Nat
    BY RatesAssumption DEF Runtimes
  <2>2. c \in Nat
    BY <2>1, RatesAssumption DEF Runtimes, References, Expiry
  <2>3. wake = Min({a, b, c})
    <3>1. {a, b, c} = {r.status + StatusPeriod + 1}
           \cup (IF r.state = "Active" THEN {r.posted + ActivePeriod + 1} ELSE {})
           \cup (IF r.state = "Active" /\ r.active.duration > 0
                 THEN {Expiry(r.active) + 1} ELSE {})
      OBVIOUS
    <3>2. QED
      BY <1>2, <3>1 DEF NextWake
  <2>4. wake \in {a, b, c} /\ wake <= a /\ wake <= b /\ wake <= c
    <3> HIDE DEF a, b, c
    <3>1. QED
      BY <2>1, <2>2, <2>3, MinOfThree
  <2>5. QED
    BY <1>2, <2>1, <2>2, <2>4
<1>3. QED
  BY <1>1, <1>2

(* An update tells of every state it comes to.                             *)
LEMMA StatusIsTold ==
  ASSUME NEW n \in Nat, NEW r \in Runtimes(1 .. n), NEW at \in Nat \ {0},
         r.state = "Active" => r.active # None,
         NEW told, told = Updated(r, at).effects,
         Updated(r, at).runtime.state # r.state \/ r.state = "SelfCheck"
  PROVE  \E i \in DOMAIN told : told[i] = "Status"
<1> DEFINE s == [r EXCEPT !.time = at]
<1>1. /\ s \in Runtimes(1 .. n) /\ s.time = at /\ s.state = r.state /\ s.pending = r.pending
      /\ s.active = r.active
  BY DEF Runtimes
<1>2. Updated(r, at) =
        IF s.pending # None
        THEN IF s.state = "Active" THEN ReplaceActive(s) ELSE BecomeActive(s)
        ELSE IF s.state = "SelfCheck" \/ (s.state = "Active" /\ Expired(s.active, at))
             THEN BecomeReady(s) ELSE Republish(s)
  BY DEF Updated
<1> HIDE DEF s
<1>3. CASE s.pending # None /\ s.state = "Active"
  <2>1. Updated(r, at).runtime.state = "Active"
    BY <1>1, <1>3, UpdatedFacts
  <2>2. QED
    BY <1>1, <1>3, <2>1
<1>4. CASE s.pending # None /\ s.state # "Active"
  <2>1. told = <<"Status", s.pending.kind>>
    BY <1>2, <1>4 DEF BecomeActive
  <2>2. 1 \in DOMAIN told /\ told[1] = "Status"
    BY <2>1
  <2>3. QED
    BY <2>2
<1>5. CASE s.pending = None /\ (s.state = "SelfCheck" \/ (s.state = "Active" /\ Expired(s.active, at)))
  <2>1. told = <<"Status">>
    BY <1>2, <1>5 DEF BecomeReady
  <2>2. 1 \in DOMAIN told /\ told[1] = "Status"
    BY <2>1
  <2>3. QED
    BY <2>2
<1>6. CASE s.pending = None /\ ~(s.state = "SelfCheck" \/ (s.state = "Active" /\ Expired(s.active, at)))
  <2>1. Updated(r, at).runtime.state =
          IF r.pending # None \/ (r.state = "Active" /\ ~Expired(r.active, at))
          THEN "Active" ELSE "Ready"
    BY UpdatedFacts
  <2>2. r.state \in {"SelfCheck", "Ready", "Active"}
    BY DEF Runtimes
  <2>3. QED
    BY <1>1, <1>6, <2>1, <2>2
<1>7. QED
  BY <1>3, <1>4, <1>5, <1>6

(* reset() leaves a runtime whatever has been accepted.                    *)
LEMMA FreshIsRuntime == \A ids : Fresh \in Runtimes(ids)
<1>1. Never \in Nat
  BY DEF Never
<1>2. QED
  BY <1>1 DEF Fresh, Runtimes
=============================================================================
