------------------------ MODULE ReferenceChainProofs ------------------------
(***************************************************************************)
(* Proofs about ReferenceChain, for every period, delay, queue size,       *)
(* duration and set of requests its assumptions allow, and any number of   *)
(* entries and requests.                                                   *)
(***************************************************************************)
EXTENDS ReferenceChain, ReferenceNodeProofs

(* What is under way: references to the cache, requests to the generator.  *)
Flying == ToSet(topics["Analytic"]) \cup ToSet(topics["Sampled"])
Asking == ToSet(topics["Requests"])
Messages(contents) == [content : contents, sent : Nat]
-----------------------------------------------------------------------------
(* The parts of the invariant.                                             *)

ChainTypes ==
  /\ DOMAIN topics = {"Requests", "Analytic", "Sampled"}
  /\ topics["Requests"] \in Seq(Messages(Nat))
  /\ \A kind \in Kinds : topics[kind] \in Seq(Messages(References(1 .. accepted)))
  /\ \A topic \in DOMAIN topics : Len(topics[topic]) <= Queue
  /\ cache \in References(1 .. accepted) \cup {None} /\ tracking \in BOOLEAN
  /\ {entry, entered, answer, taken} \subseteq Nat /\ answer <= accepted
  /\ withdrawn \in BOOLEAN /\ dropped \in BOOLEAN /\ refused \in BOOLEAN

(* Nothing is late, and no message is under way for longer than Delay.     *)
Recent(m) == m.sent <= now /\ (Prompt => now <= m.sent + Delay)
Underway ==
  (Prompt => ~late) /\ (\A m \in Flying : Recent(m)) /\ (\A m \in Asking : Recent(m))

(* Until it is answered the request of the entry is under way.             *)
Asked ==
  /\ entered <= now /\ (tracking => entry > 0)
  /\ \A m \in Asking : m.content <= entry /\ (m.content = entry => m.sent = entered)
  /\ entry > 0 /\ answer = 0 => \E m \in Asking : m.content = entry

(* What waits will be flown long enough to be published twice.             *)
Twice(duration) == duration > 0 => LeadTime + duration + ReferenceGrace > ActivePeriod
Waiting ==
  rt.pending # None =>
    Twice(rt.pending.duration) /\ (Prompt => rt.pending.start >= now + LeadTime)

(* What was sent since the generator took up its reference carries it, and *)
(* nothing was sent since its last publication.                            *)
Flown ==
  rt.state = "Active" =>
    /\ 1 <= taken /\ taken <= rt.posted /\ rt.posted <= now
    /\ Prompt /\ rt.active.duration > 0 => Expiry(rt.active) > taken + ActivePeriod
    /\ \A m \in Flying : m.sent <= rt.posted /\ (m.sent > taken => m.content = rt.active)

(* The first publication at which nothing older is under way reaches the   *)
(* cache, at the end of its delay at the latest, if the cache takes it.    *)
Settled == Max({taken, entered}) + Delay
Following ==
  Prompt /\ rt.state = "Active" /\ rt.posted > Settled /\ CacheTakes(rt.active) =>
    \/ cache = rt.active
    \/ \E m \in Flying : m.sent > Settled /\ m.sent <= Settled + ActivePeriod + 1

(* The answer is flown as soon as it is given; what was sent before is     *)
(* under way for its delay.                                                *)
Replied ==
  answer # 0 /\ ~withdrawn =>
    /\ latest # None /\ latest.id >= answer
    /\ Prompt /\ now > entered + Delay => rt.active.id >= answer
    /\ Prompt => \A m \in Flying : m.sent <= entered + Delay \/ m.content.id >= answer

(* Once flown the answer, or a later reference, is about to be published   *)
(* again, and then nothing older is under way and what is must arrive; the *)
(* cache takes it unless it refused one.                                   *)
AboutToPublish ==
  rt.state = "Active" /\ rt.posted = taken /\ taken <= entered + 2 * Delay
Overtaken ==
  /\ \A m \in Flying : m.content.id >= answer
  /\ \/ cache.id >= answer
     \/ \E m \in Flying : m.sent <= entered + ActivePeriod + 1 + 2 * Delay
Brief ==
  Prompt /\ answer # 0 /\ ~withdrawn /\ ~dropped /\ ~refused /\ rt.active.id >= answer =>
    AboutToPublish \/ Overtaken

ChainInv ==
  /\ TimeInv /\ ChainTypes /\ Underway /\ Asked /\ Waiting /\ Flown
  /\ Following /\ Replied /\ Brief
-----------------------------------------------------------------------------
(* Taking the first message of a queue leaves the others.                  *)
LEMMA TailFacts ==
  ASSUME NEW S, NEW q \in Seq(S), q # <<>>
  PROVE  /\ Tail(q) \in Seq(S) /\ Len(Tail(q)) = Len(q) - 1 /\ Len(q) >= 1
         /\ Head(q) \in S /\ Head(q) \in ToSet(q) /\ ToSet(Tail(q)) \subseteq ToSet(q)
         /\ ToSet(q) \subseteq ToSet(Tail(q)) \cup {Head(q)}
<1>1. /\ Tail(q) \in Seq(S) /\ Len(Tail(q)) = Len(q) - 1 /\ Head(q) \in S
      /\ \A i \in 1 .. Len(Tail(q)) : Tail(q)[i] = q[i + 1]
  BY HeadTailProperties
<1>2. Len(q) \in Nat /\ Len(q) >= 1 /\ Head(q) = q[1]
  OBVIOUS
<1>3. DOMAIN q = 1 .. Len(q) /\ DOMAIN Tail(q) = 1 .. Len(q) - 1
  BY <1>1, LenProperties
<1>4. ToSet(Tail(q)) \subseteq ToSet(q)
  BY <1>1, <1>2, <1>3 DEF ToSet
<1>5. ASSUME NEW i \in 1 .. Len(q) PROVE q[i] \in ToSet(Tail(q)) \cup {Head(q)}
  <2>1. CASE i = 1
    BY <2>1, <1>2
  <2>2. CASE i # 1
    <3>1. i - 1 \in 1 .. Len(q) - 1 /\ Tail(q)[i - 1] = q[i]
      BY <2>2, <1>1, <1>2
    <3>2. QED
      BY <3>1, <1>3 DEF ToSet
  <2>3. QED
    BY <2>1, <2>2
<1>6. QED
  BY <1>1, <1>2, <1>3, <1>4, <1>5 DEF ToSet

(* Appending a message keeps the others.                                   *)
LEMMA AppendFacts ==
  ASSUME NEW S, NEW q \in Seq(S), NEW m \in S
  PROVE  /\ Append(q, m) \in Seq(S) /\ Len(Append(q, m)) = Len(q) + 1
         /\ ToSet(Append(q, m)) = ToSet(q) \cup {m}
<1>1. /\ Append(q, m) \in Seq(S) /\ Len(Append(q, m)) = Len(q) + 1
      /\ \A i \in 1 .. Len(q) : Append(q, m)[i] = q[i]
      /\ Append(q, m)[Len(q) + 1] = m
  BY AppendProperties
<1>2. Len(q) \in Nat /\ DOMAIN q = 1 .. Len(q) /\ DOMAIN Append(q, m) = 1 .. Len(q) + 1
  BY <1>1, LenProperties
<1> DEFINE t == Append(q, m)
<1> HIDE DEF t
<1>3. ASSUME NEW i \in 1 .. Len(q) + 1 PROVE t[i] \in ToSet(q) \cup {m}
  BY <1>1, <1>2 DEF ToSet, t
<1>4. m \in ToSet(t) /\ ToSet(q) \subseteq ToSet(t)
  BY <1>1, <1>2 DEF ToSet, t
<1>5. QED
  BY <1>1, <1>2, <1>3, <1>4 DEF ToSet, t

(* A queue holds what is put into it; only a full one drops a message.     *)
LEMMA PutFacts ==
  ASSUME NEW S, NEW q \in Seq(S), NEW m \in S, Len(q) <= Queue
  PROVE  /\ Put(q, m) \in Seq(S) /\ Len(Put(q, m)) <= Queue
         /\ m \in ToSet(Put(q, m)) /\ ToSet(Put(q, m)) \subseteq ToSet(q) \cup {m}
         /\ Len(q) # Queue => ToSet(q) \subseteq ToSet(Put(q, m))
<1>0. Queue \in Nat \ {0} /\ Len(q) \in Nat
  BY ChainAssumption
<1>1. CASE Len(q) < Queue
  <2>1. Put(q, m) = Append(q, m)
    BY <1>1 DEF Put
  <2>2. QED
    BY <1>0, <1>1, <2>1, AppendFacts
<1>2. CASE ~(Len(q) < Queue)
  <2>1. Put(q, m) = Append(Tail(q), m) /\ Len(q) = Queue /\ q # <<>>
    BY <1>0, <1>2 DEF Put
  <2>2. /\ Tail(q) \in Seq(S) /\ Len(Tail(q)) = Len(q) - 1
        /\ ToSet(Tail(q)) \subseteq ToSet(q)
    BY <2>1, TailFacts
  <2>3. /\ Append(Tail(q), m) \in Seq(S) /\ Len(Append(Tail(q), m)) = Len(q)
        /\ ToSet(Append(Tail(q), m)) = ToSet(Tail(q)) \cup {m}
    <3> DEFINE rest == Tail(q)
    <3>1. rest \in Seq(S) /\ Len(rest) + 1 = Len(q)
      BY <2>2, <1>0
    <3> HIDE DEF rest
    <3>2. /\ Append(rest, m) \in Seq(S) /\ Len(Append(rest, m)) = Len(rest) + 1
          /\ ToSet(Append(rest, m)) = ToSet(rest) \cup {m}
      BY <3>1, AppendFacts
    <3>3. QED
      BY <3>1, <3>2 DEF rest
  <2>4. QED
    BY <2>1, <2>2, <2>3
<1>3. QED
  BY <1>1, <1>2

(* Every step of the chain is a step of the node, or none.                 *)
LEMMA ChainStep == [ChainNext]_chainVars => [Next]_vars
<1> SUFFICES ASSUME [ChainNext]_chainVars PROVE [Next]_vars
  OBVIOUS
<1> USE DEF Next
<1>1. CASE Enter
  BY <1>1 DEF Enter
<1>2. CASE Leave
  BY <1>2 DEF Leave
<1>3. CASE OnActivation
  BY <1>3, ChainAssumption DEF OnActivation
<1>4. CASE OnOperator
  BY <1>4, ChainAssumption DEF OnOperator
<1>5. CASE ChainReset
  BY <1>5 DEF ChainReset
<1>6. CASE ChainTurn
  BY <1>6 DEF ChainTurn
<1>7. ASSUME NEW kind \in Kinds, Arrives(kind) PROVE [Next]_vars
  BY <1>7 DEF Arrives
<1>8. CASE ChainDeadline
  BY <1>8 DEF ChainDeadline
<1>9. CASE ChainTick
  BY <1>9 DEF ChainTick
<1>10. CASE UNCHANGED chainVars
  BY <1>10 DEF chainVars
<1>11. QED
  BY <1>1, <1>2, <1>3, <1>4, <1>5, <1>6, <1>7, <1>8, <1>9, <1>10 DEF ChainNext

(* Inside the chain the generator is the node: all that is proved of the   *)
(* node holds of it, whatever the controller and the topics do.            *)
THEOREM ChainRunsNode == ChainSpec => Spec
<1>1. ChainInit => Init
  BY DEF ChainInit
<1>2. QED
  BY <1>1, ChainStep, PTL DEF ChainSpec, Spec
-----------------------------------------------------------------------------
(* The elements of two sequences one after the other.                      *)
LEMMA ConcatFacts ==
  ASSUME NEW S, NEW q \in Seq(S), NEW s \in Seq(S)
  PROVE  ToSet(q \o s) = ToSet(q) \cup ToSet(s)
<1> DEFINE t == q \o s
<1>1. /\ Len(q) \in Nat /\ Len(s) \in Nat /\ t \in Seq(S) /\ Len(t) = Len(q) + Len(s)
      /\ \A i \in 1 .. Len(q) + Len(s) : t[i] = IF i <= Len(q) THEN q[i] ELSE s[i - Len(q)]
  BY ConcatProperties
<1> HIDE DEF t
<1>2. DOMAIN q = 1 .. Len(q) /\ DOMAIN s = 1 .. Len(s) /\ DOMAIN t = 1 .. Len(q) + Len(s)
  BY <1>1, LenProperties
<1>3. ASSUME NEW i \in 1 .. Len(q) + Len(s) PROVE t[i] \in ToSet(q) \cup ToSet(s)
  <2>1. CASE i <= Len(q)
    BY <2>1, <1>1, <1>2 DEF ToSet
  <2>2. CASE ~(i <= Len(q))
    <3>1. i - Len(q) \in 1 .. Len(s)
      BY <2>2, <1>1
    <3>2. t[i] = s[i - Len(q)]
      BY <2>2, <1>1
    <3>3. QED
      BY <3>1, <3>2, <1>2 DEF ToSet
  <2>3. QED
    BY <2>1, <2>2
<1>4. ASSUME NEW i \in 1 .. Len(q) PROVE q[i] \in ToSet(t)
  BY <1>1, <1>2 DEF ToSet
<1>5. ASSUME NEW i \in 1 .. Len(s) PROVE s[i] \in ToSet(t)
  <2>1. PICK j \in 1 .. Len(q) + Len(s) : j = Len(q) + i
    BY <1>1
  <2>2. ~(j <= Len(q)) /\ j - Len(q) = i
    BY <1>1, <2>1
  <2>3. t[j] = s[i]
    BY <1>1, <2>2
  <2>4. QED
    BY <1>2, <2>3 DEF ToSet
<1>6. QED
  BY <1>2, <1>3, <1>4, <1>5 DEF ToSet, t

(* A status is not published on the topics of the references.              *)
LEMMA StatusPublishes ==
  ASSUME NEW t, NEW kind \in Kinds
  PROVE  /\ ToSet(WithStatus(t, <<kind>>).effects) \cap Kinds = {kind}
         /\ ToSet(WithStatus(t, <<>>).effects) \cap Kinds = {}
<1>1. "Status" \notin Kinds
  BY DEF Kinds
<1>2. ToSet(<<kind>>) = {kind} /\ ToSet(<<"Status">>) = {"Status"} /\ ToSet(<<>>) = {}
  BY DEF ToSet
<1>3. ASSUME NEW out \in {<<kind>>, <<>>}
      PROVE  ToSet(<<"Status">> \o out) = {"Status"} \cup ToSet(out)
  <2>1. <<"Status">> \in Seq({"Status", kind}) /\ out \in Seq({"Status", kind})
    <3>1. <<"Status">> \in Seq({"Status", kind})
      OBVIOUS
    <3>2. <<kind>> \in Seq({"Status", kind}) /\ <<>> \in Seq({"Status", kind})
      OBVIOUS
    <3>3. QED
      BY <3>1, <3>2
  <2>2. ToSet(<<"Status">> \o out) = ToSet(<<"Status">>) \cup ToSet(out)
    <3> DEFINE one == <<"Status">>
               S == {"Status", kind}
    <3>1. one \in Seq(S) /\ out \in Seq(S)
      BY <2>1
    <3> HIDE DEF one, S
    <3>2. ToSet(one \o out) = ToSet(one) \cup ToSet(out)
      BY <3>1, ConcatFacts
    <3>3. QED
      BY <3>2 DEF one
  <2>3. QED
    BY <1>2, <2>2
<1>4. \A out : WithStatus(t, out).effects \in {out, <<"Status">> \o out}
  BY DEF WithStatus
<1>5. ToSet(WithStatus(t, <<kind>>).effects) \in {{kind}, {"Status", kind}}
  <2>1. WithStatus(t, <<kind>>).effects \in {<<kind>>, <<"Status">> \o <<kind>>}
    BY <1>4
  <2>2. ToSet(<<"Status">> \o <<kind>>) = {"Status", kind}
    BY <1>2, <1>3
  <2>3. QED
    BY <1>2, <2>1, <2>2
<1>6. ToSet(WithStatus(t, <<>>).effects) \in {{}, {"Status"}}
  <2>1. WithStatus(t, <<>>).effects \in {<<>>, <<"Status">> \o <<>>}
    BY <1>4
  <2>2. ToSet(<<"Status">> \o <<>>) = {"Status"}
    BY <1>2, <1>3
  <2>3. QED
    BY <1>2, <2>1, <2>2
<1>7. QED
  BY <1>1, <1>5, <1>6

(* What an update publishes: a reference when it takes it up and when its  *)
(* period is over, nothing otherwise.                                      *)
LEMMA UpdatePublishes ==
  ASSUME NEW n \in Nat, NEW r \in Runtimes(1 .. n), NEW at \in Nat \ {0},
         r.state = "Active" => r.active # None,
         NEW next, next = Updated(r, at).runtime,
         NEW out, out = ToSet(Updated(r, at).effects) \cap Kinds
  PROVE  \/ r.pending # None /\ out = {r.pending.kind} /\ next.posted = at
         \/ /\ r.pending = None /\ r.state = "Active" /\ Due(r.posted, at, ActivePeriod)
            /\ out = {r.active.kind} /\ next.posted = at
         \/ r.pending = None /\ out = {} /\ (next.state = "Active" => next.posted = r.posted)
<1> DEFINE s == [r EXCEPT !.time = at]
<1>1. /\ s \in Runtimes(1 .. n) /\ s.time = at /\ s.state = r.state /\ s.pending = r.pending
      /\ s.active = r.active /\ s.status = r.status /\ s.posted = r.posted
      /\ r.pending # None => r.pending.kind \in Kinds
      /\ r.active # None => r.active.kind \in Kinds
  BY DEF Runtimes, References
<1>2. Updated(r, at) =
        IF s.pending # None
        THEN IF s.state = "Active" THEN ReplaceActive(s) ELSE BecomeActive(s)
        ELSE IF s.state = "SelfCheck" \/ (s.state = "Active" /\ Expired(s.active, at))
             THEN BecomeReady(s) ELSE Republish(s)
  BY DEF Updated
<1>3. "Status" \notin Kinds
  BY DEF Kinds
<1> HIDE DEF s
<1>4. CASE s.pending # None /\ s.state = "Active"
  <2> DEFINE a == Activated(s)
  <2>1. Updated(r, at) = WithStatus(a, <<s.pending.kind>>)
    BY <1>2, <1>4 DEF ReplaceActive
  <2>2. a \in Runtimes(1 .. n) /\ a.posted = at
    BY <1>1, <1>4 DEF Activated, Runtimes
  <2> HIDE DEF a
  <2>3. next.posted = at
    BY <2>1, <2>2, StatusFacts
  <2>4. out = {r.pending.kind}
    BY <1>1, <1>4, <2>1, StatusPublishes
  <2>5. QED
    BY <1>1, <1>4, <2>3, <2>4
<1>5. CASE s.pending # None /\ s.state # "Active"
  <2>1. Updated(r, at) = BecomeActive(s)
    BY <1>2, <1>5
  <2>2. next = [Activated(s) EXCEPT !.status = s.time]
    BY <2>1 DEF BecomeActive
  <2>3. next.posted = at
    BY <1>1, <2>2 DEF Activated, Runtimes
  <2>4. ToSet(<<"Status", s.pending.kind>>) = {"Status", s.pending.kind}
    BY DEF ToSet
  <2>5. out = {r.pending.kind}
    BY <1>1, <1>3, <1>5, <2>1, <2>4 DEF BecomeActive
  <2>6. QED
    BY <1>1, <1>5, <2>3, <2>5
<1>6. CASE s.pending = None /\ (s.state = "SelfCheck" \/ (s.state = "Active" /\ Expired(s.active, at)))
  <2>1. Updated(r, at) = BecomeReady(s)
    BY <1>2, <1>6
  <2>2. next.state = "Ready"
    <3>1. next = [s EXCEPT !.state = "Ready", !.status = s.time, !.posted = Never]
      BY <2>1 DEF BecomeReady
    <3>2. QED
      BY <1>1, <3>1 DEF Runtimes
  <2>3. ToSet(<<"Status">>) = {"Status"}
    BY DEF ToSet
  <2>4. out = {}
    BY <1>3, <2>1, <2>3 DEF BecomeReady
  <2>5. QED
    BY <1>1, <1>6, <2>2, <2>4
<1>7. CASE /\ s.pending = None
           /\ ~(s.state = "SelfCheck" \/ (s.state = "Active" /\ Expired(s.active, at)))
  <2>1. Updated(r, at) = Republish(s)
    BY <1>2, <1>7
  <2>2. CASE s.state = "Active" /\ Due(s.posted, s.time, ActivePeriod)
    <3> DEFINE a == [s EXCEPT !.posted = s.time]
    <3>1. Updated(r, at) = WithStatus(a, <<s.active.kind>>)
      BY <2>1, <2>2 DEF Republish
    <3>2. a \in Runtimes(1 .. n) /\ a.posted = at
      BY <1>1 DEF Runtimes
    <3> HIDE DEF a
    <3>3. next.posted = at
      BY <3>1, <3>2, StatusFacts
    <3>4. out = {r.active.kind}
      BY <1>1, <2>2, <3>1, StatusPublishes
    <3>5. QED
      BY <1>1, <1>7, <2>2, <3>3, <3>4
  <2>3. CASE ~(s.state = "Active" /\ Due(s.posted, s.time, ActivePeriod))
    <3>1. Updated(r, at) = WithStatus(s, <<>>)
      BY <2>1, <2>3 DEF Republish
    <3>2. next.posted = r.posted
      BY <1>1, <3>1, StatusFacts
    <3>3. "Analytic" \in Kinds
      BY DEF Kinds
    <3>4. out = {}
      BY <3>1, <3>3, StatusPublishes
    <3>5. QED
      BY <1>1, <1>7, <3>2, <3>4
  <2>4. QED
    BY <2>2, <2>3
<1>8. QED
  BY <1>4, <1>5, <1>6, <1>7
-----------------------------------------------------------------------------
(* The numbers given out so far stay numbers given out.                    *)
LEMMA MoreReferences ==
  ASSUME NEW n \in Nat, NEW k \in Nat, n <= k
  PROVE  /\ References(1 .. n) \subseteq References(1 .. k)
         /\ Seq(Messages(References(1 .. n))) \subseteq Seq(Messages(References(1 .. k)))
<1>1. References(1 .. n) \subseteq References(1 .. k)
  BY DEF References
<1>2. Messages(References(1 .. n)) \subseteq Messages(References(1 .. k))
  BY <1>1 DEF Messages
<1>3. QED
  BY <1>1, <1>2, SeqMonotonic

(* An entry puts its request on its way and clears the cache.              *)
LEMMA EnterFacts ==
  ASSUME TypeOK, ChainTypes, Enter
  PROVE  /\ UNCHANGED <<vars, taken>> /\ Flying' = Flying
         /\ entry' = entry + 1 /\ entered' = now /\ answer' = 0 /\ cache' = None
         /\ \A m \in Asking' : m \in Asking \/ (m.content = entry' /\ m.sent = now)
         /\ \E m \in Asking' : m.content = entry' /\ m.sent = now
         /\ ChainTypes'
<1> DEFINE request == Message(entry')
<1>1. /\ UNCHANGED <<vars, taken>> /\ tracking' = TRUE
      /\ entry' = entry + 1 /\ entered' = now /\ answer' = 0 /\ cache' = None
      /\ withdrawn' = FALSE /\ dropped' = FALSE /\ refused' = FALSE
      /\ topics' = [topics EXCEPT !["Requests"] = Put(topics["Requests"], request)]
  BY DEF Enter, Cleared
<1>2. /\ now \in Nat /\ accepted \in Nat /\ entry' \in Nat
      /\ now' = now /\ accepted' = accepted
  BY <1>1 DEF TypeOK, ChainTypes, vars
<1>3. request = [content |-> entry', sent |-> now] /\ request \in Messages(Nat)
  BY <1>2 DEF Message, Messages
<1> HIDE DEF request
<1>4. topics["Requests"] \in Seq(Messages(Nat)) /\ Len(topics["Requests"]) <= Queue
  BY DEF ChainTypes
<1> DEFINE queue == Put(topics["Requests"], request)
<1>5. /\ queue \in Seq(Messages(Nat)) /\ Len(queue) <= Queue
      /\ request \in ToSet(queue)
      /\ ToSet(queue) \subseteq ToSet(topics["Requests"]) \cup {request}
  BY <1>3, <1>4, PutFacts
<1> HIDE DEF queue
<1>6. /\ DOMAIN topics' = DOMAIN topics /\ topics'["Requests"] = queue
      /\ \A kind \in Kinds : topics'[kind] = topics[kind]
  BY <1>1 DEF ChainTypes, Kinds, queue
<1>7. Flying' = Flying /\ Asking' = ToSet(queue)
  BY <1>6 DEF Flying, Asking, Kinds
<1>8. ChainTypes'
  <2>1. DOMAIN topics' = {"Requests", "Analytic", "Sampled"}
    BY <1>6 DEF ChainTypes
  <2>2. \A kind \in Kinds : topics'[kind] \in Seq(Messages(References(1 .. accepted')))
    BY <1>2, <1>6 DEF ChainTypes
  <2>3. \A topic \in DOMAIN topics' : Len(topics'[topic]) <= Queue
    BY <1>5, <1>6 DEF ChainTypes, Kinds
  <2>4. {entry', entered', answer', taken'} \subseteq Nat /\ answer' <= accepted'
    BY <1>1, <1>2 DEF ChainTypes
  <2>5. QED
    BY <1>1, <1>5, <1>6, <2>1, <2>2, <2>3, <2>4 DEF ChainTypes
<1>9. QED
  BY <1>1, <1>3, <1>5, <1>7, <1>8 DEF Asking

(* A request that is accepted, of the tracking state or of others.         *)
LEMMA AcceptedFacts ==
  ASSUME TypeOK, Held, ChainTypes, OnActivation \/ OnOperator
  PROVE  /\ UNCHANGED <<now, late, cache, tracking, entry, entered, past>>
         /\ Flying' = Flying /\ Asking' \subseteq Asking
         /\ latest' = rt'.pending /\ rt'.pending # None /\ rt'.pending.id = accepted'
         /\ rt'.state = rt.state /\ rt'.active = rt.active /\ rt'.posted = rt.posted
         /\ accepted' = accepted + 1
         /\ Twice(rt'.pending.duration) /\ rt'.pending.start >= now + LeadTime
         /\ \/ answer' = answer /\ \A m \in Asking : m.content = entry => m \in Asking'
            \/ answer' = accepted' /\ \E m \in Asking : m.content = entry
         /\ ChainTypes'
<1>1. /\ now \in Nat /\ accepted \in Nat
      /\ topics["Requests"] \in Seq(Messages(Nat))
  BY DEF TypeOK, ChainTypes
<1>2. PICK request \in Operators \cup {Activation} : OnRequest(request)
  BY DEF OnActivation, OnOperator
<1>3. request \in Requests /\ Twice(request.duration)
  BY ChainAssumption DEF Twice
<1>4. /\ UNCHANGED <<now, late>> /\ accepted' = accepted + 1 /\ latest' = rt'.pending
      /\ rt'.pending \in References({accepted'})
      /\ rt'.state = rt.state /\ rt'.active = rt.active /\ rt'.posted = rt.posted
  BY <1>2, <1>3, RequestFacts
<1>5. rt'.pending # None /\ rt'.pending.id = accepted'
  BY <1>1, <1>4 DEF References, None
<1>6. rt'.pending.start >= now + LeadTime /\ rt'.pending.duration = request.duration
  <2>1. request.start \in Nat /\ LeadTime \in Nat
    BY <1>3, NodeAssumption, RatesAssumption DEF Requests
  <2>2. Start(request, now) >= now + LeadTime
    BY <1>1, <2>1, MaxOfTwo DEF Start
  <2>3. rt' = Accept(rt, request, now, accepted') /\ rt \in Runtimes(1 .. accepted)
    BY <1>2 DEF OnRequest, TypeOK
  <2>4. rt'.pending = [id |-> accepted', kind |-> request.kind, start |-> Start(request, now),
                       duration |-> request.duration]
    BY <2>3 DEF Accept, Runtimes
  <2>5. QED
    BY <2>2, <2>4
<1>7. UNCHANGED <<cache, tracking, entry, entered, past>>
  BY DEF OnActivation, OnOperator, controller
<1>8. /\ DOMAIN topics' = DOMAIN topics /\ \A kind \in Kinds : topics'[kind] = topics[kind]
      /\ topics'["Requests"] \in Seq(Messages(Nat)) /\ Len(topics'["Requests"]) <= Queue
      /\ Asking' \subseteq Asking /\ answer' \in {answer, accepted'}
      /\ \/ answer' = answer /\ \A m \in Asking : m.content = entry => m \in Asking'
         \/ answer' = accepted' /\ \E m \in Asking : m.content = entry
  <2>1. CASE OnActivation
    <3> DEFINE queue == topics["Requests"]
    <3>1. /\ queue # <<>> /\ topics' = [topics EXCEPT !["Requests"] = Tail(queue)]
          /\ answer' = IF Head(queue).content = entry THEN accepted' ELSE answer
      BY <2>1 DEF OnActivation
    <3>2. /\ DOMAIN topics' = DOMAIN topics /\ topics'["Requests"] = Tail(queue)
          /\ \A kind \in Kinds : topics'[kind] = topics[kind]
      BY <3>1 DEF ChainTypes, Kinds
    <3>3. queue \in Seq(Messages(Nat)) /\ Len(queue) \in Nat /\ Len(queue) <= Queue
      BY <1>1 DEF ChainTypes
    <3>4. Queue \in Nat
      BY ChainAssumption
    <3> HIDE DEF queue
    <3>5. /\ Tail(queue) \in Seq(Messages(Nat)) /\ Len(Tail(queue)) = Len(queue) - 1
          /\ Head(queue) \in ToSet(queue) /\ ToSet(Tail(queue)) \subseteq ToSet(queue)
          /\ ToSet(queue) \subseteq ToSet(Tail(queue)) \cup {Head(queue)}
      BY <3>1, <3>3, TailFacts
    <3>6. Asking = ToSet(queue) /\ Asking' = ToSet(Tail(queue))
      BY <3>2 DEF Asking, queue
    <3>7. QED
      BY <3>1, <3>2, <3>3, <3>4, <3>5, <3>6
  <2>2. CASE OnOperator
    <3>1. topics' = topics /\ answer' = answer
      BY <2>2 DEF OnOperator, controller
    <3>2. QED
      BY <3>1 DEF ChainTypes, Asking, Kinds
  <2>3. QED
    BY <2>1, <2>2
<1>9. Flying' = Flying
  BY <1>8 DEF Flying, Kinds
<1>10. ChainTypes'
  <2>1. /\ References(1 .. accepted) \subseteq References(1 .. accepted')
        /\ Seq(Messages(References(1 .. accepted))) \subseteq Seq(Messages(References(1 .. accepted')))
    BY <1>1, <1>4, MoreReferences
  <2>2. \A kind \in Kinds : topics'[kind] \in Seq(Messages(References(1 .. accepted')))
    BY <1>8, <2>1 DEF ChainTypes
  <2>3. \A topic \in DOMAIN topics' : Len(topics'[topic]) <= Queue
    BY <1>8 DEF ChainTypes, Kinds
  <2>4. answer' \in Nat /\ answer' <= accepted'
    BY <1>1, <1>4, <1>8 DEF ChainTypes
  <2>5. QED
    BY <1>7, <1>8, <2>1, <2>2, <2>3, <2>4 DEF ChainTypes, past
<1>11. QED
  BY <1>3, <1>4, <1>5, <1>6, <1>7, <1>8, <1>9, <1>10

(* A reference sent on its topic reaches the queue; others stay under way  *)
(* unless the queue was full.                                              *)
LEMMA SentFacts ==
  ASSUME TypeOK, ChainTypes, NEW kind \in Kinds,
         NEW message \in Messages(References(1 .. accepted)),
         topics' = [topic \in DOMAIN topics |->
                      IF topic \in {kind} THEN Put(topics[topic], message) ELSE topics[topic]]
  PROVE  /\ Asking' = Asking /\ message \in Flying'
         /\ \A m \in Flying' : m \in Flying \/ m = message
         /\ Len(topics[kind]) # Queue => Flying \subseteq Flying'
         /\ DOMAIN topics' = DOMAIN topics /\ topics'["Requests"] = topics["Requests"]
         /\ \A k \in Kinds : /\ topics'[k] \in Seq(Messages(References(1 .. accepted)))
                             /\ Len(topics'[k]) <= Queue
<1> DEFINE S == Messages(References(1 .. accepted))
           queue == Put(topics[kind], message)
<1>1. kind \in DOMAIN topics /\ kind # "Requests" /\ "Requests" \in DOMAIN topics
  BY DEF ChainTypes, Kinds
<1>2. topics[kind] \in Seq(S) /\ Len(topics[kind]) <= Queue
  BY <1>1 DEF ChainTypes
<1>3. /\ queue \in Seq(S) /\ Len(queue) <= Queue /\ message \in ToSet(queue)
      /\ ToSet(queue) \subseteq ToSet(topics[kind]) \cup {message}
      /\ Len(topics[kind]) # Queue => ToSet(topics[kind]) \subseteq ToSet(queue)
  BY <1>2, PutFacts
<1>4. /\ DOMAIN topics' = DOMAIN topics /\ topics'["Requests"] = topics["Requests"]
      /\ topics'[kind] = queue
      /\ \A k \in Kinds \ {kind} : topics'[k] = topics[k]
  BY <1>1 DEF ChainTypes, Kinds
<1> HIDE DEF queue
<1>5. /\ Flying = ToSet(topics["Analytic"]) \cup ToSet(topics["Sampled"])
      /\ Flying' = ToSet(topics'["Analytic"]) \cup ToSet(topics'["Sampled"])
      /\ Asking' = ToSet(topics'["Requests"])
  BY DEF Flying, Asking
<1>6. ToSet(topics'[kind]) \subseteq Flying' /\ ToSet(topics[kind]) \subseteq Flying
  BY <1>5 DEF Kinds
<1>7. /\ Flying' \subseteq Flying \cup ToSet(queue)
      /\ Flying \subseteq Flying' \cup ToSet(topics[kind])
  BY <1>4, <1>5 DEF Kinds
<1>8. \A k \in Kinds : topics'[k] \in Seq(S) /\ Len(topics'[k]) <= Queue
  BY <1>3, <1>4 DEF ChainTypes, Kinds
<1>9. QED
  BY <1>3, <1>4, <1>5, <1>6, <1>7, <1>8 DEF Asking

(* What a turn puts under way when it publishes.                           *)
Posts ==
  /\ rt'.posted = now
  /\ \A m \in Flying' : m \in Flying \/ (m.content = rt'.active /\ m.sent = now)
  /\ \E m \in Flying' : m.content = rt'.active /\ m.sent = now

(* A turn publishes what it takes up, and republishes what is due.         *)
LEMMA TurnInChain ==
  ASSUME TypeOK, Held, ChainTypes, ChainTurn
  PROVE  /\ UNCHANGED <<controller, withdrawn, refused>> /\ Asking' = Asking
         /\ taken' = IF rt'.active # rt.active THEN now ELSE taken
         /\ ~dropped' => ~dropped /\ Flying \subseteq Flying'
         /\ \/ rt.pending # None /\ Posts
            \/ rt.pending = None /\ rt.state = "Active" /\ Due(rt.posted, now, ActivePeriod) /\ Posts
            \/ /\ rt.pending = None /\ Flying' = Flying
               /\ rt'.state = "Active" => rt'.posted = rt.posted
         /\ ChainTypes'
<1>1. /\ now \in Nat \ {0} /\ accepted \in Nat /\ rt \in Runtimes(1 .. accepted)
      /\ rt.state = "Active" => rt.active # None
  BY NodeAssumption DEF TypeOK, Held
<1>2. /\ Turn /\ topics' = Sent
      /\ dropped' = (dropped \/ \E topic \in Published : Len(topics[topic]) = Queue)
      /\ taken' = IF rt'.active # rt.active THEN now ELSE taken
      /\ UNCHANGED <<controller, withdrawn, refused>>
  BY DEF ChainTurn
<1>3. /\ UNCHANGED <<now, accepted, latest, late>>
      /\ rt' \in Runtimes(1 .. accepted)
      /\ rt'.active = IF rt.pending # None THEN rt.pending ELSE rt.active
  BY <1>2, TurnFacts
<1>4. rt' = Updated(rt, now).runtime /\ effects' = Updated(rt, now).effects
  BY <1>2 DEF Turn
<1>5. \/ rt.pending # None /\ Published = {rt.pending.kind} /\ rt'.posted = now
      \/ /\ rt.pending = None /\ rt.state = "Active" /\ Due(rt.posted, now, ActivePeriod)
         /\ Published = {rt.active.kind} /\ rt'.posted = now
      \/ /\ rt.pending = None /\ Published = {}
         /\ rt'.state = "Active" => rt'.posted = rt.posted
  <2>1. Published = ToSet(Updated(rt, now).effects) \cap Kinds
    BY <1>4 DEF Published
  <2>2. QED
    BY <1>1, <1>4, <2>1, UpdatePublishes
<1>6. dropped' \in BOOLEAN
  BY <1>2, Zenon DEF ChainTypes
<1>7. ASSUME NEW kind \in Kinds, Published = {kind}, rt'.active # None, rt'.posted = now
      PROVE  /\ Posts /\ ChainTypes' /\ Asking' = Asking
             /\ ~dropped' => ~dropped /\ Flying \subseteq Flying'
  <2> DEFINE message == [content |-> rt'.active, sent |-> now]
  <2>1. topics' = [topic \in DOMAIN topics |->
                     IF topic \in {kind} THEN Put(topics[topic], message) ELSE topics[topic]]
    BY <1>2, <1>7 DEF Sent, Message
  <2>2. message \in Messages(References(1 .. accepted))
    BY <1>1, <1>3, <1>7 DEF Messages, Runtimes
  <2>3. message.content = rt'.active /\ message.sent = now
    OBVIOUS
  <2> HIDE DEF message
  <2>4. /\ Asking' = Asking /\ message \in Flying'
        /\ \A m \in Flying' : m \in Flying \/ m = message
        /\ Len(topics[kind]) # Queue => Flying \subseteq Flying'
        /\ DOMAIN topics' = DOMAIN topics /\ topics'["Requests"] = topics["Requests"]
        /\ \A k \in Kinds : /\ topics'[k] \in Seq(Messages(References(1 .. accepted)))
                            /\ Len(topics'[k]) <= Queue
    BY <2>1, <2>2, SentFacts
  <2>5. Posts
    BY <1>7, <2>3, <2>4 DEF Posts
  <2>6. ~dropped' => ~dropped /\ Len(topics[kind]) # Queue
    BY <1>2, <1>7, Zenon
  <2>7. \A topic \in DOMAIN topics' : Len(topics'[topic]) <= Queue
    BY <2>4 DEF ChainTypes, Kinds
  <2>8. taken' \in Nat
    BY <1>1, <1>2 DEF ChainTypes
  <2>9. ChainTypes'
    BY <1>2, <1>3, <1>6, <2>4, <2>7, <2>8 DEF ChainTypes, controller
  <2>10. QED
    BY <2>4, <2>5, <2>6, <2>9
<1>8. ASSUME Published = {}
      PROVE  /\ Flying' = Flying /\ ChainTypes' /\ Asking' = Asking
             /\ ~dropped' => ~dropped /\ Flying \subseteq Flying'
  <2>1. /\ DOMAIN topics' = DOMAIN topics
        /\ \A topic \in DOMAIN topics : topics'[topic] = topics[topic]
    BY <1>2, <1>8 DEF Sent
  <2>2. Flying' = Flying /\ Asking' = Asking
    BY <2>1 DEF ChainTypes, Flying, Asking
  <2>3. ~dropped' => ~dropped
    BY <1>2, Zenon
  <2>4. taken' \in Nat
    BY <1>1, <1>2 DEF ChainTypes
  <2>5. ChainTypes'
    BY <1>2, <1>3, <1>6, <2>1, <2>4 DEF ChainTypes, controller, Kinds
  <2>6. QED
    BY <2>2, <2>3, <2>5
<1>9. /\ rt.pending # None => rt.pending.kind \in Kinds
      /\ rt.state = "Active" => rt.active.kind \in Kinds
  BY <1>1 DEF Runtimes, References
<1>10. CASE rt.pending # None /\ Published = {rt.pending.kind} /\ rt'.posted = now
  BY <1>2, <1>3, <1>7, <1>9, <1>10
<1>11. CASE /\ rt.pending = None /\ rt.state = "Active" /\ Due(rt.posted, now, ActivePeriod)
            /\ Published = {rt.active.kind} /\ rt'.posted = now
  BY <1>1, <1>2, <1>3, <1>7, <1>9, <1>11
<1>12. CASE /\ rt.pending = None /\ Published = {}
            /\ rt'.state = "Active" => rt'.posted = rt.posted
  BY <1>2, <1>8, <1>12
<1>13. QED
  BY <1>5, <1>10, <1>11, <1>12

(* An arrival takes the first message of its topic; it comes into the      *)
(* cache, or the cache refuses it and keeps what it held.                  *)
LEMMA ArrivesFacts ==
  ASSUME TypeOK, ChainTypes, NEW kind \in Kinds, Arrives(kind)
  PROVE  /\ UNCHANGED <<vars, tracking, entry, entered, answer, withdrawn, dropped, taken>>
         /\ Asking' = Asking /\ Flying' \subseteq Flying
         /\ \E m \in Flying :
              /\ Flying \subseteq Flying' \cup {m}
              /\ cache' = IF CacheTakes(m.content) THEN m.content ELSE cache
              /\ ~refused' => ~refused
              /\ answer # 0 /\ m.content.id >= answer /\ ~refused' => CacheTakes(m.content)
         /\ ChainTypes'
<1> DEFINE S == Messages(References(1 .. accepted))
           queue == topics[kind]
<1>1. /\ queue # <<>> /\ topics' = [topics EXCEPT ![kind] = Tail(queue)]
      /\ cache' = IF CacheTakes(Head(queue).content) THEN Head(queue).content ELSE cache
      /\ refused' = (refused \/ (/\ answer # 0 /\ Head(queue).content.id >= answer
                                 /\ ~CacheTakes(Head(queue).content)))
      /\ UNCHANGED <<vars, tracking, entry, entered, answer, withdrawn, dropped, taken>>
  BY DEF Arrives
<1>2. /\ kind \in DOMAIN topics /\ kind # "Requests" /\ "Requests" \in DOMAIN topics
      /\ queue \in Seq(S) /\ Len(queue) <= Queue /\ Queue \in Nat /\ accepted' = accepted
  BY <1>1, ChainAssumption DEF ChainTypes, Kinds, vars
<1>3. /\ DOMAIN topics' = DOMAIN topics /\ topics'["Requests"] = topics["Requests"]
      /\ topics'[kind] = Tail(queue)
      /\ \A k \in Kinds \ {kind} : topics'[k] = topics[k]
  BY <1>1, <1>2 DEF ChainTypes, Kinds
<1>4. /\ Flying = ToSet(topics["Analytic"]) \cup ToSet(topics["Sampled"])
      /\ Flying' = ToSet(topics'["Analytic"]) \cup ToSet(topics'["Sampled"])
      /\ Asking' = Asking
  BY <1>3 DEF Flying, Asking
<1>5. ToSet(topics'[kind]) \subseteq Flying' /\ ToSet(queue) \subseteq Flying
  BY <1>4 DEF Kinds
<1>6. /\ Flying' \subseteq Flying \cup ToSet(topics'[kind])
      /\ Flying \subseteq Flying' \cup ToSet(queue)
  BY <1>3, <1>4 DEF Kinds
<1>7. Len(queue) \in Nat
  BY <1>2
<1> HIDE DEF queue, S
<1>8. /\ Tail(queue) \in Seq(S) /\ Len(Tail(queue)) = Len(queue) - 1
      /\ Head(queue) \in S /\ Head(queue) \in ToSet(queue)
      /\ ToSet(Tail(queue)) \subseteq ToSet(queue)
      /\ ToSet(queue) \subseteq ToSet(Tail(queue)) \cup {Head(queue)}
  BY <1>1, <1>2, TailFacts
<1>9. Flying' \subseteq Flying /\ Head(queue) \in Flying /\ Flying \subseteq Flying' \cup {Head(queue)}
  BY <1>3, <1>5, <1>6, <1>8
<1>10. \A k \in Kinds : topics'[k] \in Seq(S) /\ Len(topics'[k]) <= Queue
  <2>1. Tail(queue) \in Seq(S) /\ Len(Tail(queue)) <= Queue
    BY <1>2, <1>7, <1>8
  <2>2. \A k \in Kinds : topics[k] \in Seq(S) /\ Len(topics[k]) <= Queue
    BY DEF ChainTypes, Kinds, S
  <2>3. QED
    BY <1>3, <2>1, <2>2
<1>11. \A topic \in DOMAIN topics' : Len(topics'[topic]) <= Queue
  BY <1>3, <1>10 DEF ChainTypes, Kinds
<1>12. cache' \in References(1 .. accepted) \cup {None} /\ refused' \in BOOLEAN
  <2>1. Head(queue).content \in References(1 .. accepted)
    BY <1>8 DEF S, Messages
  <2>2. cache \in References(1 .. accepted) \cup {None}
    BY DEF ChainTypes
  <2>3. refused' \in BOOLEAN
    BY <1>1, Zenon DEF ChainTypes
  <2>4. QED
    BY <1>1, <2>1, <2>2, <2>3
<1>13. ChainTypes'
  BY <1>1, <1>2, <1>3, <1>10, <1>11, <1>12 DEF ChainTypes, S, vars
<1>14. /\ ~refused' => ~refused
       /\ answer # 0 /\ Head(queue).content.id >= answer /\ ~refused' =>
            CacheTakes(Head(queue).content)
  BY <1>1, Zenon
<1>15. QED
  BY <1>1, <1>4, <1>9, <1>13, <1>14

(* What is under way is stamped, and carries what was given a number.      *)
LEMMA MessageFacts ==
  ASSUME ChainTypes
  PROVE  /\ \A m \in Flying : m.sent \in Nat /\ m.content \in References(1 .. accepted)
         /\ \A m \in Asking : m.sent \in Nat /\ m.content \in Nat
<1>1. ASSUME NEW S, NEW q \in Seq(S) PROVE ToSet(q) \subseteq S
  BY ElementOfSeq DEF ToSet
<1>2. /\ Flying \subseteq Messages(References(1 .. accepted))
      /\ Asking \subseteq Messages(Nat)
  BY <1>1 DEF ChainTypes, Flying, Asking, Kinds
<1>3. QED
  BY <1>2 DEF Messages

(* Leaving, a reset, a deadline and a stutter touch no message and no      *)
(* time, and the generator's state only to reset it.                       *)
Aside == Leave \/ ChainReset \/ ChainDeadline \/ UNCHANGED chainVars
LEMMA AsideFacts ==
  ASSUME ChainTypes, Aside
  PROVE  /\ UNCHANGED <<now, late, accepted, topics, cache, entry, entered, answer,
                        dropped, refused, taken>>
         /\ Flying' = Flying /\ Asking' = Asking /\ (tracking' => tracking)
         /\ \/ rt' = rt /\ latest' = latest /\ withdrawn' = withdrawn
            \/ rt' = Fresh /\ latest' = None /\ withdrawn'
         /\ ChainTypes'
<1>1. /\ UNCHANGED <<now, late, accepted, topics, cache, entry, entered, answer,
                     dropped, refused, taken>>
      /\ \/ rt' = rt /\ latest' = latest /\ withdrawn' = withdrawn
         \/ rt' = Fresh /\ latest' = None /\ withdrawn' = TRUE
  BY DEF Aside, Leave, ChainReset, OnReset, ChainDeadline, OnDeadline, chainVars, vars,
         controller, past
<1>2. Flying' = Flying /\ Asking' = Asking
  BY <1>1 DEF Flying, Asking
<1>3. tracking' = tracking \/ tracking' = FALSE
  BY DEF Aside, Leave, ChainReset, ChainDeadline, chainVars, controller
<1>4. (tracking' => tracking) /\ tracking' \in BOOLEAN
  <2>1. tracking \in BOOLEAN
    BY DEF ChainTypes
  <2>2. CASE tracking' = tracking
    BY <2>1, <2>2, Zenon
  <2>3. CASE tracking' = FALSE
    BY <2>3, Zenon
  <2>4. QED
    BY <1>3, <2>2, <2>3
<1>5. withdrawn' \in BOOLEAN
  BY <1>1, Zenon DEF ChainTypes
<1>6. ChainTypes'
  BY <1>1, <1>4, <1>5 DEF ChainTypes
<1>7. QED
  BY <1>1, <1>2, <1>4, <1>6, Zenon

(* Time passes over messages, but with prompt turns over none that has     *)
(* been under way for its delay, and over no turn.                         *)
LEMMA TickFacts ==
  ASSUME TypeOK, ChainTypes, ChainTick
  PROVE  /\ now' = now + 1
         /\ UNCHANGED <<rt, turn, accepted, latest, topics, controller, past>>
         /\ Flying' = Flying /\ Asking' = Asking
         /\ Prompt => ~turn /\ (~late => ~late')
         /\ Prompt => \A m \in Flying \cup Asking : now - m.sent < Delay
         /\ ChainTypes'
<1>1. /\ now' = now + 1 /\ (late' = (late \/ turn \/ DeadlinePassed))
      /\ UNCHANGED <<rt, turn, accepted, latest, topics, controller, past>>
  BY DEF ChainTick, Tick
<1>2. Flying' = Flying /\ Asking' = Asking
  BY <1>1 DEF Flying, Asking
<1>3. Prompt => ~turn /\ ~DeadlinePassed
  BY DEF ChainTick
<1>4. Prompt => \A m \in Flying \cup Asking : now - m.sent < Delay
  BY DEF ChainTick, ChainTypes, Flying, Asking
<1>5. ChainTypes'
  BY <1>1 DEF ChainTypes, controller, past
<1>6. Prompt => (~late => ~late')
  BY <1>1, <1>3, Zenon
<1>7. QED
  BY <1>1, <1>2, <1>3, <1>4, <1>5, <1>6

(* The steps of the chain, as the proofs split them.                       *)
LEMMA StepCases ==
  [ChainNext]_chainVars =>
    \/ Enter \/ OnActivation \/ OnOperator \/ ChainTurn
    \/ (\E kind \in Kinds : Arrives(kind)) \/ ChainTick \/ Aside
BY DEF ChainNext, Aside
-----------------------------------------------------------------------------
(* A step keeps the types of the controller, the cache and the topics.     *)
LEMMA ChainTypesStep ==
  ASSUME TypeOK, Held, ChainTypes, [ChainNext]_chainVars
  PROVE  ChainTypes'
<1>1. CASE Enter
  BY <1>1, EnterFacts
<1>2. CASE OnActivation \/ OnOperator
  BY <1>2, AcceptedFacts
<1>3. CASE ChainTurn
  BY <1>3, TurnInChain
<1>4. ASSUME NEW kind \in Kinds, Arrives(kind) PROVE ChainTypes'
  BY <1>4, ArrivesFacts
<1>5. CASE ChainTick
  BY <1>5, TickFacts
<1>6. CASE Aside
  BY <1>6, AsideFacts
<1>7. QED
  BY <1>1, <1>2, <1>3, <1>4, <1>5, <1>6, StepCases

(* A step makes nothing late.                                              *)
LEMMA UnderwayStep ==
  ASSUME TypeOK, Held, ChainTypes, Underway, [ChainNext]_chainVars
  PROVE  Underway'
<1> USE DEF Underway, Recent
<1>0. now \in Nat /\ Delay \in Nat \ {0}
  BY ChainAssumption DEF TypeOK
<1>1. CASE Enter
  <2>1. now' = now /\ late' = late
    BY <1>1, EnterFacts DEF vars
  <2>2. Flying' = Flying /\ \A m \in Asking' : m \in Asking \/ m.sent = now
    BY <1>1, EnterFacts
  <2>3. QED
    BY <1>0, <2>1, <2>2
<1>2. CASE OnActivation \/ OnOperator
  BY <1>2, AcceptedFacts
<1>3. CASE ChainTurn
  <2>1. now' = now /\ late' = late
    BY <1>3, TurnFacts DEF ChainTurn
  <2>2. Asking' = Asking /\ (Posts \/ Flying' = Flying)
    BY <1>3, TurnInChain
  <2>3. \A m \in Flying' : m \in Flying \/ m.sent = now
    BY <2>2 DEF Posts
  <2>4. QED
    BY <1>0, <2>1, <2>2, <2>3
<1>4. ASSUME NEW kind \in Kinds, Arrives(kind) PROVE Underway'
  BY <1>4, ArrivesFacts DEF vars
<1>5. CASE ChainTick
  <2>1. /\ now' = now + 1 /\ Flying' = Flying /\ Asking' = Asking
        /\ Prompt => ~late'
        /\ Prompt => \A m \in Flying \cup Asking : now - m.sent < Delay
    BY <1>5, TickFacts
  <2>2. \A m \in Flying \cup Asking : m.sent \in Nat
    BY MessageFacts
  <2>3. QED
    BY <1>0, <2>1, <2>2
<1>6. CASE Aside
  BY <1>6, AsideFacts
<1>7. QED
  BY <1>1, <1>2, <1>3, <1>4, <1>5, <1>6, StepCases

(* A step keeps the request of an entry until it is answered.              *)
LEMMA AskedStep ==
  ASSUME TypeOK, Held, ChainTypes, Asked, [ChainNext]_chainVars
  PROVE  Asked'
<1> USE DEF Asked
<1>0. /\ now \in Nat /\ entry \in Nat /\ accepted \in Nat
      /\ \A m \in Asking : m.content \in Nat
  BY MessageFacts DEF TypeOK, ChainTypes
<1>1. CASE Enter
  <2>1. now' = now
    BY <1>1, EnterFacts DEF vars
  <2>2. /\ entry' = entry + 1 /\ entered' = now
        /\ \A m \in Asking' : m \in Asking \/ (m.content = entry' /\ m.sent = now)
        /\ \E m \in Asking' : m.content = entry' /\ m.sent = now
    BY <1>1, EnterFacts
  <2>3. ASSUME NEW m \in Asking'
        PROVE  m.content <= entry' /\ (m.content = entry' => m.sent = entered')
    BY <1>0, <2>2
  <2>4. QED
    BY <1>0, <2>1, <2>2, <2>3
<1>2. CASE OnActivation \/ OnOperator
  BY <1>0, <1>2, AcceptedFacts
<1>3. CASE ChainTurn
  <2>1. now' = now
    BY <1>3, TurnFacts DEF ChainTurn
  <2>2. Asking' = Asking /\ UNCHANGED controller
    BY <1>3, TurnInChain
  <2>3. QED
    BY <2>1, <2>2 DEF controller
<1>4. ASSUME NEW kind \in Kinds, Arrives(kind) PROVE Asked'
  <2>1. UNCHANGED <<vars, tracking, entry, entered, answer>> /\ Asking' = Asking
    BY <1>4, ArrivesFacts
  <2>2. QED
    BY <2>1 DEF vars
<1>5. CASE ChainTick
  <2>1. now' = now + 1 /\ Asking' = Asking /\ UNCHANGED controller
    BY <1>5, TickFacts
  <2>2. QED
    BY <1>0, <2>1 DEF controller, ChainTypes
<1>6. CASE Aside
  BY <1>6, AsideFacts
<1>7. QED
  BY <1>1, <1>2, <1>3, <1>4, <1>5, <1>6, StepCases

(* A step leaves what waits a start far enough ahead.                      *)
LEMMA WaitingStep ==
  ASSUME TypeOK, Held, ChainTypes, Waiting, [ChainNext]_chainVars
  PROVE  Waiting'
<1> USE DEF Waiting
<1>1. CASE Enter
  BY <1>1, EnterFacts DEF vars, Twice
<1>2. CASE OnActivation \/ OnOperator
  BY <1>2, AcceptedFacts DEF Twice
<1>3. CASE ChainTurn
  BY <1>3, TurnFacts DEF ChainTurn
<1>4. ASSUME NEW kind \in Kinds, Arrives(kind) PROVE Waiting'
  BY <1>4, ArrivesFacts DEF vars, Twice
<1>5. CASE ChainTick
  BY <1>5, TickFacts DEF Held, Twice
<1>6. CASE Aside
  BY <1>6, AsideFacts DEF Fresh, Twice
<1>7. QED
  BY <1>1, <1>2, <1>3, <1>4, <1>5, <1>6, StepCases

(* The number it carries tells a reference from none.                      *)
LEMMA ExpiryIsTime ==
  ASSUME TypeOK, rt.state = "Active", rt.active # None
  PROVE  /\ rt.active \in References(1 .. accepted) /\ rt.active.duration \in Nat
         /\ Expiry(rt.active) \in Nat
BY RatesAssumption DEF TypeOK, Runtimes, References, Expiry

(* The times of the chain are numbers.                                     *)
LEMMA ChainNumbers ==
  ASSUME TypeOK, ChainTypes
  PROVE  /\ now \in Nat \ {0} /\ taken \in Nat /\ entered \in Nat /\ rt.posted \in Nat
         /\ Delay \in Nat \ {0} /\ ActivePeriod \in Nat \ {0}
         /\ answer \in Nat /\ accepted \in Nat /\ answer <= accepted
<1>1. Delay \in Nat \ {0} /\ ActivePeriod \in Nat \ {0}
  BY ChainAssumption, RatesAssumption
<1>2. now \in Nat \ {0} /\ accepted \in Nat /\ rt.posted \in Nat
  BY NodeAssumption DEF TypeOK, Runtimes
<1>3. QED
  BY <1>1, <1>2 DEF ChainTypes

(* A turn leaves the generator flying only what it flew or took up, and    *)
(* what it took up is new.                                                 *)
LEMMA TakesUp ==
  ASSUME TypeOK, Held, ChainTypes, ChainTurn
  PROVE  /\ now' = now /\ accepted' = accepted /\ latest' = latest /\ late' = late
         /\ rt'.pending = None
         /\ rt.pending # None =>
              /\ rt'.active = rt.pending /\ rt'.state = "Active" /\ taken' = now
              /\ latest = rt.pending
         /\ rt.pending = None =>
              /\ rt'.active = rt.active /\ taken' = taken
              /\ rt'.state = "Active" => rt.state = "Active"
              /\ rt.state = "Active" /\ ~Expired(rt.active, now) => rt'.state = "Active"
<1>1. /\ UNCHANGED <<now, accepted, latest, late>> /\ rt'.pending = None
      /\ rt'.active = IF rt.pending # None THEN rt.pending ELSE rt.active
      /\ rt'.state = IF rt.pending # None \/ (rt.state = "Active" /\ ~Expired(rt.active, now))
                     THEN "Active" ELSE "Ready"
  BY TurnFacts DEF ChainTurn
<1>2. taken' = IF rt'.active # rt.active THEN now ELSE taken
  BY TurnInChain
<1>3. QED
  BY <1>1, <1>2 DEF Held

(* A step keeps what was sent since the reference was taken up to it.      *)
LEMMA FlownSinceStep ==
  ASSUME TypeOK, Held, ChainTypes, Underway, Waiting, Flown, [ChainNext]_chainVars
  PROVE  Flown'
<1> USE DEF Flown
<1>0. /\ now \in Nat \ {0} /\ taken \in Nat /\ rt.posted \in Nat
      /\ {ActivePeriod, LeadTime, ReferenceGrace} \subseteq Nat
  BY NodeAssumption, RatesAssumption DEF TypeOK, ChainTypes, Runtimes
<1>1. CASE Enter
  BY <1>1, EnterFacts DEF vars
<1>2. CASE OnActivation \/ OnOperator
  BY <1>2, AcceptedFacts DEF past
<1>3. CASE ChainTurn
  <2> SUFFICES ASSUME rt'.state = "Active"
               PROVE  /\ 1 <= taken' /\ taken' <= rt'.posted /\ rt'.posted <= now'
                      /\ Prompt /\ rt'.active.duration > 0 =>
                           Expiry(rt'.active) > taken' + ActivePeriod
                      /\ \A m \in Flying' : /\ m.sent <= rt'.posted
                                            /\ m.sent > taken' => m.content = rt'.active
    OBVIOUS
  <2>1. now' = now
    BY <1>3, TakesUp
  <2>2. \A m \in Flying : m.sent <= now /\ m.sent \in Nat
    BY MessageFacts DEF Underway, Recent
  <2>3. CASE rt.pending # None /\ Posts
    <3>1. rt'.active = rt.pending /\ taken' = now /\ rt'.posted = now
      BY <1>3, <2>3, TakesUp DEF Posts
    <3>2. \A m \in Flying' : m.sent <= now /\ (m.sent > now => m.content = rt'.active)
      BY <1>0, <2>2, <2>3 DEF Posts
    <3>3. rt.pending.start \in Nat /\ rt.pending.duration \in Nat
      BY <2>3 DEF TypeOK, Runtimes, References
    <3>4. Prompt /\ rt.pending.duration > 0 => Expiry(rt.pending) > now + ActivePeriod
      BY <1>0, <2>3, <3>3 DEF Waiting, Twice, Expiry
    <3>5. QED
      BY <1>0, <2>1, <3>1, <3>2, <3>4
  <2>4. CASE rt.pending = None /\ rt.state = "Active" /\ Posts
    <3>1. rt'.active = rt.active /\ taken' = taken /\ rt'.posted = now
      BY <1>3, <2>4, TakesUp DEF Posts
    <3>2. \A m \in Flying' : m.sent <= now /\ (m.sent > taken => m.content = rt'.active)
      BY <1>0, <2>2, <2>4, <3>1 DEF Posts
    <3>3. QED
      BY <1>0, <2>1, <2>4, <3>1, <3>2
  <2>5. CASE rt.pending = None /\ Flying' = Flying /\ rt'.posted = rt.posted
    <3>1. rt'.active = rt.active /\ taken' = taken /\ rt.state = "Active"
      BY <1>3, <2>5, TakesUp
    <3>2. QED
      BY <1>0, <2>1, <2>5, <3>1
  <2>6. QED
    BY <1>3, <2>3, <2>4, <2>5, TurnInChain
<1>4. ASSUME NEW kind \in Kinds, Arrives(kind) PROVE Flown'
  <2>1. UNCHANGED <<vars, taken>> /\ Flying' \subseteq Flying
    BY <1>4, ArrivesFacts
  <2>2. QED
    BY <2>1 DEF vars
<1>5. CASE ChainTick
  <2>1. now' = now + 1 /\ rt' = rt /\ UNCHANGED past /\ Flying' = Flying
    BY <1>5, TickFacts
  <2>2. QED
    BY <1>0, <2>1 DEF past
<1>6. CASE Aside
  BY <1>6, AsideFacts DEF Fresh
<1>7. QED
  BY <1>1, <1>2, <1>3, <1>4, <1>5, <1>6, StepCases

(* A publication that is due finds nothing older under way.                *)
LEMMA NothingOlder ==
  ASSUME TypeOK, ChainTypes, Underway, Flown, Prompt, rt.state = "Active",
         Due(rt.posted, now, ActivePeriod)
  PROVE  Flying = {}
<1>1. /\ now \in Nat /\ rt.posted \in Nat \ {0}
      /\ Delay \in Nat /\ ActivePeriod \in Nat /\ Delay < ActivePeriod
  <2>1. 1 <= taken /\ taken <= rt.posted
    BY DEF Flown
  <2>2. Delay < ActivePeriod
    BY ChainAssumption
  <2>3. QED
    BY <2>1, <2>2, ChainNumbers
<1>2. now - rt.posted >= ActivePeriod
  BY <1>1 DEF Due, Never
<1>3. \A m \in Flying : m.sent \in Nat /\ m.sent <= rt.posted /\ now <= m.sent + Delay
  BY MessageFacts DEF Underway, Recent, Flown
<1>4. QED
  BY <1>1, <1>2, <1>3

(* A step keeps the cache on its way to the reference flown.               *)
LEMMA FollowingStep ==
  ASSUME TypeOK, Held, ChainTypes, PublishedInTime, Underway, Flown, Following,
         [ChainNext]_chainVars
  PROVE  Following'
<1> USE DEF Following, CacheTakes
<1>0. /\ {now, taken, entered, Delay, ActivePeriod} \subseteq Nat /\ rt.posted \in Nat
      /\ Max({taken, entered}) \in Nat /\ Max({taken, entered}) >= taken
      /\ Delay > 0
  BY MaxOfTwo, ChainNumbers
<1>1. CASE Enter
  <2>1. rt' = rt /\ entered' = now /\ taken' = taken
    BY <1>1, EnterFacts DEF vars
  <2>2. Max({taken, now}) \in Nat /\ Max({taken, now}) >= now
    BY <1>0, MaxOfTwo
  <2>3. rt.state = "Active" => rt.posted <= now
    BY DEF Flown
  <2>4. QED
    BY <1>0, <2>1, <2>2, <2>3 DEF Settled
<1>2. CASE OnActivation \/ OnOperator
  <2>1. /\ rt'.state = rt.state /\ rt'.active = rt.active /\ rt'.posted = rt.posted
        /\ UNCHANGED <<cache, entered, taken>> /\ Flying' = Flying
    BY <1>2, AcceptedFacts DEF past
  <2>2. QED
    BY <2>1 DEF Settled
<1>3. CASE ChainTurn
  <2> SUFFICES ASSUME Prompt, rt'.state = "Active", rt'.posted > Settled',
                      CacheTakes(rt'.active)
               PROVE  \/ cache' = rt'.active
                      \/ \E m \in Flying' : m.sent > Settled' /\ m.sent <= Settled' + ActivePeriod + 1
    OBVIOUS
  <2>1. cache' = cache /\ entered' = entered
    BY <1>3, TurnInChain DEF controller
  <2>2. CASE rt.pending # None /\ Posts
    <3>1. taken' = now /\ rt'.posted = now
      BY <1>3, <2>2, TakesUp DEF Posts
    <3>2. Max({now, entered}) \in Nat /\ Max({now, entered}) >= now
      BY <1>0, MaxOfTwo
    <3>3. QED
      BY <1>0, <2>1, <3>1, <3>2 DEF Settled
  <2>3. CASE rt.pending = None /\ rt.state = "Active" /\ Due(rt.posted, now, ActivePeriod) /\ Posts
    <3>1. rt'.active = rt.active /\ taken' = taken /\ rt'.posted = now
      BY <1>3, <2>3, TakesUp DEF Posts
    <3>2. Settled' = Settled /\ Settled \in Nat
      BY <1>0, <2>1, <3>1 DEF Settled
    <3>3. Flying = {}
      BY <2>3, NothingOlder
    <3>4. CASE rt.posted > Settled
      BY <2>1, <2>3, <3>1, <3>3, <3>4
    <3>5. CASE ~(rt.posted > Settled)
      <4>1. now <= rt.posted + ActivePeriod + 1
        BY <1>0, <2>3 DEF PublishedInTime, Underway
      <4>2. now > Settled /\ now <= Settled + ActivePeriod + 1
        BY <1>0, <3>1, <3>2, <3>5, <4>1
      <4>3. QED
        BY <2>3, <3>2, <4>2 DEF Posts
    <3>6. QED
      BY <3>4, <3>5
  <2>4. CASE rt.pending = None /\ Flying' = Flying /\ rt'.posted = rt.posted
    <3>1. rt'.active = rt.active /\ taken' = taken /\ rt.state = "Active"
      BY <1>3, <2>4, TakesUp
    <3>2. Settled' = Settled
      BY <2>1, <3>1 DEF Settled
    <3>3. QED
      BY <2>1, <2>4, <3>1, <3>2
  <2>5. QED
    BY <1>3, <2>2, <2>3, <2>4, TurnInChain
<1>4. ASSUME NEW kind \in Kinds, Arrives(kind) PROVE Following'
  <2>1. rt' = rt /\ taken' = taken /\ entered' = entered
    BY <1>4, ArrivesFacts DEF vars
  <2>2. PICK m \in Flying : cache' = IF CacheTakes(m.content) THEN m.content ELSE cache
    BY <1>4, ArrivesFacts
  <2>3. Settled' = Settled
    BY <2>1 DEF Settled
  <2>4. Prompt /\ rt.state = "Active" /\ rt.posted > Settled => m.sent > taken
    BY <1>0, MessageFacts DEF Settled, Underway, Recent, Flown
  <2>5. QED
    BY <2>1, <2>2, <2>3, <2>4 DEF Flown
<1>5. CASE ChainTick
  <2>1. rt' = rt /\ UNCHANGED <<controller, past>> /\ Flying' = Flying
    BY <1>5, TickFacts
  <2>2. QED
    BY <2>1 DEF controller, past, Settled
<1>6. CASE Aside
  <2>1. UNCHANGED <<cache, entered, taken>> /\ Flying' = Flying /\ (rt' = rt \/ rt' = Fresh)
    BY <1>6, AsideFacts
  <2>2. QED
    BY <2>1 DEF Fresh, Settled
<1>7. QED
  BY <1>1, <1>2, <1>3, <1>4, <1>5, <1>6, StepCases

(* What is flown or under way has a number.                                *)
LEMMA NumbersFlown ==
  ASSUME TypeOK, ChainTypes
  PROVE  /\ rt.active.id \in 0 .. accepted /\ rt.pending.id \in 0 .. accepted
         /\ latest.id \in 0 .. accepted /\ cache.id \in 0 .. accepted
         /\ \A m \in Flying : m.content.id \in 1 .. accepted
<1>1. None.id = 0 /\ \A r \in References(1 .. accepted) : r.id \in 1 .. accepted
  BY DEF None, References
<1>2. /\ {rt.active, rt.pending, latest, cache} \subseteq References(1 .. accepted) \cup {None}
      /\ accepted \in Nat
  BY DEF TypeOK, Runtimes, ChainTypes
<1>3. \A m \in Flying : m.content \in References(1 .. accepted)
  BY MessageFacts
<1>4. QED
  BY <1>1, <1>2, <1>3

(* A step keeps the answer flown once it had time to arrive, and what was  *)
(* sent before it the older the longer it is under way.                    *)
RepliedParts ==
  /\ latest # None /\ latest.id >= answer
  /\ Prompt /\ now > entered + Delay => rt.active.id >= answer
  /\ Prompt => \A m \in Flying : m.sent <= entered + Delay \/ m.content.id >= answer
LEMMA RepliedStep ==
  ASSUME TypeOK, Held, AcceptedIsFlown, ChainTypes, Underway, Asked, Replied,
         [ChainNext]_chainVars
  PROVE  Replied'
<1>0. /\ now \in Nat /\ entered \in Nat /\ Delay \in Nat /\ answer \in Nat /\ accepted \in Nat
      /\ answer <= accepted
  BY ChainNumbers
<1>a. Replied = (answer # 0 /\ ~withdrawn => RepliedParts)
  BY Zenon DEF Replied, RepliedParts
<1>b. Replied' = (answer' # 0 /\ ~withdrawn' => RepliedParts')
  BY Zenon DEF Replied, RepliedParts
<1> SUFFICES ASSUME answer' # 0, ~withdrawn' PROVE RepliedParts'
  BY <1>b
<1> USE DEF RepliedParts
<1>1. CASE Enter
  BY <1>1, EnterFacts
<1>2. CASE OnActivation \/ OnOperator
  <2>1. /\ now' = now /\ entered' = entered /\ withdrawn' = withdrawn /\ Flying' = Flying
        /\ latest' = rt'.pending /\ rt'.pending # None /\ rt'.pending.id = accepted'
        /\ rt'.active = rt.active /\ accepted' = accepted + 1
        /\ answer' = answer \/ (answer' = accepted' /\ \E m \in Asking : m.content = entry)
    BY <1>2, AcceptedFacts DEF past
  <2>2. CASE answer' = answer
    <3>1. RepliedParts
      BY <1>a, <2>1, <2>2
    <3>2. latest' # None /\ latest'.id >= answer'
      BY <1>0, <2>1, <2>2
    <3>3. QED
      BY <2>1, <2>2, <3>1, <3>2
  <2>3. CASE answer' = accepted' /\ \E m \in Asking : m.content = entry
    <3>1. Prompt => now <= entered + Delay
      BY <2>3 DEF Asked, Underway, Recent
    <3>2. \A m \in Flying : m.sent \in Nat /\ m.sent <= now
      BY MessageFacts DEF Underway, Recent
    <3>3. Prompt => \A m \in Flying : m.sent <= entered + Delay
      BY <1>0, <3>1, <3>2
    <3>4. QED
      BY <1>0, <2>1, <2>3, <3>1, <3>3
  <2>4. QED
    BY <2>1, <2>2, <2>3
<1>3. CASE ChainTurn
  <2>1. now' = now /\ latest' = latest
    BY <1>3, TakesUp
  <2>2. entered' = entered /\ answer' = answer /\ withdrawn' = withdrawn
    BY <1>3, TurnInChain DEF controller
  <2>3. RepliedParts
    BY <1>a, <2>2
  <2>4. Prompt /\ now > entered + Delay => rt'.active.id >= answer
    BY <1>3, <2>3, TakesUp
  <2>5. \A m \in Flying' : m \in Flying \/ (m.content = rt'.active /\ m.sent = now)
    BY <1>3, TurnInChain DEF Posts
  <2>6. Prompt => \A m \in Flying' : m.sent <= entered + Delay \/ m.content.id >= answer
    BY <1>0, <2>3, <2>4, <2>5
  <2>7. QED
    BY <2>1, <2>2, <2>3, <2>4, <2>6
<1>4. ASSUME NEW kind \in Kinds, Arrives(kind) PROVE RepliedParts'
  <2>1. UNCHANGED <<vars, entered, answer, withdrawn>> /\ Flying' \subseteq Flying
    BY <1>4, ArrivesFacts
  <2>2. QED
    BY <1>a, <2>1 DEF vars
<1>5. CASE ChainTick
  <2>1. /\ now' = now + 1 /\ rt' = rt /\ latest' = latest /\ Flying' = Flying
        /\ UNCHANGED <<controller, past>> /\ (Prompt => ~turn)
    BY <1>5, TickFacts
  <2>2. RepliedParts
    BY <1>a, <2>1 DEF controller, past
  <2>3. Prompt => rt.active.id >= answer
    BY <2>1, <2>2 DEF AcceptedIsFlown
  <2>4. QED
    BY <2>1, <2>2, <2>3 DEF controller
<1>6. CASE Aside
  <2>1. UNCHANGED <<now, entered, answer>> /\ Flying' = Flying
    BY <1>6, AsideFacts
  <2>2. rt' = rt /\ latest' = latest /\ withdrawn' = withdrawn
    BY <1>6, AsideFacts
  <2>3. QED
    BY <1>a, <2>1, <2>2
<1>7. QED
  BY <1>1, <1>2, <1>3, <1>4, <1>5, <1>6, StepCases

(* A turn keeps the answer, once flown, on its way to the cache: taking up *)
(* a later one soon after the entry leaves a publication to come before    *)
(* its end, and later nothing older is under way.                          *)
LEMMA BriefTurn ==
  ASSUME TypeOK, Held, PublishedInTime, ChainTypes, Underway, Flown, Replied, Brief,
         ChainTurn, Prompt, answer # 0, ~withdrawn, ~dropped', ~refused,
         rt'.active.id >= answer
  PROVE  AboutToPublish' \/ Overtaken'
<1>0. /\ {now, taken, entered, Delay, ActivePeriod, answer} \subseteq Nat
      /\ rt.posted \in Nat
  BY ChainNumbers
<1>1. /\ now' = now /\ UNCHANGED <<cache, entered, answer, withdrawn>>
      /\ ~dropped /\ Flying \subseteq Flying'
  BY TurnInChain, TakesUp DEF controller
<1>2. rt.active.id >= answer => AboutToPublish \/ Overtaken
  BY <1>1 DEF Brief
<1>3. rt.state = "Active" => now <= rt.posted + ActivePeriod + 1
  BY <1>0 DEF PublishedInTime, Underway
<1>4. CASE rt.pending # None /\ Posts
  <2>1. rt'.active = rt.pending /\ rt'.state = "Active" /\ taken' = now /\ rt'.posted = now
    BY <1>4, TakesUp DEF Posts
  <2>2. CASE now <= entered + 2 * Delay
    BY <1>1, <2>1, <2>2 DEF AboutToPublish
  <2>3. CASE ~(now <= entered + 2 * Delay)
    <3>1. \A m \in Flying : m.sent \in Nat /\ now <= m.sent + Delay
      BY MessageFacts DEF Underway, Recent
    <3>2. \A m \in Flying : m.sent <= entered + Delay \/ m.content.id >= answer
      BY DEF Replied
    <3>3. \A m \in Flying : m.content.id >= answer
      BY <1>0, <2>3, <3>1, <3>2
    <3>4. \A m \in Flying' : m.content.id >= answer
      BY <1>4, <3>3 DEF Posts
    <3>5. now > entered + Delay
      BY <1>0, <2>3
    <3>6. AboutToPublish \/ Overtaken
      BY <1>2, <3>5 DEF Replied
    <3>7. CASE AboutToPublish
      <4>1. now <= entered + ActivePeriod + 1 + 2 * Delay
        BY <1>0, <1>3, <3>7 DEF AboutToPublish
      <4>2. \E m \in Flying' : m.sent <= entered + ActivePeriod + 1 + 2 * Delay
        BY <1>4, <4>1 DEF Posts
      <4>3. QED
        BY <1>1, <3>4, <4>2 DEF Overtaken
    <3>8. CASE Overtaken
      BY <1>1, <3>4, <3>8 DEF Overtaken
    <3>9. QED
      BY <3>6, <3>7, <3>8
  <2>4. QED
    BY <2>2, <2>3
<1>5. CASE rt.pending = None /\ rt.state = "Active" /\ Due(rt.posted, now, ActivePeriod) /\ Posts
  <2>1. rt'.active = rt.active
    BY <1>5, TakesUp
  <2>2. Flying = {}
    BY <1>5, NothingOlder
  <2>3. \A m \in Flying' : m.content.id >= answer
    BY <1>5, <2>2 DEF Posts
  <2>4. CASE AboutToPublish
    <3>1. now <= entered + ActivePeriod + 1 + 2 * Delay
      BY <1>0, <1>3, <2>4 DEF AboutToPublish
    <3>2. \E m \in Flying' : m.sent <= entered + ActivePeriod + 1 + 2 * Delay
      BY <1>5, <3>1 DEF Posts
    <3>3. QED
      BY <1>1, <2>3, <3>2 DEF Overtaken
  <2>5. CASE Overtaken
    BY <1>1, <2>2, <2>3, <2>5 DEF Overtaken
  <2>6. QED
    BY <1>2, <2>1, <2>4, <2>5
<1>6. CASE /\ rt.pending = None /\ Flying' = Flying
           /\ rt'.state = "Active" => rt'.posted = rt.posted
  <2>1. rt'.active = rt.active /\ taken' = taken
    BY <1>6, TakesUp
  <2>2. CASE Overtaken
    BY <1>1, <1>6, <2>2 DEF Overtaken
  <2>3. CASE AboutToPublish
    <3>1. rt.state = "Active" /\ rt.active # None
      BY <2>3 DEF AboutToPublish, Held
    <3>2. ~Expired(rt.active, now)
      <4>1. Expiry(rt.active) \in Nat
        BY <3>1, ExpiryIsTime
      <4>2. rt.active.duration > 0 => Expiry(rt.active) > taken + ActivePeriod
        BY <3>1 DEF Flown
      <4>3. QED
        BY <1>0, <1>3, <2>3, <4>1, <4>2 DEF Expired, AboutToPublish
    <3>3. rt'.state = "Active"
      BY <1>6, <3>1, <3>2, TakesUp
    <3>4. QED
      BY <1>1, <1>6, <2>1, <2>3, <3>3 DEF AboutToPublish
  <2>4. QED
    BY <1>2, <2>1, <2>2, <2>3
<1>7. QED
  BY <1>4, <1>5, <1>6, TurnInChain

(* A step keeps the answer on its way to the cache.                        *)
LEMMA BriefStep ==
  ASSUME TypeOK, Held, PublishedInTime, ChainTypes, Underway, Flown, Replied, Brief,
         [ChainNext]_chainVars
  PROVE  Brief'
<1> SUFFICES ASSUME Prompt, answer' # 0, ~withdrawn', ~dropped', ~refused',
                    rt'.active.id >= answer'
             PROVE  AboutToPublish' \/ Overtaken'
  BY DEF Brief
<1>1. CASE Enter
  BY <1>1, EnterFacts
<1>2. CASE OnActivation \/ OnOperator
  <2>1. /\ UNCHANGED <<cache, entered, past>> /\ Flying' = Flying
        /\ rt'.state = rt.state /\ rt'.active = rt.active /\ rt'.posted = rt.posted
        /\ accepted' = accepted + 1 /\ (answer' = answer \/ answer' = accepted')
    BY <1>2, AcceptedFacts
  <2>2. answer' = answer
    BY <2>1, NumbersFlown, ChainNumbers
  <2>3. AboutToPublish \/ Overtaken
    BY <2>1, <2>2 DEF Brief, past
  <2>4. QED
    BY <2>1, <2>2, <2>3 DEF AboutToPublish, Overtaken, past
<1>3. CASE ChainTurn
  <2>1. answer' = answer /\ withdrawn' = withdrawn /\ refused' = refused
    BY <1>3, TurnInChain DEF controller
  <2>2. QED
    BY <1>3, <2>1, BriefTurn
<1>4. ASSUME NEW kind \in Kinds, Arrives(kind) PROVE AboutToPublish' \/ Overtaken'
  <2>1. UNCHANGED <<vars, entered, answer, withdrawn, dropped, taken>> /\ Flying' \subseteq Flying
    BY <1>4, ArrivesFacts
  <2>2. PICK m \in Flying :
          /\ Flying \subseteq Flying' \cup {m}
          /\ cache' = IF CacheTakes(m.content) THEN m.content ELSE cache
          /\ ~refused' => ~refused
          /\ answer # 0 /\ m.content.id >= answer /\ ~refused' => CacheTakes(m.content)
    BY <1>4, ArrivesFacts
  <2>3. AboutToPublish \/ Overtaken
    BY <2>1, <2>2 DEF Brief, vars
  <2>4. CASE AboutToPublish
    BY <2>1, <2>4 DEF AboutToPublish, vars
  <2>5. CASE Overtaken
    <3>1. m.content.id >= answer
      BY <2>5 DEF Overtaken
    <3>2. cache' = m.content
      BY <2>1, <2>2, <3>1
    <3>3. QED
      BY <2>1, <2>5, <3>1, <3>2 DEF Overtaken
  <2>6. QED
    BY <2>3, <2>4, <2>5
<1>5. CASE ChainTick
  <2>1. rt' = rt /\ UNCHANGED <<controller, past>> /\ Flying' = Flying
    BY <1>5, TickFacts
  <2>2. AboutToPublish \/ Overtaken
    BY <2>1 DEF Brief, controller, past
  <2>3. QED
    BY <2>1, <2>2 DEF AboutToPublish, Overtaken, controller, past
<1>6. CASE Aside
  <2>1. UNCHANGED <<cache, entered, answer, dropped, refused, taken>> /\ Flying' = Flying
    BY <1>6, AsideFacts
  <2>2. rt' = rt /\ withdrawn' = withdrawn
    BY <1>6, AsideFacts
  <2>3. AboutToPublish \/ Overtaken
    BY <2>1, <2>2 DEF Brief
  <2>4. QED
    BY <2>1, <2>2, <2>3 DEF AboutToPublish, Overtaken
<1>7. QED
  BY <1>1, <1>2, <1>3, <1>4, <1>5, <1>6, StepCases
-----------------------------------------------------------------------------
(* A chain that starts has sent nothing and asked for nothing.             *)
LEMMA ChainInitHolds == ChainInit => ChainInv
<1> SUFFICES ASSUME ChainInit PROVE ChainInv
  OBVIOUS
<1>1. TimeInv
  BY InitHolds DEF ChainInit
<1>2. /\ topics = [Requests |-> <<>>, Analytic |-> <<>>, Sampled |-> <<>>]
      /\ entry = 0 /\ entered = 0 /\ answer = 0 /\ taken = 0 /\ cache = None
      /\ now = 1 /\ accepted = 0 /\ rt = Fresh /\ late = FALSE
      /\ tracking = FALSE /\ withdrawn = FALSE /\ dropped = FALSE /\ refused = FALSE
  BY DEF ChainInit, Init, Never
<1>3. DOMAIN topics = {"Requests", "Analytic", "Sampled"}
      /\ topics["Requests"] = <<>> /\ topics["Analytic"] = <<>> /\ topics["Sampled"] = <<>>
  BY <1>2
<1>4. Flying = {} /\ Asking = {}
  <2>1. ToSet(<<>>) = {}
    BY DEF ToSet
  <2>2. QED
    BY <1>3, <2>1 DEF Flying, Asking
<1>5. ChainTypes
  <2>1. /\ topics["Requests"] \in Seq(Messages(Nat))
        /\ \A kind \in Kinds : topics[kind] \in Seq(Messages(References(1 .. accepted)))
    <3>1. \A S : <<>> \in Seq(S)
      BY EmptySeq
    <3>2. QED
      BY <1>3, <3>1 DEF Kinds
  <2>2. \A topic \in DOMAIN topics : Len(topics[topic]) <= Queue
    <3>1. Queue \in Nat /\ Len(<<>>) = 0
      BY ChainAssumption
    <3>2. QED
      BY <1>3, <3>1
  <2>3. /\ tracking \in BOOLEAN /\ withdrawn \in BOOLEAN
        /\ dropped \in BOOLEAN /\ refused \in BOOLEAN
    BY <1>2, Zenon
  <2>4. QED
    BY <1>2, <1>3, <2>1, <2>2, <2>3 DEF ChainTypes
<1>6. Underway
  BY <1>2, <1>4, Zenon DEF Underway
<1>7. Asked
  BY <1>2, <1>4 DEF Asked
<1>8. Waiting /\ Flown /\ Following
  BY <1>2 DEF Waiting, Flown, Following, Fresh
<1>9. Replied /\ Brief
  BY <1>2 DEF Replied, Brief
<1>10. QED
  BY <1>1, <1>5, <1>6, <1>7, <1>8, <1>9 DEF ChainInv

(* Every state of the chain satisfies them.                                *)
LEMMA ChainInvariance == ChainSpec => []ChainInv
<1>1. ChainInv /\ [ChainNext]_chainVars => ChainInv'
  <2> SUFFICES ASSUME ChainInv, [ChainNext]_chainVars PROVE ChainInv'
    OBVIOUS
  <2>1. TimeInv'
    BY ChainStep, InvariantStep DEF ChainInv
  <2>2. /\ TypeOK /\ Held /\ AcceptedIsFlown /\ PublishedInTime
        /\ ChainTypes /\ Underway /\ Asked /\ Waiting /\ Flown /\ Following /\ Replied /\ Brief
    BY DEF ChainInv, TimeInv, NodeInv
  <2>3. ChainTypes' /\ Underway' /\ Asked' /\ Waiting'
    BY <2>2, ChainTypesStep, UnderwayStep, AskedStep, WaitingStep
  <2>4. Flown' /\ Following'
    BY <2>2, FlownSinceStep, FollowingStep
  <2>5. Replied' /\ Brief'
    BY <2>2, RepliedStep, BriefStep
  <2>6. QED
    BY <2>1, <2>3, <2>4, <2>5 DEF ChainInv
<1>2. QED
  BY <1>1, ChainInitHolds, PTL DEF ChainSpec

(* What a tracking state holds after a re-entry is the reference it asked  *)
(* for, or a later one, but for the time of two topics, one publication    *)
(* and one delay each (Custom1State::onEnter, the callbacks of the cache,  *)
(* the generator's turns), unless a reset or a flood of requests comes in, *)
(* or the cache refuses that reference or a later one.                     *)
THEOREM StaleAnswersEnd == ChainSpec => []StaleIsBrief
<1>1. ChainInv => StaleIsBrief
  <2> SUFFICES ASSUME ChainInv, Prompt, tracking, ~withdrawn, ~dropped, ~refused,
                      now - entered > ActivePeriod + 1 + 3 * Delay
               PROVE  answer # 0 /\ cache.id >= answer
    BY DEF StaleIsBrief, Answered
  <2> USE DEF ChainInv, TimeInv, NodeInv
  <2>1. /\ {now, taken, entered, Delay, ActivePeriod, answer, entry} \subseteq Nat
        /\ rt.posted \in Nat
    BY ChainNumbers DEF ChainTypes
  <2>2. answer # 0
    <3>1. SUFFICES ASSUME answer = 0 PROVE FALSE
      OBVIOUS
    <3>2. \E m \in Asking : m.sent = entered
      BY <2>1, <3>1 DEF Asked
    <3>3. now <= entered + Delay
      BY <3>2 DEF Underway, Recent
    <3>4. QED
      BY <2>1, <3>3
  <2>3. rt.active.id >= answer
    BY <2>1, <2>2 DEF Replied
  <2>4. CASE AboutToPublish
    <3>1. now <= rt.posted + ActivePeriod + 1
      BY <2>1, <2>4 DEF AboutToPublish, PublishedInTime, Underway
    <3>2. QED
      BY <2>1, <2>4, <3>1 DEF AboutToPublish
  <2>5. CASE Overtaken
    <3>1. \A m \in Flying : m.sent \in Nat /\ now <= m.sent + Delay
      BY MessageFacts DEF Underway, Recent
    <3>2. QED
      BY <2>1, <2>2, <2>5, <3>1 DEF Overtaken
  <2>6. QED
    BY <2>2, <2>3, <2>4, <2>5 DEF Brief
<1>2. QED
  BY <1>1, ChainInvariance, PTL

(* Publishing again brings cache and generator together, whatever order    *)
(* the topics deliver in and whatever was dropped, refused or cleared, if  *)
(* what the generator flies is something the cache takes.                  *)
THEOREM CacheCatchesUp == ChainSpec => []CacheFollows
<1>1. ChainInv => CacheFollows
  <2> SUFFICES ASSUME ChainInv, Prompt, rt.state = "Active", CacheTakes(rt.active),
                      now - Max({taken, entered}) > ActivePeriod + 1 + 2 * Delay
               PROVE  cache = rt.active
    BY DEF CacheFollows
  <2> USE DEF ChainInv, TimeInv, NodeInv
  <2>1. /\ {now, taken, entered, Delay, ActivePeriod} \subseteq Nat /\ rt.posted \in Nat
        /\ Max({taken, entered}) \in Nat
    BY ChainNumbers, MaxOfTwo
  <2>2. now <= rt.posted + ActivePeriod + 1
    BY <2>1 DEF PublishedInTime, Underway
  <2>3. rt.posted > Settled /\ now > Settled + ActivePeriod + 1 + Delay
    BY <2>1, <2>2 DEF Settled
  <2>4. \A m \in Flying : m.sent \in Nat /\ now <= m.sent + Delay
    BY MessageFacts DEF Underway, Recent
  <2>5. Settled \in Nat
    BY <2>1 DEF Settled
  <2>6. QED
    BY <2>1, <2>3, <2>4, <2>5 DEF Following
<1>2. QED
  BY <1>1, ChainInvariance, PTL
=============================================================================
