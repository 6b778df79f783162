------------------------ MODULE ReferenceModuleProofs ------------------------
(***************************************************************************)
(* Proofs about ReferenceModule, for every period, lead time, grace and    *)
(* set of requests, batches of any length and any refusal of outputs.      *)
(***************************************************************************)
EXTENDS ReferenceModule, ReferenceRuntimeProofs, FiniteSetTheorems, WellFoundedInduction

(* The requests on the ports, and what a batch makes of the runtime.       *)
Waiting == [kind : ToSet(Ports), start : Nat, duration : Nat, stamp : Nat \ {0}, number : Nat]
Consumptions(n) ==
  [rt : Runtimes(1 .. n), latest : References(1 .. n) \cup {None}, accepted : {n},
   update : BOOLEAN]

ModuleTypes ==
  /\ now \in Nat \ {0} /\ rt \in Runtimes(1 .. accepted) /\ running \in BOOLEAN
  /\ inbox \subseteq Waiting /\ IsFiniteSet(inbox) /\ arrived \in Nat
  /\ DOMAIN ports = {"Status", "Analytic", "Sampled"}
  /\ accepted \in Nat /\ latest \in References(1 .. accepted) \cup {None}
  /\ rt.state = "Active" => rt.active # None

ModuleInv == ModuleTypes /\ AcceptedIsFlown /\ WakeIsArmed /\ ReportIsTrue

(* Partway through a batch all is as before it, withdrawn, or the last     *)
(* reference accepted waits to be taken up by the update there will be.    *)
Untouched(m) == m.rt = rt /\ m.latest = latest /\ m.accepted = accepted
Emptied(m) == m.update /\ m.rt = Fresh /\ m.latest = None
Loaded(m) ==
  /\ m.update /\ m.rt.pending # None /\ m.latest = m.rt.pending
  /\ m.latest.id = m.accepted /\ m.accepted > accepted
  /\ m.rt.state \in {rt.state, "SelfCheck"}
Partway(m) ==
  /\ m.accepted \in Nat /\ m.accepted >= accepted /\ m \in Consumptions(m.accepted)
  /\ m.rt.state = "Active" => m.rt.active # None
  /\ Untouched(m) \/ Emptied(m) \/ Loaded(m)
-----------------------------------------------------------------------------
(* A set of numbers has a least one.                                       *)
LEMMA LeastNumber ==
  ASSUME NEW T, T \subseteq Nat, T # {}
  PROVE  \E x \in T : \A y \in T : x <= y
<1> DEFINE R == OpToRel(<, Nat)
<1>1. \E x \in T : \A y \in T : ~(<<y, x>> \in R)
  <2>1. IsWellFoundedOn(R, Nat)
    BY NatLessThanWellFounded
  <2> HIDE DEF R
  <2>2. QED
    BY <2>1, WFMin
<1>2. \A x, y \in Nat : <<y, x>> \in R <=> y < x
  BY DEF OpToRel
<1> HIDE DEF R
<1>3. PICK x \in T : \A y \in T : ~(<<y, x>> \in R)
  BY <1>1
<1>4. ASSUME NEW y \in T PROVE x <= y
  <2>1. x \in Nat /\ y \in Nat /\ ~(<<y, x>> \in R)
    BY <1>3
  <2>2. ~(y < x)
    BY <1>2, <2>1, Zenon
  <2>3. QED
    BY <2>1, <2>2
<1>5. QED
  BY <1>4

(* The runtime after each request of a batch.                              *)
Run(f, n, first, batch) ==
  f = [i \in 0 .. n |-> IF i = 0 THEN first ELSE Taken(f[i - 1], batch[i])]

(* However long the batch, there is such a run.                            *)
LEMMA RunExists ==
  ASSUME NEW first, NEW batch, NEW length \in Nat
  PROVE  \E f : Run(f, length, first, batch)
<1> DEFINE T == {n \in Nat : ~\E f : Run(f, n, first, batch)}
<1>1. SUFFICES ASSUME T # {} PROVE FALSE
  OBVIOUS
<1>2. PICK n \in T : \A y \in T : n <= y
  BY <1>1, LeastNumber
<1>3. n \in Nat /\ ~\E f : Run(f, n, first, batch)
  OBVIOUS
<1>4. CASE n = 0
  <2> DEFINE f == [i \in 0 .. 0 |-> first]
  <2>1. \A i \in 0 .. 0 : i = 0
    OBVIOUS
  <2>2. f = [i \in 0 .. 0 |-> IF i = 0 THEN first ELSE Taken(f[i - 1], batch[i])]
    BY <2>1
  <2>3. QED
    BY <1>3, <1>4, <2>2 DEF Run
<1>5. CASE n # 0
  <2>1. n - 1 \in Nat /\ n - 1 \notin T
    BY <1>2, <1>3, <1>5
  <2>2. PICK f : Run(f, n - 1, first, batch)
    BY <2>1
  <2>3. \A i \in 0 .. n - 1 : f[i] = IF i = 0 THEN first ELSE Taken(f[i - 1], batch[i])
    BY <2>2 DEF Run
  <2> DEFINE g == [i \in 0 .. n |-> IF i = n THEN Taken(f[n - 1], batch[n]) ELSE f[i]]
  <2>4. ASSUME NEW i \in 0 .. n
        PROVE  g[i] = IF i = 0 THEN first ELSE Taken(g[i - 1], batch[i])
    <3>1. CASE i = n
      <4>1. g[n] = Taken(f[n - 1], batch[n]) /\ g[n - 1] = f[n - 1]
        BY <1>3, <1>5, <2>1
      <4>2. QED
        BY <1>5, <3>1, <4>1
    <3>2. CASE i # n /\ i # 0
      <4>1. i \in 0 .. n - 1 /\ i - 1 \in 0 .. n - 1 /\ i - 1 # n
        BY <1>3, <3>2
      <4>2. g[i] = f[i] /\ g[i - 1] = f[i - 1]
        BY <3>2, <4>1, <1>3
      <4>3. QED
        BY <2>3, <3>2, <4>1, <4>2
    <3>3. CASE i # n /\ i = 0
      <4>1. g[0] = f[0] /\ f[0] = first
        BY <1>3, <2>1, <2>3, <3>3
      <4>2. QED
        BY <3>3, <4>1
    <3>4. QED
      BY <3>1, <3>2, <3>3
  <2>5. g = [i \in 0 .. n |-> g[i]]
    OBVIOUS
  <2>6. [i \in 0 .. n |-> g[i]] =
        [i \in 0 .. n |-> IF i = 0 THEN first ELSE Taken(g[i - 1], batch[i])]
    <3> HIDE DEF g
    <3>1. QED
      BY <2>4
  <2>7. Run(g, n, first, batch)
    BY <2>5, <2>6 DEF Run
  <2>8. QED
    BY <1>3, <2>7
<1>6. QED
  BY <1>4, <1>5

(* What a step makes of a batch is the end of its run.                     *)
LEMMA ConsumedIsRun ==
  ASSUME NEW due, NEW batch, Len(batch) \in Nat
  PROVE  \E f : /\ Consumed(due, batch) = f[Len(batch)]
                /\ f[0] = [rt |-> rt, latest |-> latest, accepted |-> accepted, update |-> due]
                /\ \A i \in 1 .. Len(batch) : f[i] = Taken(f[i - 1], batch[i])
<1> DEFINE first == [rt |-> rt, latest |-> latest, accepted |-> accepted, update |-> due]
           length == Len(batch)
           run == CHOOSE f : Run(f, length, first, batch)
<1>1. Consumed(due, batch) = run[length]
  BY DEF Consumed, Run
<1>2. Run(run, length, first, batch)
  <2> HIDE DEF first, length
  <2>1. length \in Nat
    BY DEF length
  <2>2. QED
    BY <2>1, RunExists
<1> HIDE DEF run
<1>3. \A i \in 0 .. length : run[i] = IF i = 0 THEN first ELSE Taken(run[i - 1], batch[i])
  <2> HIDE DEF first, length
  <2>1. QED
    BY <1>2 DEF Run
<1>4. run[0] = first
  <2> HIDE DEF first
  <2>1. QED
    BY <1>3
<1>5. ASSUME NEW i \in 1 .. length PROVE run[i] = Taken(run[i - 1], batch[i])
  <2>1. i \in 0 .. length /\ i # 0
    OBVIOUS
  <2> HIDE DEF first, length
  <2>2. QED
    BY <1>3, <2>1
<1>6. QED
  BY <1>1, <1>4, <1>5
-----------------------------------------------------------------------------
(* One more request leaves the batch partway.                              *)
LEMMA TakenStaysPartway ==
  ASSUME ModuleTypes, NEW m, Partway(m), NEW r \in Waiting
  PROVE  Partway(Taken(m, r))
<1>1. /\ m.accepted \in Nat /\ m.accepted >= accepted /\ accepted \in Nat
      /\ m \in Consumptions(m.accepted) /\ m.rt \in Runtimes(1 .. m.accepted)
      /\ m.rt.state = "Active" => m.rt.active # None
  BY DEF Partway, Consumptions, ModuleTypes
<1>2. r.kind \in {"Analytic", "Sampled", "Reset", "Invalid"} /\ r.stamp \in Nat \ {0}
  BY DEF Waiting, Ports, ToSet
<1>3. CASE r.kind = "Reset"
  <2>1. Taken(m, r) = [m EXCEPT !.rt = Fresh, !.latest = None, !.update = TRUE]
    BY <1>3 DEF Taken, Withdrawn
  <2> DEFINE w == [m EXCEPT !.rt = Fresh, !.latest = None, !.update = TRUE]
  <2>2. w.rt = Fresh /\ w.latest = None /\ w.update = TRUE /\ w.accepted = m.accepted
    BY <1>1 DEF Consumptions
  <2>3. w \in Consumptions(m.accepted)
    BY <1>1, FreshIsRuntime DEF Consumptions
  <2>4. Fresh.state # "Active"
    BY DEF Fresh
  <2> HIDE DEF w
  <2>5. Partway(w)
    BY <1>1, <2>2, <2>3, <2>4 DEF Partway, Emptied
  <2>6. QED
    BY <2>1, <2>5 DEF w
<1>4. CASE r.kind = "Invalid"
  <2>1. Taken(m, r) = m
    BY <1>4 DEF Taken
  <2>2. QED
    BY <2>1
<1>5. CASE r.kind \in Kinds
  <2> DEFINE next == Accept(m.rt, r, r.stamp, m.accepted + 1)
             t == [rt |-> next, latest |-> next.pending, accepted |-> m.accepted + 1,
                   update |-> TRUE]
  <2>1. Taken(m, r) = t
    BY <1>5 DEF Taken, Kinds
  <2>2. r.start \in Nat /\ r.duration \in Nat
    BY DEF Waiting
  <2>3. /\ next \in Runtimes(1 .. m.accepted + 1)
        /\ next.pending \in References({m.accepted + 1})
        /\ next.state = m.rt.state /\ next.active = m.rt.active
    <3> DEFINE start == Start(r, r.stamp)
               reference == [id |-> m.accepted + 1, kind |-> r.kind, start |-> start,
                             duration |-> r.duration]
    <3>1. start \in Nat /\ start > LeadTime
      BY <1>2, <2>2, StartFacts
    <3>2. next = [m.rt EXCEPT !.pending = reference]
      BY DEF Accept
    <3> HIDE DEF start
    <3>3. reference \in References({m.accepted + 1})
      BY <1>5, <2>2, <3>1 DEF References
    <3> HIDE DEF reference, next
    <3>4. QED
      BY <1>1, <3>2, <3>3, WaitingIsRuntime
  <2> HIDE DEF next
  <2>4. /\ next.pending # None /\ next.pending.id = m.accepted + 1
        /\ next.pending \in References(1 .. m.accepted + 1)
    BY <1>1, <2>3 DEF References, None
  <2>5. m.rt.state \in {rt.state, "SelfCheck"}
    BY DEF Partway, Untouched, Emptied, Loaded, Fresh
  <2>6. /\ t.rt = next /\ t.latest = next.pending /\ t.accepted = m.accepted + 1
        /\ t.update = TRUE /\ t \in Consumptions(m.accepted + 1)
    BY <1>1, <2>3, <2>4 DEF Consumptions
  <2> HIDE DEF t
  <2>7. Partway(t)
    BY <1>1, <2>3, <2>4, <2>5, <2>6 DEF Partway, Loaded
  <2>8. QED
    BY <2>1, <2>7
<1>6. QED
  BY <1>2, <1>3, <1>4, <1>5 DEF Kinds

(* So does the whole batch, and without a request to act on nothing has    *)
(* changed.                                                                *)
LEMMA ConsumedIsPartway ==
  ASSUME ModuleTypes, NEW due \in BOOLEAN, NEW batch \in Batches
  PROVE  Partway(Consumed(due, batch))
<1>1. Len(batch) \in Nat /\ \A i \in 1 .. Len(batch) : batch[i] \in Waiting
  <2>1. batch \in [1 .. Cardinality(inbox) -> inbox]
    BY DEF Batches, SetToSeqs
  <2>2. Cardinality(inbox) \in Nat
    BY FS_CardinalityType DEF ModuleTypes
  <2>3. batch \in Seq(inbox) /\ Len(batch) = Cardinality(inbox)
    BY <2>1, <2>2
  <2>4. QED
    BY <2>1, <2>2, <2>3 DEF ModuleTypes
<1>2. PICK f : /\ Consumed(due, batch) = f[Len(batch)]
               /\ f[0] = [rt |-> rt, latest |-> latest, accepted |-> accepted, update |-> due]
               /\ \A i \in 1 .. Len(batch) : f[i] = Taken(f[i - 1], batch[i])
  BY <1>1, ConsumedIsRun
<1>3. Partway(f[0])
  BY <1>2 DEF Partway, Untouched, Consumptions, ModuleTypes
<1> DEFINE T == {i \in 0 .. Len(batch) : ~Partway(f[i])}
<1>4. T = {}
  <2>1. SUFFICES ASSUME T # {} PROVE FALSE
    OBVIOUS
  <2>2. PICK n \in T : \A y \in T : n <= y
    <3>1. T \subseteq Nat
      BY <1>1
    <3>2. QED
      BY <2>1, <3>1, LeastNumber
  <2>3. n \in 0 .. Len(batch) /\ ~Partway(f[n]) /\ n # 0
    BY <1>3, <2>2
  <2>4. n - 1 \in 0 .. Len(batch) /\ n - 1 \notin T /\ n \in 1 .. Len(batch)
    BY <1>1, <2>2, <2>3
  <2>5. Partway(f[n - 1])
    BY <2>4
  <2>6. f[n] = Taken(f[n - 1], batch[n]) /\ batch[n] \in Waiting
    BY <1>1, <1>2, <2>4
  <2>7. QED
    BY <2>3, <2>5, <2>6, TakenStaysPartway
<1>5. QED
  BY <1>1, <1>2, <1>4
-----------------------------------------------------------------------------
(* The runtime a step updates, or leaves alone: as it was, or started over *)
(* by a reset, or given a new reference.                                   *)
Offered(r) ==
  /\ r \in Runtimes(1 .. accepted') /\ (r.state = "Active" => r.active # None)
  /\ r.state \in {rt.state, "SelfCheck"}
  /\ accepted' \in Nat /\ accepted' >= accepted
  /\ latest' \in References(1 .. accepted') \cup {None}
  /\ \/ r = rt /\ latest' = latest /\ accepted' = accepted
     \/ r = Fresh /\ latest' = None
     \/ r.pending # None /\ latest' = r.pending /\ latest'.id = accepted' /\ accepted' > accepted
Advanced(r) ==
  /\ rt' = Updated(r, now).runtime /\ wake' = NextWake(rt')
  /\ \E refusals \in Refusals(Updated(r, now).effects) :
       Publish(Updated(r, now).effects, rt', refusals)

(* A step, by what it does to the state.                                   *)
LEMMA StepFacts ==
  ASSUME ModuleTypes, NEW due \in BOOLEAN, Step(due)
  PROVE  /\ running /\ inbox' = {} /\ UNCHANGED <<now, running, arrived>>
         /\ \/ UNCHANGED <<rt, latest, accepted, wake, outputs>>
            \/ \E r : Offered(r) /\ Advanced(r)
<1>1. running /\ inbox' = {} /\ UNCHANGED <<now, running, arrived>>
  BY DEF Step
<1>2. PICK batch \in Batches :
        LET m == Consumed(due, batch)
            next == Updated(m.rt, now)
        IN /\ accepted' = m.accepted /\ latest' = m.latest
           /\ IF m.update
              THEN /\ rt' = next.runtime /\ wake' = NextWake(rt')
                   /\ \E refusals \in Refusals(next.effects) :
                        Publish(next.effects, rt', refusals)
              ELSE rt' = m.rt /\ UNCHANGED <<wake, outputs>>
  BY Zenon DEF Step
<1> DEFINE m == Consumed(due, batch)
<1>3. Partway(m)
  BY ConsumedIsPartway
<1>4. /\ accepted' = m.accepted /\ latest' = m.latest
      /\ m.update => Advanced(m.rt)
      /\ ~m.update => rt' = m.rt /\ UNCHANGED <<wake, outputs>>
  BY <1>2, Zenon DEF Advanced
<1> HIDE DEF m
<1>5. CASE m.update
  <2>1. m.rt \in Runtimes(1 .. m.accepted) /\ m.latest \in References(1 .. m.accepted) \cup {None}
    BY <1>3 DEF Partway, Consumptions
  <2>2. Offered(m.rt)
    BY <1>3, <1>4, <2>1 DEF Partway, Untouched, Emptied, Loaded, Offered, Fresh
  <2>3. QED
    BY <1>1, <1>4, <1>5, <2>2
<1>6. CASE ~m.update
  <2>1. Untouched(m)
    BY <1>3, <1>6 DEF Partway, Emptied, Loaded
  <2>2. QED
    BY <1>1, <1>4, <1>6, <2>1 DEF Untouched
<1>7. QED
  BY <1>5, <1>6

(* What an update leaves.                                                  *)
LEMMA AdvanceFacts ==
  ASSUME ModuleTypes, NEW r, Offered(r), Advanced(r)
  PROVE  /\ rt' \in Runtimes(1 .. accepted') /\ rt'.pending = None
         /\ rt'.active = IF r.pending # None THEN r.pending ELSE r.active
         /\ rt'.state = IF r.pending # None \/ (r.state = "Active" /\ ~Expired(r.active, now))
                        THEN "Active" ELSE "Ready"
         /\ rt'.state = "Active" => rt'.active # None
         /\ wake' = NextWake(rt') /\ wake' \in Nat
<1>1. /\ now \in Nat \ {0} /\ accepted' \in Nat /\ r \in Runtimes(1 .. accepted')
      /\ r.state = "Active" => r.active # None
  BY DEF ModuleTypes, Offered
<1>2. rt' = Updated(r, now).runtime /\ wake' = NextWake(rt')
  BY DEF Advanced
<1>3. /\ rt' \in Runtimes(1 .. accepted') /\ rt'.pending = None
      /\ rt'.active = IF r.pending # None THEN r.pending ELSE r.active
      /\ rt'.state = IF r.pending # None \/ (r.state = "Active" /\ ~Expired(r.active, now))
                     THEN "Active" ELSE "Ready"
  BY <1>1, <1>2, UpdatedFacts
<1>4. rt'.state = "Active" => rt'.active # None
  BY <1>1, <1>3
<1>5. wake' \in Nat
  BY <1>1, <1>2, <1>3, <1>4, NextWakeFacts
<1>6. QED
  BY <1>2, <1>3, <1>4, <1>5

(* A module that is not refused publishes the state it has come to.        *)
LEMMA PublishedStatus ==
  ASSUME ModuleInv, running, NEW r, Offered(r), Advanced(r), ~MayRefuse
  PROVE  ports'.Status.state = rt'.state
<1> DEFINE told == Updated(r, now).effects
<1> USE DEF ModuleInv
<1>1. Refusals(told) = {{}}
  BY DEF Refusals
<1>2. PICK refusals \in {{}} : Publish(told, rt', refusals)
  BY <1>1, Zenon DEF Advanced
<1>3. /\ ports' = [port \in DOMAIN ports |->
                     IF \E i \in DOMAIN told : told[i] = port
                     THEN Content(port, rt') ELSE ports[port]]
      /\ "Status" \in DOMAIN ports
  BY <1>2 DEF Publish, ModuleTypes
<1>4. ports'.Status = IF \E i \in DOMAIN told : told[i] = "Status"
                      THEN Content("Status", rt') ELSE ports.Status
  BY <1>3
<1>5. CASE \E i \in DOMAIN told : told[i] = "Status"
  BY <1>4, <1>5 DEF Content
<1>6. CASE ~\E i \in DOMAIN told : told[i] = "Status"
  <2>1. /\ now \in Nat \ {0} /\ accepted' \in Nat /\ r \in Runtimes(1 .. accepted')
        /\ r.state = "Active" => r.active # None
        /\ r.state \in {rt.state, "SelfCheck"} /\ rt' = Updated(r, now).runtime
    BY DEF ModuleTypes, Offered, Advanced
  <2>2. rt'.state = r.state /\ r.state # "SelfCheck"
    BY <1>6, <2>1, StatusIsTold
  <2>3. ports.Status.state = rt.state
    BY <2>1, <2>2 DEF ReportIsTrue
  <2>4. QED
    BY <1>4, <1>6, <2>1, <2>2, <2>3
<1>7. QED
  BY <1>5, <1>6
-----------------------------------------------------------------------------
(* A module that is built satisfies every invariant.                       *)
LEMMA InitHolds == Init => ModuleInv
<1> SUFFICES ASSUME Init PROVE ModuleInv
  OBVIOUS
<1>1. rt = Fresh /\ Fresh \in Runtimes(1 .. accepted)
  BY FreshIsRuntime DEF Init
<1>2. ModuleTypes
  <2>1. IsFiniteSet(inbox) /\ inbox \subseteq Waiting
    BY FS_EmptySet DEF Init
  <2>2. running \in BOOLEAN
    BY Zenon DEF Init
  <2>3. QED
    BY <1>1, <2>1, <2>2 DEF Init, ModuleTypes, Fresh
<1>3. QED
  BY <1>2 DEF Init, ModuleInv, AcceptedIsFlown, WakeIsArmed, ReportIsTrue, Fresh

(* A step of the module keeps them.                                        *)
LEMMA StepHolds ==
  ASSUME ModuleInv, NEW due \in BOOLEAN, Step(due)
  PROVE  ModuleInv'
<1> USE DEF ModuleInv
<1>1. /\ running /\ inbox' = {} /\ UNCHANGED <<now, running, arrived>>
      /\ \/ UNCHANGED <<rt, latest, accepted, wake, outputs>>
         \/ \E r : Offered(r) /\ Advanced(r)
  BY StepFacts
<1>2. IsFiniteSet(inbox') /\ inbox' \subseteq Waiting
  BY <1>1, FS_EmptySet
<1>3. CASE UNCHANGED <<rt, latest, accepted, wake, outputs>>
  BY <1>1, <1>2, <1>3
  DEF outputs, ModuleTypes, AcceptedIsFlown, WakeIsArmed, ReportIsTrue
<1>4. ASSUME NEW r, Offered(r), Advanced(r)
      PROVE  ModuleInv'
  <2>1. /\ rt' \in Runtimes(1 .. accepted') /\ rt'.pending = None
        /\ rt'.active = IF r.pending # None THEN r.pending ELSE r.active
        /\ rt'.state = IF r.pending # None \/ (r.state = "Active" /\ ~Expired(r.active, now))
                       THEN "Active" ELSE "Ready"
        /\ rt'.state = "Active" => rt'.active # None
        /\ wake' = NextWake(rt') /\ wake' \in Nat
    BY <1>4, AdvanceFacts
  <2>2. ModuleTypes'
    <3>1. DOMAIN ports' = DOMAIN ports
      BY <1>4 DEF Advanced, Publish
    <3>2. QED
      BY <1>1, <1>2, <1>4, <2>1, <3>1 DEF ModuleTypes, Offered
  <2>3. AcceptedIsFlown'
    BY <1>1, <1>4, <2>1 DEF AcceptedIsFlown, Offered
  <2>4. WakeIsArmed'
    <3>1. NextWake(rt)' = NextWake(rt')
      OBVIOUS
    <3>2. QED
      BY <2>1, <3>1 DEF WakeIsArmed, NoWake
  <2>5. ReportIsTrue'
    <3>1. report'.state = rt'.state
      BY <1>4 DEF Advanced, Publish
    <3>2. ~MayRefuse => ports'.Status.state = rt'.state
      BY <1>1, <1>4, PublishedStatus
    <3>3. QED
      BY <3>1, <3>2 DEF ReportIsTrue
  <2>6. QED
    BY <2>2, <2>3, <2>4, <2>5
<1>5. QED
  BY <1>1, <1>3, <1>4

(* So do new settings, which start the runtime over.                       *)
LEMMA SettingsHold ==
  ASSUME ModuleInv, ApplySettings, UNCHANGED <<now, inputs>>, running' \in BOOLEAN
  PROVE  ModuleInv'
<1> USE DEF ModuleInv
<1>1. /\ rt' = Fresh /\ latest' = None /\ wake' = NextWake(rt')
      /\ report'.state = rt'.state /\ UNCHANGED <<ports, accepted, now, inbox, arrived>>
  BY DEF ApplySettings, inputs
<1>2. rt' \in Runtimes(1 .. accepted') /\ rt'.state = "SelfCheck" /\ rt'.pending = None
  BY <1>1, FreshIsRuntime DEF Fresh
<1>3. ModuleTypes'
  BY <1>1, <1>2 DEF ModuleTypes
<1>4. AcceptedIsFlown' /\ ReportIsTrue'
  BY <1>1, <1>2 DEF AcceptedIsFlown, ReportIsTrue
<1>5. WakeIsArmed'
  <2>1. wake' \in Nat
    BY <1>1, <1>2, NextWakeFacts DEF ModuleTypes
  <2>2. NextWake(rt)' = NextWake(rt')
    OBVIOUS
  <2>3. QED
    BY <1>1, <2>1, <2>2 DEF WakeIsArmed, NoWake
<1>6. QED
  BY <1>3, <1>4, <1>5

(* A request that arrives waits on its port, under the stamp of its making.*)
LEMMA ArriveHolds ==
  ASSUME ModuleInv, NEW request \in Requests, NEW delay \in Delays, Arrive(request, delay)
  PROVE  ModuleInv'
<1> USE DEF ModuleInv
<1> DEFINE made == [kind |-> request.kind, start |-> request.start, duration |-> request.duration,
                    stamp |-> now - delay, number |-> arrived']
<1>1. /\ now > delay /\ arrived' = arrived + 1 /\ inbox' = inbox \cup {made}
      /\ UNCHANGED <<now, rt, running, wake, outputs, accepted, latest>>
  BY DEF Arrive
<1>2. /\ request.kind \in ToSet(Ports) /\ request.start \in Nat /\ request.duration \in Nat
      /\ delay \in Nat
  BY ModuleAssumption DEF Requests
<1>3. made \in Waiting /\ arrived' \in Nat
  BY <1>1, <1>2 DEF Waiting, ModuleTypes
<1> HIDE DEF made
<1>4. IsFiniteSet(inbox') /\ inbox' \subseteq Waiting
  BY <1>1, <1>3, FS_AddElement DEF ModuleTypes
<1>5. QED
  BY <1>1, <1>3, <1>4 DEF outputs, ModuleTypes, AcceptedIsFlown, WakeIsArmed, ReportIsTrue

(* Every step of the system keeps them.                                    *)
LEMMA InvariantStep ==
  ASSUME ModuleInv, [Next]_vars
  PROVE  ModuleInv'
<1>1. CASE \E due \in BOOLEAN : Step(due)
  BY <1>1, StepHolds
<1>2. CASE StartOver
  BY <1>2, SettingsHold, Zenon DEF StartOver
<1>3. CASE Configure
  <2>1. running' \in BOOLEAN
    BY <1>3, Zenon DEF Configure, ModuleInv, ModuleTypes
  <2>2. QED
    BY <1>3, <2>1, SettingsHold DEF Configure
<1>4. CASE Stop
  <2>1. running' \in BOOLEAN /\ ~running'
    BY <1>4, Zenon DEF Stop
  <2>2. QED
    BY <1>4, <2>1
    DEF Stop, ModuleInv, inputs, outputs, ModuleTypes, AcceptedIsFlown, WakeIsArmed, ReportIsTrue
<1>5. CASE \E request \in Requests, delay \in Delays : Arrive(request, delay)
  BY <1>5, ArriveHolds
<1>6. CASE Tick
  BY <1>6, RatesAssumption
  DEF Tick, ModuleInv, inputs, outputs, ModuleTypes, AcceptedIsFlown, WakeIsArmed, ReportIsTrue,
      References, Expired, Expiry
<1>7. CASE UNCHANGED vars
  BY <1>7
  DEF vars, ModuleInv, inputs, outputs, ModuleTypes, AcceptedIsFlown, WakeIsArmed, ReportIsTrue
<1>8. QED
  BY <1>1, <1>2, <1>3, <1>4, <1>5, <1>6, <1>7 DEF Next

(* Every state of the module satisfies them.                               *)
LEMMA Invariance == Spec => []ModuleInv
<1>1. ModuleInv /\ [Next]_vars => ModuleInv'
  BY InvariantStep
<1>2. QED
  BY <1>1, InitHolds, PTL DEF Spec
-----------------------------------------------------------------------------
(* The last of the references accepted is flown, to its end, whatever came *)
(* in one batch with it; and a running module never waits in vain.         *)
THEOREM ServesRequests == Spec => []RequestsAreServed
<1>1. ModuleInv => RequestsAreServed
  BY DEF ModuleInv, RequestsAreServed
<1>2. QED
  BY <1>1, Invariance, PTL

(* The state reported, and unless refused the one published, is the        *)
(* runtime's, over restarts and configurations.                            *)
THEOREM ReportsTruly == Spec => []ReportIsTrue
<1>1. ModuleInv => ReportIsTrue
  BY DEF ModuleInv
<1>2. QED
  BY <1>1, Invariance, PTL
-----------------------------------------------------------------------------
(* A module that is built has nothing offered and flies nothing.           *)
LEMMA InitKeeps == Init => Promise!ServiceInit
BY DEF Init, Fresh, None, Promise!ServiceInit, Promise!None

(* Starting the runtime over withdraws everything.                         *)
LEMMA SettingsWithdraw ==
  ASSUME ModuleInv, ApplySettings, now' = now
  PROVE  Promise!Withdraw
<1>1. None = Promise!None
  BY DEF None, Promise!None
<1>2. QED
  BY <1>1 DEF ModuleInv, ModuleTypes, ApplySettings, Fresh, Promise!Withdraw

(* A step that updates begins the last reference of its batch, withdraws,  *)
(* ends what is over, or changes nothing the promise speaks of.            *)
LEMMA AdvanceKeeps ==
  ASSUME ModuleInv, now' = now, NEW r, Offered(r), Advanced(r)
  PROVE  [Promise!ServiceNext]_(Promise!ServiceVars)
<1> USE DEF ModuleInv, Promise!ServiceNext
<1>0. None = Promise!None
  BY DEF None, Promise!None
<1>1. /\ rt'.pending = None
      /\ rt'.active = IF r.pending # None THEN r.pending ELSE r.active
      /\ rt'.state = IF r.pending # None \/ (r.state = "Active" /\ ~Expired(r.active, now))
                     THEN "Active" ELSE "Ready"
  BY AdvanceFacts
<1>2. rt.pending = None
  BY DEF AcceptedIsFlown
<1>3. CASE r.pending # None /\ latest' = r.pending /\ latest'.id = accepted' /\ accepted' > accepted
  <2>1. Promise!Begin
    BY <1>0, <1>1, <1>3 DEF Promise!Begin, Promise!Accepted
  <2>2. QED
    BY <2>1
<1>4. CASE r = Fresh /\ latest' = None
  <2>1. Promise!Withdraw
    BY <1>0, <1>1, <1>4 DEF Fresh, Offered, Promise!Withdraw
  <2>2. QED
    BY <2>1
<1>5. CASE r = rt /\ latest' = latest /\ accepted' = accepted
  <2>1. CASE rt.state = "Active" /\ Expired(rt.active, now)
    <3>1. Promise!End
      BY <1>0, <1>1, <1>2, <1>5, <2>1
      DEF ModuleTypes, Expired, Expiry, Promise!End, Promise!Finite, Promise!EndOf
    <3>2. QED
      BY <3>1
  <2>2. CASE ~(rt.state = "Active" /\ Expired(rt.active, now))
    BY <1>1, <1>2, <1>5, <2>2 DEF Promise!ServiceVars
  <2>3. QED
    BY <2>1, <2>2
<1>6. QED
  BY <1>3, <1>4, <1>5 DEF Offered

(* Every step is one of the promise, or changes nothing it speaks of.      *)
LEMMA StepKeeps ==
  ASSUME ModuleInv, [Next]_vars
  PROVE  [Promise!ServiceNext]_(Promise!ServiceVars)
<1>1. ASSUME NEW due \in BOOLEAN, Step(due)
      PROVE  [Promise!ServiceNext]_(Promise!ServiceVars)
  <2>1. /\ now' = now
        /\ \/ UNCHANGED <<rt, latest, accepted, wake, outputs>>
           \/ \E r : Offered(r) /\ Advanced(r)
    BY <1>1, StepFacts DEF ModuleInv
  <2>2. CASE UNCHANGED <<rt, latest, accepted, wake, outputs>>
    BY <2>1, <2>2 DEF Promise!ServiceVars
  <2>3. QED
    BY <2>1, <2>2, AdvanceKeeps
<1>2. CASE StartOver \/ Configure
  <2>1. Promise!Withdraw
    BY <1>2, SettingsWithdraw DEF StartOver, Configure
  <2>2. QED
    BY <2>1 DEF Promise!ServiceNext
<1>3. CASE Stop
  BY <1>3 DEF Stop, Promise!ServiceVars
<1>4. CASE \E request \in Requests, delay \in Delays : Arrive(request, delay)
  BY <1>4 DEF Arrive, Promise!ServiceVars
<1>5. CASE Tick
  <2>1. Promise!Elapse
    BY <1>5 DEF Tick, Promise!Elapse, ModuleInv, ModuleTypes
  <2>2. QED
    BY <2>1 DEF Promise!ServiceNext
<1>6. CASE UNCHANGED vars
  BY <1>6 DEF vars, Promise!ServiceVars
<1>7. QED
  BY <1>1, <1>2, <1>3, <1>4, <1>5, <1>6 DEF Next

(* References are flown as they were offered, the latest first, to their   *)
(* end, and none that was let go is taken up again.                        *)
THEOREM ModuleKeepsPromise == Spec => KeepsPromise
<1>1. ModuleInv /\ [Next]_vars => [Promise!ServiceNext]_(Promise!ServiceVars)
  BY StepKeeps
<1>2. QED
  BY <1>1, InitKeeps, Invariance, PTL DEF Spec, KeepsPromise, Promise!Service
=============================================================================
