--------------------------- MODULE ReferenceModule ---------------------------
(***************************************************************************)
(* The generator as a module of the native host: requests wait on three    *)
(* event ports, a step takes all of them in the order of their stamps,     *)
(* advances the runtime once and writes its effects to state ports, each   *)
(* of which the host may refuse.  Start, stop and configure come between   *)
(* steps; all of them run on one thread.                                   *)
(*                                                                         *)
(* The host (external) steps the module for an input, at the deadline the  *)
(* module armed, or for a wake or timer of its own; DeadlineArm keeps what *)
(* was armed last.  Requests of one instant are in the order of the ports. *)
(***************************************************************************)
EXTENDS ReferenceRuntime

CONSTANTS
  Starts, Durations,
  Delays,      \* how long a request may take from its stamp to its port
  MayRefuse,   \* whether the host may refuse an output
  MaxTime, MaxRequests   \* bounds of the model

ASSUME ModuleAssumption ==
  /\ {Starts, Durations, Delays} \subseteq SUBSET Nat
  /\ MayRefuse \in BOOLEAN
  /\ {MaxTime, MaxRequests} \subseteq Nat \ {0}

VARIABLES
  now,
  rt,        \* runtime_
  running,   \* running_
  inbox,     \* what waits on the request ports
  arrived,   \* how many requests have arrived
  wake,      \* deadline_, or NoWake
  ports,     \* what the state ports hold: the status and the two references
  failed,    \* output_failed_
  report,    \* the health and state reported last
  refused,   \* whether the last step that wrote had an output refused
  accepted,  \* how many references have been accepted
  latest     \* the last of them since the runtime was reset, or None

inputs == <<inbox, arrived>>
outputs == <<ports, failed, report, refused>>
vars == <<now, rt, running, inputs, wake, outputs, accepted, latest>>
-----------------------------------------------------------------------------
NoWake == -1
Ports == <<"Analytic", "Sampled", "Reset", "Invalid">>   \* as they are read

(* An invalid request (of either port) and a reset have no content.        *)
Requests ==
  {r \in [kind : ToSet(Ports), start : Starts, duration : Durations] :
     /\ r.kind = "Analytic" => r.duration > 0
     /\ r.kind \in {"Reset", "Invalid"} => r.start = Min(Starts) /\ r.duration = Min(Durations)}

(* collectRequests: a stable sort by stamp of what the ports hold in turn. *)
Rank(r) == CHOOSE i \in DOMAIN Ports : Ports[i] = r.kind
BeforeByPort(a, b) ==
  \/ Rank(a) < Rank(b)
  \/ Rank(a) = Rank(b) /\ a.number < b.number
Before(a, b) == a.stamp < b.stamp \/ (a.stamp = b.stamp /\ BeforeByPort(a, b))
Batches ==
  {batch \in SetToSeqs(inbox) :
     \A i, j \in DOMAIN batch : i < j => Before(batch[i], batch[j])}

(* accept: what one request does to the runtime; whether it calls for an   *)
(* update.                                                                 *)
WithdrawnSilently(m) == [m EXCEPT !.rt = Fresh, !.latest = None]
Withdrawn(m) == [m EXCEPT !.rt = Fresh, !.latest = None, !.update = TRUE]
TakenSilently(m, r) ==
  CASE r.kind = "Reset" -> Withdrawn(m)
    [] r.kind = "Invalid" -> m
    [] OTHER ->
         LET next == Accept(m.rt, r, r.stamp, m.accepted + 1)
         IN [m EXCEPT !.rt = next, !.latest = next.pending, !.accepted = @ + 1]
Taken(m, r) ==
  CASE r.kind = "Reset" -> Withdrawn(m)
    [] r.kind = "Invalid" -> m
    [] OTHER ->
         LET next == Accept(m.rt, r, r.stamp, m.accepted + 1)
         IN [rt |-> next, latest |-> next.pending, accepted |-> m.accepted + 1, update |-> TRUE]
Consumed(due, batch) ==
  LET taken[i \in 0 .. Len(batch)] ==
        IF i = 0
        THEN [rt |-> rt, latest |-> latest, accepted |-> accepted, update |-> due]
        ELSE Taken(taken[i - 1], batch[i])
  IN taken[Len(batch)]

(* publish: the effects that are written reach their ports.                *)
Content(port, next) ==
  IF port = "Status" THEN [state |-> next.state, active |-> next.active.id] ELSE next.active
Refusals(effects) ==
  IF MayRefuse THEN SUBSET DOMAIN effects ELSE {{}}
Publish(effects, next, refusals) ==
  /\ ports' = [port \in DOMAIN ports |->
                 IF \E i \in DOMAIN effects \ refusals : effects[i] = port
                 THEN Content(port, next) ELSE ports[port]]
  /\ refused' = (refusals # {})
  /\ failed' = IF effects = <<>> THEN failed ELSE Len(effects) \in refusals
  /\ report' = [degraded |-> failed', state |-> next.state]

(* step: without an update nothing but the requests is consumed.           *)
Step(due) ==
  /\ running /\ (due \/ inbox # {})
  /\ \E batch \in Batches :
       LET m == Consumed(due, batch)
           next == Updated(m.rt, now)
       IN /\ accepted' = m.accepted /\ latest' = m.latest
          /\ IF m.update
             THEN /\ rt' = next.runtime /\ wake' = NextWake(rt')
                  /\ \E refusals \in Refusals(next.effects) :
                       Publish(next.effects, rt', refusals)
             ELSE rt' = m.rt /\ UNCHANGED <<wake, outputs>>
  /\ inbox' = {} /\ UNCHANGED <<now, running, arrived>>

(* applySettings: the runtime starts over, and the host is to step it now. *)
ApplySettings ==
  /\ rt' = Fresh /\ latest' = None
  /\ wake' = NextWake(rt')
  /\ report' = [degraded |-> failed, state |-> rt'.state]
  /\ UNCHANGED <<ports, failed, refused, accepted>>
StartOver == ~running /\ running' = TRUE /\ ApplySettings /\ UNCHANGED <<now, inputs>>
Configure == running /\ ApplySettings /\ UNCHANGED <<now, inputs, running>>
Stop ==
  /\ running /\ running' = FALSE /\ wake' = NoWake
  /\ UNCHANGED <<now, rt, inputs, outputs, accepted, latest>>

(* The writers of the ports and the clock.                                 *)
Arrive(request, delay) ==
  /\ arrived < MaxRequests /\ now > delay
  /\ arrived' = arrived + 1
  /\ inbox' = inbox \cup
       {[kind |-> request.kind, start |-> request.start, duration |-> request.duration,
         stamp |-> now - delay, number |-> arrived']}
  /\ UNCHANGED <<now, rt, running, wake, outputs, accepted, latest>>
Tick ==
  /\ now < MaxTime /\ now' = now + 1
  /\ UNCHANGED <<rt, running, inputs, wake, outputs, accepted, latest>>

Init ==
  /\ now = 1 /\ rt = Fresh /\ running = FALSE
  /\ inbox = {} /\ arrived = 0 /\ wake = NoWake
  /\ ports = [Status |-> None, Analytic |-> None, Sampled |-> None]
  /\ failed = FALSE /\ refused = FALSE
  /\ report = [degraded |-> FALSE, state |-> "SelfCheck"]
  /\ accepted = 0 /\ latest = None

Next ==
  \/ \E due \in BOOLEAN : Step(due)
  \/ StartOver \/ Configure \/ Stop
  \/ \E request \in Requests, delay \in Delays : Arrive(request, delay)
  \/ Tick
Spec == Init /\ [][Next]_vars
-----------------------------------------------------------------------------
(* Every reference accepted since the runtime was last reset is flown: it  *)
(* is active as soon as its step is over, until its end or a later one.    *)
AcceptedIsFlown ==
  /\ rt.pending = None
  /\ latest # None =>
       rt.active = latest /\ (rt.state = "Active" \/ Expired(latest, now))

(* A running module never waits in vain: the host has been asked to step   *)
(* it no later than its runtime needs (after reset and configure: at once).*)
WakeIsArmed == running => wake # NoWake /\ wake <= NextWake(rt)

(* What is asked of the module is served, in the step that takes it or in  *)
(* one the host has been asked for, over restarts and configurations.      *)
RequestsAreServed == AcceptedIsFlown /\ WakeIsArmed

(* What the module tells is true: after any step, start or configuration   *)
(* the state reported to the host is the runtime's, and unless outputs are *)
(* refused so is the published status, once the new runtime has stepped.   *)
ReportIsTrue ==
  running =>
    /\ report.state = rt.state
    /\ ~MayRefuse /\ rt.state # "SelfCheck" => ports.Status.state = rt.state

(* What reportIfChanged's comment claims: the health tells whether the     *)
(* last step wrote all its outputs.                                        *)
HealthTellsLastStep ==
  [][\A due \in BOOLEAN : (Step(due) /\ refused') => report'.degraded]_vars

(* The module keeps the promise of the generator.                          *)
Promise == INSTANCE ReferenceService WITH
  Grace <- ReferenceGrace, time <- now, count <- accepted, last <- latest,
  offered <- rt.pending, flown <- IF rt.state = "Active" THEN rt.active ELSE None
KeepsPromise == Promise!Service
=============================================================================
