---------------------------- MODULE ReferenceNode ----------------------------
(***************************************************************************)
(* The generator as a ROS node: callbacks of one spinning thread accept    *)
(* references or reset the runtime, each of them asks for a turn, and a    *)
(* turn arms the next deadline.  Callbacks, the turn and the deadline run  *)
(* one at a time, in any order; a turn asked for twice runs once.          *)
(***************************************************************************)
EXTENDS ReferenceRuntime

CONSTANTS
  Starts,          \* the start times requested; 0 asks for none
  Durations,
  MaxTime, MaxAccepted   \* bounds of the model

ASSUME NodeAssumption ==
  /\ {Starts, Durations} \subseteq SUBSET Nat
  /\ {MaxTime, MaxAccepted} \subseteq Nat \ {0}

VARIABLES
  now,
  rt,        \* runtime_
  turn,      \* turn_: a turn has been asked for
  deadline,  \* deadline_, or Never
  effects,   \* what the last turn handed to the output consumer
  accepted,  \* how many references have been accepted
  latest,    \* the last of them since a reset, or None
  late       \* whether time has passed over a turn or a deadline that was due

vars == <<now, rt, turn, deadline, effects, accepted, latest, late>>

Requests ==
  {r \in [kind : Kinds, start : Starts, duration : Durations] :
     r.kind = "Analytic" => r.duration > 0}

Init ==
  /\ now = 1 /\ rt = Fresh /\ turn = TRUE /\ deadline = Never
  /\ effects = <<>> /\ accepted = 0 /\ latest = None /\ late = FALSE

(* The callbacks.  A request that is refused asks for no turn.             *)
OnRequestSilent(request) ==
  /\ accepted < MaxAccepted
  /\ accepted' = accepted + 1
  /\ rt' = Accept(rt, request, now, accepted')
  /\ latest' = rt'.pending
  /\ UNCHANGED <<now, turn, deadline, effects, late>>
OnRequest(request) ==
  /\ accepted < MaxAccepted
  /\ accepted' = accepted + 1
  /\ rt' = Accept(rt, request, now, accepted')
  /\ latest' = rt'.pending /\ turn' = TRUE
  /\ UNCHANGED <<now, deadline, effects, late>>
OnReset ==
  /\ rt' = Fresh /\ latest' = None /\ turn' = TRUE
  /\ UNCHANGED <<now, deadline, effects, accepted, late>>

(* runTurn and armDeadline.                                                *)
DeadlineKept(wake) == IF wake <= now \/ deadline # Never THEN deadline ELSE wake
DeadlineAfter(wake) == IF wake <= now THEN deadline ELSE wake
Turn ==
  /\ turn
  /\ LET next == Updated(rt, now)
         wake == NextWake(next.runtime)
     IN /\ rt' = next.runtime /\ effects' = next.effects
        /\ turn' = (wake <= now)
        /\ deadline' = DeadlineAfter(wake)
  /\ UNCHANGED <<now, accepted, latest, late>>
DeadlinePassed == deadline # Never /\ deadline <= now
OnDeadline ==
  /\ DeadlinePassed
  /\ turn' = TRUE /\ deadline' = Never
  /\ UNCHANGED <<now, rt, effects, accepted, latest, late>>

Tick ==
  /\ now < MaxTime
  /\ now' = now + 1 /\ late' = (late \/ turn \/ DeadlinePassed)
  /\ UNCHANGED <<rt, turn, deadline, effects, accepted, latest>>

Next ==
  \/ \E request \in Requests : OnRequest(request)
  \/ OnReset \/ Turn \/ OnDeadline \/ Tick
Spec == Init /\ [][Next]_vars
-----------------------------------------------------------------------------
(* The runtime is of its type, and nothing has a number not given out.     *)
TypeOK ==
  /\ now \in 1 .. MaxTime /\ rt \in Runtimes(1 .. accepted)
  /\ turn \in BOOLEAN /\ deadline \in Nat
  /\ effects \in Seq({"Status"} \cup Kinds) /\ accepted \in 0 .. MaxAccepted
  /\ latest \in References(1 .. accepted) \cup {None} /\ late \in BOOLEAN

(* A reference that was accepted is never lost: until a reset, the last    *)
(* one waits for a turn that has been asked for, is flown, or was flown    *)
(* to its end (acceptAnalytic, the turns, the machine's three states).     *)
AcceptedIsFlown ==
  latest # None =>
    \/ rt.pending = latest /\ turn
    \/ /\ rt.pending = None /\ rt.active = latest
       /\ rt.state = "Active" \/ Expired(latest, now)

(* After its turn the node always has a reason to wake: it never stays     *)
(* past the next publication or the end of the reference it flies.         *)
WakeIsArmed ==
  \/ turn
  \/ deadline # Never /\ deadline <= NextWake(rt)

(* The periods are kept: while turns are prompt no publication is later    *)
(* than the instant after its period, however often references change.     *)
PublishedInTime ==
  ~late =>
    /\ rt.status # Never => now - rt.status <= StatusPeriod + 1
    /\ rt.state = "Active" => now - rt.posted <= ActivePeriod + 1

(* While turns are prompt no reference is flown, nor published, beyond its *)
(* end: it is replaced, or the node is Ready at the first instant after it.*)
EndsInTime ==
  ~late /\ rt.state = "Active" /\ Expired(rt.active, now) =>
    now = Expiry(rt.active) + 1 /\ (turn \/ DeadlinePassed)

(* Both deadlines of the runtime are kept, for the periods and for the end.*)
RuntimeIsInTime == PublishedInTime /\ EndsInTime

(* nextWake agrees with the guards of the machine: a turn asks for another *)
(* one at once only when it has taken up a reference already over, and     *)
(* then the next one ends it.  The node cannot spin.                       *)
TurnsRest ==
  [][(Turn /\ turn') => /\ rt'.active # rt.active
                        /\ Expired(rt'.active, now)]_vars

(* The node keeps the promise of the generator.                            *)
Promise == INSTANCE ReferenceService WITH
  Grace <- ReferenceGrace, time <- now, count <- accepted, last <- latest,
  offered <- rt.pending, flown <- IF rt.state = "Active" THEN rt.active ELSE None
KeepsPromise == Promise!Service
=============================================================================
