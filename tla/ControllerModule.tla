--------------------------- MODULE ControllerModule ---------------------------
(***************************************************************************)
(* The controller as a module of the native host.  A step takes what waits *)
(* on the input ports in the order of its stamps, advances statistics and  *)
(* controller once, sends the effects of that to the output ports, each of *)
(* which may be refused, and asks the host for its next wake.  Lifecycle   *)
(* calls come between steps, on the same thread.                           *)
(*                                                                         *)
(* The host (external) steps the module for an input, for a wake, after a  *)
(* configuration, and when the armed deadline has passed; it gives all the *)
(* reasons there are, but may not have seen yet that the deadline passed.  *)
(* What a turn of the flight machine does (FlightMachine) is left open: it *)
(* is in some state, wants to be woken at some time, and has handled one   *)
(* batch of its pending events.                                            *)
(***************************************************************************)
EXTENDS SensorStatistics, Configuration, SequencesExt

CONSTANTS
  Battery,          \* the stream that asks for no update
  Lateness,         \* how late the host may step the module
  Delay,            \* how long a sample may take from its stamp to its port
  Depth,            \* of a port
  PendingCapacity,  \* of the flight machine's events
  BatchLimit,       \* events the flight machine handles in a turn
  Created,          \* the configurations it may be created with, and
  Documents,        \* given later; of the former only these are run (a bound)
  Turns,            \* how a turn of the flight machine may end: its state, in how long
                    \* it wants the next one, and how many events it posts to itself
  Bursts,           \* what a turn of it may ask to be sent
  MaxTime           \* bound of the model

Effects == {"Write", "Solve"}   \* to a port; to the solver, through NmpcExecution

ASSUME ControllerModuleAssumption ==
  /\ Battery \in Streams
  /\ \A document \in Created \cup Documents : IsDocument(document)
  /\ Turns \subseteq [state : STRING, wait : Nat, raised : Nat]
  /\ Bursts \subseteq Seq(Effects)
  /\ {Lateness, Delay} \subseteq Nat
  /\ {Depth, PendingCapacity, BatchLimit, MaxTime} \subseteq Nat \ {0}

VARIABLES
  now,
  running,   \* runtime_
  config,    \* config_, which a running controller is given too
  flight,    \* the flight machine: its state, pending events and next wake
  stats,     \* the statistics
  inbox,     \* the samples that wait on the sensor ports
  commands,  \* how many commands wait on their port
  asked,     \* whether the host has a wake or a configuration to step for
  timer,     \* deadline_, or NoWake
  failed,    \* output_failed_
  report,    \* the state and health reported last
  refused,   \* whether the last step that had something to write was refused a write
  heard,     \* the streams of which a sample was taken since the last heartbeat
  overdue    \* for how long a step has been due

host == <<inbox, commands, asked>>
outputs == <<failed, report, refused>>
vars == <<now, running, config, flight, stats, host, timer, outputs, heard, overdue>>
-----------------------------------------------------------------------------
NoWake == -1
Ground == {"SelfCheck", "Ready"}
FlightStates == {turn.state : turn \in Turns} \cup {"SelfCheck"}
FreshFlight == [state |-> "SelfCheck", pending |-> 0, due |-> NoWake]

(* apply: the samples in the order of their stamps, of which the last of   *)
(* each stream decides, and the commands.                                  *)
Waiting(stream) == {sample.stamp : sample \in {x \in inbox : x.port = stream}}
Heard == {sample.port : sample \in inbox}
Applied ==
  [stats EXCEPT !.track = [s \in Streams |-> IF s \in Heard THEN Observe(Max(Waiting(s)))
                                             ELSE stats.track[s]]]
Posted == Min({PendingCapacity, flight.pending + commands})
AnyInput == inbox # {} \/ commands > 0
RelevantInput == commands > 0 \/ Heard \ {Battery} # {}

DriverWakeOfStatistics(s, f) == StatisticsWake(s)
DriverWake(s, f) ==
  Min({StatisticsWake(s)} \cup IF f.due = NoWake THEN {} ELSE {f.due})

(* What the effects of an update leave behind: a write that was refused or *)
(* a handler that failed counts even if later ones succeed.                *)
HealthOfLast(effects, failing) ==
  IF effects = <<>> THEN failed ELSE Len(effects) \in failing
Health(effects, failing) ==
  CASE failing # {} -> TRUE
    [] failing = {} /\ "Write" \in ToSet(effects) -> FALSE
    [] OTHER -> failed
Send(effects, failing) ==
  /\ failed' = Health(effects, failing)
  /\ refused' = IF failing # {} \/ "Write" \in ToSet(effects) THEN failing # {} ELSE refused

Update(applied, posted) ==
  /\ stats' = ResetNewFlags(Advance(applied, now))
  /\ heard' = IF now >= applied.nextBeat THEN {} ELSE heard \cup Heard
  /\ \E turn \in Turns :
       LET pending == Max({0, posted - BatchLimit}) + turn.raised
       IN /\ pending <= PendingCapacity
          /\ flight' = [state |-> turn.state, pending |-> pending,
                        due |-> IF turn.wait = 0 THEN NoWake ELSE now + turn.wait]
          /\ timer' = DriverWake(stats', flight')
          /\ asked' = (pending > 0)
  /\ \E effects \in Bursts : \E failing \in SUBSET DOMAIN effects : Send(effects, failing)
  /\ report' = [state |-> flight'.state, degraded |-> failed']

DeadlinePassed == timer # NoWake /\ timer <= now

(* step: samples that only tell the battery leave the update to later.     *)
Step(seen) ==
  /\ running
  /\ seen => DeadlinePassed
  /\ AnyInput \/ asked \/ seen
  /\ inbox' = {} /\ commands' = 0
  /\ IF RelevantInput \/ asked \/ seen
     THEN Update(Applied, Posted) /\ overdue' = 0
     ELSE /\ stats' = Applied /\ heard' = heard \cup Heard
          /\ overdue' = IF DeadlinePassed THEN overdue ELSE 0
          /\ UNCHANGED <<flight, asked, timer, outputs>>
  /\ UNCHANGED <<now, running, config>>

(* start builds everything that runs afresh, and stop destroys it: what it *)
(* would hold then is what the next start begins with.                     *)
Start ==
  /\ ~running /\ running' = TRUE /\ config \in Documents
  /\ flight' = FreshFlight
  /\ stats' = Started(now) /\ heard' = {}
  /\ asked' = TRUE
  /\ report' = [state |-> "SelfCheck", degraded |-> failed]
  /\ overdue' = 0
  /\ UNCHANGED <<now, config, inbox, commands, timer, failed, refused>>
Stop ==
  /\ running /\ running' = FALSE
  /\ timer' = NoWake /\ asked' = FALSE
  /\ flight' = FreshFlight /\ stats' = Started(0) /\ heard' = {}
  /\ overdue' = 0
  /\ UNCHANGED <<now, config, inbox, commands, outputs>>

(* configure: refused before anything changes if the document is invalid,  *)
(* or if the controller is not on the ground.                              *)
Configure(document) ==
  /\ Valid(document)
  /\ running => flight.state \in Ground
  /\ config' = document
  /\ asked' = (asked \/ running)
  /\ UNCHANGED <<now, running, flight, stats, inbox, commands, timer, outputs, heard, overdue>>

(* The writers of the ports, other threads that wake, and the clock.       *)
SampleArrives(stream, delay) ==
  /\ now >= delay
  /\ Cardinality(Waiting(stream)) < Depth
  /\ inbox' = inbox \cup {[port |-> stream, stamp |-> now - delay]}
  /\ UNCHANGED <<now, running, config, flight, stats, commands, asked, timer, outputs,
                 heard, overdue>>
CommandArrives ==
  /\ commands < Depth /\ commands' = commands + 1
  /\ UNCHANGED <<now, running, config, flight, stats, inbox, asked, timer, outputs,
                 heard, overdue>>
SolverAnswers ==
  /\ running /\ asked' = TRUE
  /\ UNCHANGED <<now, running, config, flight, stats, inbox, commands, timer, outputs,
                 heard, overdue>>
StepDue == running /\ (asked \/ AnyInput \/ DeadlinePassed)
Tick ==
  /\ now < MaxTime /\ now' = now + 1
  /\ overdue' = IF StepDue THEN overdue + 1 ELSE 0
  /\ overdue' <= Lateness
  /\ UNCHANGED <<running, config, flight, stats, host, timer, outputs, heard>>

Init ==
  /\ now = 0 /\ running = FALSE /\ overdue = 0
  /\ config \in {document \in Created : Valid(document)}
  /\ flight = FreshFlight /\ stats = Started(0) /\ heard = {}
  /\ inbox = {} /\ commands = 0 /\ asked = FALSE /\ timer = NoWake
  /\ failed = FALSE /\ refused = FALSE
  /\ report = [state |-> "SelfCheck", degraded |-> FALSE]

Next ==
  \/ \E seen \in BOOLEAN : Step(seen)
  \/ Start \/ Stop
  \/ \E document \in Documents : Configure(document)
  \/ \E stream \in Streams, delay \in 0 .. Delay : SampleArrives(stream, delay)
  \/ CommandArrives \/ SolverAnswers \/ Tick
Spec == Init /\ [][Next]_vars
-----------------------------------------------------------------------------
(* Every variable is of its type; a sample is no newer than the clock.     *)
TypeOK ==
  /\ now \in 0 .. MaxTime /\ running \in BOOLEAN /\ overdue \in 0 .. Lateness
  /\ config \in Created \cup Documents
  /\ flight \in [state : FlightStates, pending : 0 .. PendingCapacity, due : Nat \cup {NoWake}]
  /\ stats \in [nextStats : Nat, nextBeat : Nat, track : [Streams -> Track]]
  /\ inbox \subseteq [port : Streams, stamp : 0 .. now]
  /\ commands \in 0 .. Depth /\ asked \in BOOLEAN
  /\ timer \in Nat \cup {NoWake}
  /\ failed \in BOOLEAN /\ refused \in BOOLEAN
  /\ report \in [state : FlightStates, degraded : BOOLEAN]
  /\ heard \subseteq Streams

(* A stream that has fallen silent is found lost: the next heartbeat is    *)
(* never more than its period away nor missed by more than the host is     *)
(* late, and a stream that counts as active was heard since the last one,  *)
(* or its last sample is younger than the timeout and a heartbeat.  (A     *)
(* sample may have waited on its port through a restart: it is believed    *)
(* until the next heartbeat, however old it is.)  And none is found lost   *)
(* while its last sample is within the timeout.                            *)
LossIsNoticed ==
  running =>
    /\ stats.nextBeat - Heartbeat <= now /\ now <= stats.nextBeat + Lateness
    /\ \A s \in Streams : stats.track[s].active =>
         s \in heard \/ now - stats.track[s].last <= Timeout + Heartbeat + Lateness
    /\ \A s \in Streams :
         stats.track[s].last # NoSample /\ now - stats.track[s].last <= Timeout
         => stats.track[s].active

(* A running module never waits in vain: it has asked for a step at once,  *)
(* which it must while the flight machine has pending events, or no later  *)
(* than the statistics and the flight machine want one.                    *)
NeverSleeps ==
  running =>
    \/ asked
    \/ /\ flight.pending = 0
       /\ timer # NoWake /\ timer <= stats.nextStats /\ timer <= stats.nextBeat
       /\ flight.due # NoWake => timer <= flight.due

(* The health the host was told is that of the last step that had          *)
(* something to write: one refused write counts, whatever else succeeded,  *)
(* and a restart does not hide it.  The state it was told is the present.  *)
HealthTellsWrites ==
  running => report = [state |-> flight.state, degraded |-> refused]

(* Whatever a document says and leaves out, and however its keys overrule  *)
(* each other: one that is accepted is a configuration to fly with.        *)
ConfigurationIsSound == Sound(ReadControllerConfig(config))
=============================================================================
