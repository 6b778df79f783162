---------------------------- MODULE NmpcExchange ----------------------------
(***************************************************************************)
(* The exchange between the tracking state and the NMPC solver: the owner  *)
(* thread runs turns of Custom1State and hands their solve requests to     *)
(* NmpcExecution, a worker thread answers them, and both meet in           *)
(* NmpcResultBuffer, whose calls are atomic under its mutex.               *)
(*                                                                         *)
(* The worker (AsyncWorker, of another repository) holds at most one       *)
(* accepted request.  Whether it takes the next one just before or just    *)
(* after it stores a result is left open.                                  *)
(*                                                                         *)
(* A solver outcome is success, failure or "sampling" (the horizon could   *)
(* not be sampled); the attitude target is known by the request it answers.*)
(* Time is a count of units from 1; 0 means never, as in the code.         *)
(* Variants of a definition, under its name and a suffix, are mistakes the *)
(* properties are there to catch; nothing else uses them.                  *)
(***************************************************************************)
EXTENDS Integers, SequencesExt

CONSTANTS
  ControlPeriod,   \* nmpc/control_period
  SolveTimeout,    \* nmpc/solve_timeout
  ResultTimeout,   \* nmpc/result_timeout
  PublishPeriod,   \* custom1PublishPeriod
  Prompt,          \* whether every turn asked for runs before time passes
  MaxTime, MaxGenerations   \* bounds of the model

ASSUME TimingAssumption ==
  /\ {ControlPeriod, SolveTimeout, ResultTimeout, PublishPeriod,
      MaxTime, MaxGenerations} \subseteq Nat \ {0}
  /\ Prompt \in BOOLEAN

VARIABLES
  now,      \* the domain clock
  buffer,   \* NmpcResultBuffer: active generation, the two counters, latest_
  custom1,  \* the data of Custom1State that its NMPC mode uses
  cache,    \* ActiveTrajectoryCache::valid
  target,   \* the attitude-rate target: the result it was copied from
  outputs,  \* what the last turn emitted
  handoff,  \* a solve request emitted and not yet handled
  job,      \* the request the worker has accepted and not begun
  run,      \* what the worker thread is doing
  service,  \* running, then how far a stop has come
  wake      \* a turn has been asked for

worker == <<job, run>>
vars == <<now, buffer, custom1, cache, target, outputs, handoff, job, run,
          service, wake>>
-----------------------------------------------------------------------------
Never == 0
None  == [sequence |-> 0]
Outcomes == {"success", "failure", "sampling"}

(* NmpcResultBuffer.                                                       *)
GenerationActive(b, generation) == generation # 0 /\ generation = b.generation
Begin(b) == [b EXCEPT !.generation = b.generations + 1, !.generations = @ + 1,
                      !.latest = None]
Invalidate(b, generation) ==
  IF generation \in {0, b.generation}
  THEN [b EXCEPT !.generation = 0, !.latest = None] ELSE b
AdmitsAny(b, result) == GenerationActive(b, result.generation)
Admits(b, result) ==
  /\ GenerationActive(b, result.generation)
  /\ result.sequence \in 1 .. b.requests
  /\ result.sequence > b.latest.sequence
Store(b, result) == IF Admits(b, result) THEN [b EXCEPT !.latest = result] ELSE b
NewerThan(b, sequence) == b.generation # 0 /\ b.latest.sequence > sequence
Fresh(stamp, at) == stamp <= at /\ at - stamp <= ResultTimeout
-----------------------------------------------------------------------------
(* One NMPC tick of Custom1State works on the owner's view: its own data,  *)
(* the buffer, the target, and what it has emitted so far.                 *)
View == [leaf |-> custom1, buffer |-> buffer, target |-> target,
         out |-> <<>>, request |-> None]

Publish(v, effect) == [v EXCEPT !.out = Append(@, effect), !.leaf.lastPublish = now]
PublishDue(v) == now - v.leaf.lastPublish >= PublishPeriod

FreshEntryKeepsSuccess(b) ==
  [tracking |-> TRUE, generation |-> b.generation, inFlight |-> 0,
   consumed |-> b.requests, waiting |-> FALSE, lastRequest |-> Never,
   deadline |-> Never, lastSuccess |-> custom1.lastSuccess,
   lastPublish |-> Never, finished |-> FALSE]
FreshEntry(b) ==
  [tracking |-> TRUE, generation |-> b.generation, inFlight |-> 0, consumed |-> b.requests,
   waiting |-> FALSE, lastRequest |-> Never, deadline |-> Never,
   lastSuccess |-> Never, lastPublish |-> Never, finished |-> FALSE]

(* A generation that is no longer active (a stop) is replaced.             *)
Regenerated(v) ==
  IF GenerationActive(v.buffer, v.leaf.generation) THEN v
  ELSE LET b == Begin(v.buffer) IN
    [v EXCEPT !.buffer = b, !.leaf.generation = b.generation,
              !.leaf.consumed = b.requests, !.leaf.waiting = FALSE,
              !.leaf.inFlight = 0, !.leaf.lastRequest = Never]

FinishPosted(v) ==
  IF v.leaf.finished
  THEN IF PublishDue(v) THEN Publish(v, "Setpoint") ELSE v
  ELSE Publish([v EXCEPT !.leaf.finished = TRUE, !.leaf.waiting = FALSE], "Setpoint")

(* consumeNmpcResult; ending: the reference runs out within the horizon.   *)
Succeeded(v, result) ==
  Publish([v EXCEPT !.leaf.lastSuccess = now, !.target = result], "Attitude")
FailedKeeping(v, result, ending) ==
  IF result.outcome = "sampling"
  THEN IF ending THEN FinishPosted(v) ELSE Publish(v, "Setpoint")
  ELSE IF v.leaf.lastSuccess # Never
       THEN Publish(v, "Attitude") ELSE Publish(v, "Setpoint")
Failed(v, result, ending) ==
  IF result.outcome = "sampling"
  THEN IF ending THEN FinishPosted(v) ELSE Publish(v, "Setpoint")
  ELSE IF v.leaf.lastSuccess # Never /\ now - v.leaf.lastSuccess <= ResultTimeout
       THEN Publish(v, "Attitude") ELSE Publish(v, "Setpoint")
Consumed(v, ending) ==
  LET result == v.buffer.latest
      taken == [v EXCEPT !.leaf.consumed = result.sequence, !.leaf.waiting = FALSE]
  IN IF \/ ~NewerThan(v.buffer, v.leaf.consumed)
        \/ result.generation # v.leaf.generation
        \/ result.sequence # v.leaf.inFlight
     THEN v
     ELSE IF ~Fresh(result.stamp, now) THEN taken
     ELSE IF result.outcome = "success" THEN Succeeded(taken, result)
                                        ELSE Failed(taken, result, ending)

TimedOutSilently(v) ==
  IF v.leaf.waiting /\ now > v.leaf.deadline THEN [v EXCEPT !.leaf.waiting = FALSE] ELSE v
TimedOut(v) ==
  IF v.leaf.waiting /\ now > v.leaf.deadline
  THEN Publish([v EXCEPT !.leaf.waiting = FALSE], "Setpoint") ELSE v

(* With a reference: back up a stale attitude, then ask for a solve.       *)
BackedUp(v) ==
  IF /\ v.leaf.lastSuccess # Never
     /\ now - v.leaf.lastSuccess > ResultTimeout
     /\ PublishDue(v)
  THEN Publish(v, "Setpoint") ELSE v
DispatchDue(v) ==
  /\ ~v.leaf.waiting
  /\ v.leaf.lastRequest = Never \/ now - v.leaf.lastRequest >= ControlPeriod
NextRequestTime(last) ==
  IF last = Never \/ now - (last + ControlPeriod) > ControlPeriod
  THEN now ELSE last + ControlPeriod
Dispatched(v) ==
  IF ~DispatchDue(v) THEN v
  ELSE LET sequence == v.buffer.requests + 1 IN
    [v EXCEPT !.buffer.requests = sequence,
              !.leaf.inFlight = sequence, !.leaf.waiting = TRUE,
              !.leaf.lastRequest = NextRequestTime(@),
              !.leaf.deadline = now + SolveTimeout,
              !.request = [sequence |-> sequence, stamp |-> now,
                           generation |-> v.leaf.generation]]

Tracked(ending) ==
  LET v == TimedOut(Consumed(Regenerated(View), ending))
  IN IF ~cache THEN IF PublishDue(v) THEN Publish(v, "Setpoint") ELSE v
     ELSE IF ending THEN FinishPosted(v)
     ELSE Dispatched(BackedUp(v))
-----------------------------------------------------------------------------
(* Custom1State::nextWake, its NMPC part; log timers and the reference's   *)
(* own end are left to the wakes of Input.                                 *)
NextDueUnstrict(leaf) ==
  LET answer == IF leaf.waiting THEN {leaf.deadline} ELSE {}
      publish == leaf.lastPublish + PublishPeriod
      stale == leaf.lastSuccess + ResultTimeout + 1
  IN IF ~cache THEN answer \cup {publish}
     ELSE answer
          \cup (IF leaf.lastSuccess = Never THEN {}
                ELSE IF now < stale THEN {stale} ELSE {publish})
          \cup (IF leaf.waiting THEN {}
                ELSE IF leaf.lastRequest = Never THEN {now}
                ELSE {leaf.lastRequest + ControlPeriod})
NextDue(leaf) ==
  LET answer == IF leaf.waiting THEN {leaf.deadline + 1} ELSE {}
      publish == leaf.lastPublish + PublishPeriod
      stale == leaf.lastSuccess + ResultTimeout + 1
  IN IF ~cache THEN answer \cup {publish}
     ELSE answer
          \cup (IF leaf.lastSuccess = Never THEN {}
                ELSE IF now < stale THEN {stale} ELSE {publish})
          \cup (IF leaf.waiting THEN {}
                ELSE IF leaf.lastRequest = Never THEN {now}
                ELSE {leaf.lastRequest + ControlPeriod})
DueBy(leaf, time) == leaf.tracking /\ \E due \in NextDue(leaf) : due <= time

OwnerFree == service = "running" /\ handoff = None

(* A turn of the tracking state; the next state is entered after the tick. *)
Left(v) ==
  [v EXCEPT !.buffer = Invalidate(v.buffer, v.leaf.generation),
            !.leaf.tracking = FALSE, !.leaf.waiting = FALSE]
Turn ==
  /\ OwnerFree /\ wake /\ custom1.tracking
  /\ \E ending, leaves \in BOOLEAN :
       LET ticked == Tracked(ending)
           v == IF leaves THEN Left(ticked) ELSE ticked
       IN /\ ending => cache
          /\ ticked.leaf.finished => leaves
          /\ custom1' = v.leaf /\ buffer' = v.buffer /\ target' = v.target
          /\ outputs' = v.out /\ handoff' = v.request
          /\ wake' = (leaves \/ DueBy(v.leaf, now))
  /\ UNCHANGED <<now, cache, worker, service>>

(* A turn of another state, which enters the tracking state or stays out.  *)
TurnElsewhere ==
  /\ OwnerFree /\ wake /\ ~custom1.tracking
  /\ outputs' = <<>> /\ wake' = FALSE
  /\ UNCHANGED <<now, buffer, custom1, cache, target, handoff, worker, service>>
Enter ==
  /\ OwnerFree /\ wake /\ ~custom1.tracking
  /\ buffer.generations < MaxGenerations
  /\ buffer' = Begin(buffer)
  /\ custom1' = FreshEntry(buffer') /\ cache' = FALSE
  /\ outputs' = <<>> /\ wake' = TRUE
  /\ UNCHANGED <<now, target, handoff, worker, service>>

Input == OwnerFree /\ wake' = TRUE
         /\ UNCHANGED <<now, buffer, custom1, cache, target, outputs, handoff,
                       worker, service>>
ReferenceArrives ==
  /\ OwnerFree /\ custom1.tracking
  /\ cache' = TRUE /\ wake' = TRUE
  /\ UNCHANGED <<now, buffer, custom1, target, outputs, handoff, worker, service>>
-----------------------------------------------------------------------------
(* NmpcExecution: the owner hands a request over, the worker answers it.   *)
Answer(request, outcome) ==
  [sequence |-> request.sequence, generation |-> request.generation,
   stamp |-> request.stamp, outcome |-> outcome]
Idle == [phase |-> "idle", result |-> None]

RejectedSilently(outcome) ==
  /\ buffer' = Store(buffer, Answer(handoff, outcome))
  /\ UNCHANGED <<worker, wake>>
Rejected(outcome) ==
  LET result == Answer(handoff, outcome) IN
  /\ buffer' = Store(buffer, result)
  /\ wake' = (wake \/ Admits(buffer, result))
  /\ UNCHANGED worker
Submitted ==
  /\ job = None /\ run.phase # "solving"
  /\ job' = handoff
  /\ UNCHANGED <<buffer, run, wake>>
Handle ==
  /\ handoff # None /\ handoff' = None
  /\ IF GenerationActive(buffer, handoff.generation)
     THEN \/ Rejected("sampling")
          \/ Submitted
          \/ (job # None \/ run.phase \in {"solving", "solved"}) /\ Rejected("failure")
     ELSE UNCHANGED <<buffer, worker, wake>>
  /\ UNCHANGED <<now, custom1, cache, target, outputs, service>>

ownerState == <<now, custom1, cache, target, outputs, handoff, service>>
Take ==
  /\ service = "running" /\ job # None /\ run = Idle
  /\ run' = [phase |-> "solving", result |-> job] /\ job' = None
  /\ UNCHANGED <<ownerState, buffer, wake>>
Solve ==
  /\ run.phase = "solving"
  /\ \E outcome \in {"success", "failure"} :
       run' = [phase |-> "solved", result |-> Answer(run.result, outcome)]
  /\ UNCHANGED <<ownerState, buffer, job, wake>>
StoreResult ==
  /\ run.phase = "solved"
  /\ buffer' = Store(buffer, run.result)
  /\ run' = IF Admits(buffer, run.result)
            THEN [run EXCEPT !.phase = "notifying"] ELSE Idle
  /\ UNCHANGED <<ownerState, job, wake>>
(* notifyResult(): the generation is checked under the buffer's mutex, and *)
(* the owner called without it.                                            *)
Notify ==
  /\ run.phase = "notifying"
  /\ run' = IF GenerationActive(buffer, run.result.generation)
            THEN [run EXCEPT !.phase = "calling"] ELSE Idle
  /\ UNCHANGED <<ownerState, buffer, job, wake>>
Call ==
  /\ run.phase = "calling"
  /\ wake' = TRUE /\ run' = Idle
  /\ UNCHANGED <<ownerState, buffer, job>>

(* stop(): close the gate, which drops the job not begun; invalidate; join *)
(* the worker, which goes on until it is at its loop again.                *)
StopBegin ==
  /\ OwnerFree
  /\ service' = "closing" /\ job' = None
  /\ UNCHANGED <<now, buffer, custom1, cache, target, outputs, handoff, run, wake>>
BufferAtStopKept == buffer
BufferAtStop == Invalidate(buffer, 0)
StopInvalidate ==
  /\ service = "closing"
  /\ service' = "stopping" /\ buffer' = BufferAtStop
  /\ UNCHANGED <<now, custom1, cache, target, outputs, handoff, worker, wake>>
StopEnd ==
  /\ service = "stopping" /\ run = Idle
  /\ service' = "stopped"
  /\ UNCHANGED <<now, buffer, custom1, cache, target, outputs, handoff, worker, wake>>

(* Time passes; a deadline that comes due asks for a turn.                 *)
Tick ==
  /\ now < MaxTime
  /\ (Prompt /\ service = "running") => (~wake /\ handoff = None)
  /\ now' = now + 1
  /\ wake' = (wake \/ (service = "running" /\ DueBy(custom1, now')))
  /\ UNCHANGED <<buffer, custom1, cache, target, outputs, handoff, worker, service>>

Init ==
  /\ now = 1
  /\ buffer = [generation |-> 0, generations |-> 0, requests |-> 0, latest |-> None]
  /\ custom1 = [tracking |-> FALSE, generation |-> 0, inFlight |-> 0,
                consumed |-> 0, waiting |-> FALSE, lastRequest |-> Never,
                deadline |-> Never, lastSuccess |-> Never,
                lastPublish |-> Never, finished |-> FALSE]
  /\ cache = FALSE /\ target = None /\ outputs = <<>> /\ handoff = None
  /\ job = None /\ run = Idle /\ service = "running" /\ wake = FALSE

OwnerTurns == Turn \/ TurnElsewhere \/ Enter
Others == \/ Input \/ ReferenceArrives \/ Handle
          \/ Take \/ Solve \/ StoreResult \/ Notify \/ Call
          \/ StopBegin \/ StopInvalidate \/ StopEnd \/ Tick
Next == OwnerTurns \/ Others

Spec == Init /\ [][Next]_vars
-----------------------------------------------------------------------------
(* Every variable is of its type; a request names a reserved sequence.     *)
TypeOK ==
  LET Sequences == 0 .. buffer.requests
      Generations == 0 .. buffer.generations
      Times == Never .. MaxTime
      Requests == [sequence : Sequences \ {0}, stamp : Times, generation : Generations]
      Results == [sequence : Sequences \ {0}, stamp : Times,
                  generation : Generations, outcome : Outcomes]
  IN /\ now \in 1 .. MaxTime
     /\ buffer.generations \in 0 .. MaxGenerations /\ buffer.requests \in Nat
     /\ buffer.generation \in Generations /\ buffer.latest \in Results \cup {None}
     /\ custom1.generation \in Generations
     /\ {custom1.inFlight, custom1.consumed} \subseteq Sequences
     /\ {custom1.lastSuccess, custom1.lastPublish, custom1.lastRequest} \subseteq Times
     /\ cache \in BOOLEAN /\ wake \in BOOLEAN
     /\ target \in Results \cup {None}
     /\ handoff \in Requests \cup {None} /\ job \in Requests \cup {None}
     /\ run.phase \in {"idle", "solving", "solved", "notifying", "calling"}
     /\ run.result \in Requests \cup Results \cup {None}
     /\ service \in {"running", "closing", "stopping", "stopped"}

Commands == ToSet(outputs)

(* The attitude rates a turn commands were solved for this very entry of   *)
(* the tracking state: no answer to an earlier entry's request, and no     *)
(* target left in the controller by one, is ever sent.                     *)
AttitudeOfThisEntry ==
  "Attitude" \in Commands => target.generation = custom1.generation

(* Commanded attitude rates were solved from a state at most two result    *)
(* timeouts old: one until the answer is taken, and one more in which a    *)
(* failed solve may send them again.  (At the turn, before time passes.)   *)
AttitudeIsRecent ==
  [][(Turn /\ "Attitude" \in ToSet(outputs'))
       => now - target'.stamp <= 2 * ResultTimeout]_vars

(* What consumeNmpcResult's comment claims: the output obeys the same      *)
(* timestamp policy as the buffer, one result timeout.                     *)
AttitudeObeysPolicy ==
  [][(Turn /\ "Attitude" \in ToSet(outputs'))
       => Fresh(target'.stamp, now)]_vars

(* While the state waits for an answer, the request it waits for is still  *)
(* on its way or answered, until a stop drops it: no later or earlier      *)
(* answer displaces it.                                                    *)
AnswerIsComing ==
  service = "running" /\ custom1.waiting
    /\ GenerationActive(buffer, custom1.generation) =>
    custom1.inFlight \in {handoff.sequence, job.sequence, run.result.sequence,
                          buffer.latest.sequence}

(* An answer the state waits for never lies unseen in the buffer: a turn   *)
(* has been asked for or the worker is about to ask.                       *)
ResultWakesOwner ==
  custom1.waiting /\ NewerThan(buffer, custom1.consumed)
    /\ buffer.latest.sequence = custom1.inFlight
  => wake \/ run.phase \in {"notifying", "calling"}

(* An answer the state waits for is not lost, whatever else is answered    *)
(* meanwhile: it is on its way, and it does not lie unseen.                *)
AnswerIsNotLost == AnswerIsComing /\ ResultWakesOwner

(* A stop ends in silence, wherever the worker is when it begins.  From    *)
(* the closing on the worker finishes what it is at and begins nothing,    *)
(* and nothing is commanded; from the invalidation on no answer is stored, *)
(* and only a call already past its check may still wake the owner; once   *)
(* the stop has returned the worker rests, so no call outlives it.         *)
QuietAfterStop ==
  [][/\ (service # "running") =>
          UNCHANGED <<outputs, target, job>> /\ (run = Idle => UNCHANGED <<run, wake>>)
     /\ (service \in {"stopping", "stopped"}) =>
          /\ UNCHANGED buffer
          /\ (run.phase # "calling") => (run'.phase # "calling" /\ wake' = wake)
     /\ (service' = "stopped") => (run' = Idle)]_vars

(* A tracking state that has published keeps publishing, with a solver     *)
(* that may never answer: the longest silence is a request's patience      *)
(* after a period.  It takes a result timeout above the solve timeout, as  *)
(* every configuration file has and none is made to have: otherwise an     *)
(* answer may come in time and be stale, and is dropped in silence again   *)
(* and again.                                                              *)
LongerPeriod == IF PublishPeriod < ControlPeriod THEN ControlPeriod ELSE PublishPeriod
LongestSilence == LongerPeriod + SolveTimeout + 1
OutputGap ==
  /\ Prompt /\ SolveTimeout < ResultTimeout
  /\ service = "running" /\ custom1.tracking /\ custom1.lastPublish # Never
  => now - custom1.lastPublish <= LongestSilence
=============================================================================
