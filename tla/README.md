# Verification of the XGC2 multirotor controller

TLA+ models of the flight controller in `px4_multirotor_controller`, of the
reference generator in `multirotor_reference_trajectory` and of the exchange
between the two, TLC configurations that check them on small instances, and TLAPS
proofs about them for every value of the parameters.

Source paths are relative to the repository; `P` is `px4_multirotor_controller`,
`R` is `multirotor_reference_trajectory`.

## The system

One owner thread runs the vehicle. Inputs (ROS callbacks, or the step of a
native host) are applied to a shared `SensorData`; each of them asks for a *turn*.
A turn (`FlightRuntime::update`) runs the health monitor, ticks the active leaf
state, chooses the next state, and produces an ordered list of effects that are
handled right after it. The owner then arms a deadline at the earliest time any
part wants to be woken. A second thread solves the tracking problem; a second
process publishes references.

| Component | State it keeps | Operations | Interacts by |
|---|---|---|---|
| Flight state machine (`P/src/uav/flight_state.cpp`) | active leaf, time of entry, command queue, signals of this turn, deferred signals | `postCommand`, `onFreshImu`, `update`, `nextWake` | effects out, signals in, shared setpoint |
| Leaf states (`P/src/uav/state_machine/`) | confirmation counters, timers, event posted | enter, tick, event, exit | shared setpoint, effects, signals |
| Health monitor (`health_monitor_state.cpp`) | last activity of inputs, alarms, age of unusable estimate, position distance | `onTick`, `onFreshImu` | signals to the same turn |
| Tracking state (`custom1_state.cpp`) | generation, request in flight, deadlines, last success, last publication | tick per backend, `nextWake` | result buffer, reference cache, effects |
| NMPC exchange (`nmpc_execution.cpp`, `nmpc_result_buffer.cpp`) | accepted request, active generation, latest result, two counters | `handle`, `store`, `consumeNewerThan`, `stop` | two threads, one mutex, a wake of the owner |
| Sensor statistics (`sensor_statistics.cpp`) | receipt times, activity flags, two periodic clocks | `observe`, `advance`, `resetNewFlags`, `nextWake` | flags in `SensorData`; one of the reasons of the owner's deadline |
| Reference runtime (`R/src/...runtime.cpp`) | pending and active reference, published result | `accept*`, `update`, `reset` | messages to and from the controller |
| Reference activation and cache (`reference_activation.h`, `active_trajectory_cache.cpp`) | active evaluator, activation asked for | `update*`, `clear`, `sample*` | shared with the solver thread |
| Planner buffer (`mpc_trajectory_buffer.h`, `trajectory_lifter.h`, `trajectory_ingress.h`) | active and pending segment | ingest, store, promote, lift | planner messages; read by the tracking state's turns |
| Controller and reference modules (`P/module`, `R/module`) | lifecycle, ports read in a step, deadline, output health, report | `configure`, `start`, `step`, `stop` | native host |
| Configuration (`controller_config.cpp`) | none: a document is read into a `ControllerConfig` | `readControllerConfig` | at creation, at `configure` |
| Consumers, solver, logging | – | – | I/O, numerics |

What is hard here: outputs are handled after the transition of the turn that
made them; edges live in the monitor and are consumed by whichever state is
active; completion events outlive the state that raised them by one turn;
requests are repeated and answered late; two threads race over one result slot
with a deadline running; a stop arrives in the middle of a solve; turns are not a
poll, so every limit somebody relies on must be among the wakes of `nextWake`, and
every wake must find something to do; a step of the native host may send several
outputs of which some fail. `PROJECT.json`
lists each of these hazards at its line, with the properties aimed at it.

## Modules

**FlightMachine** models the flight machine, its leaves and the health monitor.
An action `Turn` is one `update` (one disjunct for each active leaf); the other
actions are the inputs of `sensor_input_producer.cpp`, the expiry of a stream,
and `Pass`, the passing of a unit of time. A turn is the tick of the leaf
(`Request`, `Ascent`, `TrackingOutputs`, `LandedFrames`...), the rules of
`FlightSpec::handle` in their order, and `EndTurn`, which is the rest of
`update`: exit, entry of the next state (`FreshLeaf`, `EntrySetpoint`,
`EntryOutputs`), the commands given to a state that stays (`LatchAfter`), the
deferred signals (`Leftover`), the continuation (`MoreTurns`) and the monitor
(`HealthTick`).

| Variable | In the code |
|---|---|
| `flight`, `leaf`, `elapsed` | `state_`, the leaf's members, its entry time |
| `pending`, `imuSignals`, `deferred` | `pending_commands_`, `signals_` before a turn, `deferred_signals_` |
| `latch`, `setpoint`, `outputs` | `custom1_requested_`, `setpoint_`, `flight_effects_` |
| `wake` | the requested turn of the front end |
| `fcu`, `pose`, `apart`, `usable` | what `SensorData` holds, by the classes the handlers compare |
| `active`, `isNew` | `TopicStats::is_active`, `is_new` |
| `wasActive` ... `distance` | `SafetyState` and `PositionDistance` of the monitor |

Abstractions: an altitude is ground (below 0.1 m), low, climb (airborne), target
(within the hover tolerance) or not a number; a vertical rate still, slow or
fast; whether the 30 Hz setpoint timer is due is left open at every turn; which
backend law produced a setpoint is not distinguished, only who wrote it and
whether its acceleration saturates. Time stops counting where no comparison can
tell it further. With a rigid-body estimate, pose and health of the estimate
arrive together; otherwise position, velocity and IMU arrive each on their own.

**FlightPhases** is what the machine promises, in four phases: idle, requesting,
flying, landing. **MCFlight** holds the input sets of its runs.

**NmpcExchange** models the tracking state's NMPC mode against `NmpcExecution`
and `NmpcResultBuffer`. `Tracked` is `handleNmpcEventMode` as a composition of
its steps on the owner's view (consume, time out, wait for a reference, finish,
back up, dispatch). The worker's five steps (take, solve, store, check the generation
under the mutex, call the owner without it) and the handling of an emitted request
interleave with the owner, with inputs, with time, and with the three steps of a stop:
it closes the worker's gate, invalidates the generation, and joins. So a call may be
made after the invalidation, for a check made before it, but not after the join. `NextDue` is `nextWake`. `AsyncWorker` is not in this
repository: it holds one accepted request, refuses another while it has one or
is solving, and while it is storing either answer is possible.

**TrajectoryBuffer** holds what ingress accepts of a planner setpoint, the two slots,
their promotion (by a turn and by a receipt), the window of a segment and the gate
that a first segment starts near the hover position. **TrackingGate** is
`Custom1State` with the four other backends (dfbc in its two ways) on top of it: `PvaSmcTurn`,
`PassThroughTurn` (px4_local), `SmcTurn`, `StreamingTurn` (dfbc with planner
setpoints) and `CachedTurn` (dfbc with the cached reference) are the five `handle...`
functions, `Wakes` is `nextWake`, `Enter` and `Exit` the entry and exit. A turn comes
for an input or when owed, at most `Lateness` late. Positions are told apart only
as equal to the hover position or not; which value a control law computes is left
out, whether it has the inputs to compute one (`able`) is not. A segment may carry any
header stamp but zero: up to `Ahead` in the future and up to `Behind` in the past, so
it may come when its window has closed, or be older than the active one, which it
replaces all the same. **MCTrackingGate** names the
modes of its run.

**SensorStatistics** is `SensorStatsManager`: `Observe`, `Advance` (the two clocks, of
which each skips the periods it missed), `ResetNewFlags`. **Configuration** is
`readControllerConfig` as a function of a document, which is what its keys say by
the classes the reader tells apart (absent, not finite, non-positive, ...):
fallbacks, clamps, the two keys of the hover thrust estimate and what the backend
forces on it, and what refuses a document. **ControllerModule** composes both with
the native module: `Step` collects the ports and skips the update for samples that
need none, `Update` advances statistics and machine once, sends a burst of
effects of which any may fail, asks to be stepped again and arms the deadline;
`Start`, `Stop`, `Configure` come between steps. What the turn inside does is left
open (FlightMachine has it). `heard`, `refused` and `overdue` are history: the streams
taken since the last heartbeat, whether the last burst had a failure, and for how
long a step has been due. The host is external, as for ReferenceModule.
**MCControllerModule** has the documents of its run.

**ReferenceRuntime** is the generator's state as a value and its operations as
functions of it: `Accept`, `Fresh` (reset), `Updated` (the three states of
`reference_state.cpp` and what each publishes) and `NextWake`. Two front ends call
the same operations, each from a module of its own:

- **ReferenceNode**, the ROS node: callbacks (`OnRequest`, `OnReset`), a turn that
  was asked for (`Turn`, which is `runTurn` and `armDeadline`), the deadline
  (`OnDeadline`) and time, in any order on one spinning thread. `late` remembers
  that time has passed over a turn or deadline that was due.
- **ReferenceModule**, the module of the native host: requests wait on ports and a
  step takes all of them in the order of their stamps (`Batches`; `Consumed` is what
  they make of the runtime one after the other), advances the runtime once
  and writes its effects, each of which the host may refuse; configure, start and
  stop come between steps. The host is not in this repository: it steps the module
  for an input, at the deadline armed, or on its own account.

**ReferenceService** is what both promise, in five steps: a reference is offered,
begun, ended when its time is over, withdrawn, or time passes. A step that takes a
batch of requests and flies the last of them is one `Begin`.

**ReferenceChain** composes the node with the tracking state's side: entry
(`onEnter` clears the cache and emits a request under the number of the entry), the
activation request, and `ActiveTrajectoryCache`, which takes what arrives, in whatever
state the controller is. The two processes have a notion of validity each. The
generator refuses a request with input that is invalid or not finite; the cache also
refuses, by limits of its own, a reference that asks for too little thrust or has a
singular yaw, and its callback then returns with nothing stored, though the generator
flies that reference and publishes it again. `Refused` is the set of these: the verdict
depends on the content, so it is the same at every publication. Three topics join the two
processes; each drops its oldest message when full, and nothing orders two of
them. `taken`, `withdrawn`, `dropped` and `refused` are history: when the generator took up
what it flies, and whether since the last entry it was reset, a full queue lost a
reference, or the cache refused the answer or a later one. **MCReferenceChain** holds the requests of others in its runs.

Abstractions: a request the generator refuses changes nothing and is left out
(ReferenceModule has it as `Invalid`, one of a batch), and a reference is the number of its
acceptance, its kind, its start and its duration; what a curve or a sample
contains is data no transition depends on. A unit of time is the step of
`nextafter`, so that "just past t" is t + 1. In ReferenceChain `Prompt` means
that turns and deadlines run at their instant and a message takes at most `Delay`,
less than the period of republication (100 ms as shipped); without it only fairness
bounds either. `ChainAssumption` also says that every request lasts long enough to be published
twice. Nothing in the code makes it so, but the defaults and the shipped
configuration do, for every duration: a lead time of 0.2 s and a grace of 0.5 s are longer
than the period. Otherwise a reference could be over before an overtaken message is mended.
`OnOperator`, the requests of others,
leaves room under the bound for the activations to come: that is a limit of the
model, not of the code.

Definitions followed by a suffixed variant (`Admits`, `AdmitsAny`) carry, under
the suffix, a plausible mistake. Each checked property is shown to fail when one
of them takes the definition's place; `PROJECT.json` lists the pairs.

## Runs

| Run | Question | Bounds |
|---|---|---|
| `FlightRigid` | the whole flight on rigid-body estimates (NMPC): setpoint ownership, deferred events, disarm, touchdown, refinement of FlightPhases | one queued command, one frame for each confirmation and two to settle, limits of one unit, positions near and far |
| `FlightLocal` | px4_local: saturation between turns, the remembered request, alarms that rise and clear, no initial disarm | as above, three poses |
| `FlightLive` | nothing lost or unusable is consumed by a state that flies on; a take-off ends; a lasting unusable estimate ends the flight | two poses, estimates usable or not; fairness below |
| `FlightLand` | a queued Land is honoured without further input | two commands queued, one taken a turn |
| `NmpcOwner` | no result is misattributed, lost, unseen or stale; what may happen after each step of a stop; the longest silence of the tracking state with a solver that may never answer; the wakes never make the owner spin | prompt turns, six units, two entries |
| `NmpcPolicy` | *fails*: attitude rates are sent again up to two result timeouts after the state they were solved for | |
| `ReferencePorts` | the native module: every request of a batch is accepted or refused in its turn and the last one flies, its report tells its state, it implements ReferenceService | three requests, late and out of order, five units |
| `ReferenceHealth` | *fails*: the health reported tells whether the last step wrote all its outputs | |
| `ReferenceReentry` | a reference of an earlier entry is flown only for as long as the new request, its answer and one republication take; the cache comes to hold what the generator flies and it takes. The node alone: no accepted reference is lost, it always has a reason to wake, never spins, keeps its periods and ends, implements ReferenceService | prompt turns, messages of up to one unit, two entries, two requests of others, endless or finite, already begun or to come, the second reference one that the cache refuses (the request of an entry or of others), nine units |
| `ReferenceAnswer` | a tracking state that stays comes to hold the reference it asked for, or a later one, unless the cache refuses it | turns and messages arbitrarily late, queues of one that drop, two entries, the second reference refused |
| `ModuleSteps` | a lost stream is noticed by the heartbeat; the module always has a reason to wake; its health tells whether the last burst was written; a document that is accepted gives limits in order | half a second a unit, five units, ports of depth one, two streams, a host late by one, documents of each kind of mistake |
| `TrackingGate` | nothing is flown before its time or lost at its boundary; a held position stays, also through turns in which the strategy has not begun; a stale command is replaced; setpoints keep coming; no wake is idle | seven modes, two positions (symmetric), units two to six, one entry, a window of one unit, segments stamped one ahead to one late, turns late by one |

`OutputGap` presumes a solve timeout below the result timeout, as every shipped
configuration has (0.03 s and 0.1 s) and none is made to have. With equal values an
answer may come in time and be stale, and is dropped in silence again and again.

The NMPC feedback of `MAVROS_LOCAL` (position, velocity and IMU apart) and readings
that are not numbers have no run of their own: the theorems below cover every
backend and source, and every pose, for the safety properties.

The bounds keep every distinction the code makes: each counter reaches its
threshold and can be reset before it, each limit can be met and exceeded, each
queue can be full, a stream can be lost and come back in every state, and an
entry of tracking can be left and made again with the old solve still running.
A reference is published at least twice before it ends, is replaced before and
after each publication, and is over before, at and after the turn that takes it up.
Larger counts repeat the same comparisons. The window of a segment is left between
two periods, at a period and late; a stream is lost between two heartbeats and at
one, and a step may come late to either.

The stop of a service is final in `NmpcExchange` (both front ends build a new one
to start again), so its runs allow a final state. The runs of the generator end
where their time and their requests are used up. The flight machine never stops.

### Fairness

`Spec` of FlightMachine assumes weak fairness of `Turn`: both front ends keep a
requested turn until it has run (`requestTurn`, and the host's continuation).
`TimedSpec` adds that time passes, since the owner arms a deadline for every limit
the properties rely on. Nothing is assumed of any input. `FairSpec` of
NmpcOwner assumes the same of turns and of the handling of outputs, and nothing of
the solver. It adds the parity of the turns run, so that a turn that changes
nothing is a step all the same and an owner that spins is a behaviour; that a free
owner that was woken runs is stated directly (`OwnerRuns`).

`FairChainSpec` of ReferenceChain assumes that the generator runs its callbacks and
its turns and that a message under way arrives: the spinners of both processes
take what is queued. Nothing is assumed of the operator, of resets, of whether
tracking is entered or left, or of time: a full queue drops a message only for a
later one, so `ReferenceComes` does not rest on republication.

### Findings

`custom1_state.cpp:526` says of the result that "the buffer and actual output
consumer use the same timestamp policy". The output consumer has none, and when a
solve fails within `result_timeout` of the moment the last success was *taken*,
its target is sent once more: `NmpcPolicy` shows one sent when older than
`result_timeout`; `AttitudeIsRecent` shows that twice that is the limit.

`reference_module.cpp:353` says the report tells "whether the last step wrote all
its outputs". The loop at line 216 overwrites its flag with each write, so a
refused status before a reference that is written is reported as OK
(`ReferenceHealth`); the comment at line 213 says of the same flag that it follows
each write, which is what the code does.

Not contradictions of anything written, but worth knowing. `pva_smc` neither asks
whether the window of a segment is open nor whether it starts near the vehicle, as
the other backends do, and stays silent until a segment and a position and velocity
pair have come (`custom1_state.cpp:220`; hence `SetpointsKeepComing` leaves it out). There is one
pending slot: of two segments sent ahead of time the later replaces the nearer. Ingress
never compares stamps: a segment stamped late replaces a younger one that is active, and
one stamped before its own window is accepted and never flown. A held position is
given up for some turns without the hold having ended: when a segment may be flown and
the strategy has not begun, as it lacks inputs, the command is a hover at the pose of
the moment, and the frozen position is commanded again afterwards
(`custom1_state.cpp:317`, `481`; hence the exception in `HeldIsFrozen`).
A reference the
generator publishes between an entry of the tracking state and the arrival of its
request is taken by the cache just cleared, and flown. `StaleIsBrief` says for how
long. On one topic the answer follows it; on two the answer may even overtake it, and then
it takes a republication to mend. The bound (a period, an instant and three delays)
was first written with two: trying to prove it showed that the request, what was sent
before it was answered, and the republication each take their delay.
When requests come faster than the queues are emptied there is no bound, and none when
the cache refuses the answer and all that follows it: the generator then reports the
reference as accepted and flies it, and the controller flies the stale one to its end.
Without `~refused`, `StaleIsBrief` fails, and without `CacheTakes` so does `CacheFollows`.
Both say what is left of them: `CacheFollows` holds again with the first reference that
both take, whatever was refused before.

## Proofs

`FlightMachineProofs` proves, for every backend, feedback source, threshold,
limit, queue size and set of inputs that `ConfigAssumption` and
`InputAssumption` allow, all the safety properties of FlightMachine and its
refinement of FlightPhases. The assumptions say that the backend and the
feedback source are among those the parser accepts, that the confirmation counts and
queue sizes are positive and the limits not negative (constants of the source), and
that inputs have their types.

The argument has three layers.

1. *A turn is a choice followed by the rest of update.* `Successors` is the state
   graph of `FlightSpec::handle`. `Choice` says what a tick may do, whichever leaf
   is active: where it may go, which events it may raise, that it writes no other
   state's setpoint, that it flies on only if nothing preempted it; `MotorChoice`
   says who asks for the motors and on what evidence. One lemma for each leaf
   (`StagesChoose` ... `LandingChooses`) shows that its tick makes such a choice,
   and `TurnChooses` joins them. Everything below uses only `Choice` and `EndTurn`.
2. *Inductive invariants.* `TypeOK` comes first (`TypeCorrect`). `TurnInv` adds
   the six invariants a turn preserves by the way it chooses; the one that is not
   a property of a run, `SaturatedOnlyTracked`, is needed since an IMU report
   judges the setpoint of whichever turn came before it. `MotorInv` strengthens the
   motor properties: a count is read in a later turn than the one that made it, so
   `CountedOnGround` and `CountedArmed` say that what was counted still tells the
   last report, until a new report comes (`ReportsAreNew`). Thresholds are positive,
   hence a count that suffices is evidence (`EnoughIsSome`). `FlownNearby` carries
   the position distance from the turn that begins a take-off.
3. *Consequences.* The invariants, the action properties `TouchdownIsConfirmed`
   and `NoticedAlarmLands`, and the step-by-step simulation of FlightPhases
   (`InitRefines`, `BetweenTurnsRefines`, `TurnRefines`).

Two more theorems prove the steps behind liveness properties, so that only fairness is
left to the runs. `LandIsServed`: a Land command accepted in flight keeps a turn asked
for and moves up `BatchLimit` places with each (`TurnServesLand`), and nothing posted
later overtakes it (`InputsKeepOrder`). `TakeoffGoesOn`: the stages of a take-off are
left forward only, and by the first turn past their limit; the ascent leaves with the
event it posts (`AscentUndecided`), so a time-out is not swallowed.

`ReferenceNodeProofs` proves every property of ReferenceNode for every period
(positive), lead time, grace, duration, start and bound that `RatesAssumption` and
`NodeAssumption` allow, and that the node implements ReferenceService.

1. *Operations.* In `ReferenceRuntimeProofs`, which both front ends use, one lemma for
   each function of the runtime says what it returns (`WaitingIsRuntime`,
   `UpdatedFacts`, `EffectsFacts`, `NextWakeFacts`, `StatusIsTold`).
   `TurnFacts` and `RequestFacts` say it of the two actions that use them. Nothing
   below expands the runtime.
2. *Inductive invariant.* `AcceptedIsFlown` needs that a waiting reference is the
   latest and has a turn (`Held`), and `EndsInTime` that, while the node is prompt,
   it starts no sooner than now: `Accept` moves every start past the receipt.
   `PublishedInTime` and `EndsInTime` are both consequences of `WakeIsArmed` when
   time passes: prompt time cannot pass a deadline, nor the deadline the wake, nor
   the wake the publication or the end (`PromptTick`).
3. *Consequences.* `RestStep` bounds the wake from the other side: just after a
   turn only an end already past can be due, and a turn leaves such a reference
   active only if it has just taken it up. `StepKeeps` maps each action to a step
   of the promise.

`ReferenceModuleProofs` proves the invariants of ReferenceModule and that it implements
the same ReferenceService, for batches of any length, late and in any order, any
refusal of outputs, and starts, stops and configurations between any two steps.

1. *A batch.* What a batch makes of the runtime is a recursive function of it, so
   first a run of that function is shown to exist and to be what the step uses
   (`RunExists`, `ConsumedIsRun`). Then partway through the batch (`Partway`) all is
   as before, or started over, or the last reference accepted waits for the update that
   is sure to come: `TakenStaysPartway` for one request more, and
   `ConsumedIsPartway` for the whole batch, since a first request after which it
   were not so has one before it (`LeastNumber`).
2. *A step.* `StepFacts` says of the handler that it changes nothing, or updates a runtime
   as it was, fresh, or with a new reference. `ModuleInv` is the checked invariants and the
   types, with two additions: the ports hold finitely many requests, and an
   active runtime has a reference. The status is true since an update tells of every state it comes to
   (`StatusIsTold`) and otherwise the state is the one told before.
3. *Refinement.* A step begins the last reference of its batch, withdraws, ends what is
   over, or is a stutter (`AdvanceKeeps`).

`ReferenceChainProofs` first shows that the generator in the chain is the node
(`ChainRunsNode`), so that all of the above holds of it, and then the two bounds
between the processes, for every delay below the period, queue size, duration and
requests that `ChainAssumption` allows, and any number of entries. The parts of
`ChainInv` follow a reference on its way: the request of an entry is under way until
it is answered (`Asked`, `Underway`); its answer waits and is taken up at the same instant (`Waiting`,
`Replied`); what was sent since then carries it (`Flown`); and the first publication at
which nothing older is under way reaches the cache, if the cache takes it (`Following` for
`CacheFollows`: by then no other can arrive, so one refusal would be a refusal of all). `Brief`
adds for `StaleIsBrief` that once the answer is flown it is about to be published again, or everything
under way is at least as new and one of it arrives in time; the first to arrive is taken
unless it is refused, which `refused` remembers.

`NmpcExchangeProofs` proves the safety of NmpcExchange for every period, timeout and
bound, and for turns as late as they may be: a result is attributed to the entry that
asked for it, is not lost and not left unseen, rates are recent, and a stop ends in silence
(each of its three steps with the worker at any of its five).

1. *Stages.* `Tracked` composes the steps of one tick on the owner's view. Each
   stage keeps the view `Sound` (what is published was solved for this entry and is
   recent), and either `Follows` the one before it, asking for nothing, or `Asks` for
   one solve. `TrackedFacts` says so of the whole tick.
2. *Inductive invariant.* `IInv` adds that what is on its way was asked for
   (`Numbered`), that the entry flown has the active generation while the service runs
   (`Current`), that the request waited for is the last one made, under a number of
   this entry wherever it is found (`Awaited`), and that an answer in the buffer is
   seen (`Seen`).

Its second half proves the longest silence, `OutputGap`. A stage that
ends a wait gives a command (`Speaks`): an answer waited for is still fresh since
the result timeout is the longer one, and giving up is said. So a request was made in
time, is not waited for past its deadline, and after it the next is not overdue
(`InTime`), as long as time stops for a turn that was asked for (`Ahead`), and what
carries a request is as old as the wait (`Dated`). Without prompt turns nothing is
claimed.

`TurnsAreSpent` is the step behind `TimeIsNotStarved`, and holds for late turns too: a
tick that has not finished leaves every timer of the state in the future
(`TrackedSpends`), so a turn asks for the next at once only when it leaves.

`ControllerModuleProofs` proves every property of ControllerModule for every set of
streams, period, lateness, document and built-in profile. A document is any function
from the keys to what the reader tells apart, so `ConfigurationIsSound` holds of every
file there is, not only of the mistakes the run lists. `IInv` holds the types, that
the configuration is one that was accepted (`Accepted`), the report (`Told`), the
reason to wake (`NeverSleeps`), that the next heartbeat is near (`BeatIsNear`) and that
a stream counts as active for a reason (`Tracked`).

`TrackingGateProofs` proves every property of TrackingGate for every configuration,
period, window, lateness and planner, with any number of entries. One lemma for each
of the five turns says what it leaves (`TurnDone`): a wake in the future, a command
within the longer period, a hold only where there is one. Then `IInv`: positions are
held by two backends only (`HeldByFew`), what is active has begun (`Began`), and a turn is owed, or will be, before the
next command is (`Commanding`) and before the window of the segment that smc flies
closes (`Flying`). It is needed that a configuration's publish period is no longer than
the time at which the controller starts (`GateAssumption`): time 0 is the code's
"never", and a first command compared with it is due.

A few things are only proved, since no run has them: `TypeOK` of each module,
`LatchOnlyWhileWaiting`, the steps behind the liveness properties (`LandDrawsNear`,
`StagesAreLeft`, and `TurnIsSpent` of the NMPC), and everything said of late turns for the
NMPC and the node, whose runs have prompt ones.

Only model-checked: the liveness properties (`TakeoffEnds`, `UnusableLands`,
`LandIsHonoured`, `TimeIsNotStarved`, `ReferenceComes`), since fairness is out of the
prover's reach (of three of them the steps are proved, see above); and the two statements that fail. Every invariant and action property
that a run checks is also proved.

## What is not modelled

The continuous control laws, the solver and its generated code, the hover thrust
estimator, the lifting of trajectories, unit and frame conversions, message formatting,
logging and debug topics: none of them has control states of its own that the others
depend on, or they are numerics out of reach of a finite instance. The generated solver
code (`generated/nmpc/`) alone is about half of the lines of the implementation: it is
straight-line arithmetic that the models know by its outcome, success or failure.
What YAML and JSON parsing does to a file is left to their libraries; what the reader
makes of the result is Configuration.

## Plan

1. Done: FlightMachine, FlightPhases, NmpcExchange and their runs; their proofs.
2. Done: ReferenceRuntime, ReferenceNode, ReferenceModule, ReferenceService and
   their runs; the proofs of ReferenceNode.
3. Done: ReferenceChain, entry of tracking, activation and cache over unordered
   topics.
4. Done: TrajectoryBuffer and TrackingGate, with the proofs of TrackingGate.
5. Done: SensorStatistics, Configuration, ControllerModule and their proofs.
6. Done: the proofs of ReferenceModule and of ReferenceChain.
7. Left: the turns of FlightMachine inside ControllerModule, which leaves them open.

New questions should first be asked of a run that exists, with one more property or
a wider input set: the runs of FlightMachine already take minutes.
