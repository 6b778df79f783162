---------------------------- MODULE FlightMachine ----------------------------
(***************************************************************************)
(* The flight state machine of px4_multirotor_controller: FlightRuntime    *)
(* with its nine leaf states, the health monitor that runs before them and *)
(* the sensor readings they look at.                                       *)
(*                                                                         *)
(* One owner thread runs a turn (FlightRuntime::update) when something     *)
(* asks for one.  Between turns, inputs are applied to the sensor data,    *)
(* commands are queued, receive statistics expire and time passes.  What a *)
(* turn emits (outputs) is handled right after it, so the next step of any *)
(* kind finds it empty.                                                    *)
(*                                                                         *)
(* Data is reduced to what the handlers compare: an altitude is one of     *)
(* five classes, a vertical rate one of three, a position distance is      *)
(* unknown, near or far; the eleven safety signals are the name of what    *)
(* raised them, since every state that hears one lands.                    *)
(*                                                                         *)
(* A definition may be preceded by variants of itself, under its name and  *)
(* a suffix: mistakes that a property of the module is there to catch.     *)
(* Nothing else uses them.                                                 *)
(***************************************************************************)
EXTENDS Integers, SequencesExt

CONSTANTS
  Backend,           \* ControllerConfig::tracking_backend
  FeedbackSource,    \* SensorData::feedback_source
  PlannerReference,  \* DFBC follows planner setpoints, not the reference cache
  SkipInitDisarm,    \* skip_takeoff_init_disarm
  AltctlFrames, OffboardFrames, ArmFrames, SettledFrames,  \* confirmations
  RequestInterval,   \* age at which a mode or arm request is repeated
  StageTimeout,      \* 10 s limit of the three request stages
  AscendingTimeout,  \* ASCENDING_TIMEOUT
  TripDelay,         \* state_estimate_unusable_trip_delay
  BatchLimit,        \* commands taken by one turn (64)
  PendingCapacity,   \* commands that may wait (4096)
  \* the inputs considered
  CommandInputs, Delivered, FcuReports, PoseReports, GapReports, UsableReports

TrackingBackends == {"PX4_LOCAL", "PVA_SMC", "SMC", "DFBC", "NMPC"}
FeedbackSources == {"RIGID_ESTIMATE", "MAVROS_LOCAL"}

ASSUME ConfigAssumption ==
  /\ Backend \in TrackingBackends
  /\ FeedbackSource \in FeedbackSources
  /\ PlannerReference \in BOOLEAN
  /\ SkipInitDisarm \in BOOLEAN
  /\ {AltctlFrames, OffboardFrames, ArmFrames, SettledFrames,
      BatchLimit, PendingCapacity} \subseteq Nat \ {0}
  /\ {RequestInterval, StageTimeout, AscendingTimeout, TripDelay} \subseteq Nat

Commands  == {"Takeoff", "Land", "Hover", "Track"}
Streams   == {"Estimate", "LocalPosition", "LocalVelocity", "Imu", "FcuState",
              "Canonical"}
Modes     == {"ALTCTL", "OFFBOARD", "OTHER"}
Heights   == {"ground", "low", "climb", "target", "invalid"}
Rates     == {"still", "slow", "fast"}
Alarms    == {"Geofence", "VelocityXY", "VelocityZ"}
Distances == {"unknown", "near", "far"}
FcuStates  == [mode : Modes, armed : BOOLEAN, connected : BOOLEAN]
WorldPoses == [height : Heights, rate : Rates, alarms : SUBSET Alarms]

ASSUME InputAssumption ==
  /\ CommandInputs \subseteq Commands
  /\ Delivered \subseteq Streams
  /\ FcuReports \subseteq FcuStates
  /\ PoseReports \subseteq WorldPoses
  /\ GapReports \subseteq Distances
  /\ UsableReports \subseteq BOOLEAN

VARIABLES
  flight,      \* the active leaf of the state variant
  leaf,        \* its own data: counter, event posted, disarm asked, timer age
  elapsed,     \* time since entry, kept while a time limit looks at it
  pending,     \* pending_commands_
  imuSignals,  \* signals_ gathered between turns by onFreshImu
  deferred,    \* deferred_signals_
  latch,       \* DroneController::custom1_requested_
  setpoint,    \* DroneController::setpoint_: who wrote it, which axes saturate
  outputs,     \* flight_effects_ of the turn that just ran
  wake,        \* a turn has been asked for
  fcu,         \* last FCU state report
  pose,        \* last world pose: altitude class, vertical rate, alarms
  apart,       \* distance class of the last canonical and local positions
  usable,      \* the estimator's state and flags, or the inertial data, are good
  active,      \* watched streams whose is_active flag is set
  isNew,       \* streams whose is_new flag is set
  wasActive, alarmed, unusableAge, tripped,  \* SafetyState of the monitor
  received, distance                         \* its position distance

readings == <<fcu, pose, apart, usable>>
monitor  == <<wasActive, alarmed, unusableAge, tripped, received, distance>>
machine  == <<flight, leaf, elapsed, deferred, latch, setpoint>>
vars == <<machine, pending, imuSignals, outputs, wake,
          readings, active, isNew, monitor>>
-----------------------------------------------------------------------------
FlightStates == {"SelfCheck", "Ready", "TakeoffInit", "TakeoffOffboardRequest",
                 "TakeoffArmRequest", "TakeoffAscending", "Hover", "Custom1",
                 "Landing"}
RequestStages == {"TakeoffInit", "TakeoffOffboardRequest", "TakeoffArmRequest"}
TakeoffStages == RequestStages \cup {"TakeoffAscending"}
NormalStates  == FlightStates \ {"SelfCheck", "Landing"}

Saturations    == {"SaturationXY", "SaturationZ"}
ControlSignals == {"AltctlReady", "OffboardReady", "ArmReady", "AltitudeReached",
                   "TakeoffTimeout", "ReferenceFinished", "Touchdown"}
Effects == {"Setpoint", "Attitude", "Activation", "Arm", "Disarm",
            "RequestALTCTL", "RequestOFFBOARD"}
NoAge == -1

Least(a, b) == IF a < b THEN a ELSE b

(* trackingUsesFusedEstimate, and which streams carry the world pose.      *)
Fused == Backend \in {"NMPC", "DFBC"}
Rigid == Fused /\ FeedbackSource = "RIGID_ESTIMATE"
LocalFeedback == {"LocalPosition", "LocalVelocity", "Imu"}
ControlStreams == IF FeedbackSource = "RIGID_ESTIMATE" THEN {"Estimate"}
                                                      ELSE LocalFeedback
PoseStreams == IF Fused THEN ControlStreams ELSE {"LocalPosition"}

(* sensor_checks.h over the current readings; the streams whose activity   *)
(* it or the health monitor reads.                                         *)
Watched == {"FcuState"} \cup (IF Fused THEN ControlStreams ELSE LocalFeedback)
DataUsable == usable /\ (Rigid \/ pose.height # "invalid")
ControlStateActive == ControlStreams \subseteq active
SensorsReadyNoFcu == IF Fused THEN ControlStateActive /\ DataUsable
                              ELSE LocalFeedback \subseteq active
SensorsReadyNoData == {"FcuState"} \cup ControlStreams \subseteq active
SensorsReady ==
  /\ "FcuState" \in active
  /\ IF Fused THEN ControlStateActive /\ DataUsable ELSE LocalFeedback \subseteq active
WorldPoseNew == PoseStreams \cap isNew # {}
Airborne == fcu.armed /\ pose.height \in {"climb", "target"}
FcuNew == "FcuState" \in isNew
-----------------------------------------------------------------------------
(* HealthMonitorState::onTick.  A time-out signal is named by its stream.  *)
Monitored == {"FcuState"} \cup (IF Fused THEN ControlStreams ELSE {})
Lost  == Monitored \cap (wasActive \ active)
Risen == IF WorldPoseNew THEN pose.alarms \ alarmed ELSE {}
ControlUnusable == Fused /\ ControlStateActive /\ ~DataUsable
NextUnusableAgeRestarts == IF ControlUnusable THEN 0 ELSE NoAge
NextUnusableAge == IF ~ControlUnusable THEN NoAge
                   ELSE IF unusableAge = NoAge THEN 0 ELSE unusableAge
Trips == ControlUnusable /\ NextUnusableAge >= TripDelay
HealthSignals ==
  Lost \cup Risen \cup (IF Trips /\ ~tripped THEN {"EstimateUnusable"} ELSE {})
SafetySignals == Monitored \cup Alarms \cup Saturations \cup {"EstimateUnusable"}

HeardPoses == received \cup (isNew \cap {"Canonical", "LocalPosition"})
Distance ==
  IF /\ isNew \cap {"Canonical", "LocalPosition"} # {}
     /\ HeardPoses = {"Canonical", "LocalPosition"}
  THEN apart ELSE distance

HealthTick ==
  /\ wasActive' = Monitored \cap active
  /\ alarmed' = IF WorldPoseNew THEN pose.alarms ELSE alarmed
  /\ unusableAge' = NextUnusableAge
  /\ tripped' = Trips
  /\ received' = HeardPoses
  /\ distance' = Distance
-----------------------------------------------------------------------------
(* The commands one turn takes, and the first rules of every Normal state. *)
Batch == Least(BatchLimit, Len(pending))
Taken == {pending[i] : i \in 1 .. Batch}
Backlog == SubSeq(pending, Batch + 1, Len(pending))

NormalPreemptsCommandsFirst ==
  \/ Taken = {} /\ (imuSignals \cup deferred \cup HealthSignals) \cap SafetySignals # {}
  \/ "Land" \in Taken
NormalPreempts ==
  \/ (imuSignals \cup deferred \cup HealthSignals) \cap SafetySignals # {}
  \/ "Land" \in Taken
FarPreempts == NormalPreempts \/ Distance = "far"

Heard(signal, control) == signal \in deferred \cup control

FreshLeaf(state) ==
  [frames |-> IF state = "TakeoffInit" /\ SkipInitDisarm THEN AltctlFrames ELSE 0,
   posted |-> FALSE, asked |-> FALSE, age |-> 0]

(* What onEnter writes into the shared setpoint and emits.                 *)
Written(owner) == [owner |-> owner, saturated |-> {}]
EntrySetpointNoLanding(state, before) ==
  IF state \in {"TakeoffInit", "Hover"} THEN Written(state) ELSE before
EntrySetpointNoHover(state, before) ==
  IF state \in {"TakeoffInit", "Landing"} THEN Written(state) ELSE before
EntrySetpoint(state, before) ==
  IF state \in {"TakeoffInit", "Hover", "Landing"} THEN Written(state) ELSE before
AsksReference == Backend = "NMPC" \/ (Backend = "DFBC" /\ ~PlannerReference)
EntryOutputsAlwaysDisarm(state) ==
  CASE state = "Ready" -> <<"Disarm">>
    [] state \in {"SelfCheck", "Custom1"} -> <<>>
    [] OTHER -> <<"Setpoint">>
EntryOutputsSilent(state) ==
  IF state \in {"Ready", "TakeoffInit"} /\ ~Airborne THEN <<"Disarm">> ELSE <<>>
EntryOutputs(state) ==
  CASE state = "Ready" -> IF Airborne THEN <<>> ELSE <<"Disarm">>
    [] state = "TakeoffInit" ->
         IF SkipInitDisarm THEN <<"Setpoint">> ELSE <<"Setpoint", "Disarm">>
    [] state = "Custom1" -> IF AsksReference THEN <<"Activation">> ELSE <<>>
    [] state = "SelfCheck" -> <<>>
    [] OTHER -> <<"Setpoint">>

(* Commands that reach a state which stays; only Track has an effect.      *)
LatchAfter(to) ==
  CASE to \in {"Custom1", "Landing"} -> FALSE
    [] to = flight /\ to \in {"Hover", "TakeoffAscending"} -> latch \/ "Track" \in Taken
    [] OTHER -> latch

(* The control events kept for the next turn: those this turn raised and   *)
(* did not choose by.  An earlier copy of the same event is chosen first.  *)
LeftoverKept(control, by) == (deferred \cup control) \ {by}
Leftover(control, by) == IF by \in deferred THEN control ELSE control \ {by}

(* What update returns: the owner runs another turn without an input.      *)
MoreTurnsNoBacklog(moves, left) == moves \/ left # {}
MoreTurns(moves, left) == moves \/ Backlog # <<>> \/ left # {}

(* The rest of FlightRuntime::update once the leaf has ticked (tick, with  *)
(* its events in control, its outputs in out, the setpoint it left in sp)  *)
(* and FlightChoose has named the next state, and the event it chose by.   *)
EndTurn(to, by, control, tick, out, sp) ==
  LET moves == to # flight IN
  /\ flight' = to
  /\ leaf' = IF moves THEN FreshLeaf(to) ELSE tick
  /\ elapsed' = IF moves THEN 0 ELSE elapsed
  /\ setpoint' = IF moves THEN EntrySetpoint(to, sp) ELSE sp
  /\ outputs' = IF moves THEN out \o EntryOutputs(to) ELSE out
  /\ latch' = LatchAfter(to)
  /\ deferred' = Leftover(control, by)
  /\ pending' = Backlog
  /\ imuSignals' = {}
  /\ isNew' = {}
  /\ wake' = MoreTurns(moves, Leftover(control, by))
  /\ HealthTick
  /\ UNCHANGED <<readings, active>>

IfDue(due, effect) == IF due THEN <<effect>> ELSE <<>>
-----------------------------------------------------------------------------
SelfCheckTurn ==
  /\ flight = "SelfCheck"
  /\ \/ SensorsReady  /\ EndTurn("Ready", "none", {}, leaf, <<>>, setpoint)
     \/ ~SensorsReady /\ EndTurn("SelfCheck", "none", {}, leaf, <<>>, setpoint)

TakesOff == "Takeoff" \in Taken /\ Distance = "near"

ReadyTurn ==
  LET Go(to) == EndTurn(to, "none", {}, leaf, <<>>, setpoint) IN
  /\ flight = "Ready"
  /\ \/ (NormalPreempts \/ Airborne) /\ Go("Landing")
     \/ ~NormalPreempts /\ ~Airborne
        /\ \/ TakesOff /\ Go("TakeoffInit")
           \/ ~TakesOff /\ ~SensorsReady /\ Go("SelfCheck")
           \/ ~TakesOff /\ SensorsReady  /\ Go("Ready")

(* A request stage counts fresh FCU reports that show what it asked for,   *)
(* starts over on one that does not, and posts its event once.             *)
Confirmed(seen, needed) ==
  IF ~FcuNew THEN leaf.frames
  ELSE IF seen THEN Least(leaf.frames + 1, needed) ELSE 0

(* publish: the 30 Hz setpoint timer is due at this turn.                  *)
Request(publish, frames, needed, event, effect) ==
  LET asks  == effect # "none" /\ leaf.age >= RequestInterval
      posts == ~leaf.posted /\ frames >= needed
  IN [control |-> IF posts THEN {event} ELSE {},
      leaf |-> [leaf EXCEPT !.frames = frames, !.posted = @ \/ posts,
                            !.age = IF asks THEN 0 ELSE @],
      out |-> IfDue(publish, "Setpoint") \o IfDue(asks, effect)]

InitRequest(publish) ==
  Request(publish,
          IF SkipInitDisarm THEN leaf.frames
                            ELSE Confirmed(fcu.mode = "ALTCTL", AltctlFrames),
          AltctlFrames, "AltctlReady",
          IF SkipInitDisarm THEN "none" ELSE "RequestALTCTL")
OffboardRequest(publish) ==
  Request(publish, Confirmed(fcu.mode = "OFFBOARD", OffboardFrames),
          OffboardFrames, "OffboardReady", "RequestOFFBOARD")
ArmRequest(publish) ==
  Request(publish, Confirmed(fcu.armed, ArmFrames), ArmFrames, "ArmReady", "Arm")

StageLateSinceRequest == leaf.age > StageTimeout
StageLate == elapsed > StageTimeout

(* The rules the three stages share: land, give up when the vehicle is     *)
(* found armed before it was asked, go on, or land when time is up.        *)
StageTurn(tick, event, next, refusesArmed) ==
  LET Go(to, by) == EndTurn(to, by, tick.control, tick.leaf, tick.out, setpoint)
      backsOut == refusesArmed /\ fcu.armed
      done == Heard(event, tick.control)
  IN \/ FarPreempts /\ Go("Landing", "none")
     \/ ~FarPreempts /\ backsOut /\ Go("Ready", "none")
     \/ ~FarPreempts /\ ~backsOut /\ done /\ Go(next, event)
     \/ ~FarPreempts /\ ~backsOut /\ ~done /\ StageLate /\ Go("Landing", "none")
     \/ ~FarPreempts /\ ~backsOut /\ ~done /\ ~StageLate /\ Go(flight, "none")

TakeoffInitTurn ==
  /\ flight = "TakeoffInit"
  /\ \E publish \in BOOLEAN :
       StageTurn(InitRequest(publish), "AltctlReady", "TakeoffOffboardRequest", TRUE)

TakeoffOffboardRequestTurn ==
  /\ flight = "TakeoffOffboardRequest"
  /\ \E publish \in BOOLEAN :
       StageTurn(OffboardRequest(publish), "OffboardReady", "TakeoffArmRequest", TRUE)

TakeoffArmRequestTurn ==
  /\ flight = "TakeoffArmRequest"
  /\ \E publish \in BOOLEAN :
       StageTurn(ArmRequest(publish), "ArmReady", "TakeoffAscending", FALSE)

(* custom1ReferenceReady: only px4_local waits for a planner sample.       *)
ReferenceReady == IF Backend = "PX4_LOCAL" THEN BOOLEAN ELSE {TRUE}

(* posted stands for the event this entry has posted, the time-out or the  *)
(* altitude; either one ends the confirmation, and either one leaves.      *)
Ascent(publish) ==
  LET late == elapsed > AscendingTimeout
      settled == pose.height = "target" /\ pose.rate = "still"
      frames == IF late \/ leaf.posted \/ ~WorldPoseNew THEN leaf.frames
                ELSE IF settled THEN Least(leaf.frames + 1, SettledFrames) ELSE 0
      control == IF leaf.posted THEN {}
                 ELSE IF late THEN {"TakeoffTimeout"}
                 ELSE IF frames >= SettledFrames THEN {"AltitudeReached"} ELSE {}
  IN [control |-> control, out |-> IfDue(publish, "Setpoint"),
      leaf |-> [leaf EXCEPT !.frames = frames, !.posted = @ \/ control # {}]]

TakeoffAscendingTurn ==
  /\ flight = "TakeoffAscending"
  /\ \E publish \in BOOLEAN, ready \in ReferenceReady :
       LET tick == Ascent(publish)
           Go(to, by) == EndTurn(to, by, tick.control, tick.leaf, tick.out, setpoint)
           hovers  == "Hover" \in Taken
           tracks  == "Track" \in Taken /\ ready
           reached == Heard("AltitudeReached", tick.control)
           late    == Heard("TakeoffTimeout", tick.control)
           stays   == ~FarPreempts /\ ~hovers /\ ~tracks
       IN \/ FarPreempts /\ Go("Landing", "none")
          \/ ~FarPreempts /\ hovers /\ Go("Hover", "none")
          \/ ~FarPreempts /\ ~hovers /\ tracks /\ Go("Custom1", "none")
          \/ stays /\ reached /\ Go("Hover", "AltitudeReached")
          \/ stays /\ ~reached /\ late /\ Go("Landing", "TakeoffTimeout")
          \/ stays /\ ~reached /\ ~late /\ latch /\ ready /\ Go("Custom1", "none")
          \/ stays /\ ~reached /\ ~late /\ ~(latch /\ ready) /\ Go(flight, "none")

HoverTurn ==
  /\ flight = "Hover"
  /\ \E publish \in BOOLEAN, ready \in ReferenceReady :
       LET Go(to) == EndTurn(to, "none", {}, leaf, IfDue(publish, "Setpoint"), setpoint)
           tracks == ("Track" \in Taken \/ latch) /\ ready
       IN \/ FarPreempts /\ Go("Landing")
          \/ ~FarPreempts /\ tracks /\ Go("Custom1")
          \/ ~FarPreempts /\ ~tracks /\ Go("Hover")

(* The tracking tick, by what it leaves behind.  A setpoint it publishes   *)
(* is its own; only the pass-through hands on the planner's acceleration.  *)
(* A finished reference is posted once an entry, with a hover setpoint.    *)
Finishes == IF AsksReference /\ ~leaf.posted THEN BOOLEAN ELSE {FALSE}
TrackingOutputs(finishes) ==
  IF finishes THEN {<<"Setpoint">>, <<"Attitude", "Setpoint">>}
  ELSE {<<>>, <<"Setpoint">>} \cup (IF Fused THEN {<<"Attitude">>} ELSE {})
TrackingSetpoints(finishes, out) ==
  IF "Setpoint" \notin ToSet(out) THEN {setpoint}
  ELSE IF finishes \/ Backend # "PX4_LOCAL" THEN {Written("Custom1")}
  ELSE [owner : {"Custom1"}, saturated : SUBSET Saturations]

Custom1Turn ==
  /\ flight = "Custom1"
  /\ \E finishes \in Finishes :
     \E out \in TrackingOutputs(finishes) :
     \E sp \in TrackingSetpoints(finishes, out) :
       LET control == IF finishes THEN {"ReferenceFinished"} ELSE {}
           tick == [leaf EXCEPT !.posted = @ \/ finishes]
           Go(to, by) == EndTurn(to, by, control, tick, out, sp)
           hovers == "Hover" \in Taken
           finished == Heard("ReferenceFinished", control)
       IN \/ FarPreempts /\ Go("Landing", "none")
          \/ ~FarPreempts /\ hovers /\ Go("Hover", "none")
          \/ ~FarPreempts /\ ~hovers /\ finished /\ Go("Hover", "ReferenceFinished")
          \/ ~FarPreempts /\ ~hovers /\ ~finished /\ Go("Custom1", "none")

(* LandingState::onTick: count settled frames on live feedback, then       *)
(* finish on a fresh disarmed report, or ask once for a disarm.            *)
FeedbackActive ==
  /\ IF Fused THEN ControlStateActive
              ELSE {"LocalPosition", "LocalVelocity"} \subseteq active
  /\ pose.height # "invalid"
LandedFramesNoReset ==
  IF WorldPoseNew /\ pose.height = "ground" /\ pose.rate \in {"still", "slow"}
  THEN Least(leaf.frames + 1, SettledFrames) ELSE leaf.frames
LandedFrames ==
  IF leaf.posted THEN leaf.frames
  ELSE IF ~FeedbackActive THEN 0
  ELSE IF ~WorldPoseNew THEN leaf.frames
  ELSE IF pose.height = "ground" /\ pose.rate \in {"still", "slow"}
       THEN Least(leaf.frames + 1, SettledFrames) ELSE 0
TouchdownAllowed ==
  /\ ~leaf.posted
  /\ LandedFrames >= SettledFrames
  /\ FeedbackActive
  /\ "FcuState" \in active
  /\ fcu.connected

LandingTurn ==
  LET posts == TouchdownAllowed /\ ~fcu.armed /\ FcuNew
      asks  == TouchdownAllowed /\ fcu.armed /\ ~leaf.asked
      control == IF posts THEN {"Touchdown"} ELSE {}
      tick == [leaf EXCEPT !.frames = LandedFrames, !.posted = @ \/ posts,
                           !.asked = @ \/ asks]
  IN /\ flight = "Landing"
     /\ \E publish \in BOOLEAN :
          LET out == IfDue(publish, "Setpoint") \o IfDue(asks, "Disarm")
              Go(to, by) == EndTurn(to, by, control, tick, out, setpoint)
          IN \/ Heard("Touchdown", control) /\ Go("SelfCheck", "Touchdown")
             \/ ~Heard("Touchdown", control) /\ Go("Landing", "none")

Turn ==
  /\ wake
  /\ \/ SelfCheckTurn
     \/ ReadyTurn
     \/ TakeoffInitTurn
     \/ TakeoffOffboardRequestTurn
     \/ TakeoffArmRequestTurn
     \/ TakeoffAscendingTurn
     \/ HoverTurn
     \/ Custom1Turn
     \/ LandingTurn
-----------------------------------------------------------------------------
(* Between turns.  Every input asks for a turn; the edges do so too.       *)
BetweenTurns ==
  /\ outputs' = <<>>
  /\ wake' = TRUE
  /\ UNCHANGED <<flight, leaf, deferred, latch, setpoint>>

PostCommand(command) ==
  /\ Len(pending) < PendingCapacity
  /\ pending' = Append(pending, command)
  /\ BetweenTurns
  /\ UNCHANGED <<elapsed, imuSignals, readings, active, isNew, monitor>>

Observe(stream) ==
  /\ stream \in Delivered
  /\ active' = active \cup ({stream} \cap Watched)
  /\ isNew' = isNew \cup {stream}
  /\ BetweenTurns
  /\ UNCHANGED <<elapsed, pending, monitor>>

FcuReport(report) ==
  /\ Observe("FcuState")
  /\ fcu' = report
  /\ UNCHANGED <<imuSignals, pose, apart, usable>>

(* The world pose comes whole with an estimate, or half by half: the fence *)
(* is judged on the position, the velocity alarms on the velocity.         *)
EstimateReport(reading, ok) ==
  /\ Rigid
  /\ Observe("Estimate")
  /\ pose' = reading
  /\ usable' = ok
  /\ UNCHANGED <<imuSignals, fcu, apart>>

PositionReport(reading, gap) ==
  /\ Observe("LocalPosition")
  /\ apart' = gap
  /\ pose' = IF Rigid THEN pose
             ELSE [pose EXCEPT !.height = reading.height,
                               !.alarms = (@ \ {"Geofence"})
                                          \cup (reading.alarms \cap {"Geofence"})]
  /\ UNCHANGED <<imuSignals, fcu, usable>>

VelocityReport(reading) ==
  /\ ~Rigid
  /\ Observe("LocalVelocity")
  /\ pose' = [pose EXCEPT !.rate = reading.rate,
                          !.alarms = (@ \cap {"Geofence"})
                                     \cup (reading.alarms \ {"Geofence"})]
  /\ UNCHANGED <<imuSignals, fcu, apart, usable>>

(* DroneController::onFreshImu judges the setpoint of the last turn.       *)
ImuReport(ok) ==
  /\ Observe("Imu")
  /\ imuSignals' = imuSignals \cup
                   (IF Backend = "PX4_LOCAL" THEN setpoint.saturated ELSE {})
  /\ usable' = IF Rigid THEN usable ELSE ok
  /\ UNCHANGED <<fcu, pose, apart>>

CanonicalReport(gap) ==
  /\ Observe("Canonical")
  /\ apart' = gap
  /\ UNCHANGED <<imuSignals, fcu, pose, usable>>

(* SensorStatisticsManager::advance finds a stream silent too long.        *)
Expire(stream) ==
  /\ stream \in active
  /\ active' = active \ {stream}
  /\ BetweenTurns
  /\ UNCHANGED <<elapsed, pending, imuSignals, readings, isNew, monitor>>

(* A unit of time passes and a deadline asks for a turn.  Ages stop where  *)
(* no comparison tells them apart.                                         *)
TimeLimit == CASE flight \in RequestStages -> StageTimeout + 1
               [] flight = "TakeoffAscending" -> AscendingTimeout + 1
               [] OTHER -> 0
Pass ==
  /\ elapsed' = Least(elapsed + 1, TimeLimit)
  /\ leaf' = [leaf EXCEPT !.age = IF flight \in RequestStages
                                  THEN Least(@ + 1, RequestInterval) ELSE @]
  /\ unusableAge' = IF unusableAge = NoAge THEN NoAge
                    ELSE Least(unusableAge + 1, TripDelay)
  /\ outputs' = <<>>
  /\ wake' = TRUE
  /\ UNCHANGED <<flight, deferred, latch, setpoint, pending, imuSignals,
                 readings, active, isNew,
                 wasActive, alarmed, tripped, received, distance>>

Init ==
  /\ flight = "SelfCheck"
  /\ leaf = FreshLeaf("SelfCheck")
  /\ elapsed = 0
  /\ pending = <<>>
  /\ imuSignals = {}
  /\ deferred = {}
  /\ latch = FALSE
  /\ setpoint = Written("none")
  /\ outputs = <<>>
  /\ wake = TRUE
  /\ fcu = [mode |-> "OTHER", armed |-> FALSE, connected |-> FALSE]
  /\ pose = [height |-> "ground", rate |-> "still", alarms |-> {}]
  /\ apart = "near"
  /\ usable = FALSE
  /\ active = {}
  /\ isNew = {}
  /\ wasActive = {}
  /\ alarmed = {}
  /\ unusableAge = NoAge
  /\ tripped = FALSE
  /\ received = {}
  /\ distance = "unknown"

Input ==
  \/ \E command \in CommandInputs : PostCommand(command)
  \/ \E report \in FcuReports : FcuReport(report)
  \/ \E reading \in PoseReports, ok \in UsableReports : EstimateReport(reading, ok)
  \/ \E reading \in PoseReports, gap \in GapReports : PositionReport(reading, gap)
  \/ \E reading \in PoseReports : VelocityReport(reading)
  \/ \E ok \in UsableReports : ImuReport(ok)
  \/ \E gap \in GapReports : CanonicalReport(gap)
  \/ \E stream \in Watched : Expire(stream)

Next == Turn \/ Input \/ Pass

(* A requested turn is run: the owner's queue of both front ends coalesces *)
(* requests and never drops the last one.                                  *)
Spec == Init /\ [][Next]_vars /\ WF_vars(Turn)
(* Deadlines are armed, so time is seen to pass.                           *)
TimedSpec == Spec /\ WF_vars(Pass)
-----------------------------------------------------------------------------
Leaves == [frames : 0 .. AltctlFrames + OffboardFrames + ArmFrames + SettledFrames,
           posted : BOOLEAN, asked : BOOLEAN, age : 0 .. RequestInterval]
Setpoints == [owner : {"none", "TakeoffInit", "Hover", "Landing", "Custom1"},
              saturated : SUBSET Saturations]

(* Every variable keeps to the values its declaration in the code allows.  *)
TypeOK ==
  /\ flight \in FlightStates
  /\ leaf \in Leaves
  /\ elapsed \in 0 .. StageTimeout + AscendingTimeout + 1
  /\ pending \in Seq(Commands) /\ Len(pending) <= PendingCapacity
  /\ imuSignals \subseteq Saturations
  /\ deferred \subseteq ControlSignals
  /\ latch \in BOOLEAN
  /\ setpoint \in Setpoints
  /\ outputs \in Seq(Effects)
  /\ wake \in BOOLEAN
  /\ fcu \in FcuStates
  /\ pose \in WorldPoses
  /\ apart \in Distances
  /\ usable \in BOOLEAN
  /\ active \subseteq Watched
  /\ isNew \subseteq Streams
  /\ wasActive \subseteq Monitored
  /\ alarmed \subseteq Alarms
  /\ unusableAge \in NoAge .. TripDelay
  /\ tripped \in BOOLEAN
  /\ received \subseteq {"Canonical", "LocalPosition"}
  /\ distance \in Distances

(* The shared setpoint always belongs to the state that flies by it: a     *)
(* turn's outputs carry no value and are read when the turn has ended, so  *)
(* a tick's output before a transition publishes what onEnter wrote.       *)
SetpointBelongsToState ==
  /\ flight \in TakeoffStages => setpoint.owner = "TakeoffInit"
  /\ flight = "Hover" => setpoint.owner = "Hover"
  /\ flight = "Landing" => setpoint.owner = "Landing"
  /\ flight = "Custom1" => setpoint.owner \in {"TakeoffInit", "Hover", "Custom1"}

(* Only a tracked acceleration can raise a saturation signal, so one is    *)
(* always heard by the tracking state and ends it (onFreshImu reads the    *)
(* setpoint between turns, whatever state wrote it).                       *)
SaturationIsHeard == imuSignals # {} => flight = "Custom1"

(* A completion event kept over from a state that was preempted is never   *)
(* one the state now flown acts on, also not when that state was re-entered*)
(* (deferred_signals_ and the one turn it lasts).                          *)
Awaited ==
  CASE flight = "TakeoffInit" -> {"AltctlReady"}
    [] flight = "TakeoffOffboardRequest" -> {"OffboardReady"}
    [] flight = "TakeoffArmRequest" -> {"ArmReady"}
    [] flight = "TakeoffAscending" -> {"AltitudeReached", "TakeoffTimeout"}
    [] flight = "Custom1" -> {"ReferenceFinished"}
    [] flight = "Landing" -> {"Touchdown"}
    [] OTHER -> {}
LeftoverIsForeign == deferred \cap Awaited = {}

(* A remembered request to track exists only where a state waits for a     *)
(* planner sample: px4_local, ascending or hovering.  It does not outlive  *)
(* a landing into the next flight.                                         *)
LatchOnlyWhileWaiting ==
  latch => Backend = "PX4_LOCAL" /\ flight \in {"TakeoffAscending", "Hover"}

(* No Normal state is flown on a monitored input that was already lost at  *)
(* the previous turn: the falling edge is seen in a state that lands, never*)
(* consumed in one that ignores it.                                        *)
FlownInputsWereLive == flight \in NormalStates => Monitored \subseteq wasActive

(* No Normal state is flown on a fused estimate that has been unusable for *)
(* the trip delay: a trip seen by SelfCheck cannot be taken into flight.   *)
FlownEstimateIsUsable == flight \in NormalStates => ~tripped

(* A disarm request never goes out for a vehicle last seen armed and above *)
(* the airborne threshold, from whichever of the three places that ask.    *)
DisarmOnlyOnGround == "Disarm" \in ToSet(outputs) => ~Airborne

(* An attitude-rate command of the last tracking tick is always followed,  *)
(* in the turn that leaves tracking, by a setpoint of the new state.       *)
AttitudeIsOverridden ==
  \A i \in DOMAIN outputs :
    outputs[i] = "Attitude" /\ flight # "Custom1" =>
      \E j \in DOMAIN outputs : j > i /\ outputs[j] = "Setpoint"

(* Landing ends only for a vehicle on the ground, with live feedback, that *)
(* a report of this very turn shows disarmed.                              *)
TouchdownIsConfirmed ==
  [][flight = "Landing" /\ flight' # "Landing" =>
       /\ FcuNew /\ ~fcu.armed /\ fcu.connected
       /\ pose.height = "ground" /\ FeedbackActive]_vars

(* What the monitor notices during a flight lands it in the same turn: an  *)
(* edge is either heard by a Normal state or not consumed by one.  (Edges  *)
(* seen by SelfCheck or Landing are consumed there and not raised again.)  *)
NoticesNothing ==
  /\ alarmed' \subseteq alarmed
  /\ wasActive \subseteq wasActive'
  /\ tripped \/ ~tripped'
  /\ flight = "Ready" \/ distance' # "far"
NoticedAlarmLands ==
  [][(flight \in NormalStates /\ flight' # "Landing") => NoticesNothing]_vars

(* The machine implements FlightPhases: nothing that asked to fly or flew  *)
(* goes back to idling but by giving up before its own arm request, or by  *)
(* a confirmed touchdown; motors are asked for only on the way up.         *)
PhaseOf(state) ==
  CASE state \in {"SelfCheck", "Ready"} -> "Idle"
    [] state \in RequestStages -> "Requesting"
    [] state = "Landing" -> "Landing"
    [] OTHER -> "Flying"
Phases == INSTANCE FlightPhases WITH
  phase <- PhaseOf(flight),
  vehicle <- [armed |-> fcu.armed, connected |-> fcu.connected, height |-> pose.height],
  asks <- {"Arm", "Disarm"} \cap ToSet(outputs)
ImplementsPhases == Phases!Spec

(* A take-off ends, in flight, on the ground or in Landing: the stages go  *)
(* forward only and each is left by its time limit at the latest.          *)
TakeoffEnds == flight \in TakeoffStages ~> flight \notin TakeoffStages

(* An estimate that stays unusable ends the flight once the trip delay has *)
(* passed, and none is begun on it.                                        *)
UnusableLands == <>[]ControlUnusable => <>[](flight \notin NormalStates)

(* A Land command accepted in flight leads to Landing, however many        *)
(* commands are queued before it.                                          *)
LandIsHonoured ==
  (flight \in {"TakeoffAscending", "Hover", "Custom1"} /\ "Land" \in ToSet(pending))
    ~> flight = "Landing"
=============================================================================
