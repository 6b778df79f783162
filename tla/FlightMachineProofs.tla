------------------------- MODULE FlightMachineProofs -------------------------
(***************************************************************************)
(* Proofs about FlightMachine, for every backend, every configuration and  *)
(* every set of inputs its assumptions allow.                              *)
(***************************************************************************)
EXTENDS FlightMachine, SequenceTheorems, TLAPS

(* What onEnter emits is a sequence of effects.                            *)
LEMMA EntryOutputsType ==
  ASSUME NEW state \in FlightStates
  PROVE  EntryOutputs(state) \in Seq(Effects)
<1>1. {<<>>, <<"Disarm">>, <<"Setpoint">>, <<"Setpoint", "Disarm">>, <<"Activation">>}
        \subseteq Seq(Effects)
  BY DEF Effects
<1>2. EntryOutputs(state) \in
        {<<>>, <<"Disarm">>, <<"Setpoint">>, <<"Setpoint", "Disarm">>, <<"Activation">>}
  BY Zenon DEF EntryOutputs, FlightStates
<1>3. QED
  BY <1>1, <1>2

(* The commands a turn leaves behind still fit the queue.                  *)
LEMMA BacklogType ==
  ASSUME TypeOK
  PROVE  Backlog \in Seq(Commands) /\ Len(Backlog) <= PendingCapacity
<1>1. pending \in Seq(Commands) /\ Len(pending) \in Nat /\ BatchLimit \in Nat \ {0}
  BY ConfigAssumption DEF TypeOK
<1>2. Batch \in Nat /\ Batch <= Len(pending)
  BY <1>1 DEF Batch, Least
<1>3. \A i \in Batch + 1 .. Len(pending) : pending[i] \in Commands
  BY <1>1, <1>2
<1>4. /\ Backlog \in Seq(Commands)
      /\ Len(Backlog) = IF Batch + 1 <= Len(pending) THEN Len(pending) - Batch ELSE 0
  BY <1>1, <1>2, <1>3, SubSeqProperties DEF Backlog
<1>5. QED
  BY <1>1, <1>2, <1>4, ConfigAssumption DEF TypeOK

(* The monitor keeps its own types.                                        *)
LEMMA HealthTickTypes ==
  ASSUME TypeOK, HealthTick
  PROVE  /\ wasActive' \subseteq Monitored /\ alarmed' \subseteq Alarms
         /\ unusableAge' \in NoAge .. TripDelay /\ tripped' \in BOOLEAN
         /\ received' \subseteq {"Canonical", "LocalPosition"}
         /\ distance' \in Distances
<1>1. alarmed' \subseteq Alarms
  BY DEF TypeOK, HealthTick, WorldPoses
<1>2. unusableAge' \in NoAge .. TripDelay
  BY ConfigAssumption DEF TypeOK, HealthTick, NextUnusableAge, NoAge
<1>3. tripped' \in BOOLEAN
  BY DEF HealthTick, Trips, ControlUnusable, Fused
<1>4. QED
  BY <1>1, <1>2, <1>3 DEF TypeOK, HealthTick, HeardPoses, Distance

(* Whatever a leaf's tick produced, the rest of the turn keeps the types.  *)
LEMMA EndTurnKeepsTypes ==
  ASSUME TypeOK,
         NEW to \in FlightStates, NEW by, NEW control \in SUBSET ControlSignals,
         NEW tick \in Leaves, NEW out \in Seq(Effects), NEW sp \in Setpoints,
         EndTurn(to, by, control, tick, out, sp)
  PROVE  TypeOK'
<1>1. flight' \in FlightStates
  BY DEF EndTurn
<1>2. leaf' \in Leaves
  BY ConfigAssumption DEF EndTurn, FreshLeaf, Leaves
<1>3. elapsed' \in 0 .. StageTimeout + AscendingTimeout + 1
  BY ConfigAssumption DEF TypeOK, EndTurn
<1>4. pending' \in Seq(Commands) /\ Len(pending') <= PendingCapacity
  BY BacklogType DEF EndTurn
<1>5. setpoint' \in Setpoints
  BY DEF EndTurn, EntrySetpoint, Written, Setpoints
<1>6. outputs' \in Seq(Effects)
  BY EntryOutputsType DEF EndTurn
<1>7. deferred' \subseteq ControlSignals
  BY DEF EndTurn, Leftover
<1>8. latch' \in BOOLEAN
  BY DEF TypeOK, EndTurn, LatchAfter
<1>9. wake' \in BOOLEAN /\ imuSignals' = {} /\ isNew' = {}
  BY DEF EndTurn, MoreTurns
<1>10. UNCHANGED <<readings, active>> /\ HealthTick
  BY DEF EndTurn
<1>11. QED
  BY <1>1, <1>2, <1>3, <1>4, <1>5, <1>6, <1>7, <1>8, <1>9, <1>10, HealthTickTypes
     DEF TypeOK, readings
-----------------------------------------------------------------------------
(* What a turn may choose, whichever leaf is active: the state graph and   *)
(* the facts about the tick that the invariants need.                      *)
Successors ==
  [SelfCheck              |-> {"SelfCheck", "Ready"},
   Ready                  |-> {"Ready", "SelfCheck", "TakeoffInit", "Landing"},
   TakeoffInit            |-> {"TakeoffInit", "Ready", "TakeoffOffboardRequest", "Landing"},
   TakeoffOffboardRequest |-> {"TakeoffOffboardRequest", "Ready", "TakeoffArmRequest", "Landing"},
   TakeoffArmRequest      |-> {"TakeoffArmRequest", "TakeoffAscending", "Landing"},
   TakeoffAscending       |-> {"TakeoffAscending", "Hover", "Custom1", "Landing"},
   Hover                  |-> {"Hover", "Custom1", "Landing"},
   Custom1                |-> {"Custom1", "Hover", "Landing"},
   Landing                |-> {"Landing", "SelfCheck"}]

(* What it says of the motors: who asks for them, and on what evidence a   *)
(* take-off is begun, goes on, is given up, and a landing ends.            *)
MotorChoice(to, tick, out) ==
  /\ "Disarm" \in ToSet(out) => flight = "Landing" /\ TouchdownAllowed
  /\ "Arm" \in ToSet(out) => flight = "TakeoffArmRequest"
  /\ "Attitude" \in ToSet(out) => flight = "Custom1"
  /\ flight = "Ready" /\ to = "TakeoffInit" => ~Airborne
  /\ flight \in RequestStages /\ to = "Ready" => fcu.armed
  /\ flight = "TakeoffArmRequest" =>
       /\ tick.frames = Confirmed(fcu.armed, ArmFrames)
       /\ to = "TakeoffAscending" /\ LeftoverIsForeign => tick.frames >= ArmFrames
  /\ flight = "Landing" =>
       /\ tick.frames = LandedFrames
       /\ to = "Landing" /\ ~leaf.posted => ~tick.posted
       /\ to = "SelfCheck" /\ LeftoverIsForeign => TouchdownAllowed /\ ~fcu.armed /\ FcuNew

Choice(to, control, tick, out, sp) ==
  /\ to \in Successors[flight]
  /\ control \subseteq Awaited
  /\ to = flight => control = {}
  /\ tick \in Leaves /\ out \in Seq(Effects) /\ sp \in Setpoints
  /\ sp = setpoint \/ (flight = "Custom1" /\ sp.owner = "Custom1")
  /\ to \in NormalStates => IF flight = "SelfCheck" THEN SensorsReady
                                                   ELSE ~NormalPreempts
  /\ (to = flight /\ to \in {"Hover", "TakeoffAscending"} /\ "Track" \in Taken)
       => Backend = "PX4_LOCAL"
  /\ flight \in NormalStates /\ to # "Landing" =>
       ~NormalPreempts /\ (Distance = "far" => flight = "Ready" /\ to # "TakeoffInit")
  /\ to = flight /\ flight \in RequestStages => ~StageLate
  /\ to = flight /\ flight = "TakeoffAscending" =>
       /\ elapsed > AscendingTimeout => leaf.posted
       /\ tick.posted = leaf.posted
  /\ MotorChoice(to, tick, out)

Chosen == \E to, by, control, tick, out, sp :
  Choice(to, control, tick, out, sp) /\ EndTurn(to, by, control, tick, out, sp)

(* An effect that is due or not is a sequence of effects.                  *)
LEMMA IfDueType ==
  ASSUME NEW due \in BOOLEAN, NEW effect \in Effects
  PROVE  IfDue(due, effect) \in Seq(Effects)
BY DEF IfDue

(* ... and holds nothing else.                                             *)
LEMMA IfDueRange ==
  ASSUME NEW due, NEW effect
  PROVE  ToSet(IfDue(due, effect)) \subseteq {effect}
BY DEF IfDue, ToSet

(* A concatenation holds what its parts hold.                              *)
LEMMA ConcatRange ==
  ASSUME NEW S, NEW s \in Seq(S), NEW t \in Seq(S)
  PROVE  ToSet(s \o t) \subseteq ToSet(s) \cup ToSet(t)
<1> SUFFICES ASSUME NEW i \in DOMAIN (s \o t)
             PROVE  (s \o t)[i] \in ToSet(s) \cup ToSet(t)
  BY DEF ToSet
<1>1. i \in 1 .. Len(s) + Len(t)
  OBVIOUS
<1>2. CASE i <= Len(s)
  <2>1. (s \o t)[i] = s[i] /\ i \in DOMAIN s
    BY <1>1, <1>2
  <2>2. QED BY <2>1 DEF ToSet
<1>3. CASE i > Len(s)
  <2>1. (s \o t)[i] = t[i - Len(s)] /\ i - Len(s) \in DOMAIN t
    BY <1>1, <1>3
  <2>2. QED BY <2>1 DEF ToSet
<1>4. QED
  BY <1>1, <1>2, <1>3

(* The tick of a request stage: types, motors and its count.               *)
LEMMA RequestTypes ==
  ASSUME TypeOK, NEW publish \in BOOLEAN, NEW needed \in {AltctlFrames, OffboardFrames, ArmFrames},
         NEW frames \in Nat, NEW event, NEW effect \in Effects \cup {"none"},
         frames <= needed \/ frames = leaf.frames
  PROVE  LET tick == Request(publish, frames, needed, event, effect) IN
         /\ tick.control \in {{}, {event}}
         /\ tick.leaf \in Leaves
         /\ tick.out \in Seq(Effects)
         /\ ToSet(tick.out) \subseteq {"Setpoint", effect}
         /\ tick.leaf.frames = frames
         /\ tick.control # {} => frames >= needed
<1> DEFINE asks  == effect # "none" /\ leaf.age >= RequestInterval
           posts == ~leaf.posted /\ frames >= needed
           tick == Request(publish, frames, needed, event, effect)
<1>1. leaf.frames \in 0 .. AltctlFrames + OffboardFrames + ArmFrames + SettledFrames
      /\ leaf.posted \in BOOLEAN /\ leaf.age \in 0 .. RequestInterval
  BY DEF TypeOK, Leaves
<1>2. asks \in BOOLEAN /\ posts \in BOOLEAN
  OBVIOUS
<1>3. tick.leaf \in Leaves
  <2>1. frames \in 0 .. AltctlFrames + OffboardFrames + ArmFrames + SettledFrames
    BY <1>1, ConfigAssumption
  <2>2. (leaf.posted \/ posts) \in BOOLEAN
    BY <1>1
  <2>3. (IF asks THEN 0 ELSE leaf.age) \in 0 .. RequestInterval
    BY <1>1, ConfigAssumption
  <2>4. QED
    BY <2>1, <2>2, <2>3 DEF TypeOK, Request, Leaves
<1>4. tick.out \in Seq(Effects) /\ ToSet(tick.out) \subseteq {"Setpoint", effect}
  <2>1. IfDue(publish, "Setpoint") \in Seq(Effects)
    BY IfDueType DEF Effects
  <2>2. IfDue(asks, effect) \in Seq(Effects)
    BY IfDueType, <1>2 DEF IfDue
  <2>3. tick.out = IfDue(publish, "Setpoint") \o IfDue(asks, effect)
    BY DEF Request
  <2>4. QED
    BY <2>1, <2>2, <2>3, IfDueRange, ConcatRange
<1>5. tick.control \in {{}, {event}} /\ (tick.control # {} => frames >= needed)
  BY DEF Request
<1>6. tick.leaf.frames = frames
  BY DEF Request, TypeOK, Leaves
<1>7. QED
  BY <1>3, <1>4, <1>5, <1>6

(* A request stage makes a choice.                                         *)
LEMMA StageChooses ==
  ASSUME TypeOK, NEW tick, NEW event, NEW next \in NormalStates, NEW refusesArmed \in BOOLEAN,
         flight \in RequestStages, next # flight,
         Awaited = {event}, tick.control \in {{}, {event}},
         tick.leaf \in Leaves, tick.out \in Seq(Effects),
         {"Disarm", "Attitude"} \cap ToSet(tick.out) = {},
         "Arm" \in ToSet(tick.out) => flight = "TakeoffArmRequest",
         flight = "TakeoffArmRequest" =>
           /\ tick.leaf.frames = Confirmed(fcu.armed, ArmFrames)
           /\ tick.control # {} => tick.leaf.frames >= ArmFrames,
         next # "Ready",
         next \in Successors[flight], refusesArmed => "Ready" \in Successors[flight],
         StageTurn(tick, event, next, refusesArmed)
  PROVE  Chosen
<1> USE DEF Choice, MotorChoice
<1>1. setpoint \in Setpoints /\ {flight, "Landing"} \subseteq Successors[flight]
  BY DEF TypeOK, Successors, RequestStages
<1>2. flight \notin {"SelfCheck", "Hover", "TakeoffAscending", "Ready", "Landing"}
  BY DEF RequestStages
<1>3. CASE FarPreempts /\ EndTurn("Landing", "none", tick.control, tick.leaf, tick.out, setpoint)
  <2>1. Choice("Landing", tick.control, tick.leaf, tick.out, setpoint)
    BY <1>1, <1>2 DEF NormalStates
  <2>2. QED BY <1>3, <2>1 DEF Chosen
<1>4. CASE ~FarPreempts /\ refusesArmed /\ fcu.armed
           /\ EndTurn("Ready", "none", tick.control, tick.leaf, tick.out, setpoint)
  <2>1. Choice("Ready", tick.control, tick.leaf, tick.out, setpoint)
    BY <1>1, <1>2, <1>4 DEF FarPreempts
  <2>2. QED BY <1>4, <2>1 DEF Chosen
<1>5. CASE ~FarPreempts /\ Heard(event, tick.control) /\ EndTurn(next, event, tick.control, tick.leaf, tick.out, setpoint)
  <2>1. Choice(next, tick.control, tick.leaf, tick.out, setpoint)
    BY <1>1, <1>2, <1>5 DEF FarPreempts, Heard, LeftoverIsForeign
  <2>2. QED BY <1>5, <2>1 DEF Chosen
<1>6. CASE EndTurn("Landing", "none", tick.control, tick.leaf, tick.out, setpoint)
  <2>1. Choice("Landing", tick.control, tick.leaf, tick.out, setpoint)
    BY <1>1, <1>2 DEF NormalStates
  <2>2. QED BY <1>6, <2>1 DEF Chosen
<1>7. CASE ~FarPreempts /\ ~Heard(event, tick.control) /\ ~StageLate
           /\ EndTurn(flight, "none", tick.control, tick.leaf, tick.out, setpoint)
  <2>1. Choice(flight, tick.control, tick.leaf, tick.out, setpoint)
    BY <1>1, <1>2, <1>7 DEF FarPreempts, Heard
  <2>2. QED BY <1>7, <2>1 DEF Chosen
<1>8. QED
  BY <1>3, <1>4, <1>5, <1>6, <1>7 DEF StageTurn

(* A confirmation count is a number and stays below what is needed.        *)
LEMMA ConfirmedTypes ==
  ASSUME TypeOK, NEW seen \in BOOLEAN, NEW needed \in Nat
  PROVE  /\ Confirmed(seen, needed) \in Nat
         /\ Confirmed(seen, needed) <= needed \/ Confirmed(seen, needed) = leaf.frames
<1>1. leaf.frames \in Nat
  BY ConfigAssumption DEF TypeOK, Leaves
<1>2. QED
  BY <1>1 DEF Confirmed, Least

(* The three request stages are such stages.                               *)
LEMMA StagesChoose ==
  ASSUME TypeOK, TakeoffInitTurn \/ TakeoffOffboardRequestTurn \/ TakeoffArmRequestTurn
  PROVE  Chosen
<1>1. /\ AltctlFrames \in Nat /\ OffboardFrames \in Nat /\ ArmFrames \in Nat
      /\ leaf.frames \in Nat /\ SkipInitDisarm \in BOOLEAN /\ fcu.armed \in BOOLEAN
  BY ConfigAssumption DEF TypeOK, Leaves, FcuStates
<1>2. CASE TakeoffInitTurn
  <2>1. PICK publish \in BOOLEAN :
          StageTurn(InitRequest(publish), "AltctlReady", "TakeoffOffboardRequest", TRUE)
    BY <1>2 DEF TakeoffInitTurn
  <2> DEFINE tick == InitRequest(publish)
             frames == IF SkipInitDisarm THEN leaf.frames
                       ELSE Confirmed(fcu.mode = "ALTCTL", AltctlFrames)
             effect == IF SkipInitDisarm THEN "none" ELSE "RequestALTCTL"
  <2>2. frames \in Nat /\ (frames <= AltctlFrames \/ frames = leaf.frames)
    BY <1>1, ConfirmedTypes
  <2>3. effect \in Effects \cup {"none"}
    BY DEF Effects
  <2>4. tick = Request(publish, frames, AltctlFrames, "AltctlReady", effect)
    BY DEF InitRequest
  <2>5. /\ tick.control \in {{}, {"AltctlReady"}}
        /\ tick.leaf \in Leaves /\ tick.out \in Seq(Effects)
        /\ ToSet(tick.out) \subseteq {"Setpoint", effect}
    <3> HIDE DEF frames, effect, tick
    <3> QED BY <2>2, <2>3, <2>4, RequestTypes
  <2>6. flight = "TakeoffInit" /\ Awaited = {"AltctlReady"}
        /\ {"TakeoffOffboardRequest", "Ready"} \subseteq Successors[flight]
    BY <1>2 DEF TakeoffInitTurn, Awaited, Successors
  <2> HIDE DEF tick
  <2>7. QED
    BY <2>1, <2>5, <2>6, StageChooses DEF RequestStages, NormalStates, FlightStates, tick
<1>3. CASE TakeoffOffboardRequestTurn
  <2>1. PICK publish \in BOOLEAN :
          StageTurn(OffboardRequest(publish), "OffboardReady", "TakeoffArmRequest", TRUE)
    BY <1>3 DEF TakeoffOffboardRequestTurn
  <2> DEFINE tick == OffboardRequest(publish)
             frames == Confirmed(fcu.mode = "OFFBOARD", OffboardFrames)
  <2>2. frames \in Nat /\ (frames <= OffboardFrames \/ frames = leaf.frames)
    BY <1>1, ConfirmedTypes
  <2>3. tick = Request(publish, frames, OffboardFrames, "OffboardReady", "RequestOFFBOARD")
    BY DEF OffboardRequest
  <2>4. /\ tick.control \in {{}, {"OffboardReady"}}
        /\ tick.leaf \in Leaves /\ tick.out \in Seq(Effects)
        /\ ToSet(tick.out) \subseteq {"Setpoint", "RequestOFFBOARD"}
    <3> HIDE DEF frames, tick
    <3> QED BY <2>2, <2>3, RequestTypes DEF Effects
  <2>5. flight = "TakeoffOffboardRequest" /\ Awaited = {"OffboardReady"}
        /\ {"TakeoffArmRequest", "Ready"} \subseteq Successors[flight]
    BY <1>3 DEF TakeoffOffboardRequestTurn, Awaited, Successors
  <2> HIDE DEF tick
  <2>6. QED
    BY <2>1, <2>4, <2>5, StageChooses DEF RequestStages, NormalStates, FlightStates, tick
<1>4. CASE TakeoffArmRequestTurn
  <2>1. PICK publish \in BOOLEAN :
          StageTurn(ArmRequest(publish), "ArmReady", "TakeoffAscending", FALSE)
    BY <1>4 DEF TakeoffArmRequestTurn
  <2> DEFINE tick == ArmRequest(publish)
             frames == Confirmed(fcu.armed, ArmFrames)
  <2>2. frames \in Nat /\ (frames <= ArmFrames \/ frames = leaf.frames)
    BY <1>1, ConfirmedTypes
  <2>3. tick = Request(publish, frames, ArmFrames, "ArmReady", "Arm")
    BY DEF ArmRequest
  <2>4. /\ tick.control \in {{}, {"ArmReady"}}
        /\ tick.leaf \in Leaves /\ tick.out \in Seq(Effects)
        /\ ToSet(tick.out) \subseteq {"Setpoint", "Arm"}
        /\ tick.leaf.frames = frames
        /\ tick.control # {} => frames >= ArmFrames
    <3>1. "Arm" \in Effects \cup {"none"}
      BY DEF Effects
    <3> HIDE DEF frames, tick
    <3>2. LET r == Request(publish, frames, ArmFrames, "ArmReady", "Arm") IN
          /\ r.control \in {{}, {"ArmReady"}}
          /\ r.leaf \in Leaves
          /\ r.out \in Seq(Effects)
          /\ ToSet(r.out) \subseteq {"Setpoint", "Arm"}
          /\ r.leaf.frames = frames
          /\ r.control # {} => frames >= ArmFrames
      BY <2>2, <3>1, RequestTypes
    <3>3. QED BY <2>3, <3>2
  <2>5. flight = "TakeoffArmRequest" /\ Awaited = {"ArmReady"}
        /\ "TakeoffAscending" \in Successors[flight]
    BY <1>4 DEF TakeoffArmRequestTurn, Awaited, Successors
  <2> HIDE DEF tick
  <2>6. QED
    BY <2>1, <2>4, <2>5, StageChooses DEF RequestStages, NormalStates, FlightStates, tick
<1>5. QED
  BY <1>2, <1>3, <1>4

(* So do the states on the ground.                                         *)
LEMMA GroundChooses ==
  ASSUME TypeOK, SelfCheckTurn \/ ReadyTurn
  PROVE  Chosen
<1>1. leaf \in Leaves /\ setpoint \in Setpoints /\ <<>> \in Seq(Effects)
  BY DEF TypeOK
<1>2. ASSUME NEW to \in Successors[flight], flight \in {"SelfCheck", "Ready"},
             to \in NormalStates => IF flight = "SelfCheck" THEN SensorsReady
                                                          ELSE ~NormalPreempts,
             flight = "Ready" /\ to # "Landing" => ~NormalPreempts,
             to = "TakeoffInit" => ~Airborne /\ Distance = "near",
             to \in {"SelfCheck", "Ready", "TakeoffInit", "Landing"},
             EndTurn(to, "none", {}, leaf, <<>>, setpoint)
      PROVE  Chosen
  <2>1. Choice(to, {}, leaf, <<>>, setpoint)
    BY <1>1, <1>2 DEF Choice, MotorChoice, RequestStages, NormalStates, ToSet
  <2>2. QED BY <1>2, <2>1 DEF Chosen
<1>3. CASE SelfCheckTurn
  BY <1>2, <1>3 DEF SelfCheckTurn, Successors, NormalStates
<1>4. CASE ReadyTurn
  BY <1>2, <1>4 DEF ReadyTurn, TakesOff, Successors, NormalStates
<1>5. QED
  BY <1>3, <1>4

(* So does the ascent.                                                     *)
LEMMA AscendingChooses ==
  ASSUME TypeOK, TakeoffAscendingTurn
  PROVE  Chosen
<1>1. PICK publish \in BOOLEAN, ready \in ReferenceReady :
        LET tick == Ascent(publish)
            Go(to, by) == EndTurn(to, by, tick.control, tick.leaf, tick.out, setpoint)
            hovers  == "Hover" \in Taken
            tracks  == "Track" \in Taken /\ ready
            reached == Heard("AltitudeReached", tick.control)
            late    == Heard("TakeoffTimeout", tick.control)
            stays   == ~FarPreempts /\ ~hovers /\ ~tracks
        IN \/ FarPreempts /\ Go("Landing", "none")
           \/ ~FarPreempts /\ hovers /\ Go("Hover", "none")
           \/ ~FarPreempts /\ ~hovers /\ tracks /\ Go("Custom1", "none")
           \/ stays /\ reached /\ Go("Hover", "AltitudeReached")
           \/ stays /\ ~reached /\ late /\ Go("Landing", "TakeoffTimeout")
           \/ stays /\ ~reached /\ ~late /\ latch /\ ready /\ Go("Custom1", "none")
           \/ stays /\ ~reached /\ ~late /\ ~(latch /\ ready) /\ Go(flight, "none")
  BY Zenon DEF TakeoffAscendingTurn
<1> DEFINE tick == Ascent(publish)
<1>2. tick.control \in {{}, {"TakeoffTimeout"}, {"AltitudeReached"}}
  BY DEF Ascent
<1>3. tick.leaf \in Leaves
  <2>1. leaf \in Leaves /\ SettledFrames \in Nat /\ AltctlFrames \in Nat
        /\ OffboardFrames \in Nat /\ ArmFrames \in Nat
    BY ConfigAssumption DEF TypeOK
  <2> DEFINE settled == pose.height = "target" /\ pose.rate = "still"
             frames == IF elapsed > AscendingTimeout \/ leaf.posted \/ ~WorldPoseNew
                       THEN leaf.frames
                       ELSE IF settled THEN Least(leaf.frames + 1, SettledFrames) ELSE 0
  <2>2. frames \in 0 .. AltctlFrames + OffboardFrames + ArmFrames + SettledFrames
    BY <2>1 DEF Leaves, Least
  <2>3. (leaf.posted \/ tick.control # {}) \in BOOLEAN
    BY <2>1 DEF Leaves
  <2>4. tick.leaf = [leaf EXCEPT !.frames = frames, !.posted = @ \/ tick.control # {}]
    BY DEF Ascent
  <2> HIDE DEF frames, tick
  <2>5. QED
    BY <2>1, <2>2, <2>3, <2>4 DEF Leaves
<1>4. tick.out \in Seq(Effects) /\ ToSet(tick.out) \subseteq {"Setpoint"}
  BY IfDueType, IfDueRange DEF Ascent, Effects
<1>5. /\ flight = "TakeoffAscending" /\ setpoint \in Setpoints
      /\ Awaited = {"AltitudeReached", "TakeoffTimeout"}
      /\ Successors[flight] = {"TakeoffAscending", "Hover", "Custom1", "Landing"}
  BY DEF TakeoffAscendingTurn, TypeOK, Awaited, Successors
<1>6. ready \in BOOLEAN /\ (~ready => Backend = "PX4_LOCAL")
  BY DEF ReferenceReady
<1>6a. tick.control = {} =>
         /\ elapsed > AscendingTimeout => leaf.posted
         /\ tick.leaf.posted = leaf.posted
  <2>1. leaf \in Leaves
    BY DEF TypeOK
  <2>2. tick.leaf.posted = (leaf.posted \/ tick.control # {})
    BY <2>1 DEF Ascent, Leaves
  <2>3. ~leaf.posted /\ elapsed > AscendingTimeout => tick.control # {}
    BY DEF Ascent
  <2>4. leaf.posted \in BOOLEAN
    BY <2>1 DEF Leaves
  <2> QED BY <2>2, <2>3, <2>4
<1> HIDE DEF tick
<1>7. ASSUME NEW to \in Successors[flight], NEW by,
             to = "Landing" \/ ~FarPreempts,
             to = flight => tick.control = {} /\ ("Track" \in Taken => ~ready),
             EndTurn(to, by, tick.control, tick.leaf, tick.out, setpoint)
      PROVE  Chosen
  <2>1. Choice(to, tick.control, tick.leaf, tick.out, setpoint)
    BY <1>2, <1>3, <1>4, <1>5, <1>6, <1>6a, <1>7
       DEF Choice, MotorChoice, RequestStages, NormalStates, FarPreempts
  <2>2. QED BY <1>7, <2>1 DEF Chosen
<1>8. ~Heard("AltitudeReached", tick.control) /\ ~Heard("TakeoffTimeout", tick.control)
        => tick.control = {}
  BY <1>2 DEF Heard
<1>9. QED
  BY <1>1, <1>5, <1>7, <1>8 DEF tick

(* So does hovering.                                                       *)
LEMMA HoverChooses ==
  ASSUME TypeOK, HoverTurn
  PROVE  Chosen
<1>1. PICK publish \in BOOLEAN, ready \in ReferenceReady :
        LET Go(to) == EndTurn(to, "none", {}, leaf, IfDue(publish, "Setpoint"), setpoint)
            tracks == ("Track" \in Taken \/ latch) /\ ready
        IN \/ FarPreempts /\ Go("Landing")
           \/ ~FarPreempts /\ tracks /\ Go("Custom1")
           \/ ~FarPreempts /\ ~tracks /\ Go("Hover")
  BY Zenon DEF HoverTurn
<1>2. /\ flight = "Hover" /\ setpoint \in Setpoints /\ leaf \in Leaves
      /\ IfDue(publish, "Setpoint") \in Seq(Effects)
      /\ ToSet(IfDue(publish, "Setpoint")) \subseteq {"Setpoint"}
      /\ Successors[flight] = {"Hover", "Custom1", "Landing"}
  BY IfDueType, IfDueRange DEF HoverTurn, TypeOK, Effects, Successors
<1>3. ready \in BOOLEAN /\ (~ready => Backend = "PX4_LOCAL")
  BY DEF ReferenceReady
<1>4. ASSUME NEW to \in Successors[flight],
             to = "Landing" \/ ~FarPreempts,
             to = flight => ("Track" \in Taken => ~ready),
             EndTurn(to, "none", {}, leaf, IfDue(publish, "Setpoint"), setpoint)
      PROVE  Chosen
  <2>1. Choice(to, {}, leaf, IfDue(publish, "Setpoint"), setpoint)
    BY <1>2, <1>3, <1>4
       DEF Choice, MotorChoice, RequestStages, NormalStates, FarPreempts
  <2>2. QED BY <1>4, <2>1 DEF Chosen
<1>5. QED
  BY <1>1, <1>2, <1>4

(* So does tracking.                                                       *)
LEMMA Custom1Chooses ==
  ASSUME TypeOK, Custom1Turn
  PROVE  Chosen
<1>1. PICK finishes \in Finishes : \E out \in TrackingOutputs(finishes) :
        \E sp \in TrackingSetpoints(finishes, out) :
          LET control == IF finishes THEN {"ReferenceFinished"} ELSE {}
              tick == [leaf EXCEPT !.posted = @ \/ finishes]
              Go(to, by) == EndTurn(to, by, control, tick, out, sp)
              hovers == "Hover" \in Taken
              finished == Heard("ReferenceFinished", control)
          IN \/ FarPreempts /\ Go("Landing", "none")
             \/ ~FarPreempts /\ hovers /\ Go("Hover", "none")
             \/ ~FarPreempts /\ ~hovers /\ finished /\ Go("Hover", "ReferenceFinished")
             \/ ~FarPreempts /\ ~hovers /\ ~finished /\ Go("Custom1", "none")
  BY Zenon DEF Custom1Turn
<1> DEFINE control == IF finishes THEN {"ReferenceFinished"} ELSE {}
           tick == [leaf EXCEPT !.posted = @ \/ finishes]
<1>2a. PICK out \in TrackingOutputs(finishes) : \E sp \in TrackingSetpoints(finishes, out) :
        \/ FarPreempts /\ EndTurn("Landing", "none", control, tick, out, sp)
        \/ ~FarPreempts /\ EndTurn("Hover", "none", control, tick, out, sp)
        \/ ~FarPreempts /\ EndTurn("Hover", "ReferenceFinished", control, tick, out, sp)
        \/ /\ ~FarPreempts /\ ~Heard("ReferenceFinished", control)
           /\ EndTurn("Custom1", "none", control, tick, out, sp)
  BY <1>1
<1>2. PICK sp \in TrackingSetpoints(finishes, out) :
        \/ FarPreempts /\ EndTurn("Landing", "none", control, tick, out, sp)
        \/ ~FarPreempts /\ EndTurn("Hover", "none", control, tick, out, sp)
        \/ ~FarPreempts /\ EndTurn("Hover", "ReferenceFinished", control, tick, out, sp)
        \/ /\ ~FarPreempts /\ ~Heard("ReferenceFinished", control)
           /\ EndTurn("Custom1", "none", control, tick, out, sp)
  BY <1>2a
<1>3. finishes \in BOOLEAN
  BY DEF Finishes
<1>4. tick \in Leaves
  BY <1>3 DEF TypeOK, Leaves
<1>5. out \in Seq(Effects) /\ ToSet(out) \cap {"Arm", "Disarm"} = {}
  <2>1. /\ {<<>>, <<"Setpoint">>, <<"Attitude">>, <<"Attitude", "Setpoint">>}
             \subseteq Seq(Effects)
        /\ {<<>>, <<"Setpoint">>, <<"Attitude">>, <<"Attitude", "Setpoint">>}
             \subseteq Seq({"Setpoint", "Attitude"})
    BY DEF Effects
  <2>2. out \in {<<>>, <<"Setpoint">>, <<"Attitude">>, <<"Attitude", "Setpoint">>}
    BY Zenon DEF TrackingOutputs
  <2>3. out \in Seq(Effects) /\ out \in Seq({"Setpoint", "Attitude"})
    BY <2>1, <2>2
  <2>4. ToSet(out) \subseteq {"Setpoint", "Attitude"}
    BY <2>3 DEF ToSet
  <2>5. QED BY <2>3, <2>4
<1>6. sp \in Setpoints /\ (sp = setpoint \/ sp.owner = "Custom1")
  BY DEF TrackingSetpoints, Setpoints, Written, TypeOK
<1>7. /\ flight = "Custom1" /\ Awaited = {"ReferenceFinished"}
      /\ Successors[flight] = {"Custom1", "Hover", "Landing"}
  BY DEF Custom1Turn, Awaited, Successors
<1>8. control \in {{}, {"ReferenceFinished"}}
      /\ (~Heard("ReferenceFinished", control) => control = {})
  BY DEF Heard
<1> HIDE DEF control, tick
<1>9. ASSUME NEW to \in Successors[flight], NEW by,
             to = "Landing" \/ ~FarPreempts, to = flight => control = {},
             EndTurn(to, by, control, tick, out, sp)
      PROVE  Chosen
  <2>1. Choice(to, control, tick, out, sp)
    BY <1>4, <1>5, <1>6, <1>7, <1>8, <1>9
       DEF Choice, MotorChoice, RequestStages, NormalStates, FarPreempts
  <2>2. QED BY <1>9, <2>1 DEF Chosen
<1>10. QED
  BY <1>2, <1>7, <1>8, <1>9

(* So does landing, on what it counted.                                    *)
LEMMA LandingChooses ==
  ASSUME TypeOK, LandingTurn
  PROVE  Chosen
<1> DEFINE posts == TouchdownAllowed /\ ~fcu.armed /\ FcuNew
           asks  == TouchdownAllowed /\ fcu.armed /\ ~leaf.asked
           control == IF posts THEN {"Touchdown"} ELSE {}
           tick == [leaf EXCEPT !.frames = LandedFrames, !.posted = @ \/ posts,
                                !.asked = @ \/ asks]
           out(publish) == IfDue(publish, "Setpoint") \o IfDue(asks, "Disarm")
<1>1. PICK publish \in BOOLEAN :
        \/ /\ Heard("Touchdown", control)
           /\ EndTurn("SelfCheck", "Touchdown", control, tick, out(publish), setpoint)
        \/ /\ ~Heard("Touchdown", control)
           /\ EndTurn("Landing", "none", control, tick, out(publish), setpoint)
  BY DEF LandingTurn
<1>2. leaf \in Leaves /\ setpoint \in Setpoints /\ fcu.armed \in BOOLEAN
  BY DEF TypeOK, FcuStates
<1>3. posts \in BOOLEAN /\ asks \in BOOLEAN
  BY <1>2 DEF TouchdownAllowed, Leaves
<1>4. LandedFrames \in 0 .. AltctlFrames + OffboardFrames + ArmFrames + SettledFrames
  BY <1>2, ConfigAssumption DEF LandedFrames, Leaves, Least
<1>5. tick \in Leaves
  <2> HIDE DEF posts, asks
  <2> QED BY <1>2, <1>3, <1>4 DEF Leaves
<1>6. out(publish) \in Seq(Effects)
      /\ ToSet(out(publish)) \subseteq {"Setpoint"} \cup (IF asks THEN {"Disarm"} ELSE {})
  <2> HIDE DEF asks
  <2>1. IfDue(publish, "Setpoint") \in Seq(Effects) /\ IfDue(asks, "Disarm") \in Seq(Effects)
    BY <1>3, IfDueType DEF Effects
  <2>2. /\ ToSet(IfDue(publish, "Setpoint")) \subseteq {"Setpoint"}
        /\ ToSet(IfDue(asks, "Disarm")) \subseteq IF asks THEN {"Disarm"} ELSE {}
    BY DEF IfDue, ToSet
  <2>3. QED BY <2>1, <2>2, ConcatRange
<1>7. flight = "Landing" /\ Awaited = {"Touchdown"}
      /\ Successors[flight] = {"Landing", "SelfCheck"}
  BY DEF LandingTurn, Awaited, Successors
<1>8. /\ control \in {{}, {"Touchdown"}}
      /\ ~Heard("Touchdown", control) => control = {} /\ ~posts
      /\ Heard("Touchdown", control) /\ LeftoverIsForeign => posts
  BY <1>7 DEF Heard, LeftoverIsForeign
<1>8a. /\ tick.frames = LandedFrames /\ (~leaf.posted /\ ~posts => ~tick.posted)
       /\ posts => TouchdownAllowed /\ ~fcu.armed /\ FcuNew
       /\ asks => TouchdownAllowed
  BY <1>2 DEF Leaves
<1> HIDE DEF posts, asks, control, tick, out
<1>9. ASSUME NEW to \in Successors[flight], NEW by,
             IF to = "Landing" THEN ~Heard("Touchdown", control) ELSE Heard("Touchdown", control),
             EndTurn(to, by, control, tick, out(publish), setpoint)
      PROVE  Chosen
  <2>1. Choice(to, control, tick, out(publish), setpoint)
    BY <1>2, <1>5, <1>6, <1>7, <1>8, <1>8a, <1>9
       DEF Choice, MotorChoice, RequestStages, NormalStates
  <2>2. QED BY <1>9, <2>1 DEF Chosen
<1>10. QED
  BY <1>1, <1>7, <1>8, <1>9

(* Every turn is a choice followed by the rest of update.                  *)
LEMMA TurnChooses ==
  ASSUME TypeOK, Turn
  PROVE  Chosen
BY StagesChoose, GroundChooses, AscendingChooses, HoverChooses, Custom1Chooses,
   LandingChooses DEF Turn

(* The state graph is closed.                                              *)
LEMMA SuccessorsAreStates ==
  ASSUME NEW from \in FlightStates, NEW to \in Successors[from]
  PROVE  to \in FlightStates
BY DEF FlightStates, Successors

(* What a state awaits is a control event.                                 *)
LEMMA AwaitedAreSignals == Awaited \subseteq ControlSignals
BY DEF Awaited, ControlSignals

(* A turn keeps the types.                                                 *)
LEMMA TurnKeepsTypes ==
  ASSUME TypeOK, Turn
  PROVE  TypeOK'
<1>1. PICK to, by, control, tick, out, sp :
        Choice(to, control, tick, out, sp) /\ EndTurn(to, by, control, tick, out, sp)
  BY TurnChooses DEF Chosen
<1>2. to \in FlightStates /\ control \in SUBSET ControlSignals
  BY <1>1, SuccessorsAreStates, AwaitedAreSignals DEF Choice, TypeOK
<1>3. QED
  BY <1>1, <1>2, EndTurnKeepsTypes DEF Choice

(* The first state has them.                                               *)
LEMMA InitHasTypes ==
  ASSUME Init
  PROVE  TypeOK
<1>1. leaf \in Leaves
  BY ConfigAssumption DEF Init, FreshLeaf, Leaves
<1>2. elapsed \in 0 .. StageTimeout + AscendingTimeout + 1 /\ unusableAge \in NoAge .. TripDelay
  BY ConfigAssumption DEF Init, NoAge
<1>3. fcu \in FcuStates /\ pose \in WorldPoses /\ setpoint \in Setpoints
  BY DEF Init, FcuStates, WorldPoses, Setpoints, Written, Modes, Heights, Rates
<1>4. pending \in Seq(Commands) /\ Len(pending) <= PendingCapacity /\ outputs \in Seq(Effects)
  BY ConfigAssumption DEF Init
<1>5. QED
  BY <1>1, <1>2, <1>3, <1>4 DEF Init, TypeOK, FlightStates, Distances

(* Inputs and expiries keep them.                                          *)
LEMMA InputKeepsTypes ==
  ASSUME TypeOK, Input
  PROVE  TypeOK'
<1> USE DEF BetweenTurns, monitor, readings
<1>1. ASSUME NEW command \in CommandInputs, PostCommand(command) PROVE TypeOK'
  <2>1. pending' \in Seq(Commands) /\ Len(pending') = Len(pending) + 1
    BY <1>1, InputAssumption DEF PostCommand, TypeOK
  <2>2. Len(pending') <= PendingCapacity
    BY <1>1, <2>1, ConfigAssumption DEF PostCommand, TypeOK
  <2>3. outputs' \in Seq(Effects)
    BY <1>1 DEF PostCommand
  <2>4. QED BY <1>1, <2>1, <2>2, <2>3 DEF PostCommand, TypeOK
<1>2. ASSUME NEW stream \in Streams, Observe(stream), imuSignals' \subseteq Saturations,
             fcu' \in FcuStates, pose' \in WorldPoses, apart' \in Distances, usable' \in BOOLEAN
      PROVE  TypeOK'
  <2>1. outputs' \in Seq(Effects)
    BY <1>2 DEF Observe
  <2>2. QED BY <1>2, <2>1 DEF Observe, TypeOK
<1>3. ASSUME NEW report \in FcuReports, FcuReport(report) PROVE TypeOK'
  BY <1>2, <1>3, InputAssumption DEF FcuReport, TypeOK, Streams
<1>4. ASSUME NEW reading \in PoseReports, NEW ok \in UsableReports, EstimateReport(reading, ok)
      PROVE  TypeOK'
  BY <1>2, <1>4, InputAssumption DEF EstimateReport, TypeOK, Streams
<1>5. ASSUME NEW reading \in PoseReports, NEW gap \in GapReports, PositionReport(reading, gap)
      PROVE  TypeOK'
  <2>1. pose' \in WorldPoses
    BY <1>5, InputAssumption DEF PositionReport, TypeOK, WorldPoses
  <2>2. QED BY <1>2, <1>5, <2>1, InputAssumption DEF PositionReport, TypeOK, Streams
<1>6. ASSUME NEW reading \in PoseReports, VelocityReport(reading) PROVE TypeOK'
  <2>1. pose' \in WorldPoses
    BY <1>6, InputAssumption DEF VelocityReport, TypeOK, WorldPoses
  <2>2. QED BY <1>2, <1>6, <2>1 DEF VelocityReport, TypeOK, Streams
<1>7. ASSUME NEW ok \in UsableReports, ImuReport(ok) PROVE TypeOK'
  <2>1. imuSignals' \subseteq Saturations
    BY <1>7 DEF ImuReport, TypeOK, Setpoints
  <2>2. usable' \in BOOLEAN
    BY <1>7, InputAssumption DEF ImuReport, TypeOK
  <2>3. QED BY <1>2, <1>7, <2>1, <2>2 DEF ImuReport, TypeOK, Streams
<1>8. ASSUME NEW gap \in GapReports, CanonicalReport(gap) PROVE TypeOK'
  BY <1>2, <1>8, InputAssumption DEF CanonicalReport, TypeOK, Streams
<1>9. ASSUME NEW stream \in Watched, Expire(stream) PROVE TypeOK'
  <2>1. outputs' \in Seq(Effects)
    BY <1>9 DEF Expire
  <2>2. QED BY <1>9, <2>1 DEF Expire, TypeOK
<1>10. QED
  BY <1>1, <1>3, <1>4, <1>5, <1>6, <1>7, <1>8, <1>9 DEF Input

(* Time keeps them: ages stop at their limits.                             *)
LEMMA PassKeepsTypes ==
  ASSUME TypeOK, Pass
  PROVE  TypeOK'
<1>0. /\ StageTimeout \in Nat /\ AscendingTimeout \in Nat
      /\ RequestInterval \in Nat /\ TripDelay \in Nat
  BY ConfigAssumption
<1>1. elapsed' \in 0 .. StageTimeout + AscendingTimeout + 1
  <2>1. TimeLimit \in 0 .. StageTimeout + AscendingTimeout + 1
    BY <1>0 DEF TimeLimit
  <2>2. elapsed \in Nat /\ elapsed' = Least(elapsed + 1, TimeLimit)
    BY <1>0 DEF TypeOK, Pass
  <2>3. QED BY <1>0, <2>1, <2>2 DEF Least
<1>2. leaf' \in Leaves
  <2>1. leaf \in Leaves /\ Least(leaf.age + 1, RequestInterval) \in 0 .. RequestInterval
    BY <1>0 DEF TypeOK, Leaves, Least
  <2> DEFINE age == IF flight \in RequestStages THEN Least(leaf.age + 1, RequestInterval)
                    ELSE leaf.age
  <2>2. age \in 0 .. RequestInterval
    BY <2>1 DEF Leaves
  <2>3. leaf' = [leaf EXCEPT !.age = age]
    BY DEF Pass
  <2> HIDE DEF age
  <2>4. QED BY <2>1, <2>2, <2>3 DEF Leaves
<1>3. unusableAge' \in NoAge .. TripDelay
  <2>1. unusableAge \in -1 .. TripDelay
    BY DEF TypeOK, NoAge
  <2>2. unusableAge' = IF unusableAge = -1 THEN -1 ELSE Least(unusableAge + 1, TripDelay)
    BY DEF Pass, NoAge
  <2>3. QED BY <1>0, <2>1, <2>2 DEF Least, NoAge
<1>4. outputs' \in Seq(Effects)
  BY DEF Pass
<1>5. QED
  BY <1>1, <1>2, <1>3, <1>4 DEF Pass, TypeOK, readings

(* Every variable keeps to the values its declaration allows.              *)
THEOREM TypeCorrect == Spec => []TypeOK
<1>1. Init => TypeOK
  BY InitHasTypes
<1>2. TypeOK /\ [Next]_vars => TypeOK'
  <2>1. CASE UNCHANGED vars
    BY <2>1 DEF TypeOK, vars, machine, readings, monitor
  <2>2. QED
    BY <2>1, TurnKeepsTypes, InputKeepsTypes, PassKeepsTypes DEF Next
<1>3. QED
  BY <1>1, <1>2, PTL DEF Spec
-----------------------------------------------------------------------------
(* The safety invariants that hold of every turn by the way it chooses.    *)
SaturatedOnlyTracked == setpoint.saturated # {} => flight = "Custom1"
TurnInv ==
  /\ TypeOK
  /\ SetpointBelongsToState
  /\ LatchOnlyWhileWaiting
  /\ LeftoverIsForeign
  /\ FlownInputsWereLive
  /\ FlownEstimateIsUsable
  /\ SaturatedOnlyTracked
  /\ SaturationIsHeard

(* The invariants hold at first, where nothing is pending or flown.        *)
LEMMA InitTurnInv ==
  ASSUME Init
  PROVE  TurnInv
BY InitHasTypes
   DEF Init, TurnInv, SetpointBelongsToState, LatchOnlyWhileWaiting, LeftoverIsForeign,
       FlownInputsWereLive, FlownEstimateIsUsable, SaturatedOnlyTracked, SaturationIsHeard,
       NormalStates, TakeoffStages, RequestStages, Written

(* Between turns nothing moves but the readings and the signals of an IMU. *)
LEMMA BetweenTurnsFrame ==
  ASSUME TypeOK, Input \/ Pass
  PROVE  /\ UNCHANGED <<flight, deferred, latch, setpoint, wasActive, tripped>>
         /\ outputs' = <<>>
         /\ imuSignals' \subseteq imuSignals \cup setpoint.saturated
BY DEF Input, Pass, PostCommand, FcuReport, EstimateReport, PositionReport, VelocityReport,
       ImuReport, CanonicalReport, Expire, Observe, BetweenTurns, monitor

(* Inputs and time keep the invariants of a turn.                          *)
LEMMA BetweenTurnsKeepsTurnInv ==
  ASSUME TurnInv, Input \/ Pass
  PROVE  TurnInv'
<1>1. TypeOK /\ TypeOK'
  BY InputKeepsTypes, PassKeepsTypes DEF TurnInv
<1>2. /\ UNCHANGED <<flight, deferred, latch, setpoint, wasActive, tripped>>
      /\ imuSignals' \subseteq imuSignals \cup setpoint.saturated
  BY <1>1, BetweenTurnsFrame
<1>3. QED
  BY <1>1, <1>2
     DEF TurnInv, SetpointBelongsToState, LatchOnlyWhileWaiting, LeftoverIsForeign, Awaited,
         FlownInputsWereLive, FlownEstimateIsUsable, SaturatedOnlyTracked, SaturationIsHeard

(* A state that flies on has heard nothing: what was live still is.        *)
LEMMA FlownReadingsAreGood ==
  ASSUME TypeOK, NEW to \in NormalStates, to \in Successors[flight],
         FlownInputsWereLive, FlownEstimateIsUsable,
         IF flight = "SelfCheck" THEN SensorsReady ELSE ~NormalPreempts
  PROVE  Monitored \subseteq active /\ ~Trips
<1>1. flight \in NormalStates \/ flight = "SelfCheck"
  BY DEF Successors, NormalStates, TypeOK, FlightStates
<1>2. CASE flight = "SelfCheck"
  BY <1>2 DEF SensorsReady, Monitored, ControlStateActive, Trips, ControlUnusable,
              NormalStates
<1>3. CASE flight \in NormalStates
  <2>1. HealthSignals \cap SafetySignals = {} /\ Monitored \subseteq wasActive /\ ~tripped
    BY <1>3 DEF NormalPreempts, NormalStates, FlownInputsWereLive, FlownEstimateIsUsable
  <2>2. Lost = {}
    BY <2>1 DEF HealthSignals, SafetySignals, Lost
  <2>3. "EstimateUnusable" \notin HealthSignals
    BY <2>1 DEF SafetySignals
  <2>4. QED
    BY <2>1, <2>2, <2>3 DEF HealthSignals, Lost
<1>4. QED
  BY <1>1, <1>2, <1>3

(* No two states that follow each other await the same event.              *)
LEMMA AwaitedByOneState ==
  ASSUME NEW to \in Successors[flight], to # flight, flight \in FlightStates,
         flight' = to
  PROVE  Awaited \cap Awaited' = {}
BY DEF Successors, Awaited, FlightStates

(* A turn keeps them, by the way it chooses.                               *)
LEMMA TurnKeepsTurnInv ==
  ASSUME TurnInv, Turn
  PROVE  TurnInv'
<1>1. PICK to, by, control, tick, out, sp :
        Choice(to, control, tick, out, sp) /\ EndTurn(to, by, control, tick, out, sp)
  BY TurnChooses DEF Chosen, TurnInv
<1>2. /\ TypeOK /\ TypeOK' /\ flight \in FlightStates /\ flight' = to
      /\ to \in Successors[flight] /\ to \in FlightStates
  BY <1>1, TurnKeepsTypes, SuccessorsAreStates DEF TurnInv, TypeOK, Choice, EndTurn
<1>3. SetpointBelongsToState'
  <2>1. setpoint' = IF to # flight THEN EntrySetpoint(to, sp) ELSE sp
    BY <1>1 DEF EndTurn
  <2>2. sp = setpoint \/ (flight = "Custom1" /\ sp.owner = "Custom1")
    BY <1>1 DEF Choice
  <2>3. SetpointBelongsToState
    BY DEF TurnInv
  <2>4. CASE to = flight
    BY <1>2, <2>1, <2>2, <2>3, <2>4 DEF SetpointBelongsToState, TakeoffStages, RequestStages
  <2>5. CASE to # flight
    <3>1. to \in {"TakeoffInit", "Hover", "Landing"} => setpoint'.owner = to
      BY <2>1, <2>5 DEF EntrySetpoint, Written
    <3>2. to \in {"TakeoffOffboardRequest", "TakeoffArmRequest", "TakeoffAscending"}
            => flight \in RequestStages
      BY <1>2, <2>5 DEF Successors, FlightStates, RequestStages
    <3>3. to = "Custom1" => flight \in {"TakeoffAscending", "Hover"}
      BY <1>2, <2>5 DEF Successors, FlightStates
    <3>4. to \notin {"TakeoffInit", "Hover", "Landing"} => setpoint' = sp
      BY <2>1, <2>5 DEF EntrySetpoint
    <3>5. QED
      BY <1>2, <2>2, <2>3, <3>1, <3>2, <3>3, <3>4
         DEF SetpointBelongsToState, TakeoffStages, RequestStages
  <2>6. QED BY <2>4, <2>5
<1>4. LatchOnlyWhileWaiting'
  <2>1. latch' = LatchAfter(to) /\ LatchOnlyWhileWaiting
    BY <1>1 DEF EndTurn, TurnInv
  <2>2. (to = flight /\ to \in {"Hover", "TakeoffAscending"} /\ "Track" \in Taken)
          => Backend = "PX4_LOCAL"
    BY <1>1 DEF Choice
  <2>3. flight \in {"TakeoffAscending", "Hover"}
          => to \in {"TakeoffAscending", "Hover", "Custom1", "Landing"}
    BY <1>2 DEF Successors
  <2>4. QED
    BY <1>2, <2>1, <2>2, <2>3 DEF LatchOnlyWhileWaiting, LatchAfter
<1>5. LeftoverIsForeign'
  <2>1. /\ deferred' = Leftover(control, by) /\ control \subseteq Awaited
        /\ to = flight => control = {}
    BY <1>1 DEF EndTurn, Choice
  <2>2. deferred' \subseteq control
    BY <2>1 DEF Leftover
  <2>3. QED
    BY <1>2, <2>1, <2>2, AwaitedByOneState DEF LeftoverIsForeign
<1>6. FlownInputsWereLive' /\ FlownEstimateIsUsable'
  <2>1. wasActive' = Monitored \cap active /\ tripped' = Trips
    BY <1>1 DEF EndTurn, HealthTick
  <2>2. to \in NormalStates => Monitored \subseteq active /\ ~Trips
    BY <1>1, <1>2, FlownReadingsAreGood DEF Choice, TurnInv
  <2>3. Monitored' = Monitored
    BY DEF Monitored
  <2>4. QED
    BY <1>2, <2>1, <2>2, <2>3 DEF FlownInputsWereLive, FlownEstimateIsUsable
<1>7. SaturatedOnlyTracked'
  <2>1. setpoint' = IF to # flight THEN EntrySetpoint(to, sp) ELSE sp
    BY <1>1 DEF EndTurn
  <2>2. sp = setpoint \/ flight = "Custom1"
    BY <1>1 DEF Choice
  <2>3. sp.saturated # {} => flight = "Custom1"
    BY <2>2 DEF TurnInv, SaturatedOnlyTracked
  <2>4. flight = "Custom1" /\ to # flight => to \in {"Hover", "Landing"}
    BY <1>2 DEF Successors
  <2>5. QED
    BY <1>2, <2>1, <2>3, <2>4 DEF SaturatedOnlyTracked, EntrySetpoint, Written
<1>8. SaturationIsHeard'
  BY <1>1 DEF EndTurn, SaturationIsHeard
<1>9. QED
  BY <1>2, <1>3, <1>4, <1>5, <1>6, <1>7, <1>8 DEF TurnInv

(* They are invariants together.                                           *)
LEMMA TurnInvariant == Spec => []TurnInv
<1>1. TurnInv /\ [Next]_vars => TurnInv'
  <2>1. CASE UNCHANGED vars
    BY <2>1
       DEF vars, machine, readings, monitor, TurnInv, TypeOK, SetpointBelongsToState,
           LatchOnlyWhileWaiting, LeftoverIsForeign, Awaited, FlownInputsWereLive,
           FlownEstimateIsUsable, SaturatedOnlyTracked, SaturationIsHeard
  <2>2. QED
    BY <2>1, TurnKeepsTurnInv, BetweenTurnsKeepsTurnInv DEF Next
<1>2. QED
  BY <1>1, InitTurnInv, PTL DEF Spec

(* Whatever the backend and the order of events, the setpoint the outputs  *)
(* publish is the active state's own.                                      *)
THEOREM SetpointBelongs == Spec => []SetpointBelongsToState
BY TurnInvariant, PTL DEF TurnInv

(* A remembered request to track never outlives the wait for a reference.  *)
THEOREM LatchIsBounded == Spec => []LatchOnlyWhileWaiting
BY TurnInvariant, PTL DEF TurnInv

(* A deferred completion event is never heard by a state that awaits it.   *)
THEOREM LeftoversAreForeign == Spec => []LeftoverIsForeign
BY TurnInvariant, PTL DEF TurnInv

(* No state flies on with a monitored input lost at the turn before.       *)
THEOREM InputsAreLive == Spec => []FlownInputsWereLive
BY TurnInvariant, PTL DEF TurnInv

(* No state flies on with an estimate that had tripped at the turn before. *)
THEOREM EstimateIsUsable == Spec => []FlownEstimateIsUsable
BY TurnInvariant, PTL DEF TurnInv

(* A saturation signal is only ever raised where it ends the flight.       *)
THEOREM SaturationsAreHeard == Spec => []SaturationIsHeard
BY TurnInvariant, PTL DEF TurnInv
-----------------------------------------------------------------------------
(* The motors.  Frames that were counted and that no report has followed   *)
(* since still tell what the last report says: a landing that counted sees *)
(* the ground, an arming that counted sees the vehicle armed.  Counts are  *)
(* read in a later turn than the one that made them, so neither can be had *)
(* from that turn's own guards.                                            *)
CountedOnGround ==
  flight = "Landing" =>
    /\ ~leaf.posted
    /\ leaf.frames > 0 /\ ~WorldPoseNew => pose.height = "ground"
CountedArmed ==
  flight = "TakeoffArmRequest" /\ leaf.frames > 0 /\ ~FcuNew => fcu.armed
MotorInv == CountedOnGround /\ CountedArmed

(* Nothing has been counted at first.                                      *)
LEMMA InitMotorInv ==
  ASSUME Init
  PROVE  MotorInv
BY DEF Init, MotorInv, CountedOnGround, CountedArmed

(* A report that changes a reading marks its stream as new.                *)
LEMMA ReportsAreNew ==
  ASSUME TypeOK, Input \/ Pass
  PROVE  /\ isNew \subseteq isNew'
         /\ fcu' = fcu \/ FcuNew'
         /\ pose'.height = pose.height \/ WorldPoseNew'
         /\ leaf'.frames = leaf.frames /\ leaf'.posted = leaf.posted /\ flight' = flight
<1>1. CASE Pass
  BY <1>1 DEF Pass, readings, TypeOK, Leaves
<1>2. CASE Input
  <2>1. leaf' = leaf /\ flight' = flight /\ isNew \subseteq isNew'
    BY <1>2 DEF Input, PostCommand, FcuReport, EstimateReport, PositionReport, VelocityReport,
                ImuReport, CanonicalReport, Expire, Observe, BetweenTurns
  <2>2. fcu' = fcu \/ FcuNew'
    BY <1>2 DEF Input, PostCommand, FcuReport, EstimateReport, PositionReport, VelocityReport,
                ImuReport, CanonicalReport, Expire, Observe, readings, FcuNew
  <2>3. ASSUME NEW reading \in PoseReports, NEW ok \in UsableReports, EstimateReport(reading, ok)
        PROVE  WorldPoseNew'
    BY <2>3 DEF EstimateReport, Observe, WorldPoseNew, PoseStreams, ControlStreams, Rigid, Fused
  <2>4. ASSUME NEW reading \in PoseReports, NEW gap \in GapReports, PositionReport(reading, gap)
        PROVE  pose'.height = pose.height \/ WorldPoseNew'
    BY <2>4 DEF PositionReport, Observe, WorldPoseNew, PoseStreams, ControlStreams, Rigid,
                Fused, LocalFeedback
  <2>5. ASSUME NEW reading \in PoseReports, VelocityReport(reading)
        PROVE  pose'.height = pose.height
    BY <2>5 DEF VelocityReport, TypeOK, WorldPoses
  <2>6. pose'.height = pose.height \/ WorldPoseNew'
    BY <1>2, <2>3, <2>4, <2>5 DEF Input, PostCommand, FcuReport, ImuReport, CanonicalReport,
                Expire, readings
  <2>7. QED BY <2>1, <2>2, <2>6
<1>3. QED BY <1>1, <1>2

(* A reading that changes counts as not yet counted.                       *)
LEMMA BetweenTurnsKeepsMotorInv ==
  ASSUME TypeOK, MotorInv, Input \/ Pass
  PROVE  MotorInv'
<1>1. ~WorldPoseNew' => ~WorldPoseNew /\ pose'.height = pose.height
  BY ReportsAreNew DEF WorldPoseNew, PoseStreams
<1>2. ~FcuNew' => ~FcuNew /\ fcu' = fcu
  BY ReportsAreNew DEF FcuNew
<1>3. QED
  BY <1>1, <1>2, ReportsAreNew DEF MotorInv, CountedOnGround, CountedArmed

(* A count that suffices is not zero, since no threshold is.               *)
LEMMA EnoughIsSome ==
  ASSUME TypeOK
  PROVE  /\ LandedFrames >= SettledFrames => LandedFrames > 0
         /\ Confirmed(fcu.armed, ArmFrames) >= ArmFrames => Confirmed(fcu.armed, ArmFrames) > 0
<1>1. SettledFrames \in Nat \ {0} /\ ArmFrames \in Nat \ {0}
  BY ConfigAssumption
<1>2. leaf.frames \in Nat
  BY ConfigAssumption DEF TypeOK, Leaves
<1>3. LandedFrames \in Nat
  BY <1>1, <1>2 DEF LandedFrames, Least
<1>4. Confirmed(fcu.armed, ArmFrames) \in Nat
  BY <1>1, <1>2 DEF Confirmed, Least
<1>5. QED BY <1>1, <1>3, <1>4

(* What a landing has counted it has counted on the ground.                *)
LEMMA LandedOnGround ==
  ASSUME TypeOK, CountedOnGround, flight = "Landing", LandedFrames > 0
  PROVE  pose.height = "ground"
BY DEF CountedOnGround, LandedFrames

(* What an arming has confirmed is that the vehicle is armed.              *)
LEMMA ConfirmedIsArmed ==
  ASSUME CountedArmed, flight = "TakeoffArmRequest", Confirmed(fcu.armed, ArmFrames) > 0
  PROVE  fcu.armed
BY DEF CountedArmed, Confirmed

(* A turn that stays counts on what it read.                               *)
LEMMA TurnKeepsMotorInv ==
  ASSUME TypeOK, MotorInv, Turn
  PROVE  MotorInv'
<1>1. PICK to, by, control, tick, out, sp :
        Choice(to, control, tick, out, sp) /\ EndTurn(to, by, control, tick, out, sp)
  BY TurnChooses DEF Chosen
<1>2. /\ flight' = to /\ isNew' = {} /\ pose' = pose /\ fcu' = fcu
      /\ leaf' = IF to # flight THEN FreshLeaf(to) ELSE tick
      /\ MotorChoice(to, tick, out)
  BY <1>1 DEF EndTurn, Choice, readings
<1>3. CountedOnGround'
  <2>1. CASE to # flight
    BY <1>2, <2>1 DEF CountedOnGround, FreshLeaf
  <2>2. CASE to = flight /\ flight = "Landing"
    <3>1. ~leaf.posted /\ leaf' = tick /\ leaf'.frames = LandedFrames /\ ~leaf'.posted
      BY <1>2, <2>2 DEF MotorInv, CountedOnGround, MotorChoice
    <3>2. LandedFrames > 0 => pose.height = "ground"
      BY <2>2, LandedOnGround DEF MotorInv
    <3>3. QED BY <1>2, <3>1, <3>2 DEF CountedOnGround
  <2>3. QED BY <1>2, <2>1, <2>2 DEF CountedOnGround
<1>4. CountedArmed'
  <2>1. CASE to # flight
    BY <1>2, <2>1 DEF CountedArmed, FreshLeaf
  <2>2. CASE to = flight /\ flight = "TakeoffArmRequest"
    BY <1>2, <2>2, ConfirmedIsArmed DEF MotorInv, MotorChoice, CountedArmed
  <2>3. QED BY <1>2, <2>1, <2>2 DEF CountedArmed
<1>5. QED BY <1>3, <1>4 DEF MotorInv

(* What was counted is still so, until a report comes.                     *)
LEMMA MotorInvariant == Spec => []MotorInv
<1>1. TypeOK /\ MotorInv /\ [Next]_vars => MotorInv'
  <2>1. CASE UNCHANGED vars
    BY <2>1 DEF vars, machine, readings, MotorInv, CountedOnGround, CountedArmed, WorldPoseNew,
                FcuNew, PoseStreams
  <2>2. QED
    BY <2>1, TurnKeepsMotorInv, BetweenTurnsKeepsMotorInv DEF Next
<1>2. QED
  BY <1>1, InitMotorInv, TypeCorrect, PTL DEF Spec

(* What a turn hands to the motors.                                        *)
LEMMA EntryRange ==
  ASSUME NEW state \in FlightStates
  PROVE  /\ {"Arm", "Attitude"} \cap ToSet(EntryOutputs(state)) = {}
         /\ "Disarm" \in ToSet(EntryOutputs(state))
              => state = "TakeoffInit" \/ (state = "Ready" /\ ~Airborne)
<1>1. state \notin {"TakeoffInit", "Ready"} => EntryOutputs(state) \in Seq({"Setpoint", "Activation"})
  <2>1. {<<>>, <<"Setpoint">>, <<"Activation">>} \subseteq Seq({"Setpoint", "Activation"})
    OBVIOUS
  <2>2. state \notin {"TakeoffInit", "Ready"}
          => EntryOutputs(state) \in {<<>>, <<"Setpoint">>, <<"Activation">>}
    BY Zenon DEF EntryOutputs
  <2>3. QED BY <2>1, <2>2
<1>2. state = "Ready" => EntryOutputs(state) = IF Airborne THEN <<>> ELSE <<"Disarm">>
  BY Zenon DEF EntryOutputs
<1>3. state = "TakeoffInit" => EntryOutputs(state) \in Seq({"Setpoint", "Disarm"})
  <2>1. {<<"Setpoint">>, <<"Setpoint", "Disarm">>} \subseteq Seq({"Setpoint", "Disarm"})
    OBVIOUS
  <2>2. state = "TakeoffInit"
          => EntryOutputs(state) \in {<<"Setpoint">>, <<"Setpoint", "Disarm">>}
    BY Zenon DEF EntryOutputs
  <2>3. QED BY <2>1, <2>2
<1>4. state = "TakeoffInit" => {"Arm", "Attitude"} \cap ToSet(EntryOutputs(state)) = {}
  BY <1>3 DEF ToSet
<1>5. state \notin {"TakeoffInit", "Ready"}
        => {"Arm", "Disarm", "Attitude"} \cap ToSet(EntryOutputs(state)) = {}
  BY <1>1 DEF ToSet
<1>6. state = "Ready" => /\ {"Arm", "Attitude"} \cap ToSet(EntryOutputs(state)) = {}
                         /\ "Disarm" \in ToSet(EntryOutputs(state)) => ~Airborne
  BY <1>2 DEF ToSet
<1>7. QED BY <1>4, <1>5, <1>6

(* A take-off begins in Ready only.                                        *)
LEMMA OnlyReadyBegins ==
  ASSUME NEW from \in FlightStates, "TakeoffInit" \in Successors[from]
  PROVE  from \in {"Ready", "TakeoffInit"}
BY DEF Successors, FlightStates

(* A turn asks for a disarm on the ground only, for an arm in its stage.   *)
LEMMA TurnAsksMotors ==
  ASSUME TypeOK, MotorInv, Turn
  PROVE  /\ "Disarm" \in ToSet(outputs') => ~Airborne
         /\ "Arm" \in ToSet(outputs') => flight = "TakeoffArmRequest"
<1>1. PICK to, by, control, tick, out, sp :
        Choice(to, control, tick, out, sp) /\ EndTurn(to, by, control, tick, out, sp)
  BY TurnChooses DEF Chosen
<1>2. /\ outputs' = IF to # flight THEN out \o EntryOutputs(to) ELSE out
      /\ MotorChoice(to, tick, out) /\ out \in Seq(Effects)
      /\ to \in Successors[flight] /\ to \in FlightStates
  BY <1>1, SuccessorsAreStates DEF EndTurn, Choice, TypeOK
<1>3. EntryOutputs(to) \in Seq(Effects)
  BY <1>2, EntryOutputsType
<1>4. ToSet(outputs') \subseteq ToSet(out) \cup (IF to # flight THEN ToSet(EntryOutputs(to)) ELSE {})
  BY <1>2, <1>3, ConcatRange
<1>5. "Disarm" \in ToSet(out) => ~Airborne
  <2>1. SUFFICES ASSUME flight = "Landing", TouchdownAllowed PROVE ~Airborne
    BY <1>2 DEF MotorChoice
  <2>2. LandedFrames > 0
    BY <2>1, EnoughIsSome DEF TouchdownAllowed
  <2>3. QED BY <2>1, <2>2, LandedOnGround DEF MotorInv, Airborne
<1>6. to # flight /\ to = "TakeoffInit" => ~Airborne
  <2>1. flight \in FlightStates
    BY DEF TypeOK
  <2>2. to # flight /\ to = "TakeoffInit" => flight = "Ready"
    BY <1>2, <2>1, OnlyReadyBegins
  <2>3. QED BY <1>2, <2>2 DEF MotorChoice
<1>7. "Arm" \in ToSet(out) => flight = "TakeoffArmRequest"
  BY <1>2 DEF MotorChoice
<1>8. QED
  BY <1>2, <1>4, <1>5, <1>6, <1>7, EntryRange

(* A disarm request never goes out for a vehicle last seen armed and above *)
(* the airborne threshold, whoever asks: a landing that has counted, a     *)
(* take-off that begins, or an idle controller.                            *)
THEOREM NoDisarmInFlight == Spec => []DisarmOnlyOnGround
<1>1. Init => DisarmOnlyOnGround
  BY DEF Init, DisarmOnlyOnGround, ToSet
<1>2. TypeOK /\ MotorInv /\ DisarmOnlyOnGround /\ [Next]_vars => DisarmOnlyOnGround'
  <2>1. ASSUME TypeOK, MotorInv, Turn PROVE DisarmOnlyOnGround'
    <3>1. Airborne' = Airborne
      BY <2>1, TurnChooses DEF Chosen, EndTurn, readings, Airborne
    <3>2. QED BY <2>1, <3>1, TurnAsksMotors DEF DisarmOnlyOnGround, ToSet
  <2>2. ASSUME TypeOK, Input \/ Pass PROVE DisarmOnlyOnGround'
    <3>1. outputs' = <<>>
      BY <2>2, BetweenTurnsFrame
    <3>2. QED BY <3>1 DEF DisarmOnlyOnGround, ToSet
  <2>3. ASSUME DisarmOnlyOnGround, UNCHANGED vars PROVE DisarmOnlyOnGround'
    BY <2>3 DEF vars, machine, readings, DisarmOnlyOnGround, ToSet, Airborne
  <2>4. QED BY <2>1, <2>2, <2>3 DEF Next
<1>3. QED
  BY <1>1, <1>2, TypeCorrect, MotorInvariant, PTL DEF Spec

(* What a turn leaves Landing on.                                          *)
LEMMA LandingEndsOnGround ==
  ASSUME TurnInv, MotorInv, Turn, flight = "Landing", flight' # "Landing"
  PROVE  /\ FcuNew /\ ~fcu.armed /\ fcu.connected
         /\ pose.height = "ground" /\ FeedbackActive /\ flight' = "SelfCheck"
<1>1. TypeOK /\ LeftoverIsForeign
  BY DEF TurnInv
<1>2. PICK to, by, control, tick, out, sp :
        Choice(to, control, tick, out, sp) /\ EndTurn(to, by, control, tick, out, sp)
  BY <1>1, TurnChooses DEF Chosen
<1>3. to = "SelfCheck" /\ flight' = to
  BY <1>2 DEF Choice, EndTurn, Successors
<1>4. TouchdownAllowed /\ ~fcu.armed /\ FcuNew
  BY <1>1, <1>2, <1>3 DEF Choice, MotorChoice
<1>5. LandedFrames > 0
  BY <1>1, <1>4, EnoughIsSome DEF TouchdownAllowed
<1>6. QED
  BY <1>1, <1>3, <1>4, <1>5, LandedOnGround DEF TouchdownAllowed, MotorInv

(* Landing ends only for a vehicle on the ground, on live feedback, that a *)
(* report of this very turn shows disarmed.                                *)
THEOREM TouchdownConfirmed == Spec => TouchdownIsConfirmed
<1>1. TurnInv /\ MotorInv /\ [Next]_vars =>
        [flight = "Landing" /\ flight' # "Landing" =>
           /\ FcuNew /\ ~fcu.armed /\ fcu.connected
           /\ pose.height = "ground" /\ FeedbackActive]_vars
  <2>1. TypeOK /\ (Input \/ Pass) => flight' = flight
    BY BetweenTurnsFrame
  <2>2. QED
    BY <2>1, LandingEndsOnGround DEF Next, TurnInv
<1>2. QED
  BY <1>1, TurnInvariant, MotorInvariant, PTL DEF Spec, TouchdownIsConfirmed
(* An attitude-rate command of the tick that leaves tracking is followed,  *)
(* in the same turn, by the setpoint of the state entered.                 *)
THEOREM AttitudeOverridden == Spec => []AttitudeIsOverridden
<1>1. Init => AttitudeIsOverridden
  BY DEF Init, AttitudeIsOverridden
<1>2. TypeOK /\ AttitudeIsOverridden /\ [Next]_vars => AttitudeIsOverridden'
  <2>1. ASSUME TypeOK, Turn, NEW i \in DOMAIN outputs', outputs'[i] = "Attitude",
               flight' # "Custom1"
        PROVE  \E j \in DOMAIN outputs' : j > i /\ outputs'[j] = "Setpoint"
    <3>1. PICK to, by, control, tick, out, sp :
            Choice(to, control, tick, out, sp) /\ EndTurn(to, by, control, tick, out, sp)
      BY <2>1, TurnChooses DEF Chosen
    <3>2. /\ outputs' = IF to # flight THEN out \o EntryOutputs(to) ELSE out
          /\ out \in Seq(Effects) /\ to \in Successors[flight] /\ to \in FlightStates
          /\ flight' = to
          /\ "Attitude" \in ToSet(out) => flight = "Custom1"
      BY <2>1, <3>1, SuccessorsAreStates DEF EndTurn, Choice, MotorChoice, TypeOK
    <3>3. EntryOutputs(to) \in Seq(Effects) /\ "Attitude" \notin ToSet(EntryOutputs(to))
      BY <3>2, EntryOutputsType, EntryRange
    <3>4. ToSet(outputs') \subseteq ToSet(out) \cup ToSet(EntryOutputs(to))
      BY <3>2, <3>3, ConcatRange
    <3>5. flight = "Custom1"
      BY <2>1, <3>2, <3>3, <3>4 DEF ToSet
    <3>6. to \in {"Hover", "Landing"}
      <4>1. to \in Successors["Custom1"] /\ to # "Custom1"
        BY <2>1, <3>2, <3>5
      <4>2. QED BY <4>1 DEF Successors
    <3>7. outputs' = out \o <<"Setpoint">>
      <4>1. EntryOutputs(to) = <<"Setpoint">>
        BY <3>6, Zenon DEF EntryOutputs
      <4>2. QED BY <3>2, <3>5, <3>6, <4>1
    <3>8. QED BY <2>1, <3>2, <3>7
  <2>2. ASSUME TypeOK, Input \/ Pass PROVE AttitudeIsOverridden'
    <3>1. outputs' = <<>>
      BY <2>2, BetweenTurnsFrame
    <3>2. QED BY <3>1 DEF AttitudeIsOverridden
  <2>3. ASSUME AttitudeIsOverridden, UNCHANGED vars PROVE AttitudeIsOverridden'
    BY <2>3 DEF vars, machine, AttitudeIsOverridden
  <2>4. ASSUME TypeOK, Turn PROVE AttitudeIsOverridden'
    BY <2>1, <2>4 DEF AttitudeIsOverridden
  <2>5. QED BY <2>2, <2>3, <2>4 DEF Next
<1>3. QED
  BY <1>1, <1>2, TypeCorrect, PTL DEF Spec
-----------------------------------------------------------------------------
(* What the monitor notices.  Its position distance is only ever "far" in  *)
(* a state that does not fly by it.                                        *)
FlownNearby ==
  flight \in NormalStates \ {"Ready"} => distance # "far"

(* Distance is judged before each flown turn.                              *)
LEMMA FlownNearbyAlways == Spec => []FlownNearby
<1>1. Init => FlownNearby
  BY DEF Init, FlownNearby
<1>2. TypeOK /\ FlownNearby /\ [Next]_vars => FlownNearby'
  <2>1. ASSUME TypeOK, FlownNearby, Turn PROVE FlownNearby'
    <3>1. PICK to, by, control, tick, out, sp :
            Choice(to, control, tick, out, sp) /\ EndTurn(to, by, control, tick, out, sp)
      BY <2>1, TurnChooses DEF Chosen
    <3>2. flight' = to /\ distance' = Distance /\ to \in Successors[flight]
      BY <3>1 DEF EndTurn, HealthTick, Choice
    <3>3. flight \in NormalStates /\ to # "Landing"
            => (Distance = "far" => flight = "Ready" /\ to # "TakeoffInit")
      BY <3>1 DEF Choice
    <3>4. to \in NormalStates \ {"Ready"}
            => flight \in NormalStates /\ (flight = "Ready" => to = "TakeoffInit")
      BY <2>1, <3>2 DEF Successors, NormalStates, FlightStates, TypeOK
    <3>5. QED BY <3>2, <3>3, <3>4 DEF FlownNearby, NormalStates
  <2>2. ASSUME FlownNearby, UNCHANGED <<flight, distance>> PROVE FlownNearby'
    BY <2>2 DEF FlownNearby
  <2>3. Input \/ Pass => UNCHANGED distance
    BY DEF Input, Pass, PostCommand, FcuReport, EstimateReport, PositionReport, VelocityReport,
           ImuReport, CanonicalReport, Expire, Observe, monitor
  <2>4. UNCHANGED vars => UNCHANGED <<flight, distance>>
    BY DEF vars, machine, monitor
  <2>5. QED BY <2>1, <2>2, <2>3, <2>4, BetweenTurnsFrame DEF Next
<1>3. QED
  BY <1>1, <1>2, TypeCorrect, PTL DEF Spec

(* A turn that flies on has noticed nothing.                               *)
LEMMA TurnNoticesNothing ==
  ASSUME TypeOK, Turn, flight \in NormalStates, flight' # "Landing"
  PROVE  NoticesNothing
<1>1. PICK to, by, control, tick, out, sp :
        Choice(to, control, tick, out, sp) /\ EndTurn(to, by, control, tick, out, sp)
  BY TurnChooses DEF Chosen
<1>2. /\ flight' = to /\ HealthTick /\ to \in Successors[flight]
      /\ ~NormalPreempts /\ (flight = "Ready" \/ Distance # "far")
  BY <1>1 DEF EndTurn, Choice
<1>3. HealthSignals \cap SafetySignals = {}
  BY <1>2 DEF NormalPreempts
<1>4. Lost = {}
  BY <1>3 DEF HealthSignals, SafetySignals, Lost
<1>5. Risen = {}
  <2>1. Risen \subseteq Alarms
    BY DEF Risen, TypeOK, WorldPoses
  <2>2. QED BY <1>3, <2>1 DEF HealthSignals, SafetySignals
<1>6. "EstimateUnusable" \notin HealthSignals
  BY <1>3 DEF SafetySignals
<1>7. Trips => tripped
  BY <1>6 DEF HealthSignals
<1>8. QED
  BY <1>2, <1>4, <1>5, <1>7 DEF NoticesNothing, HealthTick, Lost, Risen, TypeOK

(* Whatever the monitor notices in flight lands the vehicle at that turn:  *)
(* an edge is consumed only by a state that hears it.                      *)
THEOREM NoticedLands == Spec => NoticedAlarmLands
<1>1. TypeOK /\ FlownNearby /\ [Next]_vars =>
        [(flight \in NormalStates /\ flight' # "Landing") => NoticesNothing]_vars
  <2>1. ASSUME TypeOK, FlownNearby, Input \/ Pass, flight \in NormalStates PROVE NoticesNothing
    <3>1. UNCHANGED <<wasActive, tripped, distance, alarmed>>
      BY <2>1 DEF Input, Pass, PostCommand, FcuReport, EstimateReport, PositionReport,
             VelocityReport, ImuReport, CanonicalReport, Expire, Observe, monitor
    <3>2. QED BY <2>1, <3>1 DEF NoticesNothing, FlownNearby
  <2>2. QED
    BY <2>1, TurnNoticesNothing DEF Next
<1>2. QED
  BY <1>1, TypeCorrect, FlownNearbyAlways, PTL DEF Spec, NoticedAlarmLands
-----------------------------------------------------------------------------
(* The steps behind two of the liveness properties: what a fair scheduler  *)
(* needs besides the turns it gives.                                       *)
InFlight == {"TakeoffAscending", "Hover", "Custom1"}

(* A flying state stays one or lands.                                      *)
LEMMA FlightStaysOrLands ==
  ASSUME NEW from \in InFlight, NEW to \in Successors[from]
  PROVE  to \in InFlight \cup {"Landing"}
BY DEF InFlight, Successors

(* A turn lands by a Land command or moves it up by a whole batch, and     *)
(* then asks for the next.                                                 *)
LEMMA TurnServesLand ==
  ASSUME TypeOK, Turn, flight \in InFlight,
         NEW i \in DOMAIN pending, pending[i] = "Land", flight' # "Landing"
  PROVE  /\ flight' \in InFlight /\ wake'
         /\ i - BatchLimit \in DOMAIN pending' /\ pending'[i - BatchLimit] = "Land"
<1>1. PICK to, by, control, tick, out, sp :
        Choice(to, control, tick, out, sp) /\ EndTurn(to, by, control, tick, out, sp)
  BY TurnChooses DEF Chosen
<1>2. /\ flight' = to /\ pending' = Backlog /\ to \in Successors[flight]
      /\ wake' = MoreTurns(to # flight, Leftover(control, by))
  BY <1>1 DEF EndTurn, Choice
<1>3. flight' \in InFlight
  BY <1>2, FlightStaysOrLands
<1>4. "Land" \notin Taken
  <2>1. flight \in NormalStates
    BY DEF InFlight, NormalStates, FlightStates
  <2>2. ~NormalPreempts
    BY <1>1, <1>2, <2>1 DEF Choice
  <2>3. QED BY <2>2 DEF NormalPreempts
<1>5. /\ pending \in Seq(Commands) /\ Len(pending) \in Nat /\ BatchLimit \in Nat \ {0}
      /\ i \in 1 .. Len(pending)
  BY ConfigAssumption DEF TypeOK
<1>6. Batch = BatchLimit /\ i > BatchLimit /\ BatchLimit < Len(pending)
  <2>1. i \notin 1 .. Batch
    BY <1>4 DEF Taken
  <2>2. QED BY <1>5, <2>1 DEF Batch, Least
<1>7. /\ Backlog = [k \in 1 .. Len(pending) - BatchLimit |-> pending[BatchLimit + k]]
      /\ Len(Backlog) = Len(pending) - BatchLimit
  BY <1>5, <1>6 DEF Backlog
<1>8. i - BatchLimit \in 1 .. Len(pending) - BatchLimit
  BY <1>5, <1>6
<1>9. pending'[i - BatchLimit] = "Land" /\ i - BatchLimit \in DOMAIN pending'
  BY <1>2, <1>5, <1>7, <1>8
<1>10. wake'
  <2>1. Len(Backlog) # Len(<<>>)
    BY <1>5, <1>6, <1>7
  <2>2. Backlog # <<>>
    BY Zenon, <2>1
  <2>3. QED BY <1>2, <2>2 DEF MoreTurns
<1>11. QED
  BY <1>3, <1>9, <1>10

(* Between turns nothing overtakes it: what is posted later waits behind.  *)
LEMMA InputsKeepOrder ==
  ASSUME TypeOK, Input \/ Pass, NEW i \in DOMAIN pending
  PROVE  /\ i \in DOMAIN pending' /\ pending'[i] = pending[i]
         /\ flight' = flight /\ wake'
<1>1. flight' = flight /\ wake'
  BY DEF Input, Pass, PostCommand, FcuReport, EstimateReport, PositionReport, VelocityReport,
         ImuReport, CanonicalReport, Expire, Observe, BetweenTurns
<1>2. CASE UNCHANGED pending
  BY <1>1, <1>2
<1>3. CASE \E command \in CommandInputs : pending' = Append(pending, command)
  <2>1. pending \in Seq(Commands) /\ CommandInputs \subseteq Commands
    BY InputAssumption DEF TypeOK
  <2>2. i \in DOMAIN pending' /\ pending'[i] = pending[i]
    BY <1>3, <2>1
  <2>3. QED BY <1>1, <2>2
<1>4. QED
  BY <1>2, <1>3 DEF Input, Pass, PostCommand, FcuReport, EstimateReport, PositionReport,
         VelocityReport, ImuReport, CanonicalReport, Expire, Observe

(* A Land command accepted in flight is served: until the vehicle lands it *)
(* waits, a turn is asked for, and every turn brings it BatchLimit places  *)
(* nearer, whatever is posted meanwhile.                                   *)
LandDrawsNear ==
  [][\A i \in DOMAIN pending :
       flight \in InFlight /\ pending[i] = "Land" /\ flight' # "Landing" =>
         /\ flight' \in InFlight /\ wake'
         /\ \E j \in DOMAIN pending' :
              /\ pending'[j] = "Land"
              /\ j = IF Turn THEN i - BatchLimit ELSE i]_vars
THEOREM LandIsServed == Spec => LandDrawsNear
<1>1. TypeOK /\ [Next]_vars =>
        [\A i \in DOMAIN pending :
           flight \in InFlight /\ pending[i] = "Land" /\ flight' # "Landing" =>
             /\ flight' \in InFlight /\ wake'
             /\ \E j \in DOMAIN pending' :
                  /\ pending'[j] = "Land"
                  /\ j = IF Turn THEN i - BatchLimit ELSE i]_vars
  <2> SUFFICES ASSUME TypeOK, Next, NEW i \in DOMAIN pending,
                      flight \in InFlight, pending[i] = "Land", flight' # "Landing"
               PROVE  /\ flight' \in InFlight /\ wake'
                      /\ \E j \in DOMAIN pending' :
                           /\ pending'[j] = "Land"
                           /\ j = IF Turn THEN i - BatchLimit ELSE i
    OBVIOUS
  <2>1. CASE Turn
    BY <2>1, TurnServesLand
  <2>2. CASE ~Turn
    BY <2>2, InputsKeepOrder DEF Next
  <2>3. QED BY <2>1, <2>2
<1>2. QED
  BY <1>1, TypeCorrect, PTL DEF Spec, LandDrawsNear

(* An ascent that goes on has posted nothing: it leaves with its event.    *)
AscentUndecided == flight = "TakeoffAscending" => ~leaf.posted

(* ... since a turn that stays raised none, and one that enters is fresh.  *)
LEMMA AscentIsUndecided == Spec => []AscentUndecided
<1>1. Init => AscentUndecided
  BY DEF Init, AscentUndecided
<1>2. TypeOK /\ AscentUndecided /\ [Next]_vars => AscentUndecided'
  <2>1. ASSUME TypeOK, AscentUndecided, Turn PROVE AscentUndecided'
    <3>1. PICK to, by, control, tick, out, sp :
            Choice(to, control, tick, out, sp) /\ EndTurn(to, by, control, tick, out, sp)
      BY <2>1, TurnChooses DEF Chosen
    <3>2. flight' = to /\ leaf' = IF to # flight THEN FreshLeaf(to) ELSE tick
      BY <3>1 DEF EndTurn
    <3>3. to = flight /\ flight = "TakeoffAscending" => tick.posted = leaf.posted
      BY <3>1 DEF Choice
    <3>4. FreshLeaf(to).posted = FALSE
      BY DEF FreshLeaf
    <3>5. QED BY <2>1, <3>2, <3>3, <3>4 DEF AscentUndecided
  <2>2. ASSUME TypeOK, AscentUndecided, Input \/ Pass PROVE AscentUndecided'
    <3>1. flight' = flight
      BY <2>2, BetweenTurnsFrame
    <3>2. leaf'.posted = leaf.posted
      BY <2>2 DEF Input, Pass, PostCommand, FcuReport, EstimateReport, PositionReport,
         VelocityReport, ImuReport, CanonicalReport, Expire, Observe, BetweenTurns, TypeOK, Leaves
    <3>3. QED BY <2>2, <3>1, <3>2 DEF AscentUndecided
  <2>3. ASSUME AscentUndecided, UNCHANGED vars PROVE AscentUndecided'
    BY <2>3 DEF vars, machine, AscentUndecided
  <2>4. QED BY <2>1, <2>2, <2>3 DEF Next
<1>3. QED
  BY <1>1, <1>2, TypeCorrect, PTL DEF Spec

(* The take-off goes forward only and no turn prolongs a stage past its    *)
(* limit: the first one that finds it exceeded leaves the stage.           *)
Step(state) == CASE state = "TakeoffInit" -> 1 [] state = "TakeoffOffboardRequest" -> 2
                 [] state = "TakeoffArmRequest" -> 3 [] state = "TakeoffAscending" -> 4
                 [] OTHER -> 5
StageLimit == IF flight = "TakeoffAscending" THEN AscendingTimeout ELSE StageTimeout
StagesAreLeft ==
  [][(flight \in TakeoffStages) =>
       /\ flight' # flight => Step(flight') > Step(flight)
       /\ Turn /\ elapsed > StageLimit => flight' # flight]_vars

(* The state graph goes that way.                                          *)
LEMMA StagesGoForward ==
  ASSUME NEW from \in TakeoffStages, NEW to \in Successors[from], to # from
  PROVE  Step(to) > Step(from)
<1>1. from \in {"TakeoffInit", "TakeoffOffboardRequest", "TakeoffArmRequest", "TakeoffAscending"}
  BY DEF TakeoffStages, RequestStages
<1>2. CASE from = "TakeoffInit"
  <2>1. to \in {"Ready", "TakeoffOffboardRequest", "Landing"}
    BY <1>2 DEF Successors
  <2>2. QED BY <1>2, <2>1 DEF Step
<1>3. CASE from = "TakeoffOffboardRequest"
  <2>1. to \in {"Ready", "TakeoffArmRequest", "Landing"}
    BY <1>3 DEF Successors
  <2>2. QED BY <1>3, <2>1 DEF Step
<1>4. CASE from = "TakeoffArmRequest"
  <2>1. to \in {"TakeoffAscending", "Landing"}
    BY <1>4 DEF Successors
  <2>2. QED BY <1>4, <2>1 DEF Step
<1>5. CASE from = "TakeoffAscending"
  <2>1. to \in {"Hover", "Custom1", "Landing"}
    BY <1>5 DEF Successors
  <2>2. QED BY <1>5, <2>1 DEF Step
<1>6. QED
  BY <1>1, <1>2, <1>3, <1>4, <1>5

(* However the reports, requests and confirmations come, a stage of the    *)
(* take-off is left forward, and at the latest by the first turn past its  *)
(* time limit.                                                             *)
THEOREM TakeoffGoesOn == Spec => StagesAreLeft
<1>1. TypeOK /\ AscentUndecided /\ [Next]_vars =>
        [(flight \in TakeoffStages) =>
           /\ flight' # flight => Step(flight') > Step(flight)
           /\ Turn /\ elapsed > StageLimit => flight' # flight]_vars
  <2>1. ASSUME TypeOK, AscentUndecided, Turn, flight \in TakeoffStages
        PROVE  /\ flight' # flight => Step(flight') > Step(flight)
               /\ elapsed > StageLimit => flight' # flight
    <3>1. PICK to, by, control, tick, out, sp :
            Choice(to, control, tick, out, sp) /\ EndTurn(to, by, control, tick, out, sp)
      BY <2>1, TurnChooses DEF Chosen
    <3>2. flight' = to /\ to \in Successors[flight]
      BY <3>1 DEF EndTurn, Choice
    <3>3. /\ to = flight /\ flight \in RequestStages => ~StageLate
          /\ to = flight /\ flight = "TakeoffAscending" =>
               (elapsed > AscendingTimeout => leaf.posted)
      BY <3>1 DEF Choice
    <3>4. elapsed > StageLimit => to # flight
      BY <2>1, <3>3 DEF StageLimit, StageLate, TakeoffStages, RequestStages, AscentUndecided
    <3>5. QED BY <2>1, <3>2, <3>4, StagesGoForward
  <2>2. TypeOK /\ (Input \/ Pass) => flight' = flight
    BY BetweenTurnsFrame
  <2>3. QED BY <2>1, <2>2 DEF Next
<1>2. QED
  BY <1>1, TypeCorrect, AscentIsUndecided, PTL DEF Spec, StagesAreLeft
-----------------------------------------------------------------------------
(* Refinement: every step of the machine is a step of FlightPhases.        *)

(* The first state is one of FlightPhases.                                 *)
LEMMA InitRefines ==
  ASSUME Init
  PROVE  Phases!Init
BY DEF Init, Phases!Init, Phases!Vehicles, PhaseOf, Heights, ToSet, RequestStages

(* Inputs and time are reports of FlightPhases.                            *)
LEMMA BetweenTurnsRefines ==
  ASSUME TypeOK, Input \/ Pass
  PROVE  Phases!Report
<1>1. TypeOK' /\ flight' = flight /\ outputs' = <<>>
  BY InputKeepsTypes, PassKeepsTypes, BetweenTurnsFrame
<1>2. fcu' \in FcuStates /\ pose' \in WorldPoses
  BY <1>1 DEF TypeOK
<1>3. QED
  BY <1>1, <1>2 DEF Phases!Report, Phases!Vehicles, PhaseOf, FcuStates, WorldPoses, ToSet

(* A turn is a step of FlightPhases, or stays in its phase.                *)
LEMMA TurnRefines ==
  ASSUME TurnInv, MotorInv, Turn
  PROVE  Phases!Next
<1>1. PICK to, by, control, tick, out, sp :
        Choice(to, control, tick, out, sp) /\ EndTurn(to, by, control, tick, out, sp)
  BY TurnChooses DEF Chosen, TurnInv
<1>2. /\ TypeOK /\ LeftoverIsForeign
      /\ flight' = to /\ fcu' = fcu /\ pose' = pose /\ MotorChoice(to, tick, out)
      /\ to \in Successors[flight] /\ flight \in FlightStates /\ to \in FlightStates
  BY <1>1, SuccessorsAreStates DEF EndTurn, Choice, readings, TypeOK, TurnInv
<1> DEFINE asks == {"Arm", "Disarm"} \cap ToSet(outputs)
           vehicle == [armed |-> fcu.armed, connected |-> fcu.connected, height |-> pose.height]
<1>3. Phases!Asks
  <2>1. "Arm" \in ToSet(outputs') => PhaseOf(flight) = "Requesting"
    BY <1>2, TurnAsksMotors DEF PhaseOf, RequestStages
  <2>2. "Disarm" \in ToSet(outputs') => ~Airborne
    BY <1>2, TurnAsksMotors
  <2>3. Phases!Airborne <=> Airborne
    BY DEF Phases!Airborne, Airborne
  <2>4. QED BY <2>1, <2>2, <2>3 DEF Phases!Asks, ToSet
<1>4. vehicle' = vehicle
  BY <1>2
<1>5. Phases!Step(PhaseOf(flight), PhaseOf(to))
  BY <1>2, <1>3, <1>4 DEF Phases!Step, PhaseOf
<1>6. {PhaseOf(flight), PhaseOf(to)} \subseteq Phases!Phases
  BY DEF PhaseOf, Phases!Phases
<1>7. CASE PhaseOf(to) = PhaseOf(flight)
  BY <1>5, <1>6, <1>7 DEF Phases!Next, Phases!Stay
<1>8. CASE PhaseOf(to) # PhaseOf(flight) /\ to = "Landing"
  BY <1>5, <1>6, <1>8 DEF Phases!Next, Phases!Land, PhaseOf, RequestStages
<1>9. CASE PhaseOf(to) # PhaseOf(flight) /\ to # "Landing"
  <2>1. \/ flight = "Ready" /\ to = "TakeoffInit"
        \/ flight \in {"TakeoffInit", "TakeoffOffboardRequest"} /\ to = "Ready"
        \/ flight = "TakeoffArmRequest" /\ to = "TakeoffAscending"
        \/ flight = "Landing" /\ to = "SelfCheck"
    BY <1>2, <1>9 DEF Successors, FlightStates, PhaseOf, RequestStages
  <2>2. CASE flight = "Ready" /\ to = "TakeoffInit"
    BY <1>2, <1>5, <2>2
       DEF Phases!Next, Phases!Prepare, Phases!Airborne, Airborne, MotorChoice, PhaseOf, RequestStages
  <2>3. CASE flight \in {"TakeoffInit", "TakeoffOffboardRequest"} /\ to = "Ready"
    BY <1>2, <1>5, <2>3 DEF Phases!Next, Phases!GiveUp, MotorChoice, PhaseOf, RequestStages
  <2>4. CASE flight = "TakeoffArmRequest" /\ to = "TakeoffAscending"
    <3>1. Confirmed(fcu.armed, ArmFrames) > 0
      BY <1>2, <2>4, EnoughIsSome DEF MotorChoice
    <3>2. fcu.armed
      BY <2>4, <3>1, ConfirmedIsArmed DEF MotorInv
    <3>3. QED BY <1>5, <2>4, <3>2 DEF Phases!Next, Phases!LiftOff, PhaseOf, RequestStages
  <2>5. CASE flight = "Landing" /\ to = "SelfCheck"
    BY <1>2, <1>5, <2>5, LandingEndsOnGround
       DEF Phases!Next, Phases!Touchdown, PhaseOf, RequestStages
  <2>6. QED BY <2>1, <2>2, <2>3, <2>4, <2>5
<1>10. QED BY <1>7, <1>8, <1>9

(* The flight machine implements FlightPhases: whatever asked to fly comes *)
(* back to idling by giving up before its arm request or by a touchdown on *)
(* the ground, takes off only once seen armed, and is asked to stop its    *)
(* motors only on the ground.                                              *)
THEOREM MachineImplementsPhases == Spec => ImplementsPhases
<1>1. Init => Phases!Init
  BY InitRefines
<1>2. TurnInv /\ MotorInv /\ [Next]_vars => [Phases!Next]_Phases!vars
  <2>1. CASE UNCHANGED vars
    BY <2>1 DEF vars, machine, readings, Phases!vars, PhaseOf, ToSet
  <2>2. CASE Input \/ Pass
    BY <2>2, BetweenTurnsRefines DEF Phases!Next, TurnInv
  <2>3. CASE Turn
    BY <2>3, TurnRefines
  <2>4. QED BY <2>1, <2>2, <2>3 DEF Next
<1>3. QED
  BY <1>1, <1>2, TurnInvariant, MotorInvariant, PTL DEF Spec, ImplementsPhases, Phases!Spec
=============================================================================
