----------------------------- MODULE TrackingGate -----------------------------
(***************************************************************************)
(* Custom1State with the backends that compute their command in the turn   *)
(* itself: px4_local, smc, pva_smc, and dfbc with planner setpoints        *)
(* ("DFBC") or with the cached reference ("DFBC_CACHE").  NmpcExchange has *)
(* the fifth, nmpc.  A turn promotes the due segment, decides whether it   *)
(* may be flown, and otherwise hovers or holds the position it froze.      *)
(*                                                                         *)
(* Turns are not a poll: one comes for an input the state listens to, and  *)
(* when nextWake said so; here at most Lateness after it is owed.          *)
(***************************************************************************)
EXTENDS TrajectoryBuffer, FiniteSetsExt

CONSTANTS
  Modes,        \* the configurations: backend, lift, publish and control periods
  LogInterval,  \* 1 s, between two warnings that tracking waits
  Lateness,     \* how late an owed turn may come
  Ahead,        \* how far ahead of time a segment may be stamped
  Behind,       \* and how far behind
  Lengths,      \* how long a cached reference may last
  Begin, MaxTime, MaxEntries   \* bounds of the model

ModeOf == [backend : {"PX4_LOCAL", "SMC", "DFBC", "DFBC_CACHE", "PVA_SMC"},
           lift : {"Legacy", "ZeroOrderHold"}, publish : Nat \ {0}, control : Nat \ {0}]
ASSUME GateAssumption ==
  /\ Modes \subseteq ModeOf
  /\ {Lateness, Ahead, Behind, MaxTime, MaxEntries} \subseteq Nat /\ LogInterval \in Nat \ {0}
  /\ Lengths \subseteq Nat
  /\ Begin \in 1 .. MaxTime /\ \A m \in Modes : m.publish <= Begin

VARIABLES
  mode,    \* the configuration, and with it the periods
  now,     \* the controller's time; 0 stands for never
  pose,    \* the measured pose
  able,    \* whether the strategy has the inputs it needs
  paired,  \* whether a position and velocity pair has come
  buffer,  \* MpcTrajectoryBuffer
  cache,   \* when the cached reference ends, 0 when there is none
  inside,  \* whether Custom1 is the flight state
  leaf,    \* Custom1State's members
  timer,   \* the timer of the warning that tracking waits: when it was last reset,
           \* 0 when stopped
  out,     \* the last command of this entry
  woken,   \* whether an input came after the last turn
  due,     \* the wake the last turn asked for
  late,    \* for how long a turn has been owed
  entries  \* how often Custom1 was entered

world == <<pose, able, paired>>
planned == <<buffer, cache>>
vars == <<mode, now, world, planned, inside, leaf, timer, out, woken, due, late, entries>>
-----------------------------------------------------------------------------
Never == MaxTime + 1
Outside == [hover |-> pose, armed |-> FALSE, entered |-> FALSE, held |-> FALSE,
            frozen |-> pose, last |-> 0, command |-> 0, finished |-> FALSE]
Silence == [kind |-> "none", at |-> pose]

Init ==
  /\ mode \in Modes /\ now = Begin
  /\ pose \in Poses /\ able = FALSE /\ paired = FALSE
  /\ buffer = EmptyBuffer /\ cache = 0
  /\ inside = FALSE /\ leaf = Outside /\ timer = 0 /\ out = Silence
  /\ woken = FALSE /\ due = Never /\ late = 0 /\ entries = 0

PublishDue(period) == now - leaf.last >= period
(* shouldRunSynchronousStrategy: the first update waits for nothing.       *)
SynchronousDue == leaf.last = 0 \/ now - leaf.last >= mode.control
-----------------------------------------------------------------------------
(* What a turn sends.                                                      *)
Send(kind, at, next) ==
  leaf' = [next EXCEPT !.last = now] /\ out' = [kind |-> kind, at |-> at]
Quiet(next) == leaf' = next /\ out' = out
Hover(next) == Send("hover", pose, next)
HoverIfDue(next) == IF PublishDue(mode.publish) THEN Hover(next) ELSE Quiet(next)
(* Where the vehicle is sent by a command that tracks is not told apart.   *)
Track(kind, next) == Send(kind, Partial, next)
(* holdTrackingPosition: the pose is measured once, when the hold begins.  *)
FrozenAgain(next) == [next EXCEPT !.held = TRUE, !.frozen = pose]
Frozen(next) == IF next.held THEN next ELSE [next EXCEPT !.held = TRUE, !.frozen = pose]
Hold(next) == Send("held", Frozen(next).frozen, Frozen(next))
(* shouldRunEvery.                                                         *)
Warn == timer' = IF timer = 0 \/ now - timer >= LogInterval THEN now ELSE timer
-----------------------------------------------------------------------------
Entered == [leaf EXCEPT !.entered = @ \/ able]
(* Whether the segment this turn finds active may be flown now.            *)
Ready(next) ==
  Lifts(mode, buffer'.active, now) /\ MayTake(buffer'.active, leaf.hover, next.armed)

PvaSmcTurn ==
  /\ mode.backend = "PVA_SMC"
  /\ buffer' = Promoted(mode, buffer, now)
  /\ IF /\ Valid(buffer'.active) /\ paired
        /\ Promotable(mode, buffer, now) \/ PublishDue(mode.publish)
     THEN Track("tracked", leaf) ELSE Quiet(leaf)
  /\ UNCHANGED <<cache, timer>>

PassThroughTurn ==
  /\ mode.backend = "PX4_LOCAL"
  /\ buffer' = Promoted(mode, buffer, now)
  /\ \/ /\ ~MayTake(buffer'.active, leaf.hover, leaf.armed)
        /\ Warn /\ HoverIfDue([leaf EXCEPT !.armed = FALSE])
     \/ /\ MayTake(buffer'.active, leaf.hover, leaf.armed)
        /\ ~Lifts(mode, buffer'.active, now)
        /\ HoverIfDue(leaf) /\ UNCHANGED timer
     \/ /\ Ready(leaf) /\ UNCHANGED timer
        /\ LET next == [leaf EXCEPT !.armed = TRUE]
           IN  IF PublishDue(mode.publish) THEN Track("tracked", next) ELSE Quiet(next)
  /\ UNCHANGED cache

(* A successful update ends the hold; one that fails begins it.            *)
Update(next, failure) ==
  \/ able /\ Track("tracked", [next EXCEPT !.held = FALSE]) /\ UNCHANGED timer
  \/ Warn /\ failure

SmcTurn ==
  /\ mode.backend = "SMC"
  /\ buffer' = Promoted(mode, buffer, now)
  /\ LET next == Entered
         armed == [next EXCEPT !.armed = TRUE]
     IN  \/ ~Ready(next) /\ next.armed /\ ~next.held /\ Warn /\ Hold(next)
         \/ /\ ~Ready(next) /\ next.held /\ UNCHANGED timer
            /\ IF PublishDue(mode.publish) THEN Hold(next) ELSE Quiet(next)
         \/ ~Ready(next) /\ ~next.armed /\ ~next.held /\ Warn /\ HoverIfDue(next)
         \/ Ready(next) /\ ~next.entered /\ HoverIfDue(armed) /\ UNCHANGED timer
         \/ Ready(next) /\ next.entered /\ ~SynchronousDue /\ Quiet(armed) /\ UNCHANGED timer
         \/ Ready(next) /\ next.entered /\ SynchronousDue /\ Update(armed, Hold(armed))
  /\ UNCHANGED cache

StreamingTurn ==
  /\ mode.backend = "DFBC"
  /\ buffer' = Promoted(mode, buffer, now)
  /\ LET next == Entered
         armed == [next EXCEPT !.armed = TRUE]
     IN  \/ /\ ~Ready(next) /\ (next.armed \/ next.held) /\ UNCHANGED timer
            /\ IF PublishDue(mode.publish) THEN Hold(next) ELSE Quiet(next)
         \/ ~Ready(next) /\ ~next.armed /\ ~next.held /\ HoverIfDue(next) /\ UNCHANGED timer
         \/ Ready(next) /\ ~SynchronousDue /\ Quiet(armed) /\ UNCHANGED timer
         \/ Ready(next) /\ SynchronousDue /\ ~next.entered /\ Hover(armed) /\ UNCHANGED timer
         \/ Ready(next) /\ SynchronousDue /\ next.entered /\ Update(armed, Hold(armed))
  /\ UNCHANGED cache

(* The cached reference: the finish is posted once, and the flight leaves  *)
(* Custom1 for it before another turn.  The reference may fail to evaluate *)
(* at any time; a hover covers that, and a strategy that has not begun.    *)
Ending == cache # 0 /\ cache - now <= mode.control
CachedTurn ==
  /\ mode.backend = "DFBC_CACHE"
  /\ LET next == Entered
         armed == [next EXCEPT !.armed = TRUE]
     IN  \/ cache = 0 /\ Warn /\ HoverIfDue([next EXCEPT !.armed = FALSE])
         \/ Ending /\ Hover([next EXCEPT !.armed = FALSE, !.finished = TRUE]) /\ UNCHANGED timer
         \/ /\ cache # 0 /\ ~Ending /\ ~SynchronousDue
            /\ Quiet(armed) /\ UNCHANGED timer
         \/ cache # 0 /\ ~Ending /\ SynchronousDue /\ Hover(armed) /\ UNCHANGED timer
         \/ /\ cache # 0 /\ ~Ending /\ SynchronousDue /\ next.entered /\ UNCHANGED timer
            /\ \/ able /\ Track("tracked", armed)
               \/ Track("backup", armed)
  /\ UNCHANGED planned
-----------------------------------------------------------------------------
(* nextWake.  A segment's end is one past the last instant of its window.  *)
Expires(segment) ==
  IF Valid(segment) /\ now < Expiry(segment) THEN {Expiry(segment)} ELSE {}
PendingWakes == IF Valid(buffer.pending) /\ EffectiveTime(mode) THEN {buffer.pending.stamp} ELSE {}
SegmentWakes ==
  LET effective == EffectiveTime(mode)
      pair == mode.backend # "PVA_SMC" \/ paired
  IN  (IF Valid(buffer.pending) /\ effective /\ pair THEN {buffer.pending.stamp} ELSE {})
      \cup (IF effective /\ mode.backend # "PVA_SMC" THEN Expires(buffer.active) ELSE {})
PublishWakeFromNow == now + mode.publish
PublishWake == leaf.last + mode.publish
SynchronousWake == IF leaf.last = 0 THEN now ELSE leaf.last + mode.control
WarningWakes == IF timer = 0 THEN {} ELSE {timer + LogInterval}
MayBeFlown == MayTake(buffer.active, leaf.hover, leaf.armed)
SmcNotReady(ready) == ~ready
SmcWaits(ready) == ~ready /\ ~leaf.armed /\ ~leaf.held
GateWakes ==
  LET ready == Lifts(mode, buffer.active, now) /\ MayBeFlown
  IN  CASE mode.backend = "PVA_SMC" ->
             IF Valid(buffer.active) /\ paired THEN {PublishWake} ELSE {}
        [] mode.backend = "PX4_LOCAL" ->
             {PublishWake} \cup (IF MayBeFlown THEN {} ELSE WarningWakes)
        [] mode.backend = "SMC" ->
             {IF ready /\ leaf.entered THEN SynchronousWake ELSE PublishWake}
             \cup (IF SmcWaits(ready) THEN WarningWakes ELSE {})
        [] mode.backend = "DFBC" -> {IF ready THEN SynchronousWake ELSE PublishWake}
        [] mode.backend = "DFBC_CACHE" ->
             IF cache = 0 THEN {PublishWake} \cup WarningWakes
             ELSE {SynchronousWake, IF Ending THEN now ELSE cache - mode.control}
Wakes ==
  IF leaf.finished THEN {Never} ELSE SegmentWakes \cup GateWakes \cup {Never}
Owed == inside /\ ~leaf.finished /\ (woken \/ due <= now)
-----------------------------------------------------------------------------
Turn ==
  /\ Owed
  /\ PvaSmcTurn \/ PassThroughTurn \/ SmcTurn \/ StreamingTurn \/ CachedTurn
  /\ UNCHANGED <<mode, now, world, inside, entries>>
  /\ woken' = FALSE /\ due' = Min(Wakes') /\ late' = 0

(* custom1ReferenceReady: px4_local waits for a segment at its pose.       *)
ReferenceReady ==
  mode.backend = "PX4_LOCAL" =>
    \E segment \in {buffer.active, buffer.pending} :
      Finite(segment) /\ MatchesHover(segment, pose)
(* onEnter, from a state that hovers.                                      *)
Enter ==
  /\ ~inside /\ entries < MaxEntries /\ ReferenceReady
  /\ inside' = TRUE /\ entries' = entries + 1
  /\ leaf' = [Outside EXCEPT !.command = now] /\ out' = Silence
  /\ buffer' = IF mode.backend = "DFBC" THEN EmptyBuffer ELSE buffer
  /\ cache' = IF mode.backend \in {"DFBC", "DFBC_CACHE"} THEN 0 ELSE cache
  /\ woken' = TRUE
  /\ UNCHANGED <<mode, now, world, timer, due, late>>

(* onExit, on a command, an alarm, or the end of the reference.            *)
Exit ==
  /\ inside /\ inside' = FALSE
  /\ leaf' = [leaf EXCEPT !.armed = FALSE, !.entered = FALSE, !.finished = FALSE]
  /\ timer' = 0 /\ woken' = FALSE /\ due' = Never /\ late' = 0
  /\ UNCHANGED <<mode, now, world, planned, out, entries>>

(* ingestPlannerSetpoint; a segment that is refused wakes nobody.  It may  *)
(* be stamped late: past already, or older than the active one.            *)
OnPlannerSetpoint ==
  /\ Uses(mode) /\ ~leaf.finished
  /\ \E at \in Starts, stamp \in 0 .. (now + Ahead) :
       LET segment == Ingested(mode, [at |-> at, stamp |-> stamp], now)
       IN  /\ now - stamp <= Behind
           /\ Valid(segment) /\ Accepted(mode, segment)
           /\ buffer' = Cached(mode, buffer, segment, now)
  /\ woken' = inside
  /\ UNCHANGED <<mode, now, world, cache, inside, leaf, timer, out, due, late, entries>>

(* ActiveTrajectoryCache::updateAnalytic, updateSampled.                   *)
OnReference ==
  /\ mode.backend = "DFBC_CACHE" /\ ~leaf.finished
  /\ \E length \in Lengths : cache' = now + length
  /\ woken' = inside
  /\ UNCHANGED <<mode, now, world, buffer, inside, leaf, timer, out, due, late, entries>>

(* A sample of the sensors; the strategies of smc and dfbc have the inputs *)
(* they need, or not.                                                      *)
UsesStrategy == mode.backend \in {"SMC", "DFBC", "DFBC_CACHE"}
OnSensors ==
  /\ ~leaf.finished
  /\ pose' \in Poses
  /\ able' \in IF UsesStrategy THEN BOOLEAN ELSE {able}
  /\ paired' \in IF mode.backend = "PVA_SMC" THEN {paired, TRUE} ELSE {paired}
  /\ woken' = inside
  /\ UNCHANGED <<mode, now, planned, inside, leaf, timer, out, due, late, entries>>

Tick ==
  /\ now < MaxTime /\ ~leaf.finished
  /\ Owed => late < Lateness
  /\ now' = now + 1 /\ late' = IF Owed THEN late + 1 ELSE 0
  /\ UNCHANGED <<mode, world, planned, inside, leaf, timer, out, due, woken, entries>>

Next == Turn \/ Enter \/ Exit \/ OnPlannerSetpoint \/ OnReference \/ OnSensors \/ Tick
Spec == Init /\ [][Next]_vars
-----------------------------------------------------------------------------
LongerPeriod == IF mode.publish < mode.control THEN mode.control ELSE mode.publish

(* The segment that is flown has begun: nothing becomes active before its  *)
(* effective time, though the planner stamps segments ahead of time, two   *)
(* callers promote, and the buffer outlives the tracking state.            *)
ActiveHasBegun == buffer.active.stamp <= now

(* A segment whose time has come is never lost to the next one: it leaves  *)
(* the pending slot only to become active, whether a turn or a receipt     *)
(* comes first at the boundary.  Entering to stream starts afresh.         *)
NoDueSegmentIsLost ==
  [][Valid(buffer.pending) /\ buffer.pending.stamp <= now /\ EffectiveTime(mode)
       /\ inside' = inside /\ buffer'.pending # buffer.pending
     => buffer'.active = buffer.pending]_vars

(* A position that was frozen stays frozen, however the vehicle drifts and *)
(* whatever fails meanwhile, until an update of the strategy succeeds.     *)
(* Until then it is what is commanded, with one exception: a segment may   *)
(* be flown and the strategy has not begun, as it lacks inputs; then the   *)
(* pose of the moment is commanded, and the frozen one is kept for later.  *)
HeldIsFrozen ==
  [][inside /\ inside' /\ leaf.held /\ leaf'.held
     => /\ leaf'.frozen = leaf.frozen
        /\ leaf'.last # leaf.last \/ out' # out =>
             IF Ready(leaf) /\ ~leaf'.entered
             THEN out'.kind = "hover" /\ out'.at = pose
             ELSE out'.kind = "held" /\ out'.at = leaf.frozen]_vars

(* nextWake asks for no turn that would find nothing to do: after a turn   *)
(* none is owed before time passes or an input comes.                      *)
TurnIsSpent == [][Turn => due' > now]_vars

(* smc: no command stands when the window of the segment its turns fly     *)
(* has closed, though a publication would be due later and no input comes: *)
(* nextWake sees to it.  An input asks for a turn of its own; it may bring *)
(* an older segment, stamped late, whose window closes the sooner.         *)
StaleCommandIsReplaced ==
  inside /\ mode.backend = "SMC" /\ out.kind = "tracked" /\ ~woken
  => now <= Expiry(buffer.active) + Lateness

(* Commands keep coming while Custom1 is the flight state, whatever the    *)
(* planner and the strategy do: px4 falls out of offboard without them.    *)
SetpointsKeepComing ==
  inside /\ mode.backend # "PVA_SMC" =>
    now <= Lateness + (IF leaf.last = 0 THEN leaf.command ELSE leaf.last + LongerPeriod)
=============================================================================
