-------------------------- MODULE TrackingGateProofs --------------------------
(***************************************************************************)
(* Proofs about TrackingGate, for every configuration, period, lateness    *)
(* and planner.                                                            *)
(***************************************************************************)
EXTENDS TrackingGate, WellFoundedInduction, TLAPS

Kinds  == {"none", "hover", "tracked", "held", "backup"}
Outs   == [kind : Kinds, at : Starts]
Leaves == [hover : Poses, armed : BOOLEAN, entered : BOOLEAN, held : BOOLEAN,
           frozen : Poses, last : Nat, command : Nat, finished : BOOLEAN]

(* What the provers need to know of the constants.                         *)
LEMMA ConstantFacts ==
  /\ LogInterval \in Nat \ {0} /\ Lateness \in Nat /\ Ahead \in Nat
  /\ MaxTime \in Nat /\ MaxEntries \in Nat /\ Begin \in Nat \ {0} /\ Begin <= MaxTime
  /\ Lengths \subseteq Nat /\ Window \in Nat
  /\ Partial \notin Poses /\ NotFinite \notin Poses /\ Partial # NotFinite
  /\ Never \in Nat /\ Never > MaxTime
BY GateAssumption, BufferAssumption DEF Never

(* When the next warning is due.                                           *)
LEMMA NextWarning == \A t \in Nat : t + LogInterval \in Nat
BY ConstantFacts

(* What a configuration's periods are.                                     *)
LEMMA ModeFacts ==
  ASSUME NEW m \in Modes
  PROVE  /\ m \in ModeOf
         /\ m.publish \in Nat \ {0} /\ m.control \in Nat \ {0} /\ m.publish <= Begin
         /\ m.backend \in {"PX4_LOCAL", "SMC", "DFBC", "DFBC_CACHE", "PVA_SMC"}
BY GateAssumption DEF ModeOf
-----------------------------------------------------------------------------
(* A set of wakes has a first one.                                         *)
LEMMA FirstExists ==
  ASSUME NEW T, T \subseteq Nat, T # {}
  PROVE  Min(T) \in T /\ \A y \in T : Min(T) <= y
<1>1. PICK t \in T : \A y \in T : ~(<<y, t>> \in OpToRel(<, Nat))
  BY WFMin, NatLessThanWellFounded
<1>2. \A y \in T : t <= y
  <2> SUFFICES ASSUME NEW y \in T PROVE t <= y
    OBVIOUS
  <2>1. t \in Nat /\ y \in Nat
    OBVIOUS
  <2>2. ~(y < t)
    BY <1>1, <2>1 DEF OpToRel
  <2> QED BY <2>1, <2>2
<1> QED BY <1>2 DEF Min

(* The moves of a segment between the slots.                               *)
LEMMA BufferMoves ==
  ASSUME NEW m \in Modes, NEW b \in Buffers, NEW t \in Nat, NEW s \in Segments
  PROVE  /\ Promoted(m, b, t) \in Buffers /\ Cached(m, b, s, t) \in Buffers
         /\ Promotable(m, b, t) =>
              /\ Promoted(m, b, t).active = b.pending
              /\ Promoted(m, b, t).pending = NoSegment
         /\ ~Promotable(m, b, t) => Promoted(m, b, t) = b
         /\ Cached(m, b, s, t).pending = s
         /\ Cached(m, b, s, t).active =
              IF EffectiveTime(m) THEN Promoted(m, b, t).active ELSE b.active
         /\ ~Valid(NoSegment) /\ NoSegment \in Segments /\ EmptyBuffer \in Buffers
         /\ EmptyBuffer.active.stamp = 0 /\ EmptyBuffer.pending.stamp = 0
<1>1. NoSegment \in Segments /\ ~Valid(NoSegment) /\ NoSegment.stamp = 0
  BY DEF NoSegment, Segments, Starts, Valid
<1>2. /\ EmptyBuffer \in Buffers
      /\ EmptyBuffer.active.stamp = 0 /\ EmptyBuffer.pending.stamp = 0
  BY <1>1 DEF EmptyBuffer, Buffers
<1>3. b.active \in Segments /\ b.pending \in Segments
  BY DEF Buffers
<1>4. [active |-> b.pending, pending |-> NoSegment] \in Buffers
  BY <1>1, <1>3 DEF Buffers
<1> DEFINE p == Promoted(m, b, t)
<1>5. /\ p \in Buffers
      /\ Promotable(m, b, t) => p.active = b.pending /\ p.pending = NoSegment
      /\ ~Promotable(m, b, t) => p = b
  BY <1>4 DEF Promoted
<1> DEFINE kept == IF EffectiveTime(m) THEN p ELSE b
<1>6. kept \in Buffers /\ kept.active = IF EffectiveTime(m) THEN p.active ELSE b.active
  BY <1>5
<1>7. Cached(m, b, s, t) = [kept EXCEPT !.pending = s]
  BY DEF Cached
<1> HIDE DEF kept, p
<1>8. LET c == [kept EXCEPT !.pending = s]
      IN  c \in Buffers /\ c.pending = s /\ c.active = kept.active
  BY <1>6 DEF Buffers
<1>9. /\ Cached(m, b, s, t) \in Buffers /\ Cached(m, b, s, t).pending = s
      /\ Cached(m, b, s, t).active = IF EffectiveTime(m) THEN p.active ELSE b.active
  BY <1>6, <1>7, <1>8
<1> QED BY <1>1, <1>2, <1>5, <1>9 DEF p
-----------------------------------------------------------------------------
(* Every variable is of its type; outside of tracking no turn is owed.     *)
Typed ==
  /\ mode \in Modes /\ now \in Nat /\ Begin <= now /\ now <= MaxTime
  /\ pose \in Poses /\ able \in BOOLEAN /\ paired \in BOOLEAN
  /\ buffer \in Buffers /\ cache \in Nat
  /\ inside \in BOOLEAN /\ leaf \in Leaves /\ timer \in Nat /\ timer <= now
  /\ out \in Outs /\ woken \in BOOLEAN /\ due \in Nat /\ late \in Nat /\ late <= Lateness
  /\ entries \in Nat

(* Two leaves that differ in neither what they were entered with nor done. *)
Alike(k, l) == k.hover = l.hover /\ k.command = l.command /\ k.finished = l.finished
(* And none of the three flags either.                                     *)
AlikeFlags(k, l) ==
  Alike(k, l) /\ k.armed = l.armed /\ k.entered = l.entered /\ k.held = l.held

(* Nothing was sent, since the period is not over.                         *)
Waited(n, period) ==
  leaf' = n /\ out' = out /\ leaf.last # 0 /\ now - leaf.last < period

(* The members of the leaf and the periods, of their types.                *)
LEMMA TypedFacts ==
  ASSUME Typed
  PROVE  /\ mode \in ModeOf /\ mode.publish \in Nat \ {0} /\ mode.control \in Nat \ {0}
         /\ mode.publish <= now /\ now # 0
         /\ leaf.last \in Nat /\ leaf.armed \in BOOLEAN /\ leaf.entered \in BOOLEAN
         /\ leaf.held \in BOOLEAN /\ leaf.hover \in Poses /\ leaf.command \in Nat
         /\ leaf.frozen \in Poses /\ leaf.finished \in BOOLEAN
         /\ LongerPeriod \in Nat
         /\ mode.publish <= LongerPeriod /\ mode.control <= LongerPeriod
<1>1. /\ mode \in ModeOf /\ mode.publish \in Nat \ {0} /\ mode.control \in Nat \ {0}
      /\ mode.publish <= Begin /\ Begin \in Nat \ {0} /\ now \in Nat /\ Begin <= now
  BY ModeFacts, ConstantFacts DEF Typed
<1>2. mode.publish <= now /\ now # 0
  BY <1>1
<1>3. LongerPeriod \in Nat /\ mode.publish <= LongerPeriod /\ mode.control <= LongerPeriod
  BY <1>1 DEF LongerPeriod
<1>4. leaf \in Leaves
  BY DEF Typed
<1> QED BY <1>1, <1>2, <1>3, <1>4 DEF Leaves

(* What is sent.                                                           *)
LEMMA SendSends ==
  ASSUME Typed, NEW n \in Leaves, NEW k \in Kinds, NEW at \in Starts, Send(k, at, n)
  PROVE  /\ leaf' \in Leaves /\ AlikeFlags(leaf', n) /\ leaf'.last = now
         /\ leaf'.frozen = n.frozen
         /\ out' \in Outs /\ out'.kind = k /\ out'.at = at
<1>1. /\ leaf' = [n EXCEPT !.last = now]
      /\ out' = [kind |-> k, at |-> at]
  BY DEF Send
<1>2. now \in Nat
  BY DEF Typed
<1> DEFINE l == [n EXCEPT !.last = now]
<1>3. l \in Leaves /\ AlikeFlags(l, n) /\ l.last = now /\ l.frozen = n.frozen
  BY <1>2 DEF Leaves, AlikeFlags, Alike
<1>4. out' \in Outs
  BY <1>1 DEF Outs
<1> QED BY <1>1, <1>3, <1>4

(* A hover moves no flag.                                                  *)
LEMMA HoverSends ==
  ASSUME Typed, NEW n \in Leaves, Hover(n)
  PROVE  /\ leaf' \in Leaves /\ AlikeFlags(leaf', n) /\ leaf'.last = now
         /\ leaf'.frozen = n.frozen
         /\ out' \in Outs /\ out'.kind = "hover" /\ out'.at = pose
<1>1. pose \in Starts /\ "hover" \in Kinds
  BY DEF Typed, Starts, Kinds
<1> QED BY <1>1, SendSends DEF Hover

(* And is sent only when the period is over.                               *)
LEMMA HoverIfDueSends ==
  ASSUME Typed, NEW n \in Leaves, HoverIfDue(n)
  PROVE  \/ /\ leaf' \in Leaves /\ AlikeFlags(leaf', n) /\ leaf'.last = now
            /\ leaf'.frozen = n.frozen
            /\ out' \in Outs /\ out'.kind = "hover" /\ out'.at = pose
         \/ Waited(n, mode.publish)
<1>1. CASE PublishDue(mode.publish)
  BY <1>1, HoverSends DEF HoverIfDue
<1>2. CASE ~PublishDue(mode.publish)
  <2>1. leaf' = n /\ out' = out
    BY <1>2 DEF HoverIfDue, Quiet
  <2>2. leaf.last # 0 /\ now - leaf.last < mode.publish
    BY <1>2, TypedFacts DEF PublishDue, Typed
  <2> QED BY <2>1, <2>2 DEF Waited
<1> QED BY <1>1, <1>2

(* A hold measures the pose only when none is held yet.                    *)
LEMMA FrozenIsHeld ==
  ASSUME Typed, NEW n \in Leaves
  PROVE  /\ Frozen(n) \in Leaves /\ Alike(Frozen(n), n) /\ Frozen(n).held
         /\ Frozen(n).armed = n.armed /\ Frozen(n).entered = n.entered
         /\ Frozen(n).last = n.last
         /\ n.held => Frozen(n).frozen = n.frozen
<1>1. pose \in Poses
  BY DEF Typed
<1>2. CASE n.held
  BY <1>2 DEF Frozen, Alike
<1>3. CASE ~n.held
  <2> DEFINE k == [n EXCEPT !.held = TRUE, !.frozen = pose]
  <2>1. Frozen(n) = k
    BY <1>3 DEF Frozen
  <2>2. /\ k \in Leaves /\ Alike(k, n) /\ k.held /\ k.armed = n.armed
        /\ k.entered = n.entered /\ k.last = n.last
    BY <1>1, TypedFacts DEF Leaves, Alike
  <2> HIDE DEF k
  <2> QED BY <1>3, <2>1, <2>2
<1> QED BY <1>2, <1>3

(* What holdTrackingPosition commands is what it froze.                    *)
LEMMA HoldSends ==
  ASSUME Typed, NEW n \in Leaves, Hold(n)
  PROVE  /\ leaf' \in Leaves /\ Alike(leaf', n) /\ leaf'.last = now /\ leaf'.held
         /\ leaf'.armed = n.armed /\ leaf'.entered = n.entered
         /\ out' \in Outs /\ out'.kind = "held" /\ out'.at = leaf'.frozen
         /\ n.held => leaf'.frozen = n.frozen
<1> DEFINE f == Frozen(n)
<1>1. /\ f \in Leaves /\ Alike(f, n) /\ f.held /\ f.armed = n.armed /\ f.entered = n.entered
      /\ n.held => f.frozen = n.frozen
  BY FrozenIsHeld
<1>2. f.frozen \in Starts /\ "held" \in Kinds
  BY <1>1 DEF Leaves, Starts, Kinds
<1>3. Send("held", f.frozen, f)
  BY DEF Hold
<1> HIDE DEF f
<1>4. /\ leaf' \in Leaves /\ AlikeFlags(leaf', f) /\ leaf'.last = now
      /\ leaf'.frozen = f.frozen
      /\ out' \in Outs /\ out'.kind = "held" /\ out'.at = f.frozen
  BY <1>1, <1>2, <1>3, SendSends
<1> QED BY <1>1, <1>4 DEF AlikeFlags, Alike

(* And it is commanded again only when the period is over.                 *)
LEMMA HoldIfDueSends ==
  ASSUME Typed, NEW n \in Leaves, IF PublishDue(mode.publish) THEN Hold(n) ELSE Quiet(n)
  PROVE  \/ /\ leaf' \in Leaves /\ Alike(leaf', n) /\ leaf'.last = now /\ leaf'.held
            /\ leaf'.armed = n.armed /\ leaf'.entered = n.entered
            /\ out' \in Outs /\ out'.kind = "held" /\ out'.at = leaf'.frozen
            /\ n.held => leaf'.frozen = n.frozen
         \/ Waited(n, mode.publish)
<1>1. CASE PublishDue(mode.publish)
  BY <1>1, HoldSends
<1>2. CASE ~PublishDue(mode.publish)
  <2>1. leaf' = n /\ out' = out
    BY <1>2 DEF Quiet
  <2>2. leaf.last # 0 /\ now - leaf.last < mode.publish
    BY <1>2, TypedFacts DEF PublishDue, Typed
  <2> QED BY <2>1, <2>2 DEF Waited
<1> QED BY <1>1, <1>2

(* A command that tracks is sent now.                                      *)
LEMMA TrackSends ==
  ASSUME Typed, NEW n \in Leaves, NEW kind \in Kinds, Track(kind, n)
  PROVE  /\ leaf' \in Leaves /\ AlikeFlags(leaf', n) /\ leaf'.last = now
         /\ leaf'.frozen = n.frozen
         /\ out' \in Outs /\ out'.kind = kind
<1>1. Partial \in Starts
  BY DEF Starts
<1> QED BY <1>1, SendSends DEF Track

(* Whether the strategy has begun never goes back.                         *)
LEMMA EnteredKeeps ==
  ASSUME Typed
  PROVE  /\ Entered \in Leaves /\ Alike(Entered, leaf) /\ Entered.last = leaf.last
         /\ Entered.armed = leaf.armed /\ Entered.held = leaf.held
         /\ Entered.frozen = leaf.frozen
         /\ leaf.entered => Entered.entered
<1>1. leaf \in Leaves /\ able \in BOOLEAN /\ leaf.entered \in BOOLEAN
  BY TypedFacts DEF Typed
<1> DEFINE e == leaf.entered \/ able
<1>2. e \in BOOLEAN /\ (leaf.entered => e)
  BY <1>1
<1>3. Entered = [leaf EXCEPT !.entered = e]
  BY DEF Entered
<1> HIDE DEF e
<1> DEFINE k == [leaf EXCEPT !.entered = e]
<1>4. /\ k \in Leaves /\ Alike(k, leaf) /\ k.last = leaf.last /\ k.armed = leaf.armed
      /\ k.held = leaf.held /\ k.frozen = leaf.frozen /\ k.entered = e
  BY <1>1, <1>2, TypedFacts DEF Leaves, Alike
<1> HIDE DEF k
<1>5. Entered = k
  BY <1>3 DEF k
<1> QED BY <1>2, <1>4, <1>5

(* A warning leaves its timer so that the next is due later than now.      *)
LEMMA WarnLater ==
  ASSUME Typed, Warn
  PROVE  timer' \in Nat /\ timer' <= now /\ timer' + LogInterval > now
BY ConstantFacts DEF Typed, Warn
-----------------------------------------------------------------------------
(* Whether the active segment may be flown after the turn.                 *)
ReadyAfter ==
  Lifts(mode, buffer'.active, now) /\ MayTake(buffer'.active, leaf'.hover, leaf'.armed)

(* What was ready before the turn armed is ready after it.                 *)
LEMMA ReadyStays ==
  ASSUME NEW n, n.armed \in BOOLEAN, leaf'.hover = leaf.hover
  PROVE  /\ leaf'.armed = n.armed => (ReadyAfter <=> Ready(n))
         /\ leaf'.armed /\ Ready(n) => ReadyAfter
BY DEF ReadyAfter, Ready, MayTake

(* The turn promoted what was due: what is pending is not.                 *)
LEMMA PendingIsAhead ==
  ASSUME Typed, buffer' = Promoted(mode, buffer, now)
  PROVE  /\ buffer' \in Buffers
         /\ buffer'.active \in Segments /\ buffer'.pending \in Segments
         /\ EffectiveTime(mode) /\ Valid(buffer'.pending) => buffer'.pending.stamp > now
<1>1. mode \in Modes /\ buffer \in Buffers /\ now \in Nat
  BY DEF Typed
<1>2. NoSegment \in Segments
  BY DEF NoSegment, Segments, Starts
<1>3. buffer' \in Buffers
  BY <1>1, <1>2, BufferMoves
<1>4. buffer'.active \in Segments /\ buffer'.pending \in Segments
  BY <1>3 DEF Buffers
<1>5. ASSUME EffectiveTime(mode), Valid(buffer'.pending) PROVE buffer'.pending.stamp > now
  <2>1. CASE Promotable(mode, buffer, now)
    <3>1. buffer'.pending = NoSegment
      BY <1>1, <1>2, <2>1, BufferMoves
    <3> QED BY <1>5, <3>1 DEF Valid, NoSegment
  <2>2. CASE ~Promotable(mode, buffer, now)
    <3>1. buffer' = buffer
      BY <2>2 DEF Promoted
    <3>2. ~(buffer.pending.stamp <= now)
      BY <1>5, <2>2, <3>1 DEF Promotable
    <3>3. buffer.pending.stamp \in Nat
      BY <1>4, <3>1 DEF Segments
    <3> QED BY <1>1, <3>1, <3>2, <3>3
  <2> QED BY <2>1, <2>2
<1> QED BY <1>3, <1>4, <1>5

(* So every wake asked for a segment is in the future.                     *)
LEMMA SegmentWakesLater ==
  ASSUME Typed, buffer' = Promoted(mode, buffer, now), mode' = mode, now' = now
  PROVE  \A w \in SegmentWakes' : w \in Nat /\ w > now
<1> SUFFICES ASSUME NEW w \in SegmentWakes' PROVE w \in Nat /\ w > now
  OBVIOUS
<1>1. /\ buffer'.active \in Segments /\ buffer'.pending \in Segments
      /\ EffectiveTime(mode) /\ Valid(buffer'.pending) => buffer'.pending.stamp > now
  BY PendingIsAhead
<1>2. EffectiveTime(mode)' <=> EffectiveTime(mode)
  BY DEF EffectiveTime
<1>3. \/ w = buffer'.pending.stamp /\ Valid(buffer'.pending) /\ EffectiveTime(mode)
      \/ w = Expiry(buffer'.active) /\ now < Expiry(buffer'.active)
  BY <1>2 DEF SegmentWakes, Expires
<1>4. buffer'.pending.stamp \in Nat /\ Expiry(buffer'.active) \in Nat
  BY <1>1, ConstantFacts DEF Segments, Expiry
<1> QED BY <1>1, <1>3, <1>4 DEF Typed

(* smc and streamed dfbc ask for a turn when a command is due, and smc for *)
(* a warning as long as it waits.                                          *)
LEMMA SynchronousWakesLater ==
  ASSUME Typed, mode' = mode, now' = now, leaf' \in Leaves, timer' \in Nat,
         mode.backend \in {"SMC", "DFBC"},
         NEW synchronous \in BOOLEAN,
         synchronous <=> ReadyAfter /\ (mode.backend = "SMC" => leaf'.entered),
         \/ leaf'.last = now
         \/ /\ leaf'.last = leaf.last /\ leaf.last # 0
            /\ synchronous => now - leaf.last < mode.control
            /\ ~synchronous => now - leaf.last < mode.publish,
         mode.backend = "SMC" /\ ~ReadyAfter /\ ~leaf'.armed /\ ~leaf'.held
           => timer' + LogInterval > now
  PROVE  /\ \A w \in GateWakes' : w \in Nat /\ w > now
         /\ \E w \in GateWakes' : w <= leaf'.last + LongerPeriod
         /\ leaf'.last # 0 /\ now <= leaf'.last + LongerPeriod
<1>1. /\ mode.publish \in Nat \ {0} /\ mode.control \in Nat \ {0} /\ LongerPeriod \in Nat
      /\ mode.publish <= LongerPeriod /\ mode.control <= LongerPeriod
      /\ leaf.last \in Nat /\ now \in Nat /\ now # 0
  BY TypedFacts DEF Typed
<1>2. leaf'.last \in Nat
  BY DEF Leaves
<1> DEFINE w0 == IF synchronous THEN (IF leaf'.last = 0 THEN now ELSE leaf'.last + mode.control)
                                ELSE leaf'.last + mode.publish
<1>3. /\ w0 \in Nat /\ w0 > now /\ w0 <= leaf'.last + LongerPeriod
      /\ leaf'.last # 0 /\ now <= leaf'.last + LongerPeriod
  BY <1>1, <1>2
<1>4. (Lifts(mode, buffer.active, now) /\ MayBeFlown)' <=> ReadyAfter
  BY DEF Lifts, MayBeFlown, ReadyAfter, EffectiveTime
<1>5. w0 \in GateWakes'
  <2>1. CASE mode.backend = "SMC"
    BY <1>4, <2>1 DEF GateWakes, SynchronousWake, PublishWake
  <2>2. CASE mode.backend = "DFBC"
    BY <1>4, <2>2 DEF GateWakes, SynchronousWake, PublishWake
  <2> QED BY <2>1, <2>2
<1>6. ASSUME NEW w \in GateWakes', w # w0 PROVE w \in Nat /\ w > now
  <2>1. CASE mode.backend = "SMC"
    <3>1. /\ w = timer' + LogInterval
          /\ ~ReadyAfter /\ ~leaf'.armed /\ ~leaf'.held
      BY <1>4, <1>6, <2>1
         DEF GateWakes, SynchronousWake, PublishWake, SmcWaits, WarningWakes
    <3>2. timer' + LogInterval > now
      BY <2>1, <3>1
    <3>3. timer' + LogInterval \in Nat
      BY NextWarning, Zenon
    <3> QED BY <3>1, <3>2, <3>3
  <2>2. CASE mode.backend = "DFBC"
    BY <1>4, <1>6, <2>2 DEF GateWakes, SynchronousWake, PublishWake
  <2> QED BY <2>1, <2>2
<1> HIDE DEF w0
<1> QED BY <1>3, <1>5, <1>6
-----------------------------------------------------------------------------
(* What a turn leaves, whatever the backend.                               *)
TurnDone ==
  /\ leaf' \in Leaves /\ leaf'.hover = leaf.hover /\ leaf'.command = leaf.command
  /\ out' \in Outs /\ timer' \in Nat /\ timer' <= now
  /\ leaf'.last = now \/ (leaf'.last = leaf.last /\ out' = out)
  /\ leaf'.finished => leaf.finished \/ (leaf'.last = now /\ mode.backend = "DFBC_CACHE")
  /\ ~leaf'.finished => \A w \in GateWakes' : w \in Nat /\ w > now
  /\ mode.backend # "PVA_SMC" =>
       /\ leaf'.last # 0 /\ now <= leaf'.last + LongerPeriod
       /\ ~leaf'.finished => \E w \in GateWakes' : w <= leaf'.last + LongerPeriod
  /\ leaf'.held => mode.backend \in {"SMC", "DFBC"} /\ (leaf.held \/ out'.kind = "held")

(* A position that is held is frozen, and commanded unless the strategy    *)
(* has not begun and a segment may be flown.                               *)
StaysFrozen ==
  leaf.held /\ leaf'.held
  => /\ leaf'.frozen = leaf.frozen
     /\ leaf'.last # leaf.last \/ out' # out =>
          IF Ready(leaf) /\ ~leaf'.entered
          THEN out'.kind = "hover" /\ out'.at = pose
          ELSE out'.kind = "held" /\ out'.at = leaf.frozen

(* What smc commands is computed from an active segment in its window.     *)
IsCurrent ==
  out'.kind = "tracked" =>
    /\ leaf'.armed /\ ~leaf'.held
    /\ WindowOpen(buffer'.active, now)

(* A command of smc was computed by the strategy, and holds nothing.       *)
Flown == out.kind = "tracked" => leaf.armed /\ ~leaf.held

(* smc and streamed dfbc with an active segment that may not be flown.     *)
LEMMA NotReadyTurn ==
  ASSUME Typed, ~leaf.finished, mode' = mode, now' = now,
         buffer' = Promoted(mode, buffer, now),
         mode.backend \in {"SMC", "DFBC"}, ~Ready(Entered),
         timer' \in Nat, timer' <= now,
         \/ Hold(Entered)
         \/ IF PublishDue(mode.publish) THEN Hold(Entered) ELSE Quiet(Entered)
         \/ ~Entered.held /\ HoverIfDue(Entered),
         mode.backend = "SMC" /\ ~Entered.armed /\ ~Entered.held => timer' + LogInterval > now
  PROVE  /\ TurnDone /\ StaysFrozen
         /\ out'.kind \in {"held", "hover"} \/ out' = out
<1> DEFINE n == Entered
<1>1. /\ n \in Leaves /\ Alike(n, leaf) /\ n.last = leaf.last
      /\ n.armed = leaf.armed /\ n.held = leaf.held /\ n.frozen = leaf.frozen
      /\ leaf.entered => n.entered
  BY EnteredKeeps
<1>2. ~Ready(n) /\ leaf.last \in Nat /\ now \in Nat /\ out \in Outs
  BY TypedFacts DEF Typed
<1>3. \/ /\ leaf' \in Leaves /\ Alike(leaf', n) /\ leaf'.last = now /\ leaf'.held
         /\ leaf'.armed = n.armed /\ leaf'.entered = n.entered
         /\ out' \in Outs /\ out'.kind = "held" /\ out'.at = leaf'.frozen
         /\ n.held => leaf'.frozen = n.frozen
      \/ Waited(n, mode.publish)
      \/ /\ leaf' \in Leaves /\ AlikeFlags(leaf', n) /\ leaf'.last = now /\ ~n.held
         /\ out' \in Outs /\ out'.kind = "hover"
  BY <1>1, HoldSends, HoldIfDueSends, HoverIfDueSends
<1>4. n.armed \in BOOLEAN /\ n.held \in BOOLEAN
  BY <1>1 DEF Leaves
<1>5. mode.backend = "SMC" /\ ~n.armed /\ ~n.held => timer' + LogInterval > now
  OBVIOUS
<1> HIDE DEF n
<1>6. /\ leaf' \in Leaves /\ Alike(leaf', n) /\ leaf'.armed = n.armed
      /\ out' \in Outs
      /\ out'.kind \in {"held", "hover"} \/ out' = out
  BY <1>1, <1>2, <1>3 DEF Waited, AlikeFlags, Alike
<1>7. n.held => leaf'.held
  BY <1>3 DEF Waited, AlikeFlags
<1>8. leaf'.held => n.held \/ out'.kind = "held"
  BY <1>3 DEF Waited, AlikeFlags
<1>9. \/ leaf'.last = now
      \/ leaf'.last = leaf.last /\ out' = out /\ leaf.last # 0 /\ now - leaf.last < mode.publish
  BY <1>1, <1>3 DEF Waited
<1>10. ~ReadyAfter
  BY <1>1, <1>2, <1>4, <1>6, ReadyStays DEF Alike
<1>11. mode.backend = "SMC" /\ ~ReadyAfter /\ ~leaf'.armed /\ ~leaf'.held
       => timer' + LogInterval > now
  BY <1>5, <1>6, <1>7
<1>12. /\ \A w \in GateWakes' : w \in Nat /\ w > now
       /\ \E w \in GateWakes' : w <= leaf'.last + LongerPeriod
       /\ leaf'.last # 0 /\ now <= leaf'.last + LongerPeriod
  <2>1. FALSE <=> ReadyAfter /\ (mode.backend = "SMC" => leaf'.entered)
    BY <1>10
  <2>2. \/ leaf'.last = now
        \/ /\ leaf'.last = leaf.last /\ leaf.last # 0
           /\ FALSE => now - leaf.last < mode.control
           /\ ~FALSE => now - leaf.last < mode.publish
    BY <1>9
  <2> QED BY <1>6, <1>11, <2>1, <2>2, SynchronousWakesLater
<1>13. TurnDone
  BY <1>1, <1>6, <1>8, <1>9, <1>12 DEF TurnDone, Alike
<1>14. StaysFrozen
  <2>0. ~Ready(leaf)
    BY <1>1, <1>2 DEF Ready
  <2>1. CASE leaf'.last = now /\ out'.kind = "held" /\ out'.at = leaf'.frozen
             /\ (n.held => leaf'.frozen = n.frozen)
    BY <1>1, <2>0, <2>1 DEF StaysFrozen
  <2>2. CASE leaf' = n /\ out' = out
    BY <1>1, <2>2 DEF StaysFrozen
  <2>3. CASE ~n.held
    BY <1>1, <2>3 DEF StaysFrozen
  <2> QED BY <1>3, <2>1, <2>2, <2>3 DEF Waited
<1> QED BY <1>6, <1>13, <1>14

(* And with one that may.                                                  *)
LEMMA ReadyTurn ==
  ASSUME Typed, ~leaf.finished, mode' = mode, now' = now,
         buffer' = Promoted(mode, buffer, now),
         mode.backend \in {"SMC", "DFBC"}, Ready(Entered),
         timer' \in Nat, timer' <= now,
         NEW a, a = [Entered EXCEPT !.armed = TRUE],
         \/ mode.backend = "SMC" /\ ~Entered.entered /\ HoverIfDue(a)
         \/ (mode.backend = "SMC" => Entered.entered) /\ ~SynchronousDue /\ Quiet(a)
         \/ mode.backend = "DFBC" /\ ~Entered.entered /\ Hover(a)
         \/ Entered.entered /\ Track("tracked", [a EXCEPT !.held = FALSE])
         \/ Entered.entered /\ Hold(a)
  PROVE  /\ TurnDone /\ StaysFrozen
         /\ mode.backend = "SMC" /\ Flown => IsCurrent
<1> DEFINE n == Entered
           h == [a EXCEPT !.held = FALSE]
<1>1. /\ n \in Leaves /\ Alike(n, leaf) /\ n.last = leaf.last
      /\ n.armed = leaf.armed /\ n.held = leaf.held /\ n.frozen = leaf.frozen
      /\ leaf.entered => n.entered
  BY EnteredKeeps
<1>2. Ready(n) /\ leaf.last \in Nat /\ now \in Nat /\ out \in Outs /\ leaf.held \in BOOLEAN
  BY TypedFacts DEF Typed
<1>3. a = [n EXCEPT !.armed = TRUE]
  OBVIOUS
<1>4. \/ mode.backend = "SMC" /\ ~n.entered /\ HoverIfDue(a)
      \/ (mode.backend = "SMC" => n.entered) /\ ~SynchronousDue /\ Quiet(a)
      \/ mode.backend = "DFBC" /\ ~n.entered /\ Hover(a)
      \/ n.entered /\ Track("tracked", h)
      \/ n.entered /\ Hold(a)
  OBVIOUS
<1> HIDE DEF n
<1>5. /\ a \in Leaves /\ Alike(a, n) /\ a.last = n.last /\ a.armed
      /\ a.entered = n.entered /\ a.held = n.held /\ a.frozen = n.frozen
  BY <1>1, <1>3 DEF Leaves, Alike
<1>6. /\ h \in Leaves /\ Alike(h, a) /\ h.last = a.last /\ h.armed
      /\ h.entered = a.entered /\ ~h.held
  BY <1>5 DEF Leaves, Alike
<1> HIDE DEF h
<1>7. /\ buffer'.active \in Segments
  BY PendingIsAhead
<1> DEFINE synchronous == (mode.backend = "SMC" => n.entered)
(* What the leaf is and what was sent.                                     *)
<1>8. /\ leaf' \in Leaves /\ Alike(leaf', leaf) /\ leaf'.armed /\ leaf'.entered = n.entered
      /\ out' \in Outs
      /\ \/ leaf'.last = now
         \/ /\ leaf'.last = leaf.last /\ leaf.last # 0 /\ out' = out
            /\ IF synchronous THEN now - leaf.last < mode.control
                              ELSE now - leaf.last < mode.publish
      /\ \/ out' = out /\ leaf'.held = leaf.held /\ leaf'.frozen = leaf.frozen
            /\ leaf'.last = leaf.last
         \/ /\ out'.kind = "hover" /\ out'.at = pose /\ ~n.entered
            /\ leaf'.held = leaf.held /\ leaf'.frozen = leaf.frozen
         \/ out'.kind = "tracked" /\ ~leaf'.held
         \/ /\ out'.kind = "held" /\ leaf'.held /\ out'.at = leaf'.frozen /\ n.entered
            /\ (leaf.held => leaf'.frozen = leaf.frozen)
  <2>1. CASE mode.backend = "SMC" /\ ~n.entered /\ HoverIfDue(a)
    <3>1. \/ /\ leaf' \in Leaves /\ AlikeFlags(leaf', a) /\ leaf'.last = now
             /\ leaf'.frozen = a.frozen
             /\ out' \in Outs /\ out'.kind = "hover" /\ out'.at = pose
          \/ Waited(a, mode.publish)
      BY <1>5, <2>1, HoverIfDueSends
    <3>2. CASE Waited(a, mode.publish)
      BY <1>1, <1>2, <1>5, <2>1, <3>2 DEF Waited, Alike
    <3>3. CASE ~Waited(a, mode.publish)
      BY <1>1, <1>5, <2>1, <3>1, <3>3 DEF AlikeFlags, Alike
    <3> QED BY <3>2, <3>3
  <2>2. CASE (mode.backend = "SMC" => n.entered) /\ ~SynchronousDue /\ Quiet(a)
    <3>1. leaf' = a /\ out' = out
      BY <2>2 DEF Quiet
    <3>2. leaf.last # 0 /\ now - leaf.last < mode.control
      BY <1>2, <2>2, TypedFacts DEF SynchronousDue
    <3> QED BY <1>1, <1>2, <1>5, <2>2, <3>1, <3>2 DEF Alike
  <2>3. CASE mode.backend = "DFBC" /\ ~n.entered /\ Hover(a)
    <3>1. /\ leaf' \in Leaves /\ AlikeFlags(leaf', a) /\ leaf'.last = now
          /\ leaf'.frozen = a.frozen
          /\ out' \in Outs /\ out'.kind = "hover" /\ out'.at = pose
      BY <1>5, <2>3, HoverSends
    <3> QED BY <1>1, <1>5, <2>3, <3>1 DEF AlikeFlags, Alike
  <2>4. CASE n.entered /\ Track("tracked", h)
    <3>1. /\ leaf' \in Leaves /\ AlikeFlags(leaf', h) /\ leaf'.last = now
          /\ out' \in Outs /\ out'.kind = "tracked"
      BY <1>6, <1>7, <2>4, TrackSends DEF Kinds
    <3> QED BY <1>1, <1>5, <1>6, <3>1 DEF AlikeFlags, Alike
  <2>5. CASE n.entered /\ Hold(a)
    <3>1. /\ leaf' \in Leaves /\ Alike(leaf', a) /\ leaf'.last = now /\ leaf'.held
          /\ leaf'.armed = a.armed /\ leaf'.entered = a.entered
          /\ out' \in Outs /\ out'.kind = "held" /\ out'.at = leaf'.frozen
          /\ a.held => leaf'.frozen = a.frozen
      BY <1>5, <2>5, HoldSends
    <3> QED BY <1>1, <1>5, <2>5, <3>1 DEF Alike
  <2> QED BY <1>4, <2>1, <2>2, <2>3, <2>4, <2>5
<1>9. ReadyAfter
  <2>1. n.armed \in BOOLEAN /\ leaf'.hover = leaf.hover
    BY <1>1, <1>8 DEF Leaves, Alike
  <2> QED BY <1>2, <1>8, <2>1 DEF ReadyAfter, Ready, MayTake
<1>10. /\ \A w \in GateWakes' : w \in Nat /\ w > now
       /\ \E w \in GateWakes' : w <= leaf'.last + LongerPeriod
       /\ leaf'.last # 0 /\ now <= leaf'.last + LongerPeriod
  <2>1. synchronous \in BOOLEAN
    OBVIOUS
  <2>2. synchronous <=> ReadyAfter /\ (mode.backend = "SMC" => leaf'.entered)
    BY <1>8, <1>9
  <2>3. \/ leaf'.last = now
        \/ /\ leaf'.last = leaf.last /\ leaf.last # 0
           /\ synchronous => now - leaf.last < mode.control
           /\ ~synchronous => now - leaf.last < mode.publish
    BY <1>8
  <2>4. mode.backend = "SMC" /\ ~ReadyAfter /\ ~leaf'.armed /\ ~leaf'.held
        => timer' + LogInterval > now
    BY <1>9
  <2> HIDE DEF synchronous
  <2> QED BY <1>8, <2>1, <2>2, <2>3, <2>4, SynchronousWakesLater
<1>11. TurnDone
  <2>1. leaf'.last = now \/ (leaf'.last = leaf.last /\ out' = out)
    BY <1>8
  <2>2. leaf'.held => leaf.held \/ out'.kind = "held"
    BY <1>2, <1>8
  <2>3. /\ leaf' \in Leaves /\ leaf'.hover = leaf.hover /\ leaf'.command = leaf.command
        /\ leaf'.finished = leaf.finished /\ out' \in Outs
    BY <1>8 DEF Alike
  <2> QED BY <1>10, <2>1, <2>2, <2>3 DEF TurnDone
<1>12. StaysFrozen
  <2>1. ASSUME leaf.held, leaf'.held
        PROVE  /\ leaf'.frozen = leaf.frozen
               /\ \/ leaf'.last = leaf.last /\ out' = out
                  \/ out'.kind = "hover" /\ out'.at = pose /\ ~leaf'.entered
                  \/ out'.kind = "held" /\ out'.at = leaf.frozen /\ leaf'.entered
    BY <1>8, <2>1
  <2>2. Ready(leaf)
    BY <1>1, <1>2 DEF Ready
  <2> QED BY <2>1, <2>2 DEF StaysFrozen
<1>13. ASSUME mode.backend = "SMC", Flown PROVE IsCurrent
  <2>1. WindowOpen(buffer'.active, now)
    BY <1>2, <1>13 DEF Ready, Lifts, EffectiveTime, Geometric
  <2>2. out'.kind = "tracked" => ~leaf'.held
    BY <1>2, <1>8, <1>13 DEF Flown
  <2> QED BY <1>8, <2>1, <2>2 DEF IsCurrent
<1> QED BY <1>11, <1>12, <1>13
-----------------------------------------------------------------------------
(* A turn of smc.                                                          *)
LEMMA SmcTurnDone ==
  ASSUME Typed, ~leaf.finished, mode' = mode, now' = now, SmcTurn
  PROVE  /\ TurnDone /\ StaysFrozen /\ buffer' = Promoted(mode, buffer, now)
         /\ Flown => IsCurrent
<1> DEFINE n == Entered
           a == [n EXCEPT !.armed = TRUE]
<1>1. mode.backend = "SMC" /\ buffer' = Promoted(mode, buffer, now)
  BY DEF SmcTurn
<1>2. \/ ~Ready(n) /\ n.armed /\ ~n.held /\ Warn /\ Hold(n)
      \/ /\ ~Ready(n) /\ n.held /\ UNCHANGED timer
         /\ IF PublishDue(mode.publish) THEN Hold(n) ELSE Quiet(n)
      \/ ~Ready(n) /\ ~n.armed /\ ~n.held /\ Warn /\ HoverIfDue(n)
      \/ Ready(n) /\ ~n.entered /\ HoverIfDue(a) /\ UNCHANGED timer
      \/ Ready(n) /\ n.entered /\ ~SynchronousDue /\ Quiet(a) /\ UNCHANGED timer
      \/ Ready(n) /\ n.entered /\ SynchronousDue /\ Update(a, Hold(a))
  BY DEF SmcTurn
<1>3. n \in Leaves /\ n.armed = leaf.armed /\ n.held = leaf.held
  BY EnteredKeeps
<1>4. timer \in Nat /\ timer <= now
  BY DEF Typed
<1> HIDE DEF n, a
<1>5. timer' \in Nat /\ timer' <= now
  BY <1>2, <1>4, WarnLater DEF Update
<1>6. CASE ~Ready(n)
  <2>1. \/ Hold(n)
        \/ IF PublishDue(mode.publish) THEN Hold(n) ELSE Quiet(n)
        \/ ~n.held /\ HoverIfDue(n)
    BY <1>2, <1>6
  <2>2. ~n.armed /\ ~n.held => timer' + LogInterval > now
    BY <1>2, <1>6, WarnLater
  <2>3. /\ TurnDone /\ StaysFrozen
        /\ out'.kind \in {"held", "hover"} \/ out' = out
    BY <1>1, <1>5, <1>6, <2>1, <2>2, NotReadyTurn DEF n
  <2>4. ASSUME Flown PROVE IsCurrent
    <3>1. CASE Hold(n)
      <4>1. out'.kind = "held"
        BY <1>3, <3>1, HoldSends
      <4> QED BY <4>1 DEF IsCurrent
    <3>2. CASE leaf.held \/ ~leaf.armed
      BY <2>3, <2>4, <3>2 DEF IsCurrent, Flown
    <3> QED BY <1>2, <1>3, <1>6, <3>1, <3>2
  <2> QED BY <1>1, <2>3, <2>4
<1>7. CASE Ready(n)
  <2>1. \/ mode.backend = "SMC" /\ ~n.entered /\ HoverIfDue(a)
        \/ (mode.backend = "SMC" => n.entered) /\ ~SynchronousDue /\ Quiet(a)
        \/ mode.backend = "DFBC" /\ ~n.entered /\ Hover(a)
        \/ n.entered /\ Track("tracked", [a EXCEPT !.held = FALSE])
        \/ n.entered /\ Hold(a)
    BY <1>1, <1>2, <1>7 DEF Update
  <2>2. a = [n EXCEPT !.armed = TRUE]
    BY DEF a
  <2> QED BY <1>1, <1>5, <1>7, <2>1, <2>2, ReadyTurn DEF n
<1> QED BY <1>6, <1>7

(* A turn of streamed dfbc.                                                *)
LEMMA StreamingTurnDone ==
  ASSUME Typed, ~leaf.finished, mode' = mode, now' = now, StreamingTurn
  PROVE  TurnDone /\ StaysFrozen /\ buffer' = Promoted(mode, buffer, now)
<1> DEFINE n == Entered
           a == [n EXCEPT !.armed = TRUE]
<1>1. mode.backend = "DFBC" /\ buffer' = Promoted(mode, buffer, now)
  BY DEF StreamingTurn
<1>2. \/ /\ ~Ready(n) /\ UNCHANGED timer
         /\ IF PublishDue(mode.publish) THEN Hold(n) ELSE Quiet(n)
      \/ ~Ready(n) /\ ~n.held /\ HoverIfDue(n) /\ UNCHANGED timer
      \/ Ready(n) /\ ~SynchronousDue /\ Quiet(a) /\ UNCHANGED timer
      \/ Ready(n) /\ ~n.entered /\ Hover(a) /\ UNCHANGED timer
      \/ Ready(n) /\ n.entered /\ Update(a, Hold(a))
  BY DEF StreamingTurn
<1>3. timer \in Nat /\ timer <= now
  BY DEF Typed
<1> HIDE DEF n, a
<1>4. timer' \in Nat /\ timer' <= now
  BY <1>2, <1>3, WarnLater DEF Update
<1>5. CASE ~Ready(n)
  <2>1. \/ Hold(n)
        \/ IF PublishDue(mode.publish) THEN Hold(n) ELSE Quiet(n)
        \/ ~n.held /\ HoverIfDue(n)
    BY <1>2, <1>5
  <2> QED BY <1>1, <1>4, <1>5, <2>1, NotReadyTurn DEF n
<1>6. CASE Ready(n)
  <2>1. \/ mode.backend = "SMC" /\ ~n.entered /\ HoverIfDue(a)
        \/ (mode.backend = "SMC" => n.entered) /\ ~SynchronousDue /\ Quiet(a)
        \/ mode.backend = "DFBC" /\ ~n.entered /\ Hover(a)
        \/ n.entered /\ Track("tracked", [a EXCEPT !.held = FALSE])
        \/ n.entered /\ Hold(a)
    BY <1>1, <1>2, <1>6 DEF Update
  <2>2. a = [n EXCEPT !.armed = TRUE]
    BY DEF a
  <2> QED BY <1>1, <1>4, <1>6, <2>1, <2>2, ReadyTurn DEF n
<1> QED BY <1>5, <1>6

(* A position is held only with smc and streamed dfbc.                     *)
HeldByFew == leaf.held => mode.backend \in {"SMC", "DFBC"}

(* A turn of px4_local.                                                    *)
LEMMA PassThroughTurnDone ==
  ASSUME Typed, ~leaf.finished, HeldByFew, mode' = mode, now' = now, PassThroughTurn
  PROVE  TurnDone /\ StaysFrozen /\ buffer' = Promoted(mode, buffer, now)
<1>1. mode.backend = "PX4_LOCAL" /\ buffer' = Promoted(mode, buffer, now) /\ ~leaf.held
  BY DEF PassThroughTurn, HeldByFew
<1>2. /\ leaf \in Leaves /\ leaf.last \in Nat /\ now \in Nat /\ timer \in Nat /\ timer <= now
      /\ out \in Outs /\ mode.publish \in Nat \ {0} /\ LongerPeriod \in Nat
      /\ mode.publish <= LongerPeriod /\ now # 0
  BY TypedFacts DEF Typed
<1>3. buffer'.active \in Segments
  BY <1>1, PendingIsAhead
<1> DEFINE mayTake == MayTake(buffer'.active, leaf.hover, leaf.armed)
           disarmed == [leaf EXCEPT !.armed = FALSE]
           armed == [leaf EXCEPT !.armed = TRUE]
<1>4. /\ disarmed \in Leaves /\ Alike(disarmed, leaf) /\ disarmed.last = leaf.last
      /\ ~disarmed.armed /\ ~disarmed.held
      /\ armed \in Leaves /\ Alike(armed, leaf) /\ armed.last = leaf.last
      /\ armed.armed /\ ~armed.held
  BY <1>1, <1>2 DEF Leaves, Alike
<1> HIDE DEF disarmed, armed
(* Whether a position was sent or not yet due, and for how long the        *)
(* warning rests.                                                          *)
<1>5. /\ leaf' \in Leaves /\ Alike(leaf', leaf) /\ ~leaf'.held /\ out' \in Outs
      /\ \/ leaf'.last = now
         \/ /\ leaf'.last = leaf.last /\ out' = out
            /\ leaf.last # 0 /\ now - leaf.last < mode.publish
      /\ timer' \in Nat /\ timer' <= now
      /\ \/ timer' + LogInterval > now
         \/ MayTake(buffer'.active, leaf'.hover, leaf'.armed)
  <2>1. CASE ~mayTake /\ Warn /\ HoverIfDue(disarmed)
    <3>1. \/ /\ leaf' \in Leaves /\ AlikeFlags(leaf', disarmed) /\ leaf'.last = now
             /\ leaf'.frozen = disarmed.frozen /\ out' \in Outs /\ out'.kind = "hover"
          \/ Waited(disarmed, mode.publish)
      BY <1>4, <2>1, HoverIfDueSends
    <3>2. timer' \in Nat /\ timer' <= now /\ timer' + LogInterval > now
      BY <2>1, WarnLater
    <3> QED BY <1>2, <1>4, <3>1, <3>2 DEF Waited, AlikeFlags, Alike
  <2>2. CASE mayTake /\ HoverIfDue(leaf) /\ UNCHANGED timer
    <3>1. \/ /\ leaf' \in Leaves /\ AlikeFlags(leaf', leaf) /\ leaf'.last = now
             /\ leaf'.frozen = leaf.frozen /\ out' \in Outs /\ out'.kind = "hover"
          \/ Waited(leaf, mode.publish)
      BY <1>2, <2>2, HoverIfDueSends
    <3>2. leaf'.hover = leaf.hover /\ leaf'.armed = leaf.armed
      BY <3>1 DEF Waited, AlikeFlags, Alike
    <3> QED BY <1>1, <1>2, <2>2, <3>1, <3>2 DEF Waited, AlikeFlags, Alike
  <2>3. CASE /\ mayTake /\ UNCHANGED timer
             /\ IF PublishDue(mode.publish) THEN Track("tracked", armed) ELSE Quiet(armed)
    <3>1. CASE PublishDue(mode.publish)
      <4>1. /\ leaf' \in Leaves /\ AlikeFlags(leaf', armed) /\ leaf'.last = now
            /\ out' \in Outs
        BY <1>3, <1>4, <2>3, <3>1, TrackSends DEF Kinds
      <4>2. MayTake(buffer'.active, leaf'.hover, leaf'.armed)
        BY <1>4, <2>3, <4>1 DEF MayTake, AlikeFlags, Alike
      <4> QED BY <1>2, <1>4, <2>3, <4>1, <4>2 DEF AlikeFlags, Alike
    <3>2. CASE ~PublishDue(mode.publish)
      <4>1. leaf' = armed /\ out' = out
        BY <2>3, <3>2 DEF Quiet
      <4>2. leaf.last # 0 /\ now - leaf.last < mode.publish
        BY <3>2, TypedFacts DEF PublishDue, Typed
      <4>3. MayTake(buffer'.active, leaf'.hover, leaf'.armed)
        BY <1>4, <2>3, <4>1 DEF MayTake, Alike
      <4> QED BY <1>2, <1>4, <2>3, <4>1, <4>2, <4>3
    <3> QED BY <3>1, <3>2
  <2> QED BY <2>1, <2>2, <2>3 DEF PassThroughTurn, Ready, armed, disarmed
<1>6. GateWakes' = {leaf'.last + mode.publish}
        \cup (IF MayTake(buffer'.active, leaf'.hover, leaf'.armed) THEN {}
              ELSE IF timer' = 0 THEN {} ELSE {timer' + LogInterval})
  BY <1>1 DEF GateWakes, PublishWake, MayBeFlown, WarningWakes
<1>7. leaf'.last \in Nat /\ leaf'.last + mode.publish > now /\ leaf'.last # 0
  BY <1>2, <1>5
<1>8. \A w \in GateWakes' : w \in Nat /\ w > now
  <2> SUFFICES ASSUME NEW w \in GateWakes' PROVE w \in Nat /\ w > now
    OBVIOUS
  <2>1. CASE w = leaf'.last + mode.publish
    BY <1>2, <1>7, <2>1
  <2>2. CASE w # leaf'.last + mode.publish
    <3>1. w = timer' + LogInterval /\ timer' + LogInterval > now
      BY <1>5, <1>6, <2>2
    <3> QED BY <1>5, <3>1, NextWarning
  <2> QED BY <2>1, <2>2
<1>9. (\E w \in GateWakes' : w <= leaf'.last + LongerPeriod)
      /\ now <= leaf'.last + LongerPeriod
  BY <1>2, <1>6, <1>7
<1>10. TurnDone
  BY <1>5, <1>7, <1>8, <1>9 DEF TurnDone, Alike
<1> QED BY <1>1, <1>10 DEF StaysFrozen

(* A turn of pva_smc.                                                      *)
LEMMA PvaSmcTurnDone ==
  ASSUME Typed, ~leaf.finished, HeldByFew, mode' = mode, now' = now, PvaSmcTurn, paired' = paired
  PROVE  TurnDone /\ StaysFrozen /\ buffer' = Promoted(mode, buffer, now)
<1>1. mode.backend = "PVA_SMC" /\ buffer' = Promoted(mode, buffer, now) /\ ~leaf.held
      /\ timer' = timer
  BY DEF PvaSmcTurn, HeldByFew
<1>2. /\ leaf \in Leaves /\ leaf.last \in Nat /\ now \in Nat /\ timer \in Nat /\ timer <= now
      /\ out \in Outs /\ mode.publish \in Nat \ {0}
  BY TypedFacts DEF Typed
<1>3. buffer'.active \in Segments
  BY <1>1, PendingIsAhead
<1>4. /\ leaf' \in Leaves /\ Alike(leaf', leaf) /\ ~leaf'.held /\ out' \in Outs
      /\ leaf'.last = now \/ (leaf'.last = leaf.last /\ out' = out)
      /\ Valid(buffer'.active) /\ paired => leaf'.last + mode.publish > now
  <2>1. CASE Track("tracked", leaf)
    <3>1. /\ leaf' \in Leaves /\ AlikeFlags(leaf', leaf) /\ leaf'.last = now /\ out' \in Outs
      BY <1>2, <1>3, <2>1, TrackSends DEF Kinds
    <3> QED BY <1>1, <1>2, <3>1 DEF AlikeFlags, Alike
  <2>2. CASE /\ Quiet(leaf)
             /\ ~(/\ Valid(buffer'.active) /\ paired
                  /\ Promotable(mode, buffer, now) \/ PublishDue(mode.publish))
    <3>1. leaf' = leaf /\ out' = out
      BY <2>2 DEF Quiet
    <3>2. Valid(buffer'.active) /\ paired => leaf.last + mode.publish > now
      BY <1>2, <2>2 DEF PublishDue
    <3> QED BY <1>1, <1>2, <3>1, <3>2 DEF Alike
  <2> QED BY <2>1, <2>2 DEF PvaSmcTurn
<1>5. GateWakes' = IF Valid(buffer'.active) /\ paired THEN {leaf'.last + mode.publish} ELSE {}
  BY <1>1 DEF GateWakes, PublishWake, Valid
<1>6. \A w \in GateWakes' : w \in Nat /\ w > now
  <2>1. leaf'.last \in Nat
    BY <1>4 DEF Leaves
  <2> QED BY <1>2, <1>4, <1>5, <2>1
<1>7. TurnDone
  BY <1>1, <1>2, <1>4, <1>6 DEF TurnDone, Alike
<1> QED BY <1>1, <1>7 DEF StaysFrozen

(* A turn of cached dfbc.                                                  *)
LEMMA CachedTurnDone ==
  ASSUME Typed, ~leaf.finished, HeldByFew, mode' = mode, now' = now, CachedTurn
  PROVE  TurnDone /\ StaysFrozen /\ buffer' = buffer
<1> DEFINE n == Entered
           armed == [n EXCEPT !.armed = TRUE]
           disarmed == [n EXCEPT !.armed = FALSE]
           done == [n EXCEPT !.armed = FALSE, !.finished = TRUE]
<1>1. /\ mode.backend = "DFBC_CACHE" /\ buffer' = buffer /\ cache' = cache /\ ~leaf.held
  BY DEF CachedTurn, HeldByFew, planned
<1>2. /\ leaf \in Leaves /\ leaf.last \in Nat /\ now \in Nat /\ timer \in Nat /\ timer <= now
      /\ out \in Outs /\ cache \in Nat /\ now # 0
      /\ mode.publish \in Nat \ {0} /\ mode.control \in Nat \ {0} /\ LongerPeriod \in Nat
      /\ mode.publish <= LongerPeriod /\ mode.control <= LongerPeriod
  BY TypedFacts DEF Typed
<1>3. \/ cache = 0 /\ Warn /\ HoverIfDue(disarmed)
      \/ Ending /\ Hover(done) /\ UNCHANGED timer
      \/ cache # 0 /\ ~Ending /\ ~SynchronousDue /\ Quiet(armed) /\ UNCHANGED timer
      \/ cache # 0 /\ ~Ending /\ Hover(armed) /\ UNCHANGED timer
      \/ cache # 0 /\ ~Ending /\ UNCHANGED timer /\ Track("tracked", armed)
      \/ cache # 0 /\ ~Ending /\ UNCHANGED timer /\ Track("backup", armed)
  BY DEF CachedTurn
<1>4. n \in Leaves /\ Alike(n, leaf) /\ n.last = leaf.last /\ ~n.held
  BY <1>1, EnteredKeeps
<1> HIDE DEF n
<1>5. /\ armed \in Leaves /\ Alike(armed, leaf) /\ armed.last = leaf.last /\ ~armed.held
      /\ disarmed \in Leaves /\ Alike(disarmed, leaf) /\ disarmed.last = leaf.last
      /\ ~disarmed.held
      /\ done \in Leaves /\ done.hover = leaf.hover /\ done.command = leaf.command
      /\ ~done.held /\ done.finished
  BY <1>4 DEF Leaves, Alike
<1> HIDE DEF armed, disarmed, done
(* What was sent, and when a command is due next.                          *)
<1>6. /\ leaf' \in Leaves /\ leaf'.hover = leaf.hover /\ leaf'.command = leaf.command
      /\ ~leaf'.held /\ out' \in Outs /\ timer' \in Nat /\ timer' <= now
      /\ leaf'.last = now \/ (leaf'.last = leaf.last /\ out' = out)
      /\ leaf'.finished => leaf'.last = now
      /\ ~leaf'.finished => cache = 0 \/ ~Ending
      /\ cache = 0 /\ ~leaf'.finished =>
           leaf'.last + mode.publish > now /\ timer' + LogInterval > now
      /\ cache # 0 /\ ~leaf'.finished => leaf'.last + mode.control > now
      /\ leaf'.last # 0
  <2>1. CASE cache = 0 /\ Warn /\ HoverIfDue(disarmed)
    <3>1. \/ /\ leaf' \in Leaves /\ AlikeFlags(leaf', disarmed) /\ leaf'.last = now
             /\ leaf'.frozen = disarmed.frozen /\ out' \in Outs /\ out'.kind = "hover"
          \/ Waited(disarmed, mode.publish)
      BY <1>5, <2>1, HoverIfDueSends
    <3>2. timer' \in Nat /\ timer' <= now /\ timer' + LogInterval > now
      BY <2>1, WarnLater
    <3>3. ~leaf'.finished
      BY <1>5, <3>1 DEF Waited, AlikeFlags, Alike
    <3> QED BY <1>2, <1>5, <2>1, <3>1, <3>2, <3>3 DEF Waited, AlikeFlags, Alike
  <2>2. CASE Ending /\ Hover(done) /\ UNCHANGED timer
    <3>1. /\ leaf' \in Leaves /\ AlikeFlags(leaf', done) /\ leaf'.last = now /\ out' \in Outs
      BY <1>5, <2>2, HoverSends
    <3>2. leaf'.finished
      BY <1>5, <3>1 DEF AlikeFlags, Alike
    <3> QED BY <1>2, <1>5, <2>2, <3>1, <3>2 DEF AlikeFlags, Alike
  <2>3. CASE cache # 0 /\ ~Ending /\ ~SynchronousDue /\ Quiet(armed) /\ UNCHANGED timer
    <3>1. leaf' = armed /\ out' = out
      BY <2>3 DEF Quiet
    <3>2. leaf.last # 0 /\ leaf.last + mode.control > now
      BY <1>2, <2>3 DEF SynchronousDue
    <3>3. ~leaf'.finished
      BY <1>5, <3>1 DEF Alike
    <3> QED BY <1>2, <1>5, <2>3, <3>1, <3>2, <3>3 DEF Alike
  <2>4. CASE /\ cache # 0 /\ ~Ending /\ UNCHANGED timer
             /\ leaf' \in Leaves /\ AlikeFlags(leaf', armed) /\ leaf'.last = now /\ out' \in Outs
    <3>1. ~leaf'.finished
      BY <1>5, <2>4 DEF AlikeFlags, Alike
    <3>2. leaf'.last + mode.control > now
      BY <1>2, <2>4
    <3> QED BY <1>2, <1>5, <2>4, <3>1, <3>2 DEF AlikeFlags, Alike
  <2>5. "tracked" \in Kinds /\ "backup" \in Kinds
    BY DEF Kinds
  <2>6. CASE Hover(armed)
    <3>1. /\ leaf' \in Leaves /\ AlikeFlags(leaf', armed) /\ leaf'.last = now /\ out' \in Outs
      BY <1>5, <2>6, HoverSends
    <3> QED BY <1>3, <2>1, <2>2, <2>3, <2>4, <3>1
  <2>7. CASE Track("tracked", armed) \/ Track("backup", armed)
    <3>1. /\ leaf' \in Leaves /\ AlikeFlags(leaf', armed) /\ leaf'.last = now /\ out' \in Outs
      BY <1>5, <2>5, <2>7, TrackSends
    <3> QED BY <1>3, <2>1, <2>2, <2>3, <2>4, <3>1
  <2> QED BY <1>3, <2>1, <2>2, <2>3, <2>6, <2>7
<1>7. leaf'.last \in Nat
  BY <1>6 DEF Leaves
<1>8. CASE cache = 0
  <2>1. GateWakes' = {leaf'.last + mode.publish}
          \cup (IF timer' = 0 THEN {} ELSE {timer' + LogInterval})
    BY <1>1, <1>8 DEF GateWakes, PublishWake, WarningWakes
  <2>2. ASSUME ~leaf'.finished, NEW w \in GateWakes' PROVE w \in Nat /\ w > now
    <3>1. CASE w = leaf'.last + mode.publish
      BY <1>2, <1>6, <1>7, <1>8, <2>2, <3>1
    <3>2. CASE w # leaf'.last + mode.publish
      <4>1. w = timer' + LogInterval /\ timer' + LogInterval > now
        BY <1>6, <1>8, <2>1, <2>2, <3>2
      <4> QED BY <1>6, <4>1, NextWarning
    <3> QED BY <3>1, <3>2
  <2>3. \E w \in GateWakes' : w <= leaf'.last + LongerPeriod
    BY <1>2, <1>7, <2>1
  <2>4. now <= leaf'.last + LongerPeriod
    BY <1>2, <1>6, <1>7, <1>8
  <2> QED BY <1>1, <1>6, <2>2, <2>3, <2>4 DEF TurnDone, StaysFrozen
<1>9. CASE cache # 0
  <2>1. Ending' <=> Ending
    BY <1>1 DEF Ending
  <2>2. GateWakes' = {IF leaf'.last = 0 THEN now ELSE leaf'.last + mode.control,
                      IF Ending THEN now ELSE cache - mode.control}
    BY <1>1, <1>9, <2>1 DEF GateWakes, SynchronousWake
  <2>3. ASSUME ~leaf'.finished, NEW w \in GateWakes' PROVE w \in Nat /\ w > now
    <3>1. ~(cache - now <= mode.control)
      BY <1>6, <1>9, <2>3 DEF Ending
    <3>2. cache - mode.control \in Nat /\ cache - mode.control > now
      BY <1>2, <3>1
    <3>3. w = leaf'.last + mode.control \/ w = cache - mode.control
      BY <1>6, <1>9, <2>2, <2>3
    <3> QED BY <1>2, <1>6, <1>7, <1>9, <2>3, <3>2, <3>3
  <2>4. \E w \in GateWakes' : w <= leaf'.last + LongerPeriod
    BY <1>2, <1>6, <1>7, <2>2
  <2>5. now <= leaf'.last + LongerPeriod
    BY <1>2, <1>6, <1>7, <1>9
  <2> QED BY <1>1, <1>6, <2>3, <2>4, <2>5 DEF TurnDone, StaysFrozen
<1> QED BY <1>1, <1>8, <1>9
-----------------------------------------------------------------------------
(* What a turn leaves and asks for: its wake is no later than any reason   *)
(* for one, and in the future.                                             *)
LEMMA TurnKeeps ==
  ASSUME Typed, HeldByFew, Turn
  PROVE  /\ TurnDone /\ StaysFrozen /\ buffer' \in Buffers
         /\ mode.backend = "SMC" /\ Flown => IsCurrent
         /\ \/ buffer' = Promoted(mode, buffer, now)
            \/ mode.backend = "DFBC_CACHE" /\ buffer' = buffer
         /\ mode' = mode /\ now' = now /\ inside /\ inside' /\ ~leaf.finished
         /\ UNCHANGED <<pose, able, paired, cache, entries>>
         /\ ~woken' /\ woken' \in BOOLEAN /\ late' = 0
         /\ due' \in Nat /\ due' > now /\ \A w \in Wakes' : due' <= w
<1>1. /\ mode' = mode /\ now' = now /\ inside /\ inside' /\ ~leaf.finished
      /\ pose' = pose /\ able' = able /\ paired' = paired /\ entries' = entries
      /\ woken' = FALSE /\ late' = 0 /\ due' = Min(Wakes')
  BY DEF Turn, Owed, world, Typed
<1>2. /\ TurnDone /\ StaysFrozen /\ cache' = cache
      /\ mode.backend = "SMC" /\ Flown => IsCurrent
      /\ \/ buffer' = Promoted(mode, buffer, now)
         \/ mode.backend = "DFBC_CACHE" /\ buffer' = buffer
  <2>1. CASE PvaSmcTurn
    BY <1>1, <2>1, PvaSmcTurnDone DEF PvaSmcTurn
  <2>2. CASE PassThroughTurn
    BY <1>1, <2>2, PassThroughTurnDone DEF PassThroughTurn
  <2>3. CASE SmcTurn
    BY <1>1, <2>3, SmcTurnDone DEF SmcTurn
  <2>4. CASE StreamingTurn
    BY <1>1, <2>4, StreamingTurnDone DEF StreamingTurn
  <2>5. CASE CachedTurn
    BY <1>1, <2>5, CachedTurnDone DEF CachedTurn, planned
  <2> QED BY <2>1, <2>2, <2>3, <2>4, <2>5 DEF Turn
<1>3. buffer' \in Buffers
  BY <1>2, PendingIsAhead DEF Typed
<1>4. \A w \in Wakes' : w \in Nat /\ w > now
  <2>1. Never \in Nat /\ Never > now /\ Never' = Never
    BY ConstantFacts DEF Typed, Never
  <2>2. CASE leaf'.finished
    BY <2>1, <2>2 DEF Wakes
  <2>3. CASE ~leaf'.finished
    <3>1. \A w \in GateWakes' : w \in Nat /\ w > now
      BY <1>2, <2>3 DEF TurnDone
    <3>2. \A w \in SegmentWakes' : w \in Nat /\ w > now
      <4>1. CASE buffer' = Promoted(mode, buffer, now)
        BY <1>1, <4>1, SegmentWakesLater
      <4>2. CASE mode.backend = "DFBC_CACHE"
        BY <1>1, <4>2 DEF SegmentWakes, EffectiveTime, Geometric
      <4> QED BY <1>2, <4>1, <4>2
    <3> QED BY <2>1, <2>3, <3>1, <3>2 DEF Wakes
  <2> QED BY <2>2, <2>3
<1>5. Never' \in Wakes'
  BY DEF Wakes
<1>6. due' \in Wakes' /\ \A w \in Wakes' : due' <= w
  BY <1>1, <1>4, <1>5, FirstExists
<1> QED BY <1>1, <1>2, <1>3, <1>4, <1>6
-----------------------------------------------------------------------------
(* What is active has begun, and without effective times what is pending.  *)
Began ==
  /\ buffer.active.stamp <= now
  /\ ~EffectiveTime(mode) => buffer.pending.stamp <= now

(* A turn is owed, or will be, before the next command is.                 *)
Commanding ==
  inside /\ mode.backend # "PVA_SMC" =>
    /\ leaf.last = 0 => woken /\ ~leaf.finished /\ now - leaf.command <= late
    /\ leaf.last # 0 /\ ~leaf.finished =>
         /\ woken \/ due <= leaf.last + LongerPeriod
         /\ now > leaf.last + LongerPeriod => now - (leaf.last + LongerPeriod) <= late
    /\ leaf.finished => leaf.last = now

(* And, with smc, before the window of the active segment closes: a turn   *)
(* that finds it closed sends another command.                             *)
Flying ==
  inside /\ mode.backend = "SMC" =>
    /\ ~leaf.finished /\ Flown
    /\ out.kind = "tracked" /\ ~woken =>
         /\ due <= Expiry(buffer.active)
         /\ now > Expiry(buffer.active) => now - Expiry(buffer.active) <= late

IInv == Typed /\ HeldByFew /\ Began /\ Commanding /\ Flying

(* The stamps and times the invariant compares.                            *)
LEMMA StampFacts ==
  ASSUME Typed
  PROVE  /\ buffer.active \in Segments /\ buffer.pending \in Segments
         /\ buffer.active.stamp \in Nat /\ buffer.pending.stamp \in Nat
         /\ Expiry(buffer.active) \in Nat
         /\ leaf.command \in Nat
<1>1. buffer \in Buffers /\ out \in Outs /\ leaf \in Leaves
  BY DEF Typed
<1>2. /\ buffer.active \in Segments /\ buffer.pending \in Segments
      /\ leaf.command \in Nat
  BY <1>1 DEF Buffers, Leaves
<1>3. buffer.active.stamp \in Nat /\ buffer.pending.stamp \in Nat
  BY <1>2 DEF Segments
<1> QED BY <1>2, <1>3, ConstantFacts DEF Expiry

(* What tracking is entered with.                                          *)
LEMMA OutsideIsLeaf ==
  ASSUME Typed
  PROVE  /\ Outside \in Leaves /\ Silence \in Outs /\ Silence.kind = "none"
         /\ Outside.last = 0 /\ ~Outside.finished /\ ~Outside.held
<1>1. pose \in Poses /\ pose \in Starts
  BY DEF Typed, Starts
<1> QED BY <1>1 DEF Outside, Silence, Leaves, Outs, Kinds

(* Every start satisfies the invariant.                                    *)
LEMMA InitIInv == Init => IInv
<1> SUFFICES ASSUME Init PROVE IInv
  OBVIOUS
<1> USE ConstantFacts
<1>1. pose \in Poses /\ pose \in Starts
  BY DEF Init, Starts
<1>2. leaf \in Leaves /\ ~leaf.held
  BY <1>1 DEF Init, Outside, Leaves
<1>3. out \in Outs
  BY <1>1 DEF Init, Silence, Outs, Kinds
<1>4. /\ EmptyBuffer \in Buffers
      /\ EmptyBuffer.active.stamp = 0 /\ EmptyBuffer.pending.stamp = 0
  BY DEF EmptyBuffer, Buffers, NoSegment, Segments, Starts
<1>5. Typed
  <2>1. mode \in Modes /\ now \in Nat /\ Begin <= now /\ now <= MaxTime
    BY DEF Init
  <2>2. able \in BOOLEAN /\ paired \in BOOLEAN /\ inside \in BOOLEAN /\ woken \in BOOLEAN
    BY DEF Init
  <2>3. /\ cache = 0 /\ timer = 0 /\ late = 0 /\ entries = 0 /\ due = Never
    BY Zenon DEF Init
  <2>4. /\ cache \in Nat /\ timer \in Nat /\ timer <= now /\ late \in Nat
        /\ late <= Lateness /\ entries \in Nat /\ due \in Nat
    BY <2>1, <2>3
  <2>5. buffer \in Buffers
    BY <1>4 DEF Init
  <2> QED BY <1>1, <1>2, <1>3, <2>1, <2>2, <2>4, <2>5 DEF Typed
<1>6. HeldByFew /\ Commanding /\ Flying
  BY <1>2 DEF Init, HeldByFew, Commanding, Flying
<1>7. Began
  BY <1>4 DEF Init, Began
<1> QED BY <1>5, <1>6, <1>7 DEF IInv
-----------------------------------------------------------------------------
(* A turn keeps the invariant, whatever the backend.                       *)
LEMMA TurnKeepsIInv ==
  ASSUME IInv, Turn
  PROVE  IInv'
<1> USE ConstantFacts
<1>0. Typed /\ HeldByFew /\ Began /\ Flying
  BY DEF IInv
<1>1. /\ TurnDone /\ buffer' \in Buffers
      /\ mode.backend = "SMC" /\ Flown => IsCurrent
      /\ \/ buffer' = Promoted(mode, buffer, now)
         \/ mode.backend = "DFBC_CACHE" /\ buffer' = buffer
      /\ mode' = mode /\ now' = now /\ inside /\ inside' /\ ~leaf.finished
      /\ UNCHANGED <<pose, able, paired, cache, entries>>
      /\ ~woken' /\ woken' \in BOOLEAN /\ late' = 0
      /\ due' \in Nat /\ due' > now /\ \A w \in Wakes' : due' <= w
  BY <1>0, TurnKeeps
<1>2. Typed'
  <2>1. leaf' \in Leaves /\ out' \in Outs /\ timer' \in Nat /\ timer' <= now
    BY <1>1 DEF TurnDone
  <2>2. inside' \in BOOLEAN
    BY DEF Turn, IInv, Typed
  <2> QED BY <1>0, <1>1, <2>1, <2>2 DEF Typed
<1>3. HeldByFew'
  BY <1>1 DEF TurnDone, HeldByFew
<1>4. /\ buffer.active.stamp \in Nat /\ buffer.pending.stamp \in Nat /\ now \in Nat
      /\ mode \in Modes /\ buffer \in Buffers
  BY <1>0, StampFacts DEF Typed
<1>5. EffectiveTime(mode)' <=> EffectiveTime(mode)
  BY <1>1 DEF EffectiveTime
<1>6. NoSegment \in Segments /\ NoSegment.stamp = 0 /\ ~Valid(NoSegment)
  BY DEF NoSegment, Segments, Starts, Valid
<1>7. \/ /\ Promotable(mode, buffer, now)
         /\ buffer'.active = buffer.pending /\ buffer'.pending = NoSegment
      \/ buffer' = buffer
  BY <1>1, <1>4, <1>6, BufferMoves
<1>8. Began'
  <2>1. CASE buffer' = buffer
    BY <1>0, <1>1, <1>5, <2>1 DEF Began
  <2>2. CASE /\ Promotable(mode, buffer, now)
             /\ buffer'.active = buffer.pending /\ buffer'.pending = NoSegment
    <3>1. buffer.pending.stamp <= now
      BY <1>0, <2>2 DEF Promotable, Began
    <3> QED BY <1>1, <1>4, <1>5, <1>6, <2>2, <3>1 DEF Began
  <2> QED BY <1>7, <2>1, <2>2
<1>10. Commanding'
  <2>1. LongerPeriod' = LongerPeriod /\ LongerPeriod \in Nat
    BY <1>0, <1>1, TypedFacts DEF LongerPeriod
  <2>2. leaf'.last \in Nat /\ leaf'.finished \in BOOLEAN
    BY <1>1 DEF TurnDone, Leaves
  <2>3. CASE mode.backend # "PVA_SMC"
    <3>1. leaf'.last # 0 /\ now <= leaf'.last + LongerPeriod
      BY <1>1, <2>3 DEF TurnDone
    <3>2. ASSUME ~leaf'.finished PROVE due' <= leaf'.last + LongerPeriod
      <4>1. PICK w \in GateWakes' : w <= leaf'.last + LongerPeriod
        BY <1>1, <2>3, <3>2 DEF TurnDone
      <4>2. w \in Wakes'
        BY <3>2, <4>1 DEF Wakes
      <4>3. w \in Nat
        BY <1>1, <3>2, <4>1 DEF TurnDone
      <4> QED BY <1>1, <2>1, <2>2, <4>1, <4>2, <4>3
    <3>3. leaf'.finished => leaf'.last = now
      BY <1>1 DEF TurnDone
    <3>4. ~(now' > leaf'.last + LongerPeriod)
      BY <1>1, <1>4, <2>1, <2>2, <3>1
    <3> QED BY <1>1, <2>1, <3>1, <3>2, <3>3, <3>4 DEF Commanding
  <2>4. CASE mode.backend = "PVA_SMC"
    BY <1>1, <2>4 DEF Commanding
  <2> QED BY <2>3, <2>4
<1>11. Flying'
  <2>1. CASE mode.backend = "SMC"
    <3>1. ~leaf'.finished /\ Flown /\ IsCurrent
      BY <1>0, <1>1, <2>1 DEF TurnDone, Flying
    <3>2. Flown'
      BY <3>1 DEF Flown, IsCurrent
    <3>3. ASSUME out'.kind = "tracked"
          PROVE  due' <= Expiry(buffer'.active) /\ ~(now > Expiry(buffer'.active))
      <4>1. WindowOpen(buffer'.active, now)
        BY <3>1, <3>3 DEF IsCurrent
      <4>2. buffer'.active.stamp \in Nat /\ Expiry(buffer'.active) \in Nat
        BY <1>1 DEF Buffers, Segments, Expiry
      <4>3. Valid(buffer'.active) /\ now < Expiry(buffer'.active)
        BY <1>4, <4>1, <4>2 DEF WindowOpen, Finite, Expiry
      <4>4. Expiry(buffer'.active) \in Wakes'
        <5>1. EffectiveTime(mode)'
          BY <1>1, <2>1 DEF EffectiveTime, Geometric
        <5>2. Expiry(buffer'.active) \in Expires(buffer.active)'
          BY <1>1, <4>3 DEF Expires, Valid, Expiry
        <5> QED BY <1>1, <2>1, <3>1, <5>1, <5>2 DEF Wakes, SegmentWakes
      <4> QED BY <1>1, <1>4, <4>2, <4>3, <4>4
    <3> QED BY <1>1, <3>1, <3>2, <3>3 DEF Flying, Expiry
  <2>2. CASE mode.backend # "SMC"
    BY <1>1, <2>2 DEF Flying
  <2> QED BY <2>1, <2>2
<1> QED BY <1>2, <1>3, <1>8, <1>10, <1>11 DEF IInv

(* Entering asks for a turn at once, and commands nothing yet.             *)
LEMMA EnterKeepsIInv ==
  ASSUME IInv, Enter
  PROVE  IInv'
<1>0. Typed /\ Began
  BY DEF IInv
<1>1. /\ leaf' = [Outside EXCEPT !.command = now] /\ out' = Silence
      /\ inside' = TRUE /\ woken' = TRUE /\ entries' = entries + 1
      /\ mode' = mode /\ now' = now /\ pose' = pose /\ able' = able /\ paired' = paired
      /\ timer' = timer /\ due' = due /\ late' = late
      /\ cache' = 0 \/ cache' = cache
  BY DEF Enter, world
<1>2. /\ pose \in Poses /\ now \in Nat /\ late \in Nat /\ entries \in Nat
  BY <1>0 DEF Typed
<1>3. /\ leaf' \in Leaves /\ leaf'.last = 0 /\ leaf'.command = now
      /\ leaf'.finished = FALSE /\ leaf'.held = FALSE
  BY <1>1, <1>2 DEF Outside, Leaves
<1>4. out' \in Outs /\ out'.kind = "none"
  BY <1>0, <1>1, OutsideIsLeaf
<1>5. /\ EmptyBuffer \in Buffers
      /\ EmptyBuffer.active.stamp = 0 /\ EmptyBuffer.pending.stamp = 0
  BY DEF EmptyBuffer, Buffers, NoSegment, Segments, Starts
<1>6. \/ buffer' = buffer
      \/ buffer' = EmptyBuffer /\ mode.backend = "DFBC"
  BY DEF Enter
<1>7. Typed'
  <2>1. buffer' \in Buffers
    BY <1>0, <1>5, <1>6 DEF Typed
  <2>2. entries' \in Nat
    BY <1>1, <1>2
  <2>3. inside' \in BOOLEAN /\ woken' \in BOOLEAN
    BY <1>1
  <2> QED BY <1>0, <1>1, <1>3, <1>4, <2>1, <2>2, <2>3 DEF Typed
<1>8. HeldByFew'
  BY <1>3 DEF HeldByFew
<1>9. Began'
  <2>1. CASE buffer' = buffer
    BY <1>0, <1>1, <2>1 DEF Began, EffectiveTime, Valid
  <2>2. CASE buffer' = EmptyBuffer /\ mode.backend = "DFBC"
    BY <1>1, <1>2, <1>5, <2>2 DEF Began, EffectiveTime
  <2> QED BY <1>6, <2>1, <2>2
<1>10. Commanding' /\ Flying'
  BY <1>1, <1>2, <1>3, <1>4 DEF Commanding, Flying, Flown
<1> QED BY <1>7, <1>8, <1>9, <1>10 DEF IInv

(* Leaving owes nothing.                                                   *)
LEMMA ExitKeepsIInv ==
  ASSUME IInv, Exit
  PROVE  IInv'
<1>0. Typed /\ HeldByFew /\ Began
  BY DEF IInv
<1>1. /\ leaf' = [leaf EXCEPT !.armed = FALSE, !.entered = FALSE, !.finished = FALSE]
      /\ inside' = FALSE /\ woken' = FALSE /\ timer' = 0 /\ due' = Never /\ late' = 0
      /\ mode' = mode /\ now' = now /\ pose' = pose /\ able' = able /\ paired' = paired
      /\ buffer' = buffer /\ cache' = cache /\ out' = out /\ entries' = entries
  BY DEF Exit, world, planned
<1>2. leaf' \in Leaves /\ leaf'.held = leaf.held
  BY <1>0, <1>1 DEF Typed, Leaves
<1>3. Typed'
  <2>1. timer' \in Nat /\ timer' <= now /\ late' \in Nat /\ late' <= Lateness /\ due' \in Nat
    BY <1>0, <1>1, ConstantFacts DEF Typed
  <2>2. inside' \in BOOLEAN /\ woken' \in BOOLEAN
    BY <1>1
  <2> QED BY <1>0, <1>1, <1>2, <2>1, <2>2 DEF Typed
<1>4. HeldByFew' /\ Began'
  BY <1>0, <1>1, <1>2 DEF HeldByFew, Began, EffectiveTime, Valid
<1>5. Commanding' /\ Flying'
  BY <1>1 DEF Commanding, Flying
<1> QED BY <1>3, <1>4, <1>5 DEF IInv

(* An input that moves no segment wakes tracking and changes no command.   *)
LEMMA InputKeeps ==
  ASSUME IInv, ~leaf.finished, mode' = mode, now' = now, leaf' = leaf, out' = out,
         woken' = inside, due' = due, late' = late, inside' = inside
  PROVE  /\ Commanding'
         /\ buffer' = buffer => HeldByFew' /\ Began' /\ Flying'
<1>1. inside \in BOOLEAN
  BY DEF IInv, Typed
<1>2. Commanding'
  <2>1. Commanding
    BY DEF IInv
  <2>2. LongerPeriod' = LongerPeriod
    BY DEF LongerPeriod
  <2> QED BY <2>1, <2>2 DEF Commanding
<1>3. ASSUME buffer' = buffer PROVE HeldByFew' /\ Began' /\ Flying'
  <2>1. HeldByFew' /\ Began'
    BY <1>3 DEF IInv, HeldByFew, Began, EffectiveTime, Valid
  <2>2. Flying
    BY DEF IInv
  <2>3. Flying'
    BY <1>3, <2>2 DEF Flying, Flown, Expiry
  <2> QED BY <2>1, <2>3
<1> QED BY <1>2, <1>3

(* A new reference.                                                        *)
LEMMA OnReferenceKeepsIInv ==
  ASSUME IInv, OnReference
  PROVE  IInv'
<1>1. /\ ~leaf.finished /\ mode' = mode /\ now' = now /\ leaf' = leaf /\ out' = out
      /\ woken' = inside /\ due' = due /\ late' = late /\ inside' = inside /\ buffer' = buffer
      /\ pose' = pose /\ able' = able /\ paired' = paired /\ timer' = timer
      /\ entries' = entries
  BY DEF OnReference, world
<1>2. cache' \in Nat
  <2>1. PICK length \in Lengths : cache' = now + length
    BY DEF OnReference
  <2>2. length \in Nat /\ now \in Nat
    BY ConstantFacts DEF IInv, Typed
  <2> QED BY <2>1, <2>2
<1>3. Typed'
  BY <1>1, <1>2 DEF IInv, Typed
<1>4. HeldByFew' /\ Began' /\ Commanding' /\ Flying'
  BY <1>1, InputKeeps
<1> QED BY <1>3, <1>4 DEF IInv

(* A sample of the sensors.                                                *)
LEMMA OnSensorsKeepsIInv ==
  ASSUME IInv, OnSensors
  PROVE  IInv'
<1>1. /\ ~leaf.finished /\ mode' = mode /\ now' = now /\ leaf' = leaf /\ out' = out
      /\ woken' = inside /\ due' = due /\ late' = late /\ inside' = inside /\ buffer' = buffer
      /\ cache' = cache /\ timer' = timer /\ entries' = entries
  BY DEF OnSensors, planned
<1>2. pose' \in Poses /\ able' \in BOOLEAN /\ paired' \in BOOLEAN
  BY DEF OnSensors, IInv, Typed
<1>3. Typed'
  BY <1>1, <1>2 DEF IInv, Typed
<1>4. HeldByFew' /\ Began' /\ Commanding' /\ Flying'
  BY <1>1, InputKeeps
<1> QED BY <1>3, <1>4 DEF IInv

(* A segment of the planner, of whatever stamp: what it moves on is due,   *)
(* and what it finds flown is a matter for the turn it asks for.           *)
LEMMA PlannerKeepsIInv ==
  ASSUME IInv, OnPlannerSetpoint
  PROVE  IInv'
<1>0. Typed /\ HeldByFew /\ Began /\ Flying
  BY DEF IInv
<1>1. /\ ~leaf.finished /\ mode' = mode /\ now' = now /\ leaf' = leaf /\ out' = out
      /\ woken' = inside /\ due' = due /\ late' = late /\ inside' = inside
      /\ pose' = pose /\ able' = able /\ paired' = paired /\ timer' = timer
      /\ entries' = entries /\ cache' = cache
  BY DEF OnPlannerSetpoint, world
<1>2. /\ mode \in Modes /\ now \in Nat /\ buffer \in Buffers /\ inside \in BOOLEAN
      /\ buffer.active.stamp \in Nat /\ buffer.pending.stamp \in Nat
  BY <1>0, StampFacts DEF Typed
<1>3. PICK segment \in Segments :
        /\ ~EffectiveTime(mode) => segment.stamp = now
        /\ buffer' = Cached(mode, buffer, segment, now)
  <2>1. PICK at \in Starts, stamp \in 0 .. (now + Ahead) :
          buffer' = Cached(mode, buffer, Ingested(mode, [at |-> at, stamp |-> stamp], now), now)
    BY DEF OnPlannerSetpoint
  <2> DEFINE sent == [at |-> at, stamp |-> stamp]
             segment == Ingested(mode, sent, now)
  <2>2. stamp \in Nat
    BY <1>2, ConstantFacts
  <2>3. sent \in Segments
    BY <2>2 DEF Segments
  <2> HIDE DEF sent
  <2>4. /\ segment \in Segments
        /\ ~EffectiveTime(mode) => segment.stamp = now
    BY <1>2, <2>3 DEF Ingested, Segments
  <2> QED BY <2>1, <2>4 DEF sent
<1>4. segment.stamp \in Nat
  BY DEF Segments
<1> DEFINE moved == EffectiveTime(mode) /\ Promotable(mode, buffer, now)
<1>5. /\ buffer' \in Buffers /\ buffer'.pending = segment
      /\ moved => buffer'.active = buffer.pending
      /\ ~moved => buffer'.active = buffer.active
  <2> DEFINE c == Cached(mode, buffer, segment, now)
             p == Promoted(mode, buffer, now)
  <2>1. /\ c \in Buffers /\ c.pending = segment
        /\ c.active = IF EffectiveTime(mode) THEN p.active ELSE buffer.active
        /\ Promotable(mode, buffer, now) => p.active = buffer.pending
        /\ ~Promotable(mode, buffer, now) => p = buffer
    <3>1. mode \in Modes /\ now \in Nat /\ buffer \in Buffers /\ segment \in Segments
      BY <1>2, <1>3
    <3> QED BY <3>1, BufferMoves, ZenonT(60)
  <2>2. buffer' = c
    BY <1>3
  <2> HIDE DEF c, p
  <2> QED BY <2>1, <2>2
<1>6. moved => buffer.pending.stamp <= now /\ Valid(buffer.pending)
  BY DEF Promotable
<1> HIDE DEF moved
<1>7. EffectiveTime(mode)' <=> EffectiveTime(mode)
  BY <1>1 DEF EffectiveTime
<1>8. buffer'.active.stamp <= now
  BY <1>0, <1>5, <1>6 DEF Began
<1>10. buffer'.active.stamp \in Nat
  BY <1>5 DEF Buffers, Segments
<1>11. Typed'
  BY <1>0, <1>1, <1>2, <1>5 DEF Typed
<1>12. HeldByFew'
  BY <1>0, <1>1 DEF HeldByFew
<1>13. Began'
  BY <1>1, <1>2, <1>3, <1>4, <1>5, <1>7, <1>8 DEF Began
<1>15. Commanding'
  BY <1>1, InputKeeps
<1>16. Flying'
  BY <1>0, <1>1 DEF Flying, Flown
<1> QED BY <1>11, <1>12, <1>13, <1>15, <1>16 DEF IInv

(* Time makes a turn that is owed later, and no command older than that.   *)
LEMMA TickKeepsIInv ==
  ASSUME IInv, Tick
  PROVE  IInv'
<1>0. Typed /\ HeldByFew /\ Began /\ Commanding /\ Flying
  BY DEF IInv
<1>1. /\ ~leaf.finished /\ mode' = mode /\ now' = now + 1 /\ leaf' = leaf /\ out' = out
      /\ woken' = woken /\ due' = due /\ inside' = inside /\ buffer' = buffer
      /\ pose' = pose /\ able' = able /\ paired' = paired /\ timer' = timer
      /\ entries' = entries /\ cache' = cache
      /\ now < MaxTime /\ (Owed => late < Lateness)
      /\ late' = IF Owed THEN late + 1 ELSE 0
  BY DEF Tick, world, planned
<1>2. /\ now \in Nat /\ late \in Nat /\ due \in Nat /\ timer \in Nat
      /\ buffer.active.stamp \in Nat /\ buffer.pending.stamp \in Nat
      /\ Expiry(buffer.active) \in Nat /\ leaf.command \in Nat
      /\ leaf.last \in Nat /\ LongerPeriod \in Nat
      /\ Begin <= now /\ timer <= now /\ late <= Lateness /\ Lateness \in Nat
      /\ Begin \in Nat /\ MaxTime \in Nat
  BY <1>0, StampFacts, TypedFacts, ConstantFacts DEF Typed
<1>3. Typed'
  <2>1. /\ now' \in Nat /\ Begin <= now' /\ now' <= MaxTime /\ timer <= now'
        /\ late' \in Nat /\ late' <= Lateness
    BY <1>1, <1>2
  <2> QED BY <1>0, <1>1, <2>1 DEF Typed
<1>4. HeldByFew'
  BY <1>0, <1>1 DEF HeldByFew
<1>5. Began'
  <2>1. \A t \in Nat : t <= now => t <= now'
    BY <1>1, <1>2
  <2> QED BY <1>0, <1>1, <1>2, <2>1 DEF Began, EffectiveTime, Valid
<1>6. inside /\ (woken \/ due <= now) => late' = late + 1
  BY <1>1 DEF Owed
<1>7. Commanding'
  <2>1. CASE inside /\ mode.backend # "PVA_SMC"
    <3>1. LongerPeriod' = LongerPeriod
      BY <1>1 DEF LongerPeriod
    <3>2. ASSUME leaf.last = 0 PROVE woken /\ now' - leaf.command <= late'
      <4>1. woken /\ now - leaf.command <= late
        BY <1>0, <2>1, <3>2 DEF Commanding
      <4> QED BY <1>1, <1>2, <1>6, <2>1, <4>1
    <3>3. ASSUME leaf.last # 0
          PROVE  /\ woken \/ due <= leaf.last + LongerPeriod
                 /\ now' > leaf.last + LongerPeriod
                      => now' - (leaf.last + LongerPeriod) <= late'
      <4>1. /\ woken \/ due <= leaf.last + LongerPeriod
            /\ now > leaf.last + LongerPeriod
                 => now - (leaf.last + LongerPeriod) <= late
        BY <1>0, <1>1, <2>1, <3>3 DEF Commanding
      <4> QED BY <1>1, <1>2, <1>6, <2>1, <4>1
    <3> QED BY <1>1, <2>1, <3>1, <3>2, <3>3 DEF Commanding
  <2>2. CASE ~(inside /\ mode.backend # "PVA_SMC")
    BY <1>1, <2>2 DEF Commanding
  <2> QED BY <2>1, <2>2
<1>8. Flying'
  <2>1. CASE inside /\ mode.backend = "SMC"
    <3>1. Flown'
      BY <1>0, <1>1, <2>1 DEF Flying, Flown
    <3>2. ASSUME out.kind = "tracked", ~woken
          PROVE  /\ due <= Expiry(buffer.active)
                 /\ now' > Expiry(buffer.active)
                      => now' - Expiry(buffer.active) <= late'
      <4>1. /\ due <= Expiry(buffer.active)
            /\ now > Expiry(buffer.active) => now - Expiry(buffer.active) <= late
        BY <1>0, <2>1, <3>2 DEF Flying
      <4> QED BY <1>1, <1>2, <1>6, <2>1, <4>1
    <3>3. Expiry(buffer.active)' = Expiry(buffer.active)
      BY <1>1 DEF Expiry
    <3> QED BY <1>1, <2>1, <3>1, <3>2, <3>3 DEF Flying
  <2>2. CASE ~(inside /\ mode.backend = "SMC")
    BY <1>1, <2>2 DEF Flying
  <2> QED BY <2>1, <2>2
<1> QED BY <1>3, <1>4, <1>5, <1>7, <1>8 DEF IInv

(* A step that changes nothing.                                            *)
LEMMA StutterIInv == IInv /\ UNCHANGED vars => IInv'
<1> SUFFICES ASSUME IInv, UNCHANGED vars PROVE IInv'
  OBVIOUS
<1>1. /\ mode' = mode /\ now' = now /\ pose' = pose /\ able' = able /\ paired' = paired
      /\ buffer' = buffer /\ cache' = cache /\ inside' = inside /\ leaf' = leaf
      /\ timer' = timer /\ out' = out /\ woken' = woken /\ due' = due /\ late' = late
      /\ entries' = entries
  BY DEF vars, world, planned
<1>2. Typed' /\ HeldByFew' /\ Began'
  BY <1>1 DEF IInv, Typed, HeldByFew, Began, EffectiveTime, Valid
<1>3. Commanding'
  BY <1>1 DEF IInv, Commanding, LongerPeriod
<1>4. Flying'
  BY <1>1 DEF IInv, Flying, Flown, Expiry
<1> QED BY <1>2, <1>3, <1>4 DEF IInv

(* Every step keeps the invariant.                                         *)
LEMMA NextIInv == IInv /\ [Next]_vars => IInv'
<1> SUFFICES ASSUME IInv, [Next]_vars PROVE IInv'
  OBVIOUS
<1>1. CASE Turn
  BY <1>1, TurnKeepsIInv
<1>2. CASE Enter
  BY <1>2, EnterKeepsIInv
<1>3. CASE Exit
  BY <1>3, ExitKeepsIInv
<1>4. CASE OnPlannerSetpoint
  BY <1>4, PlannerKeepsIInv
<1>5. CASE OnReference
  BY <1>5, OnReferenceKeepsIInv
<1>6. CASE OnSensors
  BY <1>6, OnSensorsKeepsIInv
<1>7. CASE Tick
  BY <1>7, TickKeepsIInv
<1>8. CASE UNCHANGED vars
  BY <1>8, StutterIInv
<1> QED BY <1>1, <1>2, <1>3, <1>4, <1>5, <1>6, <1>7, <1>8 DEF Next
-----------------------------------------------------------------------------
(* Everything below rests on this invariant of Custom1State's turns.       *)
THEOREM GateInvariant == Spec => []IInv
BY InitIInv, NextIInv, PTL DEF Spec

(* Nothing is flown before its effective time: no segment that             *)
(* promoteTrajectorySample or cacheTrajectorySample made active is ahead.  *)
THEOREM FlownHasBegun == Spec => []ActiveHasBegun
<1>1. IInv => ActiveHasBegun
  BY DEF IInv, Began, ActiveHasBegun
<1> QED BY <1>1, GateInvariant, PTL

(* A command of smc does not stand once the window of the active segment   *)
(* has closed: at the latest the turn that nextWake asked for replaces it, *)
(* if no input asked for one before.                                       *)
THEOREM StaleIsReplaced == Spec => []StaleCommandIsReplaced
<1>1. IInv => StaleCommandIsReplaced
  <2> SUFFICES ASSUME IInv, inside, mode.backend = "SMC",
                      out.kind = "tracked", ~woken
               PROVE  now <= Expiry(buffer.active) + Lateness
    BY DEF StaleCommandIsReplaced
  <2>1. now > Expiry(buffer.active) => now - Expiry(buffer.active) <= late
    BY DEF IInv, Flying
  <2>2. /\ now \in Nat /\ late \in Nat /\ late <= Lateness /\ Lateness \in Nat
        /\ Expiry(buffer.active) \in Nat
    BY StampFacts, ConstantFacts DEF IInv, Typed
  <2> QED BY <2>1, <2>2
<1> QED BY <1>1, GateInvariant, PTL

(* However the planner and the strategy behave, the next command comes     *)
(* within the longer period and the lateness of a turn.                    *)
THEOREM CommandsKeepComing == Spec => []SetpointsKeepComing
<1>1. IInv => SetpointsKeepComing
  <2> SUFFICES ASSUME IInv, inside, mode.backend # "PVA_SMC"
               PROVE  now <= Lateness + (IF leaf.last = 0 THEN leaf.command
                                         ELSE leaf.last + LongerPeriod)
    BY DEF SetpointsKeepComing
  <2>1. /\ now \in Nat /\ late \in Nat /\ late <= Lateness /\ Lateness \in Nat
        /\ leaf.command \in Nat /\ leaf.last \in Nat /\ LongerPeriod \in Nat
    BY StampFacts, TypedFacts, ConstantFacts DEF IInv, Typed
  <2>2. CASE leaf.last = 0
    <3>1. now - leaf.command <= late
      BY <2>2 DEF IInv, Commanding
    <3> QED BY <2>1, <2>2, <3>1
  <2>3. CASE leaf.last # 0 /\ ~leaf.finished
    <3>1. now > leaf.last + LongerPeriod => now - (leaf.last + LongerPeriod) <= late
      BY <2>3 DEF IInv, Commanding
    <3> QED BY <2>1, <2>3, <3>1
  <2>4. CASE leaf.finished
    <3>1. leaf.last = now
      BY <2>4 DEF IInv, Commanding
    <3> QED BY <2>1, <3>1
  <2> QED BY <2>2, <2>3, <2>4
<1> QED BY <1>1, GateInvariant, PTL

(* A due segment leaves the pending slot only to become active, whichever  *)
(* of a turn and a receipt comes first.                                    *)
THEOREM DueSegmentIsKept == Spec => NoDueSegmentIsLost
<1> DEFINE Kept ==
      Valid(buffer.pending) /\ buffer.pending.stamp <= now /\ EffectiveTime(mode)
        /\ inside' = inside /\ buffer'.pending # buffer.pending
      => buffer'.active = buffer.pending
<1>1. IInv /\ [Next]_vars => [Kept]_vars
  <2> SUFFICES ASSUME IInv, Next, Valid(buffer.pending), buffer.pending.stamp <= now,
                      EffectiveTime(mode), inside' = inside,
                      buffer'.pending # buffer.pending
               PROVE  buffer'.active = buffer.pending
    OBVIOUS
  <2>1. Promotable(mode, buffer, now)
    BY DEF Promotable
  <2>2. mode \in Modes /\ buffer \in Buffers /\ now \in Nat /\ inside \in BOOLEAN
    BY DEF IInv, Typed
  <2>3. CASE Turn
    <3>1. \/ buffer' = Promoted(mode, buffer, now)
          \/ buffer' = buffer
      BY <2>3, TurnKeeps DEF IInv
    <3> QED BY <2>1, <3>1 DEF Promoted
  <2>4. CASE OnPlannerSetpoint
    <3>1. PICK segment : buffer' = Cached(mode, buffer, segment, now)
      BY <2>4 DEF OnPlannerSetpoint
    <3> DEFINE kept == [active |-> buffer.pending, pending |-> NoSegment]
    <3>2. Promoted(mode, buffer, now) = kept
      BY <2>1 DEF Promoted
    <3>3. buffer' = [kept EXCEPT !.pending = segment]
      BY <3>1, <3>2 DEF Cached
    <3> QED BY <3>3
  <2>5. CASE Enter \/ Exit
    BY <2>2, <2>5 DEF Enter, Exit
  <2>6. CASE OnReference \/ OnSensors \/ Tick
    BY <2>6 DEF OnReference, OnSensors, Tick, planned
  <2> QED BY <2>3, <2>4, <2>5, <2>6 DEF Next
<1> QED BY <1>1, GateInvariant, PTL DEF Spec, NoDueSegmentIsLost

(* What holdTrackingPosition froze stays frozen until an update of the     *)
(* strategy succeeds, and is commanded until then, but for the turns in    *)
(* which a segment may be flown and the strategy has not begun: those      *)
(* command the pose of the moment, and the frozen one is kept.             *)
THEOREM HoldStaysFrozen == Spec => HeldIsFrozen
<1> DEFINE Kept ==
      inside /\ inside' /\ leaf.held /\ leaf'.held
      => /\ leaf'.frozen = leaf.frozen
         /\ leaf'.last # leaf.last \/ out' # out =>
              IF Ready(leaf) /\ ~leaf'.entered
              THEN out'.kind = "hover" /\ out'.at = pose
              ELSE out'.kind = "held" /\ out'.at = leaf.frozen
<1>1. IInv /\ [Next]_vars => [Kept]_vars
  <2> SUFFICES ASSUME IInv, Next, inside, inside', leaf.held, leaf'.held PROVE Kept
    OBVIOUS
  <2>1. CASE Turn
    BY <2>1, TurnKeeps DEF IInv, StaysFrozen
  <2>2. CASE Enter \/ Exit
    BY <2>2 DEF Enter, Exit
  <2>3. CASE OnPlannerSetpoint \/ OnReference \/ OnSensors \/ Tick
    BY <2>3 DEF OnPlannerSetpoint, OnReference, OnSensors, Tick
  <2> QED BY <2>1, <2>2, <2>3 DEF Next
<1> QED BY <1>1, GateInvariant, PTL DEF Spec, HeldIsFrozen

(* No turn asks for another at once: nextWake is in the future.            *)
THEOREM TurnsAreSpent == Spec => TurnIsSpent
<1> DEFINE Spent == Turn => due' > now
<1>1. IInv /\ [Next]_vars => [Spent]_vars
  <2> SUFFICES ASSUME IInv, Turn PROVE due' > now
    OBVIOUS
  <2> QED BY TurnKeeps DEF IInv
<1> QED BY <1>1, GateInvariant, PTL DEF Spec, TurnIsSpent
=============================================================================
