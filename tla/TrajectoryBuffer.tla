--------------------------- MODULE TrajectoryBuffer ---------------------------
(***************************************************************************)
(* Planner setpoints on their way to the tracking state: what ingress      *)
(* accepts, the two slots of MpcTrajectoryBuffer, when the pending segment *)
(* becomes the active one, and when a segment may be flown.                *)
(*                                                                         *)
(* A segment is where it starts, `at', and when, `stamp'.  Positions are   *)
(* told apart only as equal to the pose a tracking state is entered at or  *)
(* not (plan_hover_xy_tol, plan_hover_z_tol).                              *)
(***************************************************************************)
EXTENDS Naturals

CONSTANTS
  Poses,      \* where a segment may start and the vehicle may be
  Partial,    \* a segment whose mask leaves the position axes out
  NotFinite,  \* a segment with a component that is not a finite number
  Window      \* planning_period

ASSUME BufferAssumption ==
  /\ Window \in Nat
  /\ Partial \notin Poses /\ NotFinite \notin Poses /\ Partial # NotFinite

Geometric == {"SMC", "DFBC"}
(* usesStageEffectiveTime, for a mode [backend, lift].                     *)
EffectiveTime(mode) ==
  \/ mode.backend \in Geometric
  \/ mode.backend \in {"PX4_LOCAL", "PVA_SMC"} /\ mode.lift = "ZeroOrderHold"

(* Whether the backend reads planner setpoints: DFBC only when it streams. *)
Uses(mode) == mode.backend \in {"PX4_LOCAL", "SMC", "DFBC", "PVA_SMC"}

Starts == Poses \cup {Partial, NotFinite}
Segments == [at : Starts, stamp : Nat]
NoSegment == [at |-> Partial, stamp |-> 0]
(* is_valid: the stamp of a segment that was accepted is never zero.       *)
Valid(segment) == segment.stamp # 0
Finite(segment) == Valid(segment) /\ segment.at # NotFinite
Buffers == [active : Segments, pending : Segments]
EmptyBuffer == [active |-> NoSegment, pending |-> NoSegment]

(* ingestPositionTarget: a segment with an effective time keeps its header *)
(* stamp, and is refused when a component is missing or the stamp is zero; *)
(* any other starts when it is received.                                   *)
Ingested(mode, segment, receipt) ==
  IF EffectiveTime(mode) THEN segment ELSE [segment EXCEPT !.stamp = receipt]
Accepted(mode, segment) ==
  EffectiveTime(mode) =>
    /\ Finite(segment)
    /\ mode.backend \in Geometric => segment.at # Partial

(* promoteTrajectorySample, without the wait for the effective time, and   *)
(* with it.                                                                *)
PromotableOnArrival(mode, buffer, now) == Valid(buffer.pending)
Promotable(mode, buffer, now) ==
  Valid(buffer.pending) /\ (EffectiveTime(mode) => buffer.pending.stamp <= now)
Promoted(mode, buffer, now) ==
  IF Promotable(mode, buffer, now)
  THEN [active |-> buffer.pending, pending |-> NoSegment] ELSE buffer

(* cacheTrajectorySample: a due segment moves on before it is replaced.    *)
CachedOver(mode, buffer, segment, receipt) == [buffer EXCEPT !.pending = segment]
Cached(mode, buffer, segment, receipt) ==
  LET kept == IF EffectiveTime(mode) THEN Promoted(mode, buffer, receipt) ELSE buffer
  IN  [kept EXCEPT !.pending = segment]

(* stageWindowOpen: [stamp, stamp + planning_period].                      *)
WindowOpen(segment, now) ==
  Finite(segment) /\ segment.stamp <= now /\ now - segment.stamp <= Window
Expiry(segment) == segment.stamp + Window + 1

(* liftForBackend's success.                                               *)
Lifts(mode, segment, now) ==
  IF EffectiveTime(mode)
  THEN WindowOpen(segment, now) /\ (mode.backend \in Geometric => segment.at # Partial)
  ELSE Valid(segment)

(* passThroughPlanMatchesHover, passThroughMayTakeSetpoint: the first      *)
(* segment starts at the hover pose, or says nothing of position.          *)
MatchesHover(segment, hover) == Valid(segment) /\ segment.at \in {hover, Partial}
MayTake(segment, hover, armed) == Finite(segment) /\ (armed \/ MatchesHover(segment, hover))
=============================================================================
