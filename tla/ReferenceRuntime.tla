-------------------------- MODULE ReferenceRuntime --------------------------
(***************************************************************************)
(* ReferenceTrajectoryRuntime: the owner state of the reference generator  *)
(* as a value, and its operations as functions of it.  The ROS node        *)
(* (ReferenceNode) and the native module (ReferenceModule) call the same   *)
(* operations from different schedules.                                    *)
(*                                                                         *)
(* A reference is known by the number of its acceptance, its kind, when it *)
(* starts and how long it lasts; 0 is endless.  An analytic curve always   *)
(* ends; only a single sample does not.  Curves, limits and flags are left *)
(* out: the runtime takes a request or refuses it, and what is refused     *)
(* changes nothing.  A unit of time is the step of                         *)
(* nextafter: "just past t" is t + 1.  Never (0) is an unset gate.         *)
(* Variants of a definition, under its name and a suffix, are mistakes the *)
(* properties are there to catch; nothing else uses them.                  *)
(***************************************************************************)
EXTENDS Integers, SequencesExt

CONSTANTS
  StatusPeriod,   \* 1 / status_rate_hz
  ActivePeriod,   \* 1 / active_publish_rate_hz
  LeadTime,       \* min_lead_time
  ReferenceGrace  \* trajectory_timeout

ASSUME RatesAssumption ==
  /\ {StatusPeriod, ActivePeriod} \subseteq Nat \ {0}
  /\ {LeadTime, ReferenceGrace} \subseteq Nat

Never == 0
None == [id |-> 0]
Kinds == {"Analytic", "Sampled"}
(* No reference starts sooner than the lead time after it was received.    *)
References(ids) ==
  [id : ids, kind : Kinds, start : {t \in Nat : t > LeadTime}, duration : Nat]
Runtimes(ids) ==
  [state : {"SelfCheck", "Ready", "Active"}, status : Nat, posted : Nat,
   pending : References(ids) \cup {None}, active : References(ids) \cup {None},
   time : Nat]

(* reset(): nothing survives it.                                           *)
Fresh == [state |-> "SelfCheck", status |-> Never, posted |-> Never,
          pending |-> None, active |-> None, time |-> 0]

(* acceptAnalytic and acceptSampled: the start is moved past the receipt.  *)
Start(request, receipt) == Max({request.start, receipt + LeadTime})
Accept(rt, request, receipt, id) ==
  [rt EXCEPT !.pending =
    [id |-> id, kind |-> request.kind, start |-> Start(request, receipt),
     duration |-> request.duration]]
-----------------------------------------------------------------------------
(* The state machine.  An update returns the runtime and its effects.      *)
Due(last, at, period) == last = Never \/ at - last >= period
Expiry(r) == r.start + r.duration + ReferenceGrace
ExpiredEarly(r, at) == r.duration > 0 /\ at >= Expiry(r)
Expired(r, at) == r.duration > 0 /\ at > Expiry(r)

BecomeReady(rt) ==
  [runtime |-> [rt EXCEPT !.state = "Ready", !.status = rt.time, !.posted = Never],
   effects |-> <<"Status">>]

(* Entering Active publishes both; replacing the active reference keeps    *)
(* the phase of the status and starts that of the reference again.         *)
Activated(rt) ==
  [rt EXCEPT !.state = "Active", !.active = rt.pending, !.pending = None,
             !.posted = rt.time]
BecomeActive(rt) ==
  [runtime |-> [Activated(rt) EXCEPT !.status = rt.time],
   effects |-> <<"Status", rt.pending.kind>>]
StatusDue(rt) == Due(rt.status, rt.time, StatusPeriod)
WithStatus(rt, effects) ==
  IF StatusDue(rt)
  THEN [runtime |-> [rt EXCEPT !.status = rt.time], effects |-> <<"Status">> \o effects]
  ELSE [runtime |-> rt, effects |-> effects]
ReplaceActive(rt) == WithStatus(Activated(rt), <<rt.pending.kind>>)
Republish(rt) ==
  IF rt.state = "Active" /\ Due(rt.posted, rt.time, ActivePeriod)
  THEN WithStatus([rt EXCEPT !.posted = rt.time], <<rt.active.kind>>)
  ELSE WithStatus(rt, <<>>)

Updated(runtime, at) ==
  LET rt == [runtime EXCEPT !.time = at] IN
  IF rt.pending # None
  THEN IF rt.state = "Active" THEN ReplaceActive(rt) ELSE BecomeActive(rt)
  ELSE IF rt.state = "SelfCheck" \/ (rt.state = "Active" /\ Expired(rt.active, at))
       THEN BecomeReady(rt) ELSE Republish(rt)

(* nextWake(): just past a period or an expiry, or at once.                *)
NextWakeUnstrict(rt) ==
  IF rt.state = "SelfCheck" \/ rt.pending # None THEN rt.time
  ELSE Min({rt.status + StatusPeriod + 1}
           \cup (IF rt.state = "Active" THEN {rt.posted + ActivePeriod + 1} ELSE {})
           \cup (IF rt.state = "Active" /\ rt.active.duration > 0
                 THEN {Expiry(rt.active)} ELSE {}))
NextWakeStatusOnly(rt) ==
  IF rt.state = "SelfCheck" \/ rt.pending # None THEN rt.time
  ELSE rt.status + StatusPeriod + 1
NextWake(rt) ==
  IF rt.state = "SelfCheck" \/ rt.pending # None THEN rt.time
  ELSE Min({rt.status + StatusPeriod + 1}
           \cup (IF rt.state = "Active" THEN {rt.posted + ActivePeriod + 1} ELSE {})
           \cup (IF rt.state = "Active" /\ rt.active.duration > 0
                 THEN {Expiry(rt.active) + 1} ELSE {}))
=============================================================================
