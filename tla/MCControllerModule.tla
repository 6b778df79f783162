-------------------------- MODULE MCControllerModule --------------------------
(***************************************************************************)
(* Documents for the run of ControllerModule.                              *)
(***************************************************************************)
EXTENDS ControllerModule, TLC

MCProfile ==
  [key \in Keys |->
     CASE key \in Positive -> PositiveFallback[key]
       [] key \in NonNegative -> NonNegativeFallback[key]
       [] key = "hover_thrust_ratio" -> 500
       [] key = "min_hover_thrust" -> 50
       [] key = "max_hover_thrust" -> 950
       [] key = "normalized_thrust_min" -> 100
       [] key = "normalized_thrust_max" -> 900
       [] key = "local_type_mask" -> 3072
       [] key = "reference_analytic_type" -> 9
       [] OTHER -> 1000]

Plain ==
  [numbers |-> [key \in {} |-> 0], typed |-> TRUE, unused |-> FALSE,
   sources |-> [feedback_source |-> "rigid_estimate", hover_source |-> "external",
                dfbc_reference |-> "trajectory_cache"],
   tracking_backend |-> "px4_local", px4_local_lift |-> "legacy",
   hover_enabled |-> "unset", nmpc_enabled |-> "unset",
   boundary |-> [given |-> TRUE, bounds |-> Null]]
MCFence(zMin, zMax) ==
  [set |-> TRUE, xMin |-> 0, xMax |-> 1, yMin |-> 0, yMax |-> 1, zMin |-> zMin, zMax |-> zMax]

MCTurns ==
  {[state |-> "SelfCheck", wait |-> 0, raised |-> 0],
   [state |-> "Flying", wait |-> 0, raised |-> 1],
   [state |-> "Flying", wait |-> 1, raised |-> 0]}
MCBursts == {<<>>, <<"Solve", "Write">>}

(* One that can be flown, and some that are refused.                       *)
MCDocuments ==
  {Plain, [Plain EXCEPT !.unused = TRUE],
   [Plain EXCEPT !.sources.feedback_source = "mavros_local"],
   [Plain EXCEPT !.boundary.given = FALSE]}

(* Every pair of limits in either order and out of range, and every backend*)
(* with either flag; values that make no sense for a key of each kind.     *)
MCCreated ==
  LET Limits == {-1, 100, 900, 1001}
      limited(low, high) == "normalized_thrust_min" :> low @@ "normalized_thrust_max" :> high
      odd(n) == "control_period" :> n @@ "gravity" :> n @@ "yaw_gain" :> n
      typed(n) == "local_type_mask" :> n @@ "reference_analytic_type" :> n
  IN {Plain}
     \cup {[Plain EXCEPT !.numbers = limited(low, high)] : low \in Limits, high \in Limits}
     \cup {[Plain EXCEPT !.numbers = odd(n)] : n \in {NotFinite, -1, 0, 1}}
     \cup {[Plain EXCEPT !.numbers = typed(n)] : n \in {-1, 9, 10, 4096}}
     \cup {[Plain EXCEPT !.tracking_backend = backend, !.hover_enabled = h, !.nmpc_enabled = n] :
             backend \in Backends \cup {"other"}, h \in {"yes", "no", "unset"},
             n \in {"yes", "no", "unset"}}
     \cup {[Plain EXCEPT !.boundary.bounds = MCFence(0, z)] : z \in -1 .. 1}
=============================================================================
