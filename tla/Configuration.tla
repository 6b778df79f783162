---------------------------- MODULE Configuration ----------------------------
(***************************************************************************)
(* How a configuration is read: a key the document does not have comes     *)
(* from the built-in profile, a value that makes no sense is replaced, and *)
(* a choice nobody may guess refuses the document.                         *)
(*                                                                         *)
(* Numbers count thousandths; NotFinite is every infinity and NaN.  A      *)
(* vector is known by its least component.  The limits that are clamped    *)
(* are finite (JSON has no other number).  Keys carry no group, but where  *)
(* two groups share a name.                                                *)
(***************************************************************************)
EXTENDS Integers

CONSTANTS
  NotFinite,
  Profile      \* the numbers of the built-in profile

PositiveFallback == [
  planning_period |-> 100, control_period |-> 10, prediction_horizon |-> 1000,
  body_rate_time_constant |-> 80, gravity |-> 9807,
  max_roll_pitch_body_rate |-> 3491, max_yaw_body_rate |-> 873,
  max_roll_pitch_angular_acceleration |-> 15000, max_yaw_angular_acceleration |-> 2000,
  angular_acceleration_weight |-> 40, hover_thrust_timeout |-> 500,
  solve_timeout |-> 30, result_timeout |-> 100, reference_duration |-> 60000,
  reference_radius |-> 3000, reference_height |-> 3000, reference_z_frequency |-> 500,
  reference_torus_omega |-> 300, reference_torus_scale |-> 2000,
  position_natural_frequency |-> 2000, position_damping_ratio |-> 900, tilt_gain |-> 6000,
  acceleration_measurement_timeout |-> 50, dfbc_log_period |-> 1000]
NonNegativeFallback == [
  reference_start_delay |-> 200, reference_line_speed |-> 1000,
  reference_z_amplitude |-> 0, reference_entry_duration |-> 5000,
  tilt_rate_damping |-> 1000, yaw_gain |-> 300, yaw_rate_damping |-> 200,
  acceleration_correction_gain |-> 0, acceleration_correction_limit |-> 0,
  acceleration_correction_filter_tau |-> 0, state_estimate_unusable_trip_delay |-> 150]
Positive == DOMAIN PositiveFallback
NonNegative == DOMAIN NonNegativeFallback
Clamped == {"hover_thrust_ratio", "min_hover_thrust", "max_hover_thrust",
            "normalized_thrust_min", "normalized_thrust_max"}
Chosen == {"local_type_mask", "reference_analytic_type"}
(* Taken as they are: nothing checks them.                                 *)
Unchecked == {"takeoff_altitude", "position_jump_threshold", "max_velocity_xy",
              "max_velocity_z", "acc_saturation_xy", "acc_saturation_z",
              "k1", "k2", "boundary_layer", "nmpc_log_period"}
Checked == Positive \cup NonNegative
Keys == Checked \cup Clamped \cup Chosen \cup Unchecked

ASSUME ConfigurationAssumption ==
  /\ NotFinite \notin Int
  /\ Profile \in [Keys -> Int \cup {NotFinite}]
  /\ \A key \in Clamped \cup Chosen : Profile[key] \in Int

Backends == {"px4_local", "nmpc", "dfbc", "smc", "pva_smc"}
AttitudeBackends == {"nmpc", "dfbc"}
Sources == [feedback_source : {"rigid_estimate", "mavros_local"},
            hover_source : {"external", "internal"},
            dfbc_reference : {"trajectory_cache", "planner_setpoint"}]
Null == [set |-> FALSE]
-----------------------------------------------------------------------------
(* A document: its numbers, three choices and two names (which it may      *)
(* misspell), both flags that ask for the hover thrust estimate ("unset"   *)
(* if it has none), the boundary it must have, whether every value is of   *)
(* its type, and whether it has keys nobody reads.                         *)
IsDocument(document) ==
  /\ DOMAIN document.numbers \subseteq Keys
  /\ \A key \in DOMAIN document.numbers :
       IF key \in Checked \cup Unchecked THEN document.numbers[key] \in Int \cup {NotFinite}
                                         ELSE document.numbers[key] \in Int

Number(document, key) ==
  IF key \in DOMAIN document.numbers THEN document.numbers[key] ELSE Profile[key]
PositiveNumber(document, key) ==
  LET n == Number(document, key)
  IN IF n = NotFinite \/ n <= 0 THEN PositiveFallback[key] ELSE n
NonNegativeNumber(document, key) ==
  LET n == Number(document, key)
  IN IF n = NotFinite \/ n < 0 THEN NonNegativeFallback[key] ELSE n

Clamp(n, low, high) == IF n < low THEN low ELSE IF n > high THEN high ELSE n
ThrustLimitsApart(document) ==
  LET limit(key, low) == Clamp(Number(document, key), low, 1000)
  IN [hover_thrust_ratio |-> Clamp(Number(document, "hover_thrust_ratio"), 50, 950),
      min_hover_thrust |-> limit("min_hover_thrust", 0),
      max_hover_thrust |-> limit("max_hover_thrust", 0),
      normalized_thrust_min |-> limit("normalized_thrust_min", 0),
      normalized_thrust_max |-> limit("normalized_thrust_max", 0)]
ThrustLimits(document) ==
  LET limit(key, low) == Clamp(Number(document, key), low, 1000)
      hover == limit("min_hover_thrust", 0)
      thrust == limit("normalized_thrust_min", 0)
  IN [hover_thrust_ratio |-> Clamp(Number(document, "hover_thrust_ratio"), 50, 950),
      min_hover_thrust |-> hover,
      max_hover_thrust |-> limit("max_hover_thrust", hover),
      normalized_thrust_min |-> thrust,
      normalized_thrust_max |-> limit("normalized_thrust_max", thrust)]

LocalTypeMask(document) ==
  LET n == Number(document, "local_type_mask") IN IF n \in 0 .. 4095 THEN n ELSE 3072
AnalyticType(document) ==
  LET n == Number(document, "reference_analytic_type") IN IF n \in 0 .. 9 THEN n ELSE 3
Backend(document) ==
  IF document.tracking_backend \in Backends THEN document.tracking_backend ELSE "px4_local"
Lift(document) ==
  IF document.px4_local_lift = "zero_order_hold" THEN "ZeroOrderHold" ELSE "Legacy"

(* The key of the nmpc group is read last; attitude-rate tracking insists. *)
HoverFlag(document) ==
  IF document.nmpc_enabled # "unset" THEN document.nmpc_enabled = "yes"
  ELSE document.hover_enabled # "no"
HoverEnabled(document) ==
  HoverFlag(document) \/ Backend(document) \in AttitudeBackends

(* parseWorldBoundary.                                                     *)
BoundsParse(bounds) ==
  \/ bounds = Null
  \/ /\ bounds.set
     /\ bounds.xMin < bounds.xMax /\ bounds.yMin < bounds.yMax /\ bounds.zMin < bounds.zMax

(* readControllerConfig: what it throws for, and what it returns.          *)
Readable(document) ==
  /\ document.typed
  /\ document.sources \in Sources
  /\ document.boundary.given /\ BoundsParse(document.boundary.bounds)
ReadControllerConfig(document) ==
  [positive |-> [key \in Positive |-> PositiveNumber(document, key)],
   nonNegative |-> [key \in NonNegative |-> NonNegativeNumber(document, key)],
   thrust |-> ThrustLimits(document),
   local_type_mask |-> LocalTypeMask(document),
   reference_analytic_type |-> AnalyticType(document),
   tracking_backend |-> Backend(document), px4_local_lift |-> Lift(document),
   sources |-> document.sources,
   hover_thrust_enabled |-> HoverEnabled(document),
   world_boundary |-> document.boundary.bounds]

(* The reader of the module: it cannot supply every source, and a key it   *)
(* does not know is a mistake.                                             *)
Valid(document) ==
  /\ Readable(document)
  /\ ~document.unused
  /\ document.sources.feedback_source = "rigid_estimate"
  /\ document.sources.hover_source = "external"
-----------------------------------------------------------------------------
(* What the controller relies on: periods and gains are positive numbers,  *)
(* no thrust limit is above its maximum, the geofence is not empty, and an *)
(* attitude-rate backend insists on a hover thrust estimate.               *)
Sound(config) ==
  /\ \A key \in Positive : config.positive[key] \in Nat \ {0}
  /\ \A key \in NonNegative : config.nonNegative[key] \in Nat
  /\ LET t == config.thrust IN
       /\ 0 <= t.min_hover_thrust /\ t.min_hover_thrust <= t.max_hover_thrust
       /\ 0 <= t.normalized_thrust_min /\ t.normalized_thrust_min <= t.normalized_thrust_max
       /\ t.max_hover_thrust <= 1000 /\ t.normalized_thrust_max <= 1000
       /\ t.hover_thrust_ratio \in 50 .. 950
  /\ config.local_type_mask \in 0 .. 4095 /\ config.reference_analytic_type \in 0 .. 9
  /\ config.tracking_backend \in Backends
  /\ config.tracking_backend \in AttitudeBackends => config.hover_thrust_enabled
  /\ config.world_boundary # Null =>
       LET b == config.world_boundary
       IN b.xMin < b.xMax /\ b.yMin < b.yMax /\ b.zMin < b.zMax
=============================================================================
