------------------------------- MODULE MCFlight -------------------------------
(***************************************************************************)
(* Input sets for the runs of FlightMachine.                               *)
(***************************************************************************)
EXTENDS FlightMachine

Fcu(modes, arms) ==
  {[mode |-> m, armed |-> a, connected |-> TRUE] : m \in modes, a \in arms}
Pose(h, r, s) == [height |-> h, rate |-> r, alarms |-> s]

(* Both request modes, armed or not.                                       *)
MCFcuReports == Fcu({"ALTCTL", "OFFBOARD"}, BOOLEAN)
(* A controller that stays in OFFBOARD and is armed or not.                *)
MCFcuArming == Fcu({"OFFBOARD"}, BOOLEAN)

(* On the ground, climbing, settled at the take-off altitude.              *)
MCFlightPoses ==
  {Pose("ground", "slow", {}), Pose("climb", "fast", {}), Pose("target", "still", {})}
MCTwoPoses == {Pose("ground", "still", {}), Pose("target", "still", {})}
(* The same with an alarm that rises and clears.                           *)
MCAlarmPoses == MCTwoPoses \cup {Pose("climb", "still", {"Geofence"})}
=============================================================================
