----------------------------- MODULE FlightPhases -----------------------------
(***************************************************************************)
(* What the flight state machine promises, without its leaves, timers and  *)
(* queues: a vehicle idles, asks to fly, flies and lands, and whatever has *)
(* flown returns to idling by a landing that ended on the ground.          *)
(* FlightMachine implements it.                                            *)
(***************************************************************************)
EXTENDS Integers

CONSTANT Heights  \* what a height measurement can say

VARIABLES
  phase,    \* what the vehicle is doing
  vehicle,  \* what the last reports say of it
  asks      \* what has just been asked of the flight controller

vars == <<phase, vehicle, asks>>

Phases   == {"Idle", "Requesting", "Flying", "Landing"}
Vehicles == [armed : BOOLEAN, connected : BOOLEAN, height : Heights]
Airborne == vehicle.armed /\ vehicle.height \in {"climb", "target"}

Init ==
  /\ phase = "Idle"
  /\ vehicle \in Vehicles
  /\ ~vehicle.armed
  /\ asks = {}

(* The reports change between steps; what was asked is then gone.          *)
Report ==
  /\ vehicle' \in Vehicles
  /\ asks' = {}
  /\ UNCHANGED phase

(* Motors are started only on request and never stopped above ground.      *)
Asks ==
  /\ asks' \subseteq {"Arm", "Disarm"}
  /\ "Arm" \in asks' => phase = "Requesting"
  /\ "Disarm" \in asks' => ~Airborne

Step(from, to) == phase = from /\ phase' = to /\ Asks /\ UNCHANGED vehicle

Stay      == \E p \in Phases : Step(p, p)
Prepare   == ~Airborne /\ Step("Idle", "Requesting")
GiveUp    == vehicle.armed /\ Step("Requesting", "Idle")
LiftOff   == vehicle.armed /\ Step("Requesting", "Flying")
Land      == \E p \in Phases \ {"Landing"} : Step(p, "Landing")
Touchdown ==
  /\ ~vehicle.armed
  /\ vehicle.connected
  /\ vehicle.height = "ground"
  /\ Step("Landing", "Idle")

Next == Report \/ Stay \/ Prepare \/ GiveUp \/ LiftOff \/ Land \/ Touchdown

Spec == Init /\ [][Next]_vars
=============================================================================
