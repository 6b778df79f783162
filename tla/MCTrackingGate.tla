---------------------------- MODULE MCTrackingGate ----------------------------
(***************************************************************************)
(* The configurations for the run of TrackingGate.                         *)
(***************************************************************************)
EXTENDS TrackingGate, TLC

(* A publish and a control period of which either may be the longer.       *)
Mode(backend, lift, publish, control) ==
  [backend |-> backend, lift |-> lift, publish |-> publish, control |-> control]
MCModes ==
  {Mode("PX4_LOCAL", "Legacy", 2, 1), Mode("PX4_LOCAL", "ZeroOrderHold", 2, 1),
   Mode("SMC", "Legacy", 1, 2),
   Mode("DFBC", "Legacy", 2, 1),
   Mode("DFBC_CACHE", "Legacy", 2, 1), Mode("DFBC_CACHE", "Legacy", 1, 2),
   Mode("PVA_SMC", "ZeroOrderHold", 2, 1)}
Symmetry == Permutations(Poses)
=============================================================================
