------------------------------ MODULE NmpcOwner ------------------------------
(***************************************************************************)
(* NmpcExchange under a fair owner.  The parity of the turns run makes a   *)
(* step of every turn, of one that changes nothing too: an owner that      *)
(* spins is then a behaviour, and fairness cannot lead it out of it.       *)
(***************************************************************************)
EXTENDS NmpcExchange

VARIABLE beat

OwnerVars == <<vars, beat>>
OwnerInit == Init /\ beat = 0
OwnerTurn == OwnerTurns /\ beat' = 1 - beat
OtherStep == Others /\ UNCHANGED beat

(* The owner's queued turn and its output handlers run, whatever the       *)
(* inputs do meanwhile.  Nothing is asked of the solver.  (The first part  *)
(* is WF_OwnerVars(OwnerTurn), which is enabled when it is free and woken; *)
(* the beat tells its steps.)                                              *)
OwnerRuns == <>[](OwnerFree /\ wake) => []<><<beat' # beat>>_beat
FairSpec ==
  /\ OwnerInit
  /\ [][OwnerTurn \/ OtherStep]_OwnerVars
  /\ OwnerRuns /\ WF_OwnerVars(Handle /\ UNCHANGED beat)

(* The wakes the state asks for never make it spin: with every turn asked  *)
(* for run at once, the owner comes to rest again and again and lets time  *)
(* pass (nextWake agrees with the guards it serves).                       *)
TimeIsNotStarved == []<>(service = "running" => ~wake /\ handoff = None)
=============================================================================
