-------------------------- MODULE ReferenceService --------------------------
(***************************************************************************)
(* What the reference generator promises, whichever front end runs it: it  *)
(* flies the references it was offered, the latest one first, each of them *)
(* until its time is over, it is replaced or everything is withdrawn; and  *)
(* it never takes up again one that it has let go.                         *)
(***************************************************************************)
EXTENDS Integers

CONSTANT Grace   \* how long past its own end a reference is flown

VARIABLES
  time,
  count,     \* how many references have been accepted
  last,      \* the last of them that was not withdrawn, or None
  offered,   \* the reference accepted and not yet flown, or None
  flown      \* the reference flown, or None

None == [id |-> 0]
Finite(r) == r.duration > 0
EndOf(r) == r.start + r.duration + Grace
ServiceVars == <<time, count, last, offered, flown>>

ServiceInit ==
  /\ time \in Nat /\ count = 0
  /\ last = None /\ offered = None /\ flown = None

Accepted == count' > count /\ last'.id = count'
Offer == Accepted /\ offered' = last' /\ UNCHANGED <<time, flown>>
(* Requests that come together with the turn are taken up by it at once.   *)
Begin ==
  /\ Accepted \/ (offered # None /\ UNCHANGED <<count, last>>)
  /\ flown' = last' /\ offered' = None /\ time' = time
End ==
  /\ offered = None /\ flown # None
  /\ Finite(flown) /\ time > EndOf(flown)
  /\ flown' = None
  /\ UNCHANGED <<time, count, last, offered>>
Withdraw ==
  /\ last' = None /\ offered' = None /\ flown' = None
  /\ count' >= count /\ time' = time
Elapse == time' > time /\ UNCHANGED <<count, last, offered, flown>>

ServiceNext == Offer \/ Begin \/ End \/ Withdraw \/ Elapse
Service == ServiceInit /\ [][ServiceNext]_ServiceVars
=============================================================================
