------------------------------ MODULE Delivery ------------------------------
(***************************************************************************)
(* What pushing promises, without threads, requests or transactions: the   *)
(* target accepts each (run, employee) key at most once, and the agent     *)
(* counts an employee as delivered by a run only when that run's key was   *)
(* accepted.  A run rolled back stops being counted; its keys stay taken.  *)
(***************************************************************************)
CONSTANTS Runs, Employees, NoValue

VARIABLES
  accepted,  \* the keys the target took
  believed   \* the run the agent counts an employee as delivered by

Init ==
  /\ accepted = {}
  /\ believed = [e \in Employees |-> NoValue]

Accept(r, e) ==
  /\ <<r, e>> \notin accepted
  /\ accepted' = accepted \cup {<<r, e>>}
  /\ UNCHANGED believed

Count(r, es) ==
  /\ \A e \in es : <<r, e>> \in accepted
  /\ believed' = [e \in Employees |-> IF e \in es THEN r ELSE believed[e]]
  /\ UNCHANGED accepted

Uncount(es) ==
  /\ believed' = [e \in Employees |-> IF e \in es THEN NoValue ELSE believed[e]]
  /\ UNCHANGED accepted

Next ==
  \/ \E r \in Runs, e \in Employees : Accept(r, e)
  \/ \E r \in Runs, es \in SUBSET Employees : Count(r, es)
  \/ \E es \in SUBSET Employees : Uncount(es)

Spec == Init /\ [][Next]_<<accepted, believed>>
=============================================================================
