----------------------------- MODULE MCReceiver -----------------------------
(***************************************************************************)
(* Receiver for TLC.                                                       *)
(***************************************************************************)
EXTENDS Receiver, TLC

(* For safety, the authorities are interchangeable. *)
Interchangeable == Permutations(Authorities)

(* The relay looks at the deadline only where it expires what awaits       *)
(* approval, so a deadline that passes without that need not pass at all.  *)
DeadlineMatters ==
  now = 1 => \A r \in Requests : relay[r].status \in {Absent, Awaiting, Expired}

(* When all operations that the bound admits are settled nothing is        *)
(* journaled again; and as long as there was none, no state tells one      *)
(* authority from another, so a chosen one stands for all (the reduction   *)
(* above is not sound for liveness).                                       *)
First == CHOOSE a \in Authorities : TRUE

Unsettled ==
  /\ issued = MaxIDs => \E r \in Requests : journal[r] # None
  /\ issued = 0 => authority = First
=============================================================================
