---------------------------- MODULE MCEnrollment ----------------------------
(***************************************************************************)
(* Enrollment for TLC.                                                     *)
(***************************************************************************)
EXTENDS Enrollment, TLC

Interchangeable == Permutations(Invites) \cup Permutations(Keys)
  \cup Permutations(Members) \cup Permutations(Devices) \cup Permutations(Handlers)
=============================================================================
