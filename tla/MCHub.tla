------------------------------- MODULE MCHub -------------------------------
(***************************************************************************)
(* Hub for TLC: channels of one event instead of 32.  Agents are           *)
(* interchangeable, and so are streams; TLC's symmetry reduction is not    *)
(* sound for liveness, so representatives are fixed here instead: requests *)
(* are addressed to one chosen agent, one chosen stream is opened first    *)
(* and is a stream of that agent, and one agent at most is revoked.  None  *)
(* of the steps cut is under fairness.                                     *)
(***************************************************************************)
EXTENDS Hub

Addressee == CHOOSE a \in Agents : TRUE
First     == CHOOSE s \in Streams : TRUE

Representative ==
  /\ \A r \in Requests : target[r] \in {Addressee, Nobody}
  /\ stream[First].agent \in {Addressee, Nobody}
  /\ stream[First].pc = "new" => \A s \in Streams : stream[s].pc = "new"
  /\ Cardinality(Agents \ credentialled) <= 1
=============================================================================
