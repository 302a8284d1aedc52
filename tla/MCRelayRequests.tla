-------------------------- MODULE MCRelayRequests --------------------------
(***************************************************************************)
(* RelayRequests for TLC: model values for every identity, two handlers    *)
(* that race on one or two requests.                                       *)
(***************************************************************************)
EXTENDS RelayRequestsInv, TLC

Interchangeable == Permutations(Handlers) \cup Permutations(DecisionIDs)
                     \cup Permutations(Claims) \cup Permutations(Artifacts)
                     \cup Permutations(Agents)
=============================================================================
