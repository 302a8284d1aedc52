------------------------- MODULE MCStandingApprovals -------------------------
(***************************************************************************)
(* Two requests of one teammate in one conversation, one reading a         *)
(* workspace and one writing to it.  Each behaviour belongs to a scenario, *)
(* which says how much of everything that can vary does: files and crashes *)
(* ("crash"), the end of a timed window ("window"), a change of identity   *)
(* ("authority"), a clock that is set back ("clock").                      *)
(***************************************************************************)
EXTENDS StandingApprovals, TLC

CONSTANTS r1, r2, m1, c1, w1, A, B

VARIABLE scenario

MCMember == r1 :> m1 @@ r2 :> m1
MCConversation == r1 :> c1 @@ r2 :> c1
Reads == [access |-> w1 :> 1, count |-> 0, bytes |-> 0]
Writes == [access |-> w1 :> 2, count |-> 0, bytes |-> 0]
MCScopes == {Reads, Writes}

Varies(scopes, identities, levels, time, faulty, corrected) ==
  [scopes |-> scopes, identities |-> identities, levels |-> levels, time |-> time,
   faults |-> faulty, corrections |-> corrected]

Scenarios ==
  "crash" :> Varies(MCScopes, {A}, {"teammate_always"}, 0, 2, 0) @@
  "window" :> Varies({Reads}, {A}, {Conv30m}, 2, 1, 0) @@
  "authority" :> Varies({Reads}, {A, B}, {"all_always"}, 0, 1, 0) @@
  "clock" :> Varies({Reads}, {A}, {Conv30m}, 1, 1, 1)

Here == Scenarios[scenario]

Interchangeable == Permutations(Requests)

suiteVars == <<vars, scenario>>

SuiteInit ==
  /\ scenario \in DOMAIN Scenarios
  /\ Init
  /\ \A r \in Requests : pending[r] \in Here.scopes

Within ==
  /\ now' <= Here.time /\ faults' <= Here.faults /\ corrections' <= Here.corrections
  /\ authority' \in Here.identities \cup {None}
  /\ authority # None /\ authority' = None /\ Here.identities = {A} =>
       faults' > faults /\ disk' = Loaded(disk)   \* only a restart unsets it
  /\ \A c \in choices' : c.id[2] \in Here.levels
  /\ \A r \in Requests : pending'[r] \in Here.scopes \cup {None}

SuiteNext == Next /\ Within /\ UNCHANGED scenario

SuiteSpec == SuiteInit /\ [][SuiteNext]_suiteVars
=============================================================================
