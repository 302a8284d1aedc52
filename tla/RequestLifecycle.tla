-------------------------- MODULE RequestLifecycle --------------------------
(***************************************************************************)
(* What the relay promises about a request, as one atomic cell per request:*)
(* the recipient decides at most once, one execution claim at most holds   *)
(* an approved request, only its holder reports a result, and a terminal   *)
(* status is final.  No clock, no transaction, no retry.                   *)
(***************************************************************************)
EXTENDS RequestTransitions

CONSTANTS
  Requests,       \* identities of requests
  DecisionIDs,    \* identities the recipient may attach to a decision
  Claims,         \* execution claims
  Bodies          \* contents of results

VARIABLE
  cell            \* cell[r]: status, decision, claim and result of request r

Digests == Claims \X ResultStates \X Bodies

CellType == [status     : Status,
             decisionID : DecisionIDs \cup {None},
             decision   : Decisions \cup {None},
             claim      : Claims \cup {None},
             digest     : Digests \cup {None}]

NoCell == [status |-> Absent, decisionID |-> None, decision |-> None,
           claim |-> None, digest |-> None]

Init == cell = [r \in Requests |-> NoCell]

Create(r) ==
  /\ cell[r].status = Absent
  /\ cell' = [cell EXCEPT ![r] = [NoCell EXCEPT !.status = Awaiting]]

(***************************************************************************)
(* A decision is recorded only on an undecided, awaiting request.  An      *)
(* allow_once may also find the deadline passed or the requester revoked.  *)
(***************************************************************************)
DecideOutcomes(v) == {Expired} \cup IF v = Deny THEN {Rejected}
                                                ELSE {Accepted, Cancelled}

Decide(r, d, v) ==
  /\ cell[r].status = Awaiting
  /\ cell[r].decisionID = None
  /\ \E status \in DecideOutcomes(v) :
       cell' = [cell EXCEPT ![r] = [cell[r] EXCEPT !.decisionID = d,
                                      !.decision = v, !.status = status]]

Expire(r) ==
  /\ cell[r].status = Awaiting
  /\ cell' = [cell EXCEPT ![r] = [cell[r] EXCEPT !.status = Expired]]

Claim(r, k) ==
  /\ cell[r].status = Accepted
  /\ cell[r].claim = None
  /\ cell' = [cell EXCEPT ![r] = [cell[r] EXCEPT !.status = Running,
                                                 !.claim = k]]

Report(r, digest) ==
  /\ cell[r].status = Running
  /\ cell[r].claim = digest[1]
  /\ cell' = [cell EXCEPT ![r] = [cell[r] EXCEPT !.status = digest[2],
                                                 !.digest = digest]]

Cancel(r) ==
  /\ cell[r].status \in {Awaiting, Accepted, Running}
  /\ cell' = [cell EXCEPT ![r] = [cell[r] EXCEPT !.status = Cancelled]]

Next ==
  \E r \in Requests :
    \/ Create(r)
    \/ \E d \in DecisionIDs, v \in Decisions : Decide(r, d, v)
    \/ Expire(r)
    \/ \E k \in Claims : Claim(r, k)
    \/ \E digest \in Digests : Report(r, digest)
    \/ Cancel(r)

Spec == Init /\ [][Next]_cell
=============================================================================
