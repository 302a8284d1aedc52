------------------------- MODULE RequestTransitions -------------------------
(***************************************************************************)
(* The lifecycle of one stored request (internal/collaboration/store.go)   *)
(* as pure operators.  Every mutating endpoint of the relay is a function  *)
(* "update" that store.go runs on the record it has just read: it either   *)
(* refuses the call (the Go function returns an error) or gives the record *)
(* to write back.  An endpoint E is modelled by                            *)
(*                                                                         *)
(*   ERefused(s, c, ...)   the update returns an error for stored record s *)
(*   ETo(s, c, ...)        the record it leaves otherwise (s itself when   *)
(*                         the update changes nothing, an exact replay)    *)
(*                                                                         *)
(* where c is the call (who makes it and its arguments).  How the read and *)
(* the write interleave with other handlers is the business of the modules *)
(* that use these operators.                                               *)
(***************************************************************************)
EXTENDS Naturals

CONSTANTS
  None           \* the empty string of the Go records: no decision, no claim...

(***************************************************************************)
(* Statuses of protocol.RequestStatus.  "absent" stands for a key Redis    *)
(* does not hold (readStoredRequest answers ErrNotFound); "preparing" is   *)
(* declared by the protocol and assigned nowhere.                          *)
(***************************************************************************)
Absent    == "absent"
Awaiting  == "awaiting_approval"
Accepted  == "accepted"
Running   == "running"
Completed == "completed"
Rejected  == "rejected"
Expired   == "expired"
Cancelled == "cancelled"
Failed    == "failed"

TerminalStatus == {Completed, Rejected, Expired, Cancelled, Failed}
Status         == {Absent, Awaiting, Accepted, Running} \cup TerminalStatus

Terminal(status) == status \in TerminalStatus

Allow == "allow_once"
Deny  == "deny"

Decisions    == {Allow, Deny}
ResultStates == {Completed, Failed, Cancelled}

(***************************************************************************)
(* A call: op names the endpoint, id is the decision identity or the       *)
(* execution claim, choice the decision or the result state, body the      *)
(* content of the result.                                                  *)
(***************************************************************************)
MkCall(op, agent, req, id, choice, body) ==
  [op |-> op, agent |-> agent, req |-> req, id |-> id, choice |-> choice,
   body |-> body]

(***************************************************************************)
(* The digest of a result payload identifies the payload (SHA-256 of its   *)
(* JSON): claim, state and content.                                        *)
(***************************************************************************)
digestResult(c) == <<c.id, c.choice, c.body>>

executionClaimMatches(stored, presented) ==
  /\ stored # None
  /\ stored = presented

exactResultReplay(s, c) ==
  /\ s.status = c.choice
  /\ executionClaimMatches(s.claim, c.id)
  /\ s.digest = digestResult(c)

(* Seeded defect: a decided request answers any decision with success. *)
DecideRefusedIgnoringID(s, c) ==
  \/ s.target # c.agent
  \/ s.decisionID = None /\ s.status # Awaiting

(***************************************************************************)
(* Decide: the recipient's allow_once or deny, identified by a decision ID *)
(* so that a retry of a lost response is recognised.  t is the server's    *)
(* clock and revoked the tombstones of revoked agents, both read in the    *)
(* transaction.                                                            *)
(***************************************************************************)
DecideRefused(s, c) ==
  \/ s.target # c.agent
  \/ /\ s.decisionID # None
     /\ s.decisionID # c.id \/ s.decision # c.choice
  \/ /\ s.decisionID = None
     /\ s.status # Awaiting

DecidedStatus(s, c, t, revoked) ==
  IF t >= s.expiresAt              THEN Expired
  ELSE IF c.choice = Deny          THEN Rejected
  ELSE IF s.requester \in revoked  THEN Cancelled
                                   ELSE Accepted

DecideTo(s, c, t, revoked) ==
  IF s.decisionID # None
    THEN s
    ELSE [s EXCEPT !.decisionID = c.id, !.decision = c.choice,
                   !.status = DecidedStatus(s, c, t, revoked)]

(* Seeded defect: a running request may be claimed again. *)
MarkRunningRefusedIgnoringClaim(s, c) ==
  \/ s.target # c.agent
  \/ s.status \notin {Accepted, Running}

(***************************************************************************)
(* MarkRunning: claims an accepted request for one execution.              *)
(***************************************************************************)
MarkRunningRefused(s, c) ==
  \/ s.target # c.agent
  \/ s.status \notin {Accepted, Running}
  \/ s.status = Running /\ ~executionClaimMatches(s.claim, c.id)

MarkRunningTo(s, c) ==
  IF s.status = Accepted
    THEN [s EXCEPT !.claim = c.id, !.status = Running]
    ELSE s

(***************************************************************************)
(* SubmitResult: the claim holder's terminal result, with the artifacts it *)
(* persisted beforehand.                                                   *)
(***************************************************************************)
SubmitResultRefused(s, c) ==
  \/ s.target # c.agent
  \/ Terminal(s.status) /\ ~exactResultReplay(s, c)
  \/ /\ ~Terminal(s.status)
     /\ s.status # Running \/ ~executionClaimMatches(s.claim, c.id)

(* Seeded defect: the payload is stored in place of its digest. *)
SubmitResultToWithoutDigest(s, c, descriptors) ==
  IF Terminal(s.status)
    THEN s
    ELSE [s EXCEPT !.status = c.choice, !.digest = c.body,
                   !.resultFiles = descriptors]

SubmitResultTo(s, c, descriptors) ==
  IF Terminal(s.status)
    THEN s
    ELSE [s EXCEPT !.status = c.choice, !.digest = digestResult(c),
                   !.resultFiles = descriptors]

(* Seeded defect: a finished request can be cancelled. *)
CancelRefusedIgnoringStatus(s, c) == s.requester # c.agent

(***************************************************************************)
(* Cancel: by the requester, from any state that is not terminal.          *)
(***************************************************************************)
CancelRefused(s, c) ==
  \/ s.requester # c.agent
  \/ Terminal(s.status) /\ s.status # Cancelled

CancelTo(s, c) == [s EXCEPT !.status = Cancelled]

(***************************************************************************)
(* expireAwaiting: run by Inbox on an awaiting request past its deadline.  *)
(***************************************************************************)
ExpireRefused(s, c, t) ==
  \/ s.target # c.agent
  \/ s.status # Awaiting
  \/ t < s.expiresAt

ExpireTo(s, c) == [s EXCEPT !.status = Expired]

(***************************************************************************)
(* What a record read at time t, with these revocations, becomes under a   *)
(* call: the closure transitionStoredWatching is given.                    *)
(***************************************************************************)
Refused(s, c, t) ==
  CASE c.op = "decide"      -> DecideRefused(s, c)
    [] c.op = "markRunning" -> MarkRunningRefused(s, c)
    [] c.op = "submit"      -> SubmitResultRefused(s, c)
    [] c.op = "cancel"      -> CancelRefused(s, c)
    [] OTHER                -> ExpireRefused(s, c, t)

To(s, c, t, revoked, descriptors) ==
  CASE c.op = "decide"      -> DecideTo(s, c, t, revoked)
    [] c.op = "markRunning" -> MarkRunningTo(s, c)
    [] c.op = "submit"      -> SubmitResultTo(s, c, descriptors)
    [] c.op = "cancel"      -> CancelTo(s, c)
    [] OTHER                -> ExpireTo(s, c)
=============================================================================
