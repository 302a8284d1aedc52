-------------------------- MODULE RelayRequestsInv --------------------------
(***************************************************************************)
(* The inductive invariant of RelayRequests.  The properties speak of      *)
(* Redis and of what callers were told; to be inductive they also need     *)
(* what a handler in the middle of a transaction knows: where it is, what  *)
(* the record it read looked like, and that the record it means to write   *)
(* is the endpoint's update of exactly that record.                        *)
(***************************************************************************)
EXTENDS RelayRequests

TransitionCalls == DecideCalls \cup RunningCalls \cup SubmitCalls
                     \cup CancelCalls \cup VisitCalls

(* The call a handler serves fits the step it is at. *)
CallAt(step, c) ==
  CASE step = "idle"                     -> c = NoCall
    [] step \in {"precheck", "persist"}  -> c \in SubmitCalls
    [] step \in {"watch", "exec"}        -> c \in TransitionCalls
    [] step = "publish"                  -> c \in CancelCalls
    [] step = "srem"                     -> c \in SubmitCalls \cup VisitCalls
    [] step \in {"members", "item"}      -> c \in InboxCalls \cup VisitCalls
    [] step = "reread"                   -> c \in VisitCalls
    [] OTHER                             -> c \in FetchCalls

(* A handler only names requests that exist; at rest it holds nothing. *)
HandlerOK(h) ==
  /\ CallAt(pc[h], call[h])
  /\ pc[h] = "idle" => local[h] = NoLocal
  /\ call[h].req # None => store[call[h].req].status # Absent
  /\ \A r \in local[h].todo : store[r].status # Absent

(***************************************************************************)
(* What a stored record can look like.  The version counts the transitions *)
(* the request has made: at most four writes in a lifetime.                *)
(***************************************************************************)
RecordOK(s) ==
  /\ s.status # Absent => s.requester \in Agents /\ s.target \in Agents
  /\ s.status = Absent => s = NoRequest
  /\ s.status = Awaiting => s.version = 1 /\ s.decisionID = None
  /\ s.status = Accepted => s.version = 2 /\ s.decisionID # None
                            /\ s.decision = Allow
  /\ s.status = Running => s.version = 3 /\ s.decisionID # None
                           /\ s.decision = Allow /\ s.claim # None
  /\ s.status \in {Absent, Awaiting, Accepted}
       => s.claim = None
  /\ s.status \in {Absent, Awaiting, Accepted, Running}
       => s.digest = None /\ s.resultFiles = {}
  /\ s.digest # None => s.decision = Allow /\ s.claim # None
  /\ s.claim # None => s.decision = Allow
  /\ s.decision # None => s.decisionID # None
  /\ s.status # Absent => 1 <= s.version /\ s.version <= 4

(***************************************************************************)
(* The record p that call c makes of the record s it read.                 *)
(***************************************************************************)
Planned(s, p, c, seenRevoked, made) ==
  \E t \in 0..now :
    /\ ~Refused(s, c, t)
    /\ To(s, c, t, seenRevoked, made) # s
    /\ p = [To(s, c, t, seenRevoked, made) EXCEPT !.version = s.version + 1]

(* How a written record follows from the one it replaces... *)
Advances(s, p) ==
  /\ p.version = s.version + 1
  /\ s.status \in {Awaiting, Accepted, Running}
  /\ p.status \notin {Absent, Awaiting}
  /\ p.requester = s.requester /\ p.target = s.target
  /\ s.decisionID # None => /\ p.decisionID = s.decisionID
                            /\ p.decision = s.decision
  /\ s.claim # None => p.claim = s.claim

(* ... and what the call that wrote it may then report. *)
Reports(p, c) ==
  /\ c.op = "decide" => p.decisionID = c.id /\ p.decision = c.choice
  /\ c.op = "markRunning" => p.claim = c.id /\ p.decision = Allow
  /\ c.op = "submit" => /\ p.status = c.choice /\ p.digest = digestResult(c)
                        /\ p.claim = c.id /\ p.decision = Allow
                        /\ Terminal(p.status)
  /\ c.op = "cancel" => p.status = Cancelled
  /\ c.op = "inbox" => Terminal(p.status)

(***************************************************************************)
(* Between WATCH and EXEC: the record read was a good one, it is either    *)
(* still current or older than the current one, and the plan is its update.*)
(***************************************************************************)
ExecOK(h) ==
  LET s   == local[h].seen
      cur == store[call[h].req]
  IN
  pc[h] = "exec" =>
    /\ RecordOK(s) /\ s.status # Absent
    /\ s.version <= cur.version
    /\ s.version = cur.version => s = cur
    /\ Planned(s, local[h].plan, call[h], local[h].seenRevoked, local[h].made)

(* Each lost race cost the handler one version of the request. *)
AttemptOK(h) ==
  call[h].op # "decide" =>
    /\ pc[h] \in {"watch", "exec"}
         => local[h].attempt < store[call[h].req].version
    /\ pc[h] = "exec" => local[h].attempt < local[h].seen.version
    /\ pc[h] \in {"precheck", "persist"}
         => local[h].attempt = 0

(* The artifacts a handler has persisted are its request's results. *)
MadeOK(h) ==
  \A x \in local[h].made :
    /\ artifacts[x] \in storedArtifact
    /\ artifacts[x] = [req |-> call[h].req, direction |-> "result"]

(* A handler about to prune an inbox entry has seen a terminal status. *)
PruneOK(h) == pc[h] = "srem" => Terminal(store[call[h].req].status)

(* A handler about to publish a cancellation is the only one, the first. *)
PublishOK(h) ==
  pc[h] = "publish" =>
    /\ store[call[h].req].status = Cancelled
    /\ cancelEvents[call[h].req] = 0

OnePublisher ==
  \A g, h \in Handlers :
    (pc[g] = "publish" /\ pc[h] = "publish" /\ call[g].req = call[h].req)
      => g = h

(* What SubmitResult is about to acknowledge is what is stored. *)
SubmittedOK(h) ==
  (pc[h] = "srem" /\ call[h].op = "submit") =>
    /\ store[call[h].req].status = call[h].choice
    /\ store[call[h].req].digest = digestResult(call[h])
    /\ store[call[h].req].claim = call[h].id
    /\ store[call[h].req].decision = Allow

QueuedExist ==
  \A a \in Agents : \A r \in inbox[a] : store[r].status # Absent

LocalInv(h) ==
  /\ HandlerOK(h)
  /\ ExecOK(h)
  /\ AttemptOK(h)
  /\ MadeOK(h)
  /\ PruneOK(h)
  /\ SubmittedOK(h)

RecordsOK == \A r \in Requests : RecordOK(store[r])

RelayInv ==
  /\ TypeOK
  /\ RecordsOK
  /\ \A h \in Handlers : LocalInv(h) /\ PublishOK(h)
  /\ OnePublisher
  /\ QueuedExist
  /\ OneDecision
  /\ OneExecution
  /\ AckedOutcomesStand
  /\ CancelAnnouncedOnce
  /\ InboxComplete
  /\ DisclosureBounded
  /\ FilesPersisted
=============================================================================
