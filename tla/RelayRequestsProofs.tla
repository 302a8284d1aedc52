------------------------ MODULE RelayRequestsProofs ------------------------
(***************************************************************************)
(* Proofs about RelayRequests, for any number of handlers, agents,         *)
(* requests and identities.                                                *)
(***************************************************************************)
EXTENDS RelayRequestsInv, TLAPS

(***************************************************************************)
(* Fields of the calls.                                                    *)
(***************************************************************************)
LEMMA CallFields ==
  /\ \A c \in DecideCalls :
       /\ c.op = "decide" /\ c.agent \in Agents /\ c.req \in Requests
       /\ c.id \in DecisionIDs /\ c.choice \in Decisions
  /\ \A c \in RunningCalls :
       /\ c.op = "markRunning" /\ c.agent \in Agents /\ c.req \in Requests
       /\ c.id \in Claims
  /\ \A c \in SubmitCalls :
       /\ c.op = "submit" /\ c.agent \in Agents /\ c.req \in Requests
       /\ c.id \in Claims /\ c.choice \in ResultStates /\ c.body \in Bodies
  /\ \A c \in CancelCalls :
       c.op = "cancel" /\ c.agent \in Agents /\ c.req \in Requests
  /\ \A c \in VisitCalls :
       c.op = "inbox" /\ c.agent \in Agents /\ c.req \in Requests
  /\ \A c \in InboxCalls :
       c.op = "inbox" /\ c.agent \in Agents /\ c.req = None
  /\ \A c \in FetchCalls :
       /\ c.op = "artifact" /\ c.agent \in Agents /\ c.req = None
       /\ c.id \in Artifacts
  /\ NoCall.op = "none" /\ NoCall.req = None
  BY DEF DecideCalls, RunningCalls, SubmitCalls, ResultCalls, CancelCalls,
         VisitCalls, InboxCalls, FetchCalls, NoCall, MkCall

(* The endpoint of a call tells which set of calls it comes from. *)
LEMMA TransitionCallOps ==
  ASSUME NEW c \in TransitionCalls
  PROVE  /\ c.agent \in Agents /\ c.req \in Requests
         /\ c.op \in {"decide", "markRunning", "submit", "cancel", "inbox"}
         /\ c.op = "decide" => c \in DecideCalls
         /\ c.op = "markRunning" => c \in RunningCalls
         /\ c.op = "submit" => c \in SubmitCalls
         /\ c.op = "cancel" => c \in CancelCalls
         /\ c.op = "inbox" => c \in VisitCalls
  BY CallFields DEF TransitionCalls

LEMMA DigestType ==
  ASSUME NEW c \in SubmitCalls
  PROVE  digestResult(c) \in Digests
  BY CallFields DEF digestResult, Digests

LEMMA InitialTypes ==
  /\ NoRequest \in storedRequest
  /\ NoLocal \in LocalType
  BY DEF NoRequest, storedRequest, NoLocal, Unread, LocalType, Status

LEMMA UnreadType ==
  ASSUME NEW n \in Nat, NEW T \in SUBSET Requests, NEW M \in SUBSET Artifacts
  PROVE  /\ Unread(n, T, M) \in LocalType
         /\ Unread(n, T, M).attempt = n
         /\ Unread(n, T, M).todo = T
         /\ Unread(n, T, M).made = M
  BY InitialTypes DEF Unread, LocalType

(* The set of endpoints' updates keeps a record a record. *)
LEMMA ToType ==
  ASSUME NEW s \in storedRequest, NEW c \in TransitionCalls, NEW t \in Nat,
         NEW R \in SUBSET Agents, NEW M \in SUBSET Artifacts
  PROVE  To(s, c, t, R, M) \in storedRequest
  <1> USE DEF storedRequest, Status, TerminalStatus
  <1>1. CASE c.op = "decide"
    <2>1. c \in DecideCalls
      BY <1>1, TransitionCallOps
    <2>2. DecidedStatus(s, c, t, R) \in Status
      BY DEF DecidedStatus, Expired, Rejected, Cancelled, Accepted
    <2>3. c.id \in DecisionIDs /\ c.choice \in Decisions
      BY <2>1, CallFields
    <2>4. DecideTo(s, c, t, R) \in storedRequest
      BY <2>2, <2>3 DEF DecideTo
    <2> QED
      BY <1>1, <2>4 DEF To
  <1>2. CASE c.op = "markRunning"
    <2>1. c \in RunningCalls
      BY <1>2, TransitionCallOps
    <2> QED
      BY <1>2, <2>1, CallFields DEF To, MarkRunningTo, Running
  <1>3. CASE c.op = "submit"
    <2>1. c \in SubmitCalls
      BY <1>3, TransitionCallOps
    <2>2. digestResult(c) \in Digests
      BY <2>1, DigestType
    <2> QED
      BY <1>3, <2>1, <2>2, CallFields
         DEF To, SubmitResultTo, ResultStates, Completed, Failed, Cancelled
  <1>4. CASE c.op = "cancel"
    BY <1>4 DEF To, CancelTo, Cancelled
  <1>5. CASE c.op = "inbox"
    BY <1>5 DEF To, ExpireTo, Expired
  <1> QED
    BY <1>1, <1>2, <1>3, <1>4, <1>5, TransitionCallOps

(***************************************************************************)
(* The update of a good record is a good record, one version on, that      *)
(* keeps the decision and the claim of the old one and says what the call  *)
(* is about to be told.  One lemma per endpoint, then the five together.   *)
(***************************************************************************)
Bump(s, p) == [p EXCEPT !.version = s.version + 1]

Files(s, c, M) == IF c.op = "submit" THEN M ELSE s.resultFiles

Sound(s, p, c, M) ==
  /\ Advances(s, p)
  /\ Reports(p, c)
  /\ RecordOK(p)
  /\ p.resultFiles = Files(s, c, M)

LEMMA DecideSound ==
  ASSUME NEW s \in storedRequest, NEW c \in DecideCalls, NEW t \in Nat,
         NEW R \in SUBSET Agents, NEW M,
         RecordOK(s), s.status # Absent, ~DecideRefused(s, c),
         DecideTo(s, c, t, R) # s
  PROVE  Sound(s, Bump(s, DecideTo(s, c, t, R)), c, M)
  <1>1. /\ c.op = "decide" /\ c.id \in DecisionIDs /\ c.choice \in Decisions
    BY CallFields
  <1>2. c.id # None /\ c.choice # None
    BY <1>1, RelayConstants
  <1>3. s.decisionID = None /\ s.status = Awaiting
    BY DEF DecideRefused, DecideTo
  <1> DEFINE st == DecidedStatus(s, c, t, R)
  <1>4. /\ st \in {Expired, Rejected, Cancelled, Accepted}
        /\ st = Accepted => c.choice # Deny
    BY DEF DecidedStatus, Expired, Rejected, Cancelled, Accepted
  <1>5. c.choice # Deny => c.choice = Allow
    BY <1>1 DEF Decisions
  <1> HIDE DEF st
  <1> DEFINE p == Bump(s, DecideTo(s, c, t, R))
  <1>6. p = [s EXCEPT !.decisionID = c.id, !.decision = c.choice,
                      !.status = st, !.version = s.version + 1]
    BY <1>3 DEF DecideTo, Bump, st
  <1>7. /\ p.status = st /\ p.decisionID = c.id /\ p.decision = c.choice
        /\ p.version = s.version + 1 /\ p.requester = s.requester
        /\ p.target = s.target /\ p.claim = s.claim /\ p.digest = s.digest
        /\ p.resultFiles = s.resultFiles
    BY <1>6 DEF storedRequest
  <1> HIDE DEF p
  <1>8. s.version = 1 /\ s.claim = None /\ s.digest = None /\ s.resultFiles = {}
        /\ s.requester \in Agents /\ s.target \in Agents
    BY <1>3 DEF RecordOK
  <1>9. Advances(s, p) /\ Reports(p, c)
    BY <1>1, <1>3, <1>4, <1>7, <1>8
       DEF Advances, Reports, Absent, Awaiting, Accepted, Expired, Rejected,
           Cancelled
  <1>10. RecordOK(p)
    BY <1>2, <1>4, <1>5, <1>7, <1>8
       DEF RecordOK, Absent, Awaiting, Accepted, Running, Expired, Rejected,
           Cancelled
  <1> QED
    BY <1>1, <1>7, <1>9, <1>10 DEF Sound, Files, p

LEMMA MarkRunningSound ==
  ASSUME NEW s \in storedRequest, NEW c \in RunningCalls, NEW M,
         RecordOK(s), ~MarkRunningRefused(s, c), MarkRunningTo(s, c) # s
  PROVE  Sound(s, Bump(s, MarkRunningTo(s, c)), c, M)
  <1>1. c.op = "markRunning" /\ c.id # None
    BY CallFields, RelayConstants
  <1>2. s.status = Accepted
    BY DEF MarkRunningTo
  <1> DEFINE p == Bump(s, MarkRunningTo(s, c))
  <1>3. p = [s EXCEPT !.claim = c.id, !.status = Running,
                      !.version = s.version + 1]
    BY <1>2 DEF MarkRunningTo, Bump
  <1>4. /\ p.status = Running /\ p.claim = c.id /\ p.version = s.version + 1
        /\ p.decisionID = s.decisionID /\ p.decision = s.decision
        /\ p.requester = s.requester /\ p.target = s.target
        /\ p.digest = s.digest /\ p.resultFiles = s.resultFiles
    BY <1>3 DEF storedRequest
  <1> HIDE DEF p
  <1>5. /\ s.version = 2 /\ s.claim = None /\ s.digest = None
        /\ s.resultFiles = {} /\ s.decision = Allow /\ s.decisionID # None
        /\ s.requester \in Agents /\ s.target \in Agents
    BY <1>2 DEF RecordOK, Accepted, Absent
  <1>6. Advances(s, p) /\ Reports(p, c)
    BY <1>1, <1>2, <1>4, <1>5
       DEF Advances, Reports, Absent, Awaiting, Running
  <1>7. RecordOK(p)
    BY <1>1, <1>4, <1>5
       DEF RecordOK, Absent, Awaiting, Accepted, Running
  <1> QED
    BY <1>1, <1>4, <1>6, <1>7 DEF Sound, Files, p

LEMMA SubmitResultSound ==
  ASSUME NEW s \in storedRequest, NEW c \in SubmitCalls,
         NEW M \in SUBSET Artifacts,
         RecordOK(s), ~SubmitResultRefused(s, c), SubmitResultTo(s, c, M) # s
  PROVE  Sound(s, Bump(s, SubmitResultTo(s, c, M)), c, M)
  <1>1. c.op = "submit" /\ c.choice \in {Completed, Failed, Cancelled}
    BY CallFields DEF ResultStates
  <1>2. s.status = Running /\ s.claim # None /\ s.claim = c.id
    BY DEF SubmitResultTo, SubmitResultRefused, executionClaimMatches
  <1> DEFINE p == Bump(s, SubmitResultTo(s, c, M))
  <1>3. ~Terminal(s.status)
    BY <1>2 DEF Terminal, TerminalStatus, Running, Completed, Rejected,
                Expired, Cancelled, Failed
  <1>4. p = [s EXCEPT !.status = c.choice, !.digest = digestResult(c),
                      !.resultFiles = M, !.version = s.version + 1]
    BY <1>3 DEF SubmitResultTo, Bump
  <1>5. /\ p.status = c.choice /\ p.claim = s.claim
        /\ p.version = s.version + 1
        /\ p.decisionID = s.decisionID /\ p.decision = s.decision
        /\ p.requester = s.requester /\ p.target = s.target
        /\ p.digest = digestResult(c) /\ p.resultFiles = M
    BY <1>4 DEF storedRequest
  <1> HIDE DEF p
  <1>6. /\ s.version = 3 /\ s.digest = None /\ s.decision = Allow
        /\ s.decisionID # None
        /\ s.requester \in Agents /\ s.target \in Agents
    BY <1>2 DEF RecordOK, Running, Absent
  <1>7. Terminal(p.status)
    BY <1>1, <1>5 DEF Terminal, TerminalStatus
  <1>8. Advances(s, p) /\ Reports(p, c)
    BY <1>1, <1>2, <1>5, <1>6, <1>7
       DEF Advances, Reports, Absent, Awaiting, Completed, Failed, Cancelled
  <1>9. RecordOK(p)
    BY <1>1, <1>2, <1>5, <1>6
       DEF RecordOK, Absent, Awaiting, Accepted, Running, Completed, Failed,
           Cancelled
  <1> QED
    BY <1>1, <1>5, <1>8, <1>9 DEF Sound, Files, p

(* Cancel and the expiry run by Inbox only replace the status. *)
LEMMA EndSound ==
  ASSUME NEW s \in storedRequest, NEW c, NEW M, NEW st \in {Cancelled, Expired},
         RecordOK(s), s.status \in {Awaiting, Accepted, Running},
         \/ c.op = "cancel" /\ st = Cancelled
         \/ c.op = "inbox"
  PROVE  Sound(s, Bump(s, [s EXCEPT !.status = st]), c, M)
  <1> DEFINE p == Bump(s, [s EXCEPT !.status = st])
  <1>1. p = [s EXCEPT !.status = st, !.version = s.version + 1]
    BY DEF Bump
  <1>2. /\ p.status = st /\ p.claim = s.claim /\ p.version = s.version + 1
        /\ p.decisionID = s.decisionID /\ p.decision = s.decision
        /\ p.requester = s.requester /\ p.target = s.target
        /\ p.digest = s.digest /\ p.resultFiles = s.resultFiles
    BY <1>1 DEF storedRequest
  <1> HIDE DEF p
  <1>3. /\ s.version \in 1..3
        /\ s.requester \in Agents /\ s.target \in Agents
    BY DEF RecordOK, Awaiting, Accepted, Running, Absent
  <1>4. Terminal(p.status)
    BY <1>2 DEF Terminal, TerminalStatus
  <1>5. Advances(s, p) /\ Reports(p, c)
    BY <1>2, <1>3, <1>4
       DEF Advances, Reports, Absent, Awaiting, Cancelled, Expired
  <1>6. RecordOK(p)
    BY <1>2, <1>3
       DEF RecordOK, Absent, Awaiting, Accepted, Running, Cancelled, Expired
  <1>7. p.resultFiles = Files(s, c, M)
    BY <1>2 DEF Files
  <1> QED
    BY <1>5, <1>6, <1>7 DEF Sound, p

LEMMA StatusSplit ==
  ASSUME NEW s \in storedRequest, s.status # Absent
  PROVE  Terminal(s.status) <=> s.status \notin {Awaiting, Accepted, Running}
  BY DEF storedRequest, Status, Terminal, TerminalStatus, Absent, Awaiting,
         Accepted, Running, Completed, Rejected, Expired, Cancelled, Failed

LEMMA PlannedSound ==
  ASSUME NEW s \in storedRequest, NEW c \in TransitionCalls, NEW p,
         NEW R \in SUBSET Agents, NEW M \in SUBSET Artifacts, now \in Nat,
         RecordOK(s), s.status # Absent, Planned(s, p, c, R, M)
  PROVE  Sound(s, p, c, M)
  <1>1. PICK t \in 0..now : /\ ~Refused(s, c, t)
                            /\ To(s, c, t, R, M) # s
                            /\ p = Bump(s, To(s, c, t, R, M))
    BY DEF Planned, Bump
  <1>2. t \in Nat
    OBVIOUS
  <1>3. CASE c.op = "decide"
    BY <1>1, <1>2, <1>3, DecideSound, TransitionCallOps DEF Refused, To
  <1>4. CASE c.op = "markRunning"
    BY <1>1, <1>4, MarkRunningSound, TransitionCallOps DEF Refused, To
  <1>5. CASE c.op = "submit"
    BY <1>1, <1>5, SubmitResultSound, TransitionCallOps DEF Refused, To
  <1>6. CASE c.op = "cancel"
    <2>1. ~CancelRefused(s, c) /\ CancelTo(s, c) # s
      BY <1>1, <1>6 DEF Refused, To
    <2>2. s.status # Cancelled
      BY <2>1 DEF CancelTo, storedRequest
    <2>3. s.status \in {Awaiting, Accepted, Running}
      BY <2>1, <2>2, StatusSplit DEF CancelRefused
    <2> QED
      BY <1>1, <1>6, <2>3, EndSound DEF To, CancelTo
  <1>7. CASE c.op = "inbox"
    <2>1. ~ExpireRefused(s, c, t)
      BY <1>1, <1>7 DEF Refused
    <2>2. s.status = Awaiting
      BY <2>1 DEF ExpireRefused
    <2> QED
      BY <1>1, <1>7, <2>2, EndSound DEF To, ExpireTo
  <1> QED
    BY <1>3, <1>4, <1>5, <1>6, <1>7, TransitionCallOps

-----------------------------------------------------------------------------
(***************************************************************************)
(* What every step of the relay does to Redis: a request is left alone,    *)
(* created, or advanced to a good record; artifacts are never replaced;    *)
(* the clock does not go back.                                             *)
(***************************************************************************)
StoreStep(r) ==
  \/ store'[r] = store[r]
  \/ /\ store[r].status = Absent
     /\ store'[r].status = Awaiting
     /\ store'[r].version = 1
  \/ Advances(store[r], store'[r])

Grows ==
  /\ \A r \in Requests : StoreStep(r)
  /\ \A x \in Artifacts : artifacts[x] # None => artifacts'[x] = artifacts[x]
  /\ now' \in Nat /\ now <= now'

(* Facts about a record that later writes cannot take away. *)
LEMMA RecordKeeps ==
  ASSUME RelayInv, Grows, NEW r \in Requests
  PROVE  /\ store[r].status # Absent => store'[r].status # Absent
         /\ Terminal(store[r].status) => store'[r] = store[r]
         /\ store[r].status # Absent => store'[r].target = store[r].target
         /\ store[r].status # Absent => store'[r].requester = store[r].requester
         /\ store[r].decisionID # None
              => /\ store'[r].decisionID = store[r].decisionID
                 /\ store'[r].decision = store[r].decision
         /\ store[r].claim # None => store'[r].claim = store[r].claim
         /\ store[r].version <= store'[r].version
         /\ store[r].version = store'[r].version => store'[r] = store[r]
  <1>1. store[r] \in storedRequest /\ RecordOK(store[r])
    BY DEF RelayInv, TypeOK, RecordsOK
  <1>2. StoreStep(r)
    BY DEF Grows
  <1>3. CASE store'[r] = store[r]
    BY <1>1, <1>3 DEF storedRequest
  <1>4. CASE /\ store[r].status = Absent /\ store'[r].status = Awaiting
             /\ store'[r].version = 1
    <2>1. store[r] = NoRequest
      BY <1>1, <1>4 DEF RecordOK
    <2>2. ~Terminal(Absent)
      BY DEF Terminal, TerminalStatus, Absent, Completed, Rejected, Expired,
             Cancelled, Failed
    <2> QED
      BY <1>4, <2>1, <2>2 DEF NoRequest
  <1>5. CASE Advances(store[r], store'[r])
    <2>1. store[r].status # Absent /\ ~Terminal(store[r].status)
      BY <1>1, <1>5, StatusSplit
         DEF Advances, Absent, Awaiting, Accepted, Running
    <2> QED
      BY <1>1, <1>5, <2>1 DEF Advances, storedRequest
  <1> QED
    BY <1>2, <1>3, <1>4, <1>5 DEF StoreStep

(* The request a handler's call names is a request. *)
LEMMA CallReq ==
  ASSUME NEW c \in Calls \cup VisitCalls \cup {NoCall}
  PROVE  /\ c.req \in Requests \cup {None}
         /\ c.op = "decide" => c \in DecideCalls
         /\ c.op = "markRunning" => c \in RunningCalls
         /\ c.op = "submit" => c \in SubmitCalls
         /\ c.op = "cancel" => c \in CancelCalls
         /\ c \in TransitionCalls => c.req \in Requests
  BY CallFields DEF Calls, TransitionCalls

LEMMA NoneFresh ==
  /\ None \notin Requests /\ None \notin DecisionIDs /\ None \notin Claims
  /\ None \notin Digests /\ None # Allow /\ None \notin Artifacts
  BY RelayConstants DEF Digests, Decisions, Allow

(* At these steps the call names a request. *)
LEMMA ReqAt ==
  ASSUME RelayInv, NEW h \in Handlers,
         pc[h] \in {"precheck", "persist", "watch", "exec", "publish", "srem",
                    "reread"}
  PROVE  call[h].req \in Requests /\ store[call[h].req].status # Absent
  <1>1. CallAt(pc[h], call[h]) /\ (call[h].req # None =>
                                     store[call[h].req].status # Absent)
    BY DEF RelayInv, LocalInv, HandlerOK
  <1>2. call[h].req \in Requests
    BY <1>1, CallFields DEF CallAt, TransitionCalls
  <1> QED
    BY <1>1, <1>2, NoneFresh

(***************************************************************************)
(* A handler that does not move keeps its part of the invariant, whatever  *)
(* another one writes: a record it has read can only become older.         *)
(***************************************************************************)
LEMMA OthersKeep ==
  ASSUME RelayInv, Grows, NEW g \in Handlers,
         pc'[g] = pc[g], call'[g] = call[g], local'[g] = local[g]
  PROVE  LocalInv(g)'
  <1> DEFINE r == call[g].req
  <1>1. LocalInv(g)
    BY DEF RelayInv
  <1>2. /\ local[g].todo \subseteq Requests /\ local[g].made \subseteq Artifacts
        /\ local[g].attempt \in Nat /\ local[g].seen \in storedRequest
        /\ call[g] \in Calls \cup VisitCalls \cup {NoCall}
        /\ store[r] \in storedRequest \/ r \notin Requests
        /\ now \in Nat
    BY DEF RelayInv, TypeOK, LocalType
  <1>3. r \in Requests \cup {None}
    BY <1>2, CallReq
  <1>4. HandlerOK(g)'
    <2>1. r # None => store'[r].status # Absent
      BY <1>1, <1>3, RecordKeeps DEF LocalInv, HandlerOK
    <2>2. \A q \in local[g].todo : store'[q].status # Absent
      BY <1>1, <1>2, RecordKeeps DEF LocalInv, HandlerOK
    <2> QED
      BY <1>1, <2>1, <2>2 DEF LocalInv, HandlerOK
  <1>5. ExecOK(g)'
    <2> SUFFICES ASSUME pc[g] = "exec"
                 PROVE  ExecOK(g)'
      BY DEF ExecOK
    <2>1. r \in Requests
      BY ReqAt
    <2> DEFINE s == local[g].seen
    <2>2. /\ RecordOK(s) /\ s.status # Absent
          /\ s.version <= store[r].version
          /\ s.version = store[r].version => s = store[r]
          /\ Planned(s, local[g].plan, call[g], local[g].seenRevoked,
                     local[g].made)
      BY <1>1 DEF LocalInv, ExecOK
    <2>3. /\ store[r].version <= store'[r].version
          /\ store[r].version = store'[r].version => store'[r] = store[r]
      BY <2>1, RecordKeeps
    <2>4. /\ s.version \in Nat /\ store[r].version \in Nat
      BY <1>2, <2>1 DEF storedRequest
    <2>5. store'[r].version \in Nat
      <3>1. StoreStep(r)
        BY <2>1 DEF Grows
      <3> QED
        BY <3>1, <2>4 DEF StoreStep, Advances
    <2>6. /\ s.version <= store'[r].version
          /\ s.version = store'[r].version => s = store'[r]
      BY <2>2, <2>3, <2>4, <2>5
    <2>7. Planned(s, local[g].plan, call[g], local[g].seenRevoked,
                  local[g].made)'
      <3>1. now' \in Nat /\ now <= now'
        BY DEF Grows
      <3>2. \A t \in 0..now : t \in 0..now'
        BY <1>2, <3>1
      <3> QED
        BY <2>2, <3>2 DEF Planned
    <2> QED
      BY <2>2, <2>6, <2>7 DEF ExecOK
  <1>6. AttemptOK(g)'
    <2>1. pc[g] \in {"watch", "exec"}
            => /\ r \in Requests
               /\ store[r].version <= store'[r].version
               /\ store[r].version \in Nat
      BY <1>2, ReqAt, RecordKeeps DEF storedRequest
    <2>2. pc[g] \in {"watch", "exec"} => store'[r].version \in Nat
      <3>1. pc[g] \in {"watch", "exec"} => StoreStep(r)
        BY <2>1 DEF Grows
      <3> QED
        BY <3>1, <2>1 DEF StoreStep, Advances
    <2> QED
      BY <1>1, <1>2, <2>1, <2>2 DEF LocalInv, AttemptOK
  <1>7. MadeOK(g)'
    <2>1. \A x \in local[g].made :
            /\ artifacts[x] \in storedArtifact
            /\ artifacts[x] = [req |-> r, direction |-> "result"]
      BY <1>1 DEF LocalInv, MadeOK
    <2>2. \A x \in local[g].made : artifacts[x] # None
      BY <2>1, RelayConstants DEF storedArtifact
    <2> QED
      BY <1>2, <2>1, <2>2 DEF MadeOK, Grows
  <1>8. PruneOK(g)' /\ SubmittedOK(g)'
    <2> SUFFICES ASSUME pc[g] = "srem"
                 PROVE  PruneOK(g)' /\ SubmittedOK(g)'
      BY DEF PruneOK, SubmittedOK
    <2>1. r \in Requests /\ Terminal(store[r].status)
      BY <1>1, ReqAt DEF LocalInv, PruneOK
    <2>2. store'[r] = store[r]
      BY <2>1, RecordKeeps
    <2> QED
      BY <1>1, <2>1, <2>2 DEF LocalInv, PruneOK, SubmittedOK
  <1> QED
    BY <1>4, <1>5, <1>6, <1>7, <1>8 DEF LocalInv

(***************************************************************************)
(* What was acknowledged or disclosed stays justified.                     *)
(***************************************************************************)
AckOK(c) ==
  /\ c.op = "decide" => /\ store[c.req].decisionID = c.id
                        /\ store[c.req].decision = c.choice
  /\ c.op \in {"markRunning", "submit"} => /\ store[c.req].claim = c.id
                                           /\ store[c.req].decision = Allow
  /\ c.op = "submit" => /\ store[c.req].status = c.choice
                        /\ store[c.req].digest = digestResult(c)
  /\ c.op = "cancel" => store[c.req].status = Cancelled

AcksOK == OneDecision /\ OneExecution /\ AckedOutcomesStand

LEMMA AcksSplit == AcksOK <=> \A c \in acked : AckOK(c)
  BY DEF AcksOK, AckOK, OneDecision, OneExecution, AckedOutcomesStand

LEMMA AckKeeps ==
  ASSUME RelayInv, Grows, NEW c \in Calls, AckOK(c)
  PROVE  AckOK(c)'
  <1>1. c.op \in {"decide", "markRunning", "submit", "cancel"}
          => c.req \in Requests
    BY CallReq, CallFields
  <1>2. CASE c.op = "decide"
    <2>1. store[c.req].decisionID # None
      BY <1>2, CallReq, CallFields, NoneFresh DEF AckOK
    <2> QED
      BY <1>1, <1>2, <2>1, RecordKeeps DEF AckOK
  <1>3. CASE c.op = "markRunning"
    <2>1. store[c.req].claim # None
      BY <1>3, CallReq, CallFields, NoneFresh DEF AckOK
    <2>2. store[c.req].decisionID # None
      BY <1>1, <1>3, <2>1, NoneFresh DEF RelayInv, RecordsOK, RecordOK, AckOK
    <2> QED
      BY <1>1, <1>3, <2>1, <2>2, RecordKeeps DEF AckOK
  <1>4. CASE c.op \in {"submit", "cancel"}
    <2>1. Terminal(store[c.req].status)
      BY <1>4, CallReq, CallFields
         DEF AckOK, Terminal, TerminalStatus, ResultStates
    <2>2. store'[c.req] = store[c.req]
      BY <1>1, <1>4, <2>1, RecordKeeps
    <2> QED
      BY <1>4, <2>2 DEF AckOK
  <1> QED
    BY <1>2, <1>3, <1>4 DEF AckOK

DiscOK(p) ==
  LET x == artifacts[p[2]]
      s == store[x.req]
  IN
  /\ x # None
  /\ x.direction = "input"  => s.target = p[1] /\ s.decision = Allow
  /\ x.direction = "result" => /\ s.requester = p[1]
                               /\ s.status = Completed
                               /\ p[2] \in s.resultFiles

LEMMA DiscKeeps ==
  ASSUME RelayInv, Grows, NEW p \in Agents \X Artifacts, DiscOK(p)
  PROVE  DiscOK(p)'
  <1> DEFINE x == artifacts[p[2]]
             r == x.req
  <1>1. p[2] \in Artifacts
    OBVIOUS
  <1>2. x # None /\ artifacts'[p[2]] = x
    BY <1>1 DEF DiscOK, Grows
  <1>3. r \in Requests /\ x.direction \in {"input", "result"}
    BY <1>1, <1>2 DEF RelayInv, TypeOK, storedArtifact
  <1>4. CASE x.direction = "input"
    <2>1. store[r].decision = Allow /\ store[r].target = p[1]
      BY <1>4 DEF DiscOK
    <2>2. store[r].decisionID # None
      BY <1>3, <2>1, NoneFresh DEF RelayInv, RecordsOK, RecordOK
    <2>3. store[r].status # Absent
      BY <1>3, <2>1, NoneFresh DEF RelayInv, RecordsOK, RecordOK, NoRequest
    <2> QED
      BY <1>2, <1>3, <1>4, <2>1, <2>2, <2>3, RecordKeeps DEF DiscOK
  <1>5. CASE x.direction = "result"
    <2>1. store[r].status = Completed
      BY <1>5 DEF DiscOK
    <2>2. store'[r] = store[r]
      BY <1>3, <2>1, RecordKeeps DEF Terminal, TerminalStatus
    <2> QED
      BY <1>2, <1>5, <2>2 DEF DiscOK
  <1> QED
    BY <1>3, <1>4, <1>5

Still(g) == pc'[g] = pc[g] /\ call'[g] = call[g] /\ local'[g] = local[g]

(***************************************************************************)
(* Every step is an instance of this: Redis grows, the handlers that move  *)
(* re-establish their part, and what is newly answered is justified.       *)
(***************************************************************************)
LEMMA StepInv ==
  ASSUME RelayInv, Grows, TypeOK', RecordsOK',
         \A g \in Handlers : Still(g) \/ LocalInv(g)',
         \A g \in Handlers : PublishOK(g)',
         OnePublisher', CancelAnnouncedOnce',
         QueuedExist', InboxComplete', FilesPersisted',
         \A c \in acked' : c \in acked \/ AckOK(c)',
         \A p \in disclosed' : p \in disclosed \/ DiscOK(p)'
  PROVE  RelayInv'
  <1>1. \A g \in Handlers : LocalInv(g)'
    BY OthersKeep DEF Still
  <1>2. AcksOK'
    <2>1. \A c \in acked : c \in Calls /\ AckOK(c)
      BY AcksSplit DEF RelayInv, TypeOK, AcksOK
    <2>2. \A c \in acked' : AckOK(c)'
      BY <2>1, AckKeeps
    <2> QED
      BY <2>2 DEF AcksOK, AckOK, OneDecision, OneExecution, AckedOutcomesStand
  <1>3. DisclosureBounded'
    <2>1. \A p \in disclosed : p \in Agents \X Artifacts /\ DiscOK(p)
      BY DEF RelayInv, TypeOK, DisclosureBounded, DiscOK
    <2>2. \A p \in disclosed' : DiscOK(p)'
      BY <2>1, DiscKeeps
    <2> QED
      BY <2>2 DEF DisclosureBounded, DiscOK
  <1> QED
    BY <1>1, <1>2, <1>3 DEF RelayInv, AcksOK

(* Most steps of a handler write nothing to Redis. *)
LEMMA QuietStep ==
  ASSUME RelayInv, NEW h \in Handlers,
         UNCHANGED <<store, inbox, artifacts, now, cancelEvents>>,
         TypeOK', \A g \in Handlers \ {h} : Still(g),
         LocalInv(h)', pc'[h] # "publish",
         \A c \in acked' : c \in acked \/ AckOK(c),
         \A p \in disclosed' : p \in disclosed \/ DiscOK(p)
  PROVE  RelayInv'
  <1>1. Grows /\ RecordsOK'
    BY DEF Grows, StoreStep, RecordsOK, RelayInv, TypeOK
  <1>2. \A g \in Handlers : Still(g) \/ LocalInv(g)'
    OBVIOUS
  <1>3. \A g \in Handlers : PublishOK(g)'
    <2> SUFFICES ASSUME NEW g \in Handlers, pc'[g] = "publish"
                 PROVE  PublishOK(g)'
      BY DEF PublishOK
    <2>1. Still(g)
      OBVIOUS
    <2> QED
      BY <2>1 DEF RelayInv, PublishOK, Still
  <1>4. OnePublisher'
    <2> SUFFICES ASSUME NEW g \in Handlers, NEW k \in Handlers,
                        pc'[g] = "publish", pc'[k] = "publish",
                        call'[g].req = call'[k].req
                 PROVE  g = k
      BY DEF OnePublisher
    <2>1. Still(g) /\ Still(k)
      OBVIOUS
    <2> QED
      BY <2>1 DEF RelayInv, OnePublisher, Still
  <1>5. /\ CancelAnnouncedOnce' /\ QueuedExist' /\ InboxComplete'
        /\ FilesPersisted'
    BY DEF RelayInv, CancelAnnouncedOnce, QueuedExist, InboxComplete,
           FilesPersisted
  <1>6. /\ \A c \in acked' : c \in acked \/ AckOK(c)'
        /\ \A p \in disclosed' : p \in disclosed \/ DiscOK(p)'
    BY DEF AckOK, DiscOK
  <1> QED
    BY <1>1, <1>2, <1>3, <1>4, <1>5, <1>6, StepInv

-----------------------------------------------------------------------------
(* Moves of one handler. *)

LEMMA ReturnMoves ==
  ASSUME TypeOK, NEW h \in Handlers, Return(h)
  PROVE  /\ LocalInv(h)' /\ pc'[h] = "idle"
         /\ \A g \in Handlers \ {h} : Still(g)
         /\ pc' \in [Handlers -> Steps]
         /\ call' \in [Handlers -> Calls \cup VisitCalls \cup {NoCall}]
         /\ local' \in [Handlers -> LocalType]
  <1>1. /\ pc'[h] = "idle" /\ call'[h] = NoCall /\ local'[h] = NoLocal
        /\ \A g \in Handlers \ {h} : Still(g)
        /\ pc' \in [Handlers -> Steps]
        /\ call' \in [Handlers -> Calls \cup VisitCalls \cup {NoCall}]
        /\ local' \in [Handlers -> LocalType]
    BY InitialTypes DEF TypeOK, Return, Goto, Still, Steps
  <1>2. NoCall.req = None /\ NoLocal.todo = {} /\ NoLocal.made = {}
    BY CallFields DEF NoLocal, Unread
  <1>3. HandlerOK(h)'
    BY <1>1, <1>2 DEF HandlerOK, CallAt
  <1>4. ExecOK(h)' /\ AttemptOK(h)' /\ PruneOK(h)' /\ SubmittedOK(h)'
    BY <1>1 DEF ExecOK, AttemptOK, PruneOK, SubmittedOK
  <1>5. MadeOK(h)'
    BY <1>1, <1>2 DEF MadeOK
  <1> QED
    BY <1>1, <1>3, <1>4, <1>5 DEF LocalInv

(* A handler that returns without having written anything. *)
LEMMA QuietReturn ==
  ASSUME RelayInv, NEW h \in Handlers, Return(h),
         UNCHANGED <<redisVars, now, cancelEvents>>,
         acked' \subseteq Calls, disclosed' \subseteq Agents \X Artifacts,
         \A c \in acked' : c \in acked \/ AckOK(c),
         \A p \in disclosed' : p \in disclosed \/ DiscOK(p)
  PROVE  RelayInv'
  <1>1. TypeOK
    BY DEF RelayInv
  <1>2. TypeOK'
    BY <1>1, ReturnMoves DEF TypeOK, redisVars
  <1> QED
    BY <1>1, <1>2, ReturnMoves, QuietStep DEF redisVars

LEMMA AbortInv ==
  ASSUME RelayInv, NEW h \in Handlers, Abort(h)
  PROVE  RelayInv'
  BY QuietReturn DEF Abort, outsideVars, RelayInv, TypeOK

LEMMA InboxReturnInv ==
  ASSUME RelayInv, NEW h \in Handlers, InboxReturn(h)
  PROVE  RelayInv'
  BY QuietReturn DEF InboxReturn, outsideVars, RelayInv, TypeOK

LEMMA FetchArtifactInv ==
  ASSUME RelayInv, NEW h \in Handlers, FetchArtifact(h)
  PROVE  RelayInv'
  <1> DEFINE c == call[h]
             p == <<c.agent, c.id>>
  <1>1. c.agent \in Agents /\ c.id \in Artifacts
    BY CallFields DEF FetchArtifact, RelayInv, LocalInv, HandlerOK, CallAt
  <1>2. MayFetch(c.agent, c.id) => DiscOK(p)
    <2> SUFFICES ASSUME MayFetch(c.agent, c.id)
                 PROVE  DiscOK(p)
      OBVIOUS
    <2> DEFINE x == artifacts[c.id]
               s == store[x.req]
    <2>1. x # None
      BY DEF MayFetch
    <2>2. x.req \in Requests
      BY <1>1, <2>1 DEF RelayInv, TypeOK, storedArtifact
    <2>3. s.status \in {Accepted, Running} => s.decision = Allow
      BY <2>2 DEF RelayInv, RecordsOK, RecordOK
    <2> QED
      BY <2>1, <2>3 DEF MayFetch, DiscOK
  <1>3. disclosed' \subseteq disclosed \cup {p}
        /\ (p \in disclosed' => p \in disclosed \/ MayFetch(c.agent, c.id))
    BY DEF FetchArtifact
  <1>4. disclosed \subseteq Agents \X Artifacts /\ acked \subseteq Calls
    BY DEF RelayInv, TypeOK
  <1>5. p \in Agents \X Artifacts
    BY <1>1
  <1> HIDE DEF p
  <1> QED
    BY <1>2, <1>3, <1>4, <1>5, QuietReturn DEF FetchArtifact

LEMMA StartInv ==
  ASSUME RelayInv, NEW h \in Handlers, NEW c \in Calls, Start(h, c)
  PROVE  RelayInv'
  <1>1. /\ pc[h] = "idle" /\ local[h] = NoLocal
    BY DEF RelayInv, LocalInv, HandlerOK, Start
  <1>2. /\ pc' = [pc EXCEPT ![h] = FirstStep(c.op)]
        /\ call' = [call EXCEPT ![h] = c] /\ local' = local
        /\ c.req # None => store[c.req].status # Absent
        /\ UNCHANGED <<store, inbox, artifacts, revoked, now, acked,
                       disclosed, cancelEvents>>
    BY DEF Start, Goto, redisVars, outsideVars
  <1>3. FirstStep(c.op) \in {"precheck", "members", "artifact", "watch"}
    BY DEF FirstStep
  <1>4. CallAt(FirstStep(c.op), c)
    BY CallFields DEF CallAt, FirstStep, Calls, TransitionCalls
  <1>5. TypeOK'
    BY <1>2, <1>3 DEF RelayInv, TypeOK, Steps
  <1>6. /\ pc'[h] = FirstStep(c.op) /\ call'[h] = c /\ local'[h] = NoLocal
        /\ \A g \in Handlers \ {h} : Still(g)
    BY <1>1, <1>2 DEF RelayInv, TypeOK, Still
  <1>7. HandlerOK(h)'
    BY <1>2, <1>3, <1>4, <1>6 DEF HandlerOK, NoLocal, Unread
  <1>8. ExecOK(h)' /\ PruneOK(h)' /\ SubmittedOK(h)' /\ MadeOK(h)'
    BY <1>3, <1>6 DEF ExecOK, PruneOK, SubmittedOK, MadeOK, NoLocal, Unread
  <1>9. AttemptOK(h)'
    <2>1. FirstStep(c.op) = "watch" => c.req \in Requests
      BY <1>4, TransitionCallOps DEF CallAt
    <2>2. FirstStep(c.op) = "watch" => 0 < store[c.req].version
      <3> SUFFICES ASSUME FirstStep(c.op) = "watch"
                   PROVE  0 < store[c.req].version
        OBVIOUS
      <3>1. store[c.req] \in storedRequest /\ RecordOK(store[c.req])
        BY <2>1 DEF RelayInv, TypeOK, RecordsOK
      <3>2. store[c.req].status # Absent
        BY <1>2, <2>1, NoneFresh
      <3> QED
        BY <3>1, <3>2 DEF RecordOK, storedRequest
    <2> QED
      BY <1>2, <1>3, <1>6, <2>2 DEF AttemptOK, NoLocal, Unread
  <1> QED
    BY <1>2, <1>3, <1>5, <1>6, <1>7, <1>8, <1>9, QuietStep DEF LocalInv

LEMMA ReadReplay ==
  ASSUME RelayInv, NEW c \in SubmitCalls, ~SubmitResultRefused(store[c.req], c),
         Terminal(store[c.req].status)
  PROVE  AckOK(c)
  <1>1. exactResultReplay(store[c.req], c)
    BY DEF SubmitResultRefused
  <1>2. c.op = "submit" /\ c.req \in Requests
    BY CallFields
  <1>3. store[c.req].claim # None
    BY <1>1 DEF exactResultReplay, executionClaimMatches
  <1>4. store[c.req].decision = Allow
    BY <1>2, <1>3 DEF RelayInv, RecordsOK, RecordOK
  <1> QED
    BY <1>1, <1>2, <1>4 DEF exactResultReplay, executionClaimMatches, AckOK

LEMMA PrecheckInv ==
  ASSUME RelayInv, NEW h \in Handlers, Precheck(h)
  PROVE  RelayInv'
  <1> DEFINE c == call[h]
             s == store[c.req]
  <1>1. pc[h] = "precheck" /\ c \in SubmitCalls /\ c \in Calls
    BY DEF Precheck, RelayInv, LocalInv, HandlerOK, CallAt, Calls
  <1>2. UNCHANGED <<redisVars, now, disclosed, cancelEvents>>
    BY DEF Precheck
  <1>3. acked \subseteq Calls /\ disclosed \subseteq Agents \X Artifacts
    BY DEF RelayInv, TypeOK
  <1>4. CASE Return(h) /\ UNCHANGED acked
    BY <1>2, <1>3, <1>4, QuietReturn
  <1>5. CASE /\ ~SubmitResultRefused(s, c) /\ Terminal(s.status)
             /\ Return(h) /\ Answer(c)
    <2>1. AckOK(c)
      BY <1>1, <1>5, ReadReplay
    <2>2. acked' = acked \cup {c}
      BY <1>5 DEF Answer
    <2> QED
      BY <1>1, <1>2, <1>3, <1>5, <2>1, <2>2, QuietReturn
  <1>6. CASE /\ Goto(h, IF c.body \in FileBodies THEN "persist" ELSE "watch")
             /\ UNCHANGED <<call, local, acked>>
    <2>1. PICK step \in {"persist", "watch"} : pc' = [pc EXCEPT ![h] = step]
      BY <1>6 DEF Goto
    <2>2. TypeOK'
      BY <1>2, <1>6, <2>1 DEF RelayInv, TypeOK, Steps, redisVars
    <2>3. /\ pc'[h] = step /\ call'[h] = c /\ local'[h] = local[h]
          /\ \A g \in Handlers \ {h} : Still(g)
      BY <1>6, <2>1 DEF RelayInv, TypeOK, Still
    <2>4. /\ HandlerOK(h) /\ MadeOK(h) /\ AttemptOK(h)
      BY DEF RelayInv, LocalInv
    <2>5. HandlerOK(h)'
      BY <1>1, <1>2, <2>1, <2>3, <2>4
         DEF HandlerOK, CallAt, TransitionCalls, redisVars
    <2>6. ExecOK(h)' /\ PruneOK(h)' /\ SubmittedOK(h)'
      BY <2>1, <2>3 DEF ExecOK, PruneOK, SubmittedOK
    <2>7. MadeOK(h)'
      BY <1>2, <2>3, <2>4 DEF MadeOK, redisVars
    <2>8. c.op = "submit" /\ c.req \in Requests
      BY <1>1, CallFields
    <2>9. local[h].attempt = 0
      BY <1>1, <2>4, <2>8 DEF AttemptOK
    <2>10. 0 < s.version
      <3>1. s \in storedRequest /\ RecordOK(s) /\ s.status # Absent
        BY <1>1, <2>8, ReqAt DEF RelayInv, TypeOK, RecordsOK
      <3> QED
        BY <3>1 DEF RecordOK, storedRequest
    <2>11. AttemptOK(h)'
      BY <1>2, <2>1, <2>3, <2>9, <2>10 DEF AttemptOK, redisVars
    <2> QED
      BY <1>2, <1>6, <2>1, <2>2, <2>3, <2>5, <2>6, <2>7, <2>11, QuietStep
         DEF LocalInv, redisVars
  <1> QED
    BY <1>4, <1>5, <1>6 DEF Precheck

(* The inbox loop: no step of it writes, and none of its calls is answered. *)
LEMMA MembersInv ==
  ASSUME RelayInv, NEW h \in Handlers, Members(h)
  PROVE  RelayInv'
  <1> DEFINE c == call[h]
  <1>1. c \in InboxCalls \cup VisitCalls /\ c.agent \in Agents
    BY CallFields DEF Members, RelayInv, LocalInv, HandlerOK, CallAt
  <1>2. UNCHANGED <<redisVars, now, acked, disclosed, cancelEvents>>
    BY DEF Members, outsideVars
  <1>3. CASE Return(h)
    BY <1>2, <1>3, QuietReturn DEF RelayInv, TypeOK
  <1>4. CASE /\ Goto(h, "item") /\ UNCHANGED call
             /\ local' = [local EXCEPT ![h] =
                            [local[h] EXCEPT !.todo = inbox[c.agent]]]
    <2> DEFINE l == [local[h] EXCEPT !.todo = inbox[c.agent]]
    <2>1. /\ l \in LocalType /\ l.todo = inbox[c.agent]
          /\ l.made = local[h].made
      BY <1>1 DEF RelayInv, TypeOK, LocalType
    <2>2. TypeOK'
      BY <1>2, <1>4, <2>1 DEF RelayInv, TypeOK, Steps, redisVars, Goto
    <2>3. /\ pc'[h] = "item" /\ call'[h] = c /\ local'[h] = l
          /\ \A g \in Handlers \ {h} : Still(g)
      BY <1>4 DEF RelayInv, TypeOK, Still, Goto
    <2> HIDE DEF l
    <2>4. HandlerOK(h) /\ MadeOK(h) /\ QueuedExist
      BY DEF RelayInv, LocalInv
    <2>5. HandlerOK(h)'
      BY <1>1, <1>2, <2>1, <2>3, <2>4
         DEF HandlerOK, CallAt, QueuedExist, redisVars
    <2>6. ExecOK(h)' /\ PruneOK(h)' /\ SubmittedOK(h)' /\ AttemptOK(h)'
      BY <2>3 DEF ExecOK, PruneOK, SubmittedOK, AttemptOK
    <2>7. MadeOK(h)'
      BY <1>2, <2>1, <2>3, <2>4 DEF MadeOK, redisVars
    <2> QED
      BY <1>2, <2>2, <2>3, <2>5, <2>6, <2>7, QuietStep DEF LocalInv, redisVars
  <1> QED
    BY <1>3, <1>4 DEF Members

LEMMA VisitCallType ==
  ASSUME NEW c \in InboxCalls \cup VisitCalls, NEW r \in Requests
  PROVE  [c EXCEPT !.req = r] \in VisitCalls
  <1>1. PICK a \in Agents, q \in Requests \cup {None} :
           c = MkCall("inbox", a, q, None, None, None)
    BY DEF InboxCalls, VisitCalls
  <1>2. [c EXCEPT !.req = r] = MkCall("inbox", a, r, None, None, None)
    BY <1>1 DEF MkCall
  <1> QED
    BY <1>2 DEF VisitCalls

LEMMA ItemInv ==
  ASSUME RelayInv, NEW h \in Handlers, NEW r \in Requests, Item(h, r)
  PROVE  RelayInv'
  <1> DEFINE c == [call[h] EXCEPT !.req = r]
             l == Unread(0, local[h].todo \ {r}, {})
             s == store[r]
  <1>1. UNCHANGED <<redisVars, now, acked, disclosed, cancelEvents>>
    BY DEF Item, outsideVars
  <1>2. c \in VisitCalls
    BY VisitCallType DEF Item, RelayInv, LocalInv, HandlerOK, CallAt
  <1>3. c.op = "inbox" /\ c.req = r
    BY <1>2, CallFields DEF Item, RelayInv, LocalInv, HandlerOK, CallAt,
       InboxCalls, VisitCalls, MkCall
  <1>4. /\ l \in LocalType /\ l.todo \subseteq local[h].todo /\ l.made = {}
        /\ l.attempt = 0
    <2>1. local[h].todo \ {r} \subseteq Requests
      BY DEF RelayInv, TypeOK, LocalType
    <2> QED
      BY <2>1, UnreadType
  <1>5. s \in storedRequest /\ RecordOK(s) /\ s.status # Absent
    BY DEF Item, RelayInv, LocalInv, HandlerOK, TypeOK, RecordsOK
  <1>6. 0 < s.version
    BY <1>5 DEF RecordOK, storedRequest
  <1>7. PICK step \in {"srem", "watch", "item"} :
          /\ Visit(h, r, step)
          /\ step = "srem" => Terminal(s.status)
    BY <1>5 DEF Item
  <1>8. /\ pc'[h] = step /\ call'[h] = c /\ local'[h] = l
        /\ \A g \in Handlers \ {h} : Still(g)
    BY <1>7 DEF Visit, Goto, RelayInv, TypeOK, Still
  <1>9. TypeOK'
    <2>1. pc' \in [Handlers -> Steps]
      BY <1>7 DEF Visit, Goto, RelayInv, TypeOK, Steps
    <2>2. call' \in [Handlers -> Calls \cup VisitCalls \cup {NoCall}]
      BY <1>2, <1>7 DEF Visit, RelayInv, TypeOK
    <2>3. local' \in [Handlers -> LocalType]
      BY <1>4, <1>7 DEF Visit, RelayInv, TypeOK
    <2> QED
      BY <1>1, <2>1, <2>2, <2>3 DEF RelayInv, TypeOK, redisVars
  <1> HIDE DEF c, l
  <1>10. HandlerOK(h)'
    <2>1. HandlerOK(h)
      BY DEF RelayInv, LocalInv
    <2> QED
      BY <1>1, <1>2, <1>3, <1>4, <1>5, <1>7, <1>8, <2>1
         DEF HandlerOK, CallAt, TransitionCalls, redisVars
  <1>11. ExecOK(h)' /\ PruneOK(h)' /\ SubmittedOK(h)' /\ MadeOK(h)'
    BY <1>1, <1>3, <1>4, <1>7, <1>8
       DEF ExecOK, PruneOK, SubmittedOK, MadeOK, redisVars
  <1>12. AttemptOK(h)'
    BY <1>1, <1>3, <1>4, <1>6, <1>7, <1>8 DEF AttemptOK, redisVars
  <1> QED
    BY <1>1, <1>7, <1>8, <1>9, <1>10, <1>11, <1>12, QuietStep
       DEF LocalInv, redisVars

LEMMA RereadInv ==
  ASSUME RelayInv, NEW h \in Handlers, Reread(h)
  PROVE  RelayInv'
  <1> DEFINE c == call[h]
             s == store[c.req]
  <1>1. UNCHANGED <<redisVars, now, call, local, acked, disclosed, cancelEvents>>
    BY DEF Reread, outsideVars
  <1>2. c \in VisitCalls /\ c.op = "inbox" /\ s.status # Absent
    BY ReqAt, CallFields DEF Reread, RelayInv, LocalInv, HandlerOK, CallAt
  <1>3. PICK step \in {"srem", "item"} :
          /\ pc' = [pc EXCEPT ![h] = step]
          /\ step = "srem" => Terminal(s.status)
    BY <1>2 DEF Reread, Goto
  <1>4. TypeOK'
    BY <1>1, <1>3 DEF RelayInv, TypeOK, Steps, redisVars
  <1>5. /\ pc'[h] = step /\ call'[h] = c /\ local'[h] = local[h]
        /\ \A g \in Handlers \ {h} : Still(g)
    BY <1>1, <1>3 DEF RelayInv, TypeOK, Still
  <1>6. HandlerOK(h) /\ MadeOK(h)
    BY DEF RelayInv, LocalInv
  <1>7. HandlerOK(h)' /\ MadeOK(h)'
    BY <1>1, <1>2, <1>3, <1>5, <1>6 DEF HandlerOK, CallAt, MadeOK, redisVars
  <1>8. ExecOK(h)' /\ PruneOK(h)' /\ SubmittedOK(h)' /\ AttemptOK(h)'
    BY <1>1, <1>2, <1>3, <1>5
       DEF ExecOK, PruneOK, SubmittedOK, AttemptOK, redisVars
  <1> QED
    BY <1>1, <1>3, <1>4, <1>5, <1>7, <1>8, QuietStep DEF LocalInv, redisVars

(* A lost race: the record read is strictly older than the stored one. *)
LEMMA StaleVersion ==
  ASSUME RelayInv, NEW h \in Handlers, pc[h] = "exec", ~Unchanged(h),
         call[h].op # "decide"
  PROVE  /\ local[h].attempt < local[h].seen.version
         /\ local[h].seen.version < store[call[h].req].version
         /\ local[h].seen.version <= 3
         /\ local[h].attempt \in Nat /\ local[h].seen.version \in Nat
         /\ store[call[h].req].version \in Nat
  <1> DEFINE s == local[h].seen
             cur == store[call[h].req]
  <1>1. /\ call[h].req \in Requests /\ call[h] \in TransitionCalls
        /\ s \in storedRequest /\ cur \in storedRequest
        /\ local[h].attempt \in Nat /\ now \in Nat
        /\ local[h].made \in SUBSET Artifacts
        /\ local[h].seenRevoked \in SUBSET Agents
    <2>1. call[h].req \in Requests /\ call[h] \in TransitionCalls
      BY ReqAt DEF RelayInv, LocalInv, HandlerOK, CallAt
    <2> QED
      BY <2>1 DEF RelayInv, TypeOK, LocalType
  <1>2. ExecOK(h) /\ AttemptOK(h)
    BY DEF RelayInv, LocalInv
  <1>3. cur # s
    BY DEF Unchanged
  <1>4. Sound(s, local[h].plan, call[h], local[h].made)
    BY <1>1, <1>2, PlannedSound DEF ExecOK
  <1>5. s.version <= 3
    <2>1. s.status \in {Awaiting, Accepted, Running} /\ RecordOK(s)
      BY <1>2, <1>4 DEF Sound, Advances, ExecOK
    <2> QED
      BY <2>1 DEF RecordOK
  <1> QED
    BY <1>1, <1>2, <1>3, <1>5 DEF ExecOK, AttemptOK, storedRequest

LEMMA RetryInv ==
  ASSUME RelayInv, NEW h \in Handlers, Retry(h)
  PROVE  RelayInv'
  <1> DEFINE l == Unread(local[h].attempt + 1, local[h].todo, local[h].made)
  <1>1. /\ UNCHANGED <<redisVars, now, acked, disclosed, cancelEvents>>
        /\ pc[h] = "exec" /\ ~Unchanged(h)
    BY DEF Retry, outsideVars
  <1>2. CASE Return(h)
    BY <1>1, <1>2, QuietReturn DEF RelayInv, TypeOK
  <1>3. CASE /\ Goto(h, "watch") /\ UNCHANGED call
             /\ local' = [local EXCEPT ![h] = l]
    <2>1. /\ l \in LocalType /\ l.todo = local[h].todo /\ l.made = local[h].made
          /\ l.attempt = local[h].attempt + 1
      <3>1. local[h] \in LocalType
        BY DEF RelayInv, TypeOK
      <3>2. /\ local[h].attempt + 1 \in Nat
            /\ local[h].todo \in SUBSET Requests
            /\ local[h].made \in SUBSET Artifacts
        BY <3>1 DEF LocalType
      <3> QED
        BY <3>2, UnreadType
    <2>2. TypeOK'
      BY <1>1, <1>3, <2>1 DEF RelayInv, TypeOK, Steps, redisVars, Goto
    <2>3. /\ pc'[h] = "watch" /\ call'[h] = call[h] /\ local'[h] = l
          /\ \A g \in Handlers \ {h} : Still(g)
      BY <1>3 DEF RelayInv, TypeOK, Still, Goto
    <2> HIDE DEF l
    <2>4. HandlerOK(h) /\ MadeOK(h)
      BY DEF RelayInv, LocalInv
    <2>5. HandlerOK(h)' /\ MadeOK(h)'
      BY <1>1, <2>1, <2>3, <2>4 DEF HandlerOK, CallAt, MadeOK, redisVars
    <2>6. ExecOK(h)' /\ PruneOK(h)' /\ SubmittedOK(h)'
      BY <2>3 DEF ExecOK, PruneOK, SubmittedOK
    <2>7. AttemptOK(h)'
      BY <1>1, <2>1, <2>3, StaleVersion DEF AttemptOK, redisVars
    <2> QED
      BY <1>1, <2>2, <2>3, <2>5, <2>6, <2>7, QuietStep DEF LocalInv, redisVars
  <1> QED
    BY <1>2, <1>3 DEF Retry

(* An update that changes nothing answers with what is stored. *)
LEMMA ReplayAck ==
  ASSUME RelayInv, NEW c \in TransitionCalls, NEW M,
         ~Refused(store[c.req], c, now),
         To(store[c.req], c, now, revoked, M) = store[c.req]
  PROVE  c.op # "inbox" /\ AckOK(c)
  <1> DEFINE s == store[c.req]
  <1>1. s \in storedRequest /\ RecordOK(s) /\ c.req \in Requests
    BY TransitionCallOps DEF RelayInv, TypeOK, RecordsOK
  <1>2. CASE c.op = "decide"
    <2>1. ~DecideRefused(s, c) /\ DecideTo(s, c, now, revoked) = s
      BY <1>2 DEF Refused, To
    <2>2. c.id # None
      BY <1>2, TransitionCallOps, CallFields, NoneFresh
    <2>3. s.decisionID # None
      BY <1>1, <2>1, <2>2 DEF DecideTo, storedRequest
    <2> QED
      BY <1>2, <2>1, <2>3 DEF DecideRefused, AckOK
  <1>3. CASE c.op = "markRunning"
    <2>1. ~MarkRunningRefused(s, c) /\ MarkRunningTo(s, c) = s
      BY <1>3 DEF Refused, To
    <2>2. s.status # Accepted
      BY <1>1, <2>1 DEF MarkRunningTo, storedRequest, Accepted, Running
    <2>3. s.status = Running /\ s.claim = c.id
      BY <2>1, <2>2 DEF MarkRunningRefused, executionClaimMatches
    <2> QED
      BY <1>1, <1>3, <2>3 DEF AckOK, RecordOK
  <1>4. CASE c.op = "submit"
    <2>1. ~SubmitResultRefused(s, c) /\ SubmitResultTo(s, c, M) = s
      BY <1>4 DEF Refused, To
    <2>2. c \in SubmitCalls /\ c.choice \in {Completed, Failed, Cancelled}
      BY <1>4, TransitionCallOps, CallFields DEF ResultStates
    <2>3. Terminal(s.status)
      <3> SUFFICES ASSUME ~Terminal(s.status)
                   PROVE  FALSE
        OBVIOUS
      <3>1. s.status = Running
        BY <2>1 DEF SubmitResultRefused
      <3>2. s.status = c.choice
        BY <1>1, <2>1 DEF SubmitResultTo, storedRequest
      <3> QED
        BY <2>2, <3>1, <3>2 DEF Running, Completed, Failed, Cancelled
    <2> QED
      BY <1>4, <2>1, <2>2, <2>3, ReadReplay
  <1>5. CASE c.op = "cancel"
    BY <1>1, <1>5 DEF To, CancelTo, storedRequest, AckOK
  <1>6. CASE c.op = "inbox"
    <2>1. ~ExpireRefused(s, c, now) /\ ExpireTo(s, c) = s
      BY <1>6 DEF Refused, To
    <2> QED
      BY <1>1, <2>1 DEF ExpireRefused, ExpireTo, storedRequest, Awaiting, Expired
  <1> QED
    BY <1>2, <1>3, <1>4, <1>5, <1>6, TransitionCallOps

LEMMA WatchInv ==
  ASSUME RelayInv, NEW h \in Handlers, Watch(h)
  PROVE  RelayInv'
  <1> DEFINE c == call[h]
             s == store[c.req]
  <1>1. /\ UNCHANGED <<redisVars, now, disclosed, cancelEvents>>
        /\ pc[h] = "watch"
    BY DEF Watch
  <1>2. /\ c \in TransitionCalls /\ c.req \in Requests /\ s.status # Absent
        /\ s \in storedRequest /\ RecordOK(s)
        /\ local[h] \in LocalType /\ now \in Nat /\ revoked \in SUBSET Agents
        /\ acked \subseteq Calls /\ disclosed \subseteq Agents \X Artifacts
    <2>1. c \in TransitionCalls /\ c.req \in Requests /\ s.status # Absent
      BY <1>1, ReqAt DEF RelayInv, LocalInv, HandlerOK, CallAt
    <2> QED
      BY <2>1 DEF RelayInv, TypeOK, RecordsOK
  <1>3. LocalInv(h)
    BY DEF RelayInv
  <1>4. CASE Refuse(h) /\ UNCHANGED acked
    <2>1. CASE c.op = "inbox"
      <3>1. Goto(h, "reread") /\ UNCHANGED <<call, local, acked>>
        BY <1>4, <2>1 DEF Refuse
      <3>2. TypeOK'
        BY <1>1, <3>1 DEF RelayInv, TypeOK, Steps, redisVars, Goto
      <3>3. /\ pc'[h] = "reread" /\ call'[h] = c /\ local'[h] = local[h]
            /\ \A g \in Handlers \ {h} : Still(g)
        BY <3>1 DEF RelayInv, TypeOK, Still, Goto
      <3>4. HandlerOK(h)' /\ MadeOK(h)'
        BY <1>1, <1>2, <1>3, <2>1, <3>3, TransitionCallOps
           DEF LocalInv, HandlerOK, CallAt, MadeOK, redisVars
      <3>5. ExecOK(h)' /\ PruneOK(h)' /\ SubmittedOK(h)' /\ AttemptOK(h)'
        BY <3>3 DEF ExecOK, PruneOK, SubmittedOK, AttemptOK
      <3> QED
        BY <1>1, <3>1, <3>2, <3>3, <3>4, <3>5, QuietStep DEF LocalInv, redisVars
    <2>2. CASE c.op # "inbox"
      BY <1>1, <1>2, <1>4, <2>2, QuietReturn DEF Refuse
    <2> QED
      BY <2>1, <2>2
  <1>5. CASE ~Refused(s, c, now) /\ Target(h) = s /\ Succeed(h, FALSE)
    <2>1. c.op # "inbox" /\ AckOK(c)
      BY <1>2, <1>5, ReplayAck DEF Target
    <2>2. c \in Calls
      BY <1>2, <2>1, TransitionCallOps DEF Calls
    <2>3. CASE Return(h) /\ Answer(c)
      <3>1. acked' = acked \cup {c}
        BY <2>3 DEF Answer
      <3> QED
        BY <1>1, <1>2, <2>1, <2>2, <2>3, <3>1, QuietReturn
    <2>4. CASE c.op = "submit" /\ Goto(h, "srem") /\ UNCHANGED <<call, local, acked>>
      <3>1. TypeOK'
        BY <1>1, <2>4 DEF RelayInv, TypeOK, Steps, redisVars, Goto
      <3>2. /\ pc'[h] = "srem" /\ call'[h] = c /\ local'[h] = local[h]
            /\ \A g \in Handlers \ {h} : Still(g)
        BY <2>4 DEF RelayInv, TypeOK, Still, Goto
      <3>3. c \in SubmitCalls /\ c.choice \in ResultStates
        BY <1>2, <2>4, TransitionCallOps, CallFields
      <3>4. HandlerOK(h)' /\ MadeOK(h)'
        BY <1>1, <1>2, <1>3, <3>2, <3>3
           DEF LocalInv, HandlerOK, CallAt, MadeOK, redisVars
      <3>5. Terminal(s.status)
        BY <2>1, <2>4, <3>3
           DEF AckOK, Terminal, TerminalStatus, ResultStates
      <3>6. ExecOK(h)' /\ PruneOK(h)' /\ SubmittedOK(h)' /\ AttemptOK(h)'
        BY <1>1, <2>1, <2>4, <3>2, <3>5
           DEF ExecOK, PruneOK, SubmittedOK, AttemptOK, AckOK, redisVars
      <3> QED
        BY <1>1, <2>4, <3>1, <3>2, <3>4, <3>6, QuietStep DEF LocalInv, redisVars
    <2> QED
      BY <1>5, <2>1, <2>3, <2>4 DEF Succeed
  <1>6. CASE /\ ~Refused(s, c, now) /\ Target(h) # s /\ Goto(h, "exec")
             /\ local' = [local EXCEPT ![h] =
                   [local[h] EXCEPT !.seen = s,
                      !.plan = [Target(h) EXCEPT !.version = s.version + 1],
                      !.seenRevoked = revoked]]
             /\ UNCHANGED <<call, acked>>
    <2> DEFINE p == [Target(h) EXCEPT !.version = s.version + 1]
               l == [local[h] EXCEPT !.seen = s, !.plan = p,
                                     !.seenRevoked = revoked]
    <2>1. p \in storedRequest
      <3>1. local[h].made \in SUBSET Artifacts
        BY <1>2 DEF LocalType
      <3>2. Target(h) \in storedRequest
        BY <1>2, <3>1, ToType DEF Target
      <3>3. s.version + 1 \in Nat
        BY <1>2 DEF storedRequest
      <3> QED
        BY <3>2, <3>3 DEF storedRequest
    <2> HIDE DEF p
    <2>2. /\ l \in LocalType /\ l.seen = s /\ l.plan = p
          /\ l.seenRevoked = revoked /\ l.todo = local[h].todo
          /\ l.made = local[h].made /\ l.attempt = local[h].attempt
      BY <1>2, <2>1 DEF LocalType
    <2>3. local' = [local EXCEPT ![h] = l]
      BY <1>6 DEF p
    <2> HIDE DEF l
    <2>4. TypeOK'
      BY <1>1, <1>6, <2>2, <2>3 DEF RelayInv, TypeOK, Steps, redisVars, Goto
    <2>5. /\ pc'[h] = "exec" /\ call'[h] = c /\ local'[h] = l
          /\ \A g \in Handlers \ {h} : Still(g)
      BY <1>6, <2>3 DEF RelayInv, TypeOK, Still, Goto
    <2>6. HandlerOK(h)' /\ MadeOK(h)'
      BY <1>1, <1>2, <1>3, <2>2, <2>5
         DEF LocalInv, HandlerOK, CallAt, MadeOK, redisVars
    <2>7. PruneOK(h)' /\ SubmittedOK(h)'
      BY <2>5 DEF PruneOK, SubmittedOK
    <2>8. AttemptOK(h)'
      BY <1>1, <1>3, <2>2, <2>5 DEF LocalInv, AttemptOK, redisVars
    <2>9. Planned(s, p, c, revoked, local[h].made)
      BY <1>2, <1>6 DEF Planned, Target, p
    <2>10. ExecOK(h)'
      <3>2. store' = store
        BY <1>1 DEF redisVars
      <3>3. /\ local'[h].seen = store'[call'[h].req] /\ local'[h].plan = p
            /\ local'[h].seenRevoked = revoked /\ local'[h].made = local[h].made
        BY <2>2, <2>5, <3>2
      <3>4. Planned(local[h].seen, local[h].plan, call[h], local[h].seenRevoked,
                    local[h].made)'
        <4>1. /\ local'[h].seen = s /\ local'[h].plan = p /\ call'[h] = c
              /\ local'[h].seenRevoked = revoked /\ local'[h].made = local[h].made
              /\ now' = now
          BY <1>1, <2>2, <2>5
        <4> HIDE DEF s, c
        <4> QED
          BY <2>9, <4>1 DEF Planned
      <3>5. s.version \in Nat
        BY <1>2 DEF storedRequest
      <3> QED
        BY <1>2, <2>5, <3>2, <3>3, <3>4, <3>5 DEF ExecOK
    <2> QED
      BY <1>1, <1>6, <2>4, <2>5, <2>6, <2>7, <2>8, <2>10, QuietStep
         DEF LocalInv, redisVars
  <1> QED
    BY <1>4, <1>5, <1>6 DEF Watch

-----------------------------------------------------------------------------
(* Steps that write to Redis. *)

(* Cancelled is final, so publishers that stay where they are stay right. *)
LEMMA PublishersKeep ==
  ASSUME RelayInv, Grows, cancelEvents' = cancelEvents,
         \A g \in Handlers : pc'[g] = "publish" => Still(g)
  PROVE  /\ \A g \in Handlers : PublishOK(g)'
         /\ OnePublisher' /\ CancelAnnouncedOnce'
  <1>1. \A r \in Requests :
          store[r].status = Cancelled => store'[r].status = Cancelled
    BY RecordKeeps DEF Terminal, TerminalStatus
  <1>2. ASSUME NEW g \in Handlers
        PROVE  PublishOK(g)'
    <2> SUFFICES ASSUME pc'[g] = "publish"
                 PROVE  PublishOK(g)'
      BY DEF PublishOK
    <2>1. Still(g) /\ PublishOK(g)
      BY DEF RelayInv
    <2>2. call[g].req \in Requests
      BY <2>1, ReqAt DEF Still
    <2> QED
      BY <1>1, <2>1, <2>2 DEF PublishOK, Still
  <1>3. OnePublisher'
    <2> SUFFICES ASSUME NEW g \in Handlers, NEW k \in Handlers,
                        pc'[g] = "publish", pc'[k] = "publish",
                        call'[g].req = call'[k].req
                 PROVE  g = k
      BY DEF OnePublisher
    <2> QED
      BY DEF RelayInv, OnePublisher, Still
  <1>4. CancelAnnouncedOnce'
    BY <1>1 DEF RelayInv, CancelAnnouncedOnce
  <1> QED
    BY <1>2, <1>3, <1>4

(* A step that creates no request and leaves the inboxes alone. *)
LEMMA QueueKeeps ==
  ASSUME RelayInv, Grows, inbox' = inbox,
         \A r \in Requests : store[r].status = Absent => store'[r] = store[r]
  PROVE  QueuedExist' /\ InboxComplete'
  <1>1. QueuedExist'
    <2>1. \A a \in Agents : inbox[a] \subseteq Requests
      BY DEF RelayInv, TypeOK
    <2> QED
      BY <2>1, RecordKeeps DEF RelayInv, QueuedExist
  <1>2. InboxComplete'
    <2> SUFFICES ASSUME NEW r \in Requests,
                        store'[r].status \in {Awaiting, Accepted, Running}
                 PROVE  r \in inbox[store'[r].target]
      BY DEF InboxComplete
    <2>1. store[r].status # Absent
      BY DEF Absent, Awaiting, Accepted, Running
    <2>2. ~Terminal(store[r].status)
      BY RecordKeeps DEF Terminal, TerminalStatus, Awaiting, Accepted, Running,
         Completed, Rejected, Expired, Cancelled, Failed
    <2>3. store[r].status \in {Awaiting, Accepted, Running}
      BY <2>1, <2>2, StatusSplit DEF RelayInv, TypeOK
    <2> QED
      BY <2>1, <2>3, RecordKeeps DEF RelayInv, InboxComplete
  <1> QED
    BY <1>1, <1>2

LEMMA PersistInv ==
  ASSUME RelayInv, NEW h \in Handlers, NEW x \in Artifacts, Persist(h, x)
  PROVE  RelayInv'
  <1> DEFINE c == call[h]
             a == [req |-> c.req, direction |-> "result"]
             l == [local[h] EXCEPT !.made = {x}]
  <1>1. /\ pc[h] = "persist" /\ c \in SubmitCalls /\ c.req \in Requests
        /\ c.op = "submit" /\ artifacts[x] = None
    BY CallFields DEF Persist, RelayInv, LocalInv, HandlerOK, CallAt
  <1>2. /\ artifacts' = [artifacts EXCEPT ![x] = a]
        /\ local' = [local EXCEPT ![h] = l]
        /\ pc' = [pc EXCEPT ![h] = "watch"]
        /\ UNCHANGED <<store, inbox, revoked, now, call, acked, disclosed,
                       cancelEvents>>
    BY DEF Persist, Goto, outsideVars
  <1>3. local[h] \in LocalType
    BY DEF RelayInv, TypeOK
  <1>4. /\ l \in LocalType /\ l.made = {x} /\ l.todo = local[h].todo
        /\ l.attempt = local[h].attempt
    BY <1>3 DEF LocalType
  <1>5. a \in storedArtifact
    BY <1>1 DEF storedArtifact
  <1> HIDE DEF l, a
  <1>6. TypeOK'
    BY <1>2, <1>4, <1>5 DEF RelayInv, TypeOK, Steps
  <1>7. Grows /\ RecordsOK'
    <2>1. \A y \in Artifacts : artifacts[y] # None => artifacts'[y] = artifacts[y]
      BY <1>1, <1>2 DEF RelayInv, TypeOK
    <2> QED
      BY <1>2, <2>1 DEF Grows, StoreStep, RelayInv, TypeOK, RecordsOK
  <1>8. /\ pc'[h] = "watch" /\ call'[h] = c /\ local'[h] = l
        /\ artifacts'[x] = a
        /\ \A g \in Handlers \ {h} : Still(g)
    BY <1>2 DEF RelayInv, TypeOK, Still
  <1>9. HandlerOK(h) /\ AttemptOK(h)
    BY DEF RelayInv, LocalInv
  <1>10. LocalInv(h)'
    <2>1. HandlerOK(h)'
      BY <1>1, <1>2, <1>4, <1>8, <1>9 DEF HandlerOK, CallAt, TransitionCalls
    <2>2. ExecOK(h)' /\ PruneOK(h)' /\ SubmittedOK(h)'
      BY <1>8 DEF ExecOK, PruneOK, SubmittedOK
    <2>3. MadeOK(h)'
      BY <1>4, <1>5, <1>8 DEF MadeOK, a
    <2>4. 0 < store[c.req].version
      <3>1. store[c.req] \in storedRequest /\ RecordOK(store[c.req])
            /\ store[c.req].status # Absent
        BY <1>1, ReqAt DEF RelayInv, TypeOK, RecordsOK
      <3> QED
        BY <3>1 DEF RecordOK, storedRequest
    <2>5. AttemptOK(h)'
      BY <1>1, <1>2, <1>4, <1>8, <1>9, <2>4 DEF AttemptOK
    <2> QED
      BY <2>1, <2>2, <2>3, <2>5 DEF LocalInv
  <1>11. \A g \in Handlers : Still(g) \/ LocalInv(g)'
    BY <1>8, <1>10
  <1>12. \A g \in Handlers : pc'[g] = "publish" => Still(g)
    BY <1>8
  <1>13. FilesPersisted'
    <2>1. \A r \in Requests : \A y \in store[r].resultFiles :
            /\ y \in Artifacts
            /\ artifacts[y] = [req |-> r, direction |-> "result"]
      BY DEF RelayInv, FilesPersisted, TypeOK, storedRequest
    <2>2. \A r \in Requests : [req |-> r, direction |-> "result"] # None
      BY RelayConstants
    <2>3. \A r \in Requests : \A y \in store[r].resultFiles : y # x
      BY <1>1, <2>1, <2>2
    <2> QED
      BY <1>2, <2>1, <2>3 DEF FilesPersisted, RelayInv, TypeOK
  <1>14. QueuedExist' /\ InboxComplete'
    BY <1>2, <1>7, QueueKeeps
  <1> QED
    BY <1>2, <1>6, <1>7, <1>11, <1>12, <1>13, <1>14, PublishersKeep, StepInv

(***************************************************************************)
(* EXEC: the record just replaced is the one the plan was made from, so    *)
(* the plan is its successor.                                              *)
(***************************************************************************)
LEMMA ExecWrites ==
  ASSUME RelayInv, NEW h \in Handlers, Exec(h)
  PROVE  /\ call[h] \in TransitionCalls /\ call[h].req \in Requests
         /\ store' = [store EXCEPT ![call[h].req] = local[h].plan]
         /\ store'[call[h].req] = local[h].plan
         /\ store' \in [Requests -> storedRequest]
         /\ Sound(store[call[h].req], local[h].plan, call[h], local[h].made)
         /\ Planned(store[call[h].req], local[h].plan, call[h],
                    local[h].seenRevoked, local[h].made)
         /\ ~Terminal(store[call[h].req].status)
         /\ Grows /\ RecordsOK'
  <1> DEFINE c == call[h]
             s == store[c.req]
             p == local[h].plan
  <1>1. pc[h] = "exec" /\ Unchanged(h)
    BY DEF Exec
  <1>2. c \in TransitionCalls /\ c.req \in Requests /\ s.status # Absent
    BY <1>1, ReqAt DEF RelayInv, LocalInv, HandlerOK, CallAt
  <1>3. /\ s \in storedRequest /\ RecordOK(s) /\ p \in storedRequest
        /\ local[h].seenRevoked \in SUBSET Agents
        /\ local[h].made \in SUBSET Artifacts /\ now \in Nat
    <2>1. local[h] \in LocalType
      BY DEF RelayInv, TypeOK
    <2> QED
      BY <1>2, <2>1 DEF RelayInv, TypeOK, RecordsOK, LocalType
  <1>4. Planned(s, p, c, local[h].seenRevoked, local[h].made)
    BY <1>1 DEF RelayInv, LocalInv, ExecOK, Unchanged
  <1>5. Sound(s, p, c, local[h].made)
    BY <1>2, <1>3, <1>4, PlannedSound
  <1>6. store' = [store EXCEPT ![c.req] = p] /\ UNCHANGED <<artifacts, now>>
    BY DEF Exec
  <1>7. /\ store'[c.req] = p
        /\ \A r \in Requests \ {c.req} : store'[r] = store[r]
        /\ store' \in [Requests -> storedRequest]
    BY <1>2, <1>3, <1>6 DEF RelayInv, TypeOK
  <1>8. Grows
    BY <1>3, <1>5, <1>6, <1>7 DEF Grows, StoreStep, Sound
  <1>9. RecordsOK'
    <2>1. \A r \in Requests : RecordOK(store'[r])
      BY <1>5, <1>7 DEF RelayInv, RecordsOK, Sound
    <2> QED
      BY <2>1 DEF RecordsOK, RecordOK
  <1>10. ~Terminal(s.status)
    BY <1>2, <1>3, <1>5, StatusSplit DEF Sound, Advances
  <1> QED
    BY <1>2, <1>4, <1>5, <1>6, <1>7, <1>8, <1>9, <1>10

LEMMA ExecInv ==
  ASSUME RelayInv, NEW h \in Handlers, Exec(h)
  PROVE  RelayInv'
  <1> DEFINE c == call[h]
             s == store[c.req]
             p == local[h].plan
  <1>1. /\ c \in TransitionCalls /\ c.req \in Requests
        /\ store' = [store EXCEPT ![c.req] = p] /\ store'[c.req] = p
        /\ store' \in [Requests -> storedRequest]
        /\ Sound(s, p, c, local[h].made) /\ ~Terminal(s.status)
        /\ Grows /\ RecordsOK'
    BY ExecWrites
  <1>2. UNCHANGED <<inbox, artifacts, revoked, now, disclosed, cancelEvents>>
        /\ Succeed(h, TRUE) /\ pc[h] = "exec"
    BY DEF Exec
  <1>3. Advances(s, p) /\ Reports(p, c)
        /\ p.resultFiles = Files(s, c, local[h].made)
    BY <1>1 DEF Sound
  <1>4. TypeOK /\ LocalInv(h)
    BY DEF RelayInv
  <1>5. QueuedExist' /\ InboxComplete'
    <2>1. s.status # Absent
      BY <1>3 DEF Advances, Absent, Awaiting, Accepted, Running
    <2>2. \A r \in Requests : store[r].status = Absent => store'[r] = store[r]
      BY <1>1, <1>4, <2>1 DEF TypeOK
    <2> QED
      BY <1>1, <1>2, <2>2, QueueKeeps
  <1>6. FilesPersisted'
    <2> SUFFICES ASSUME NEW r \in Requests, NEW x \in store'[r].resultFiles
                 PROVE  artifacts[x] = [req |-> r, direction |-> "result"]
      BY <1>2 DEF FilesPersisted
    <2>1. CASE r # c.req
      BY <1>1, <1>4, <2>1 DEF RelayInv, FilesPersisted, TypeOK
    <2>2. CASE r = c.req /\ c.op = "submit"
      BY <1>1, <1>3, <1>4, <2>2 DEF Files, LocalInv, MadeOK
    <2>3. CASE r = c.req /\ c.op # "submit"
      BY <1>1, <1>3, <2>3 DEF Files, RelayInv, FilesPersisted
    <2> QED
      BY <2>1, <2>2, <2>3
  <1>7. CASE /\ c.op \in {"decide", "markRunning"} /\ Return(h) /\ Answer(c)
    <2>1. c \in Calls
      BY <1>1, <1>7, TransitionCallOps DEF Calls
    <2>2. ASSUME NEW k, k = c
          PROVE  AckOK(k)'
      BY <1>1, <1>3, <1>7, <2>2 DEF AckOK, Reports
    <2>3. acked' = acked \cup {c}
      BY <1>7 DEF Answer
    <2>4. TypeOK'
      BY <1>1, <1>2, <1>4, <1>7, <2>1, <2>3, ReturnMoves DEF TypeOK
    <2>5. /\ \A g \in Handlers : Still(g) \/ LocalInv(g)'
          /\ \A g \in Handlers : pc'[g] = "publish" => Still(g)
      BY <1>4, <1>7, ReturnMoves
    <2>6. /\ \A k \in acked' : k \in acked \/ AckOK(k)'
          /\ \A d \in disclosed' : d \in disclosed \/ DiscOK(d)'
      BY <1>2, <2>2, <2>3
    <2> QED
      BY <1>1, <1>2, <1>5, <1>6, <2>4, <2>5, <2>6, PublishersKeep, StepInv
  <1>8. CASE /\ c.op = "cancel" /\ Goto(h, "publish")
             /\ UNCHANGED <<call, local, acked>>
    <2>1. /\ pc'[h] = "publish" /\ call'[h] = c /\ local'[h] = local[h]
          /\ \A g \in Handlers \ {h} : Still(g)
      BY <1>4, <1>8 DEF TypeOK, Still, Goto
    <2>2. TypeOK'
      BY <1>1, <1>2, <1>4, <1>8 DEF TypeOK, Steps, Goto
    <2>3. c \in CancelCalls
      BY <1>1, <1>8, TransitionCallOps
    <2>4. p.status = Cancelled
      BY <1>3, <1>8 DEF Reports
    <2>5. LocalInv(h)'
      <3>1. \A r \in local[h].todo : r \in Requests /\ store[r].status # Absent
        BY <1>4 DEF LocalInv, HandlerOK, TypeOK, LocalType
      <3>2. \A r \in local[h].todo : store'[r].status # Absent
        BY <1>1, <3>1, RecordKeeps
      <3>3. HandlerOK(h)'
        BY <1>1, <2>1, <2>3, <2>4, <3>2 DEF HandlerOK, CallAt, Absent, Cancelled
      <3>4. ExecOK(h)' /\ PruneOK(h)' /\ SubmittedOK(h)' /\ AttemptOK(h)'
        BY <2>1 DEF ExecOK, PruneOK, SubmittedOK, AttemptOK
      <3>5. MadeOK(h)'
        BY <1>2, <1>4, <2>1 DEF LocalInv, MadeOK
      <3> QED
        BY <3>3, <3>4, <3>5 DEF LocalInv
    <2>6. s.status # Cancelled
      BY <1>1 DEF Terminal, TerminalStatus
    <2>7. cancelEvents[c.req] = 0
      <3>1. cancelEvents[c.req] \in Nat /\ cancelEvents[c.req] <= 1
            /\ cancelEvents[c.req] # 1
        BY <1>1, <2>6 DEF RelayInv, CancelAnnouncedOnce, TypeOK
      <3> QED
        BY <3>1
    <2>8. \A g \in Handlers \ {h} : pc[g] = "publish" => call[g].req # c.req
      BY <2>6 DEF RelayInv, PublishOK
    <2>9. \A g \in Handlers : PublishOK(g)'
      <3> SUFFICES ASSUME NEW g \in Handlers, pc'[g] = "publish"
                   PROVE  PublishOK(g)'
        BY DEF PublishOK
      <3>1. CASE g = h
        BY <1>1, <1>2, <2>1, <2>4, <2>7, <3>1 DEF PublishOK
      <3>2. CASE g # h
        <4>1. Still(g) /\ pc[g] = "publish" /\ PublishOK(g)
          BY <2>1, <3>2 DEF Still, RelayInv
        <4>2. call[g].req \in Requests /\ call[g].req # c.req
          BY <2>8, <3>2, <4>1, ReqAt
        <4>3. store'[call[g].req] = store[call[g].req]
          BY <1>1, <1>4, <4>2 DEF TypeOK
        <4> QED
          BY <1>2, <4>1, <4>3 DEF PublishOK, Still
      <3> QED
        BY <3>1, <3>2
    <2>10. OnePublisher'
      <3> SUFFICES ASSUME NEW g \in Handlers, NEW k \in Handlers,
                          pc'[g] = "publish", pc'[k] = "publish",
                          call'[g].req = call'[k].req
                   PROVE  g = k
        BY DEF OnePublisher
      <3> QED
        BY <2>1, <2>8 DEF RelayInv, OnePublisher, Still
    <2>11. CancelAnnouncedOnce'
      BY <1>1, <1>2, <1>4, <2>4 DEF RelayInv, CancelAnnouncedOnce, TypeOK
    <2>12. \A g \in Handlers : Still(g) \/ LocalInv(g)'
      BY <2>1, <2>5
    <2> QED
      BY <1>1, <1>2, <1>5, <1>6, <1>8, <2>2, <2>9, <2>10, <2>11, <2>12, StepInv
  <1>9. CASE /\ c.op \in {"submit", "inbox"} /\ Goto(h, "srem")
             /\ UNCHANGED <<call, local, acked>>
    <2>1. /\ pc'[h] = "srem" /\ call'[h] = c /\ local'[h] = local[h]
          /\ \A g \in Handlers \ {h} : Still(g)
      BY <1>4, <1>9 DEF TypeOK, Still, Goto
    <2>2. TypeOK'
      BY <1>1, <1>2, <1>4, <1>9 DEF TypeOK, Steps, Goto
    <2>3. c \in SubmitCalls \cup VisitCalls
      BY <1>1, <1>9, TransitionCallOps
    <2>4. Terminal(p.status) /\ p.status # Absent
      BY <1>3, <1>9 DEF Reports, Advances
    <2>5. LocalInv(h)'
      <3>1. \A r \in local[h].todo : r \in Requests /\ store[r].status # Absent
        BY <1>4 DEF LocalInv, HandlerOK, TypeOK, LocalType
      <3>2. \A r \in local[h].todo : store'[r].status # Absent
        BY <1>1, <3>1, RecordKeeps
      <3>3. HandlerOK(h)'
        BY <1>1, <2>1, <2>3, <2>4, <3>2 DEF HandlerOK, CallAt
      <3>4. ExecOK(h)' /\ AttemptOK(h)'
        BY <2>1 DEF ExecOK, AttemptOK
      <3>5. PruneOK(h)' /\ SubmittedOK(h)'
        BY <1>1, <1>3, <2>1, <2>4 DEF PruneOK, SubmittedOK, Reports
      <3>6. MadeOK(h)'
        BY <1>2, <1>4, <2>1 DEF LocalInv, MadeOK
      <3> QED
        BY <3>3, <3>4, <3>5, <3>6 DEF LocalInv
    <2>6. /\ \A g \in Handlers : Still(g) \/ LocalInv(g)'
          /\ \A g \in Handlers : pc'[g] = "publish" => Still(g)
      BY <2>1, <2>5
    <2> QED
      BY <1>1, <1>2, <1>5, <1>6, <1>9, <2>2, <2>6, PublishersKeep, StepInv
  <1> QED
    BY <1>2, <1>7, <1>8, <1>9 DEF Succeed

LEMMA PublishInv ==
  ASSUME RelayInv, NEW h \in Handlers, Publish(h)
  PROVE  RelayInv'
  <1> DEFINE c == call[h]
  <1>1. /\ pc[h] = "publish" /\ Return(h) /\ acked' = acked \cup {c}
        /\ cancelEvents' = [cancelEvents EXCEPT ![c.req] = @ + 1]
        /\ UNCHANGED <<store, inbox, artifacts, revoked, now, disclosed>>
    BY DEF Publish, Answer, redisVars
  <1>2. TypeOK /\ LocalInv(h) /\ PublishOK(h) /\ OnePublisher
    BY DEF RelayInv
  <1>3. c \in CancelCalls /\ c.req \in Requests /\ c \in Calls /\ c.op = "cancel"
    BY <1>1, <1>2, CallFields DEF LocalInv, HandlerOK, CallAt, Calls
  <1>4. store[c.req].status = Cancelled /\ cancelEvents[c.req] = 0
    BY <1>1, <1>2 DEF PublishOK
  <1>5. /\ cancelEvents'[c.req] = 1 /\ cancelEvents' \in [Requests -> Nat]
        /\ \A r \in Requests \ {c.req} : cancelEvents'[r] = cancelEvents[r]
    BY <1>1, <1>2, <1>3, <1>4 DEF TypeOK
  <1>6. Grows /\ RecordsOK'
    BY <1>1 DEF Grows, StoreStep, RelayInv, TypeOK, RecordsOK
  <1>7. TypeOK'
    BY <1>1, <1>2, <1>3, <1>5, ReturnMoves DEF TypeOK
  <1>8. /\ \A g \in Handlers : Still(g) \/ LocalInv(g)'
        /\ \A g \in Handlers : pc'[g] = "publish" => Still(g) /\ g # h
    BY <1>1, <1>2, ReturnMoves
  <1>9. \A g \in Handlers : PublishOK(g)'
    <2> SUFFICES ASSUME NEW g \in Handlers, pc'[g] = "publish"
                 PROVE  PublishOK(g)'
      BY DEF PublishOK
    <2>1. Still(g) /\ g # h /\ pc[g] = "publish" /\ PublishOK(g)
      BY <1>8 DEF Still, RelayInv
    <2>2. call[g].req \in Requests /\ call[g].req # c.req
      BY <1>1, <1>2, <2>1, ReqAt DEF OnePublisher
    <2> QED
      BY <1>1, <1>5, <2>1, <2>2 DEF PublishOK, Still
  <1>10. OnePublisher'
    <2> SUFFICES ASSUME NEW g \in Handlers, NEW k \in Handlers,
                        pc'[g] = "publish", pc'[k] = "publish",
                        call'[g].req = call'[k].req
                 PROVE  g = k
      BY DEF OnePublisher
    <2> QED
      BY <1>2, <1>8 DEF OnePublisher, Still
  <1>11. CancelAnnouncedOnce'
    BY <1>1, <1>4, <1>5 DEF RelayInv, CancelAnnouncedOnce
  <1>12. QueuedExist' /\ InboxComplete' /\ FilesPersisted'
    BY <1>1 DEF RelayInv, QueuedExist, InboxComplete, FilesPersisted
  <1>13. ASSUME NEW k, k = c
         PROVE  AckOK(k)'
    BY <1>1, <1>3, <1>4, <1>13 DEF AckOK
  <1>14. \A k \in acked' : k \in acked \/ AckOK(k)'
    BY <1>1, <1>13
  <1> QED
    BY <1>1, <1>6, <1>7, <1>8, <1>9, <1>10, <1>11, <1>12, <1>14, StepInv

LEMMA SRemInv ==
  ASSUME RelayInv, NEW h \in Handlers, SRem(h)
  PROVE  RelayInv'
  <1> DEFINE c == call[h]
  <1>1. /\ pc[h] = "srem"
        /\ inbox' = [inbox EXCEPT ![c.agent] = @ \ {c.req}]
        /\ UNCHANGED <<store, artifacts, revoked, now, disclosed, cancelEvents>>
    BY DEF SRem
  <1>2. TypeOK /\ LocalInv(h)
    BY DEF RelayInv
  <1>3. c \in SubmitCalls \cup VisitCalls /\ c.agent \in Agents
        /\ c.req \in Requests
    BY <1>1, <1>2, CallFields DEF LocalInv, HandlerOK, CallAt
  <1>4. Grows /\ RecordsOK'
    BY <1>1 DEF Grows, StoreStep, RelayInv, TypeOK, RecordsOK
  <1>5. /\ inbox' \in [Agents -> SUBSET Requests]
        /\ \A a \in Agents : /\ inbox'[a] \subseteq inbox[a]
                             /\ inbox[a] \ {c.req} \subseteq inbox'[a]
    BY <1>1, <1>2, <1>3 DEF TypeOK
  <1>6. QueuedExist' /\ FilesPersisted'
    BY <1>1, <1>5 DEF RelayInv, QueuedExist, FilesPersisted
  <1>7. InboxComplete'
    <2> SUFFICES ASSUME NEW r \in Requests,
                        store[r].status \in {Awaiting, Accepted, Running}
                 PROVE  r \in inbox'[store[r].target]
      BY <1>1 DEF InboxComplete
    <2>1. Terminal(store[c.req].status)
      BY <1>1, <1>2 DEF LocalInv, PruneOK
    <2>2. r # c.req
      BY <2>1 DEF Terminal, TerminalStatus, Awaiting, Accepted, Running,
         Completed, Rejected, Expired, Cancelled, Failed
    <2>3. store[r].target \in Agents
      BY DEF RelayInv, RecordsOK, RecordOK, Absent, Awaiting, Accepted, Running
    <2>4. r \in inbox[store[r].target]
      BY DEF RelayInv, InboxComplete
    <2> QED
      BY <1>5, <2>2, <2>3, <2>4
  <1>8. CASE /\ c.op = "inbox" /\ Goto(h, "item") /\ UNCHANGED <<call, acked>>
             /\ local' = [local EXCEPT ![h] = Unread(0, local[h].todo, {})]
    <2> DEFINE l == Unread(0, local[h].todo, {})
    <2>1. /\ l \in LocalType /\ l.todo = local[h].todo /\ l.made = {}
      <3>1. local[h].todo \in SUBSET Requests
        BY <1>2 DEF TypeOK, LocalType
      <3> QED
        BY <3>1, UnreadType
    <2>2. TypeOK'
      BY <1>1, <1>2, <1>5, <1>8, <2>1 DEF TypeOK, Steps, Goto
    <2>3. /\ pc'[h] = "item" /\ call'[h] = c /\ local'[h] = l
          /\ \A g \in Handlers \ {h} : Still(g)
      BY <1>2, <1>8 DEF TypeOK, Still, Goto
    <2> HIDE DEF l
    <2>4. c \in VisitCalls
      BY <1>3, <1>8, CallFields
    <2>5. HandlerOK(h)'
      BY <1>1, <1>2, <2>1, <2>3, <2>4 DEF LocalInv, HandlerOK, CallAt
    <2>6. ExecOK(h)' /\ PruneOK(h)' /\ SubmittedOK(h)' /\ AttemptOK(h)'
      BY <2>3 DEF ExecOK, PruneOK, SubmittedOK, AttemptOK
    <2>7. MadeOK(h)'
      BY <2>1, <2>3 DEF MadeOK
    <2>8. /\ \A g \in Handlers : Still(g) \/ LocalInv(g)'
          /\ \A g \in Handlers : pc'[g] = "publish" => Still(g)
      BY <2>3, <2>5, <2>6, <2>7 DEF LocalInv
    <2> QED
      BY <1>1, <1>4, <1>6, <1>7, <1>8, <2>2, <2>8, PublishersKeep, StepInv
  <1>9. CASE c.op # "inbox" /\ Return(h) /\ Answer(c)
    <2>1. c \in SubmitCalls /\ c.op = "submit" /\ c \in Calls
      BY <1>3, <1>9, CallFields DEF Calls
    <2>2. acked' = acked \cup {c}
      BY <1>9 DEF Answer
    <2>3. TypeOK'
      BY <1>1, <1>2, <1>5, <1>9, <2>1, <2>2, ReturnMoves DEF TypeOK
    <2>4. ASSUME NEW k, k = c
          PROVE  AckOK(k)'
      BY <1>1, <1>2, <2>1, <2>4 DEF AckOK, LocalInv, SubmittedOK
    <2>5. \A k \in acked' : k \in acked \/ AckOK(k)'
      BY <2>2, <2>4
    <2>6. /\ \A g \in Handlers : Still(g) \/ LocalInv(g)'
          /\ \A g \in Handlers : pc'[g] = "publish" => Still(g)
      BY <1>2, <1>9, ReturnMoves
    <2> QED
      BY <1>1, <1>4, <1>6, <1>7, <2>3, <2>5, <2>6, PublishersKeep, StepInv
  <1> QED
    BY <1>8, <1>9 DEF SRem

LEMMA CreateInv ==
  ASSUME RelayInv, NEW r \in Requests, NEW from \in Agents, NEW to \in Agents,
         NEW life \in Lifetimes, NEW files \in SUBSET Artifacts,
         Create(r, from, to, life, files)
  PROVE  RelayInv'
  <1> DEFINE p == [NoRequest EXCEPT !.status = Awaiting, !.requester = from,
                     !.target = to, !.expiresAt = now + life,
                     !.attachments = files, !.version = 1]
  <1>1. /\ store[r].status = Absent
        /\ \A x \in files : artifacts[x] = None
        /\ store' = [store EXCEPT ![r] = p]
        /\ inbox' = [inbox EXCEPT ![to] = @ \cup {r}]
        /\ artifacts' = [x \in Artifacts |->
             IF x \in files THEN [req |-> r, direction |-> "input"]
                            ELSE artifacts[x]]
        /\ UNCHANGED <<revoked, now, pc, call, local, acked, disclosed,
                       cancelEvents>>
    BY DEF Create, handlerVars, outsideVars
  <1>2. TypeOK
    BY DEF RelayInv
  <1>3. now + life \in Nat
    BY <1>2, RelayConstants DEF TypeOK
  <1>4. /\ p.status = Awaiting /\ p.requester = from /\ p.target = to
        /\ p.version = 1 /\ p.decisionID = None /\ p.decision = None
        /\ p.claim = None /\ p.digest = None /\ p.resultFiles = {}
        /\ p \in storedRequest
    BY <1>3 DEF NoRequest, storedRequest, Status
  <1>5. RecordOK(p)
    BY <1>4, NoneFresh DEF RecordOK, Absent, Awaiting, Accepted, Running
  <1> HIDE DEF p
  <1>6. /\ store'[r] = p /\ \A q \in Requests \ {r} : store'[q] = store[q]
        /\ store' \in [Requests -> storedRequest]
    BY <1>1, <1>2, <1>4 DEF TypeOK
  <1>7. /\ r \in inbox'[to] /\ inbox' \in [Agents -> SUBSET Requests]
        /\ \A a \in Agents : /\ inbox[a] \subseteq inbox'[a]
                             /\ inbox'[a] \subseteq inbox[a] \cup {r}
    BY <1>1, <1>2 DEF TypeOK
  <1>8. /\ artifacts' \in [Artifacts -> storedArtifact \cup {None}]
        /\ \A x \in Artifacts : artifacts[x] # None => artifacts'[x] = artifacts[x]
    <2>1. [req |-> r, direction |-> "input"] \in storedArtifact
      BY DEF storedArtifact
    <2> QED
      BY <1>1, <1>2, <2>1 DEF TypeOK
  <1>9. TypeOK'
    BY <1>1, <1>2, <1>6, <1>7, <1>8 DEF TypeOK
  <1>10. Grows
    BY <1>1, <1>2, <1>4, <1>6, <1>8 DEF Grows, StoreStep, TypeOK
  <1>11. RecordsOK'
    <2>1. \A q \in Requests : RecordOK(store'[q])
      BY <1>5, <1>6 DEF RelayInv, RecordsOK
    <2> QED
      BY <2>1 DEF RecordsOK, RecordOK
  <1>12. QueuedExist'
    <2>1. \A a \in Agents : \A q \in inbox[a] :
            q \in Requests /\ store'[q].status # Absent
      BY <1>2, <1>10, RecordKeeps DEF RelayInv, QueuedExist, TypeOK
    <2>2. store'[r].status # Absent
      BY <1>4, <1>6 DEF Absent, Awaiting
    <2> QED
      BY <1>7, <2>1, <2>2 DEF QueuedExist
  <1>13. InboxComplete'
    <2> SUFFICES ASSUME NEW q \in Requests,
                        store'[q].status \in {Awaiting, Accepted, Running}
                 PROVE  q \in inbox'[store'[q].target]
      BY DEF InboxComplete
    <2>1. CASE q = r
      BY <1>4, <1>6, <1>7, <2>1
    <2>2. CASE q # r
      <3>1. store'[q] = store[q]
        BY <1>6, <2>2
      <3>2. q \in inbox[store[q].target] /\ store[q].target \in Agents
        BY <3>1 DEF RelayInv, InboxComplete, RecordsOK, RecordOK, Absent,
           Awaiting, Accepted, Running
      <3> QED
        BY <1>7, <3>1, <3>2
    <2> QED
      BY <2>1, <2>2
  <1>14. FilesPersisted'
    <2> SUFFICES ASSUME NEW q \in Requests, NEW x \in store'[q].resultFiles
                 PROVE  artifacts'[x] = [req |-> q, direction |-> "result"]
      BY DEF FilesPersisted
    <2>1. q # r /\ x \in store[q].resultFiles
      BY <1>4, <1>6
    <2>2. x \in Artifacts /\ artifacts[x] = [req |-> q, direction |-> "result"]
      BY <1>2, <2>1 DEF RelayInv, FilesPersisted, TypeOK, storedRequest
    <2>3. artifacts[x] # None
      BY <2>2, RelayConstants
    <2> QED
      BY <1>8, <2>2, <2>3
  <1>15. \A g \in Handlers : Still(g)
    BY <1>1 DEF Still
  <1> QED
    BY <1>1, <1>9, <1>10, <1>11, <1>12, <1>13, <1>14, <1>15, PublishersKeep,
       StepInv

(* Revocations and the clock: no record changes. *)
LEMMA RevokeTickInv ==
  ASSUME RelayInv, (\E a \in Agents : Revoke(a)) \/ Tick
  PROVE  RelayInv'
  <1>1. /\ UNCHANGED <<store, inbox, artifacts, pc, call, local, acked,
                       disclosed, cancelEvents>>
        /\ revoked' \in SUBSET Agents /\ now' \in Nat /\ now <= now'
    BY DEF Revoke, Tick, redisVars, handlerVars, outsideVars, RelayInv, TypeOK
  <1>2. Grows /\ TypeOK' /\ RecordsOK'
    BY <1>1 DEF Grows, StoreStep, RelayInv, TypeOK, RecordsOK
  <1>3. QueuedExist' /\ InboxComplete' /\ FilesPersisted'
    BY <1>1 DEF RelayInv, QueuedExist, InboxComplete, FilesPersisted
  <1>4. \A g \in Handlers : Still(g)
    BY <1>1 DEF Still
  <1> QED
    BY <1>1, <1>2, <1>3, <1>4, PublishersKeep, StepInv

LEMMA InitInv == Init => RelayInv
  <1> SUFFICES ASSUME Init
               PROVE  RelayInv
    OBVIOUS
  <1> USE DEF Init
  <1>1. TypeOK
    BY InitialTypes DEF TypeOK, Steps
  <1>2. \A r \in Requests : store[r] = NoRequest
    OBVIOUS
  <1>3. RecordsOK
    BY <1>2 DEF RecordsOK, RecordOK, NoRequest, Absent, Awaiting, Accepted,
       Running
  <1>4. \A h \in Handlers : LocalInv(h) /\ PublishOK(h)
    <2> SUFFICES ASSUME NEW h \in Handlers
                 PROVE  LocalInv(h) /\ PublishOK(h)
      OBVIOUS
    <2>1. pc[h] = "idle" /\ call[h] = NoCall /\ local[h] = NoLocal
      OBVIOUS
    <2>2. NoCall.req = None /\ NoLocal.todo = {} /\ NoLocal.made = {}
      BY CallFields DEF NoLocal, Unread
    <2>3. HandlerOK(h)
      BY <2>1, <2>2 DEF HandlerOK, CallAt
    <2>4. /\ ExecOK(h) /\ AttemptOK(h) /\ MadeOK(h) /\ PruneOK(h)
          /\ SubmittedOK(h) /\ PublishOK(h)
      BY <2>1, <2>2
         DEF ExecOK, AttemptOK, MadeOK, PruneOK, SubmittedOK, PublishOK
    <2> QED
      BY <2>3, <2>4 DEF LocalInv
  <1>5. OnePublisher /\ QueuedExist /\ CancelAnnouncedOnce
    BY DEF OnePublisher, QueuedExist, CancelAnnouncedOnce
  <1>6. OneDecision /\ OneExecution /\ AckedOutcomesStand /\ DisclosureBounded
    BY DEF OneDecision, OneExecution, AckedOutcomesStand, DisclosureBounded
  <1>7. InboxComplete /\ FilesPersisted
    BY <1>2 DEF InboxComplete, FilesPersisted, NoRequest, Absent, Awaiting,
       Accepted, Running
  <1> QED
    BY <1>1, <1>3, <1>4, <1>5, <1>6, <1>7 DEF RelayInv

LEMMA StutterInv ==
  ASSUME RelayInv, UNCHANGED vars
  PROVE  RelayInv'
  <1>1. UNCHANGED <<store, inbox, artifacts, revoked, now, pc, call, local,
                    acked, disclosed, cancelEvents>>
    BY DEF vars, redisVars, handlerVars, outsideVars
  <1>2. Grows /\ TypeOK' /\ RecordsOK'
    BY <1>1 DEF Grows, StoreStep, RelayInv, TypeOK, RecordsOK
  <1>3. QueuedExist' /\ InboxComplete' /\ FilesPersisted'
    BY <1>1 DEF RelayInv, QueuedExist, InboxComplete, FilesPersisted
  <1>4. \A g \in Handlers : Still(g)
    BY <1>1 DEF Still
  <1> QED
    BY <1>1, <1>2, <1>3, <1>4, PublishersKeep, StepInv

LEMMA NextInv ==
  ASSUME RelayInv, Next
  PROVE  RelayInv'
  <1>1. ASSUME NEW h \in Handlers, HandlerStep(h)
        PROVE  RelayInv'
    BY <1>1, PrecheckInv, PersistInv, WatchInv, ExecInv, RetryInv, PublishInv,
       SRemInv, MembersInv, ItemInv, RereadInv, InboxReturnInv,
       FetchArtifactInv DEF HandlerStep
  <1> QED
    BY <1>1, CreateInv, RevokeTickInv, StartInv, AbortInv DEF Next

-----------------------------------------------------------------------------
(***************************************************************************)
(* The theorems.                                                           *)
(***************************************************************************)

(***************************************************************************)
(* The inductive invariant holds in every reachable state: whatever        *)
(* handlers run concurrently, each knows of the record it read only what   *)
(* WATCH guarantees (transitionStoredWatching).                            *)
(***************************************************************************)
THEOREM RelayInvariant == Spec => []RelayInv
  <1>1. RelayInv /\ [Next]_vars => RelayInv'
    BY NextInv, StutterInv
  <1> QED
    BY InitInv, <1>1, PTL DEF Spec

(***************************************************************************)
(* Every variable keeps its type, for any number of handlers and requests. *)
(***************************************************************************)
THEOREM TypeCorrect == Spec => []TypeOK
  <1>1. RelayInv => TypeOK
    BY DEF RelayInv
  <1> QED
    BY RelayInvariant, <1>1, PTL

(***************************************************************************)
(* However many recipients, retries and late duplicates race, the          *)
(* successful answers to Decide agree with the one recorded decision.      *)
(***************************************************************************)
THEOREM DecisionIsUnique == Spec => []OneDecision
  <1>1. RelayInv => OneDecision
    BY DEF RelayInv
  <1> QED
    BY RelayInvariant, <1>1, PTL

(***************************************************************************)
(* At most one execution claim is ever honoured for a request, by          *)
(* MarkRunning or by SubmitResult, and only for an allowed request.        *)
(***************************************************************************)
THEOREM ExecutionIsUnique == Spec => []OneExecution
  <1>1. RelayInv => OneExecution
    BY DEF RelayInv
  <1> QED
    BY RelayInvariant, <1>1, PTL

(***************************************************************************)
(* A result or cancellation the relay acknowledged is never overwritten.   *)
(***************************************************************************)
THEOREM OutcomesAreFinal == Spec => []AckedOutcomesStand
  <1>1. RelayInv => AckedOutcomesStand
    BY DEF RelayInv
  <1> QED
    BY RelayInvariant, <1>1, PTL

(***************************************************************************)
(* peer_cancelled is published at most once, and only after the cancelling *)
(* transaction.                                                            *)
(***************************************************************************)
THEOREM CancellationIsAnnouncedOnce == Spec => []CancelAnnouncedOnce
  <1>1. RelayInv => CancelAnnouncedOnce
    BY DEF RelayInv
  <1> QED
    BY RelayInvariant, <1>1, PTL

(***************************************************************************)
(* Pruning an inbox on the strength of an earlier read never loses a       *)
(* request that still needs its recipient.                                 *)
(***************************************************************************)
THEOREM InboxIsComplete == Spec => []InboxComplete
  <1>1. RelayInv => InboxComplete
    BY DEF RelayInv
  <1> QED
    BY RelayInvariant, <1>1, PTL

(***************************************************************************)
(* Artifact bytes are disclosed only to the recipient of an allowed        *)
(* request and to the requester of a completed one.                        *)
(***************************************************************************)
THEOREM ArtifactsAreGuarded == Spec => []DisclosureBounded
  <1>1. RelayInv => DisclosureBounded
    BY DEF RelayInv
  <1> QED
    BY RelayInvariant, <1>1, PTL

(***************************************************************************)
(* The result files a completed request lists are in the artifact store    *)
(* (SubmitResult persists them before the transition that lists them).     *)
(***************************************************************************)
THEOREM FilesArePersisted == Spec => []FilesPersisted
  <1>1. RelayInv => FilesPersisted
    BY DEF RelayInv
  <1> QED
    BY RelayInvariant, <1>1, PTL

(***************************************************************************)
(* A transition that watches only its request never runs out of attempts.  *)
(***************************************************************************)
THEOREM FiveAttemptsSuffice == Spec => []RetriesSuffice
  <1>1. RelayInv => RetriesSuffice
    <2> SUFFICES ASSUME RelayInv, NEW h \in Handlers, pc[h] = "exec",
                        call[h].op # "decide", ~Unchanged(h)
                 PROVE  local[h].attempt + 1 < MaxAttempts
      BY DEF RetriesSuffice
    <2> QED
      BY StaleVersion DEF MaxAttempts
  <1> QED
    BY RelayInvariant, <1>1, PTL

(* Only CreateRequest and EXEC write request records. *)
LEMMA StoreWriters ==
  ASSUME [Next]_vars
  PROVE  \/ store' = store
         \/ \E r \in Requests, from, to \in Agents, life \in Lifetimes,
              files \in SUBSET Artifacts : Create(r, from, to, life, files)
         \/ \E h \in Handlers : Exec(h)
  <1>1. ASSUME NEW h \in Handlers, HandlerStep(h)
        PROVE  store' = store \/ Exec(h)
    BY <1>1 DEF HandlerStep, Precheck, Persist, Watch, Retry, Publish, SRem,
       Members, Item, Reread, InboxReturn, FetchArtifact, redisVars
  <1>2. ASSUME Next
        PROVE  \/ store' = store
               \/ \E r \in Requests, from, to \in Agents, life \in Lifetimes,
                    files \in SUBSET Artifacts : Create(r, from, to, life, files)
               \/ \E h \in Handlers : Exec(h)
    BY <1>1, <1>2 DEF Next, Revoke, Tick, Start, Abort, redisVars
  <1> QED
    BY <1>2 DEF vars, redisVars

(***************************************************************************)
(* No transaction accepts a request whose requester was revoked before it  *)
(* committed, however late the revocation came.                            *)
(***************************************************************************)
THEOREM RevocationIsRespected == Spec => NoRevokedApproval
  <1>1. ASSUME RelayInv, [Next]_vars, NEW r \in Requests, Accepts(r)
        PROVE  store[r].requester \notin revoked
    <2>1. store' # store
      BY <1>1 DEF Accepts, Awaiting, Accepted
    <2>2. ASSUME NEW q \in Requests, NEW from \in Agents, NEW to \in Agents,
                 NEW life \in Lifetimes, NEW files \in SUBSET Artifacts,
                 Create(q, from, to, life, files)
          PROVE  FALSE
      BY <1>1, <2>2 DEF Accepts, Create, RelayInv, TypeOK, Awaiting, Accepted,
         Absent
    <2>3. ASSUME NEW h \in Handlers, Exec(h)
          PROVE  store[r].requester \notin revoked
      <3> DEFINE c == call[h]
      <3>1. /\ c.req = r /\ store'[r] = local[h].plan /\ c \in TransitionCalls
            /\ Planned(store[r], local[h].plan, c, local[h].seenRevoked,
                       local[h].made)
        <4>1. c.req = r
          BY <1>1, <2>3, ExecWrites
             DEF RelayInv, TypeOK, Accepts, Awaiting, Accepted
        <4> QED
          BY <1>1, <2>3, <4>1, ExecWrites
      <3>2. PICK t \in 0..now :
              /\ ~Refused(store[r], c, t)
              /\ local[h].plan =
                   [To(store[r], c, t, local[h].seenRevoked, local[h].made)
                      EXCEPT !.version = store[r].version + 1]
        BY <3>1 DEF Planned
      <3>3. store[r] \in storedRequest
        BY <1>1 DEF RelayInv, TypeOK
      <3> DEFINE p == To(store[r], c, t, local[h].seenRevoked, local[h].made)
      <3>4. p \in storedRequest
        <4>1. t \in Nat
          BY <1>1 DEF RelayInv, TypeOK
        <4>2. local[h].seenRevoked \in SUBSET Agents
              /\ local[h].made \in SUBSET Artifacts
          BY <1>1 DEF RelayInv, TypeOK, LocalType
        <4> QED
          BY <3>1, <3>3, <4>1, <4>2, ToType
      <3>5. p.status = Accepted
        <4> HIDE DEF p
        <4>1. local[h].plan.status = p.status
          BY <3>2, <3>4 DEF storedRequest, p
        <4> QED
          BY <1>1, <3>1, <4>1 DEF Accepts
      <3>6. c.op = "decide"
        <4>1. store[r].status = Awaiting
          BY <1>1 DEF Accepts
        <4>2. CASE c.op = "markRunning"
          BY <3>2, <4>1, <4>2
             DEF Refused, MarkRunningRefused, Awaiting, Accepted, Running
        <4>3. CASE c.op = "submit"
          BY <3>2, <4>1, <4>3
             DEF Refused, SubmitResultRefused, Terminal, TerminalStatus,
                 Awaiting, Running, Completed, Rejected, Expired, Cancelled,
                 Failed
        <4>4. CASE c.op = "cancel"
          BY <3>3, <3>5, <4>4 DEF To, CancelTo, storedRequest, Accepted, Cancelled
        <4>5. CASE c.op = "inbox"
          BY <3>3, <3>5, <4>5 DEF To, ExpireTo, storedRequest, Accepted, Expired
        <4> QED
          BY <3>1, <4>2, <4>3, <4>4, <4>5, TransitionCallOps
      <3>7. local[h].seenRevoked = revoked
        BY <2>3, <3>6 DEF Exec, Unchanged
      <3>8. p = DecideTo(store[r], c, t, revoked)
        BY <3>6, <3>7 DEF To
      <3>9. DecidedStatus(store[r], c, t, revoked) = Accepted
        BY <1>1, <3>3, <3>5, <3>8
           DEF DecideTo, storedRequest, Accepts, Awaiting, Accepted
      <3> QED
        BY <3>9 DEF DecidedStatus, Expired, Rejected, Cancelled, Accepted
    <2> QED
      BY <1>1, <2>1, <2>2, <2>3, StoreWriters
  <1>2. RelayInv /\ [Next]_vars
          => [\A r \in Requests :
                Accepts(r) => store[r].requester \notin revoked]_vars
    BY <1>1
  <1> QED
    BY RelayInvariant, <1>2, PTL DEF Spec, NoRevokedApproval

-----------------------------------------------------------------------------
(***************************************************************************)
(* Refinement: seen through cellBar, the relay is the atomic lifecycle.    *)
(***************************************************************************)
MkCell(status, decisionID, decision, claim, digest) ==
  [status |-> status, decisionID |-> decisionID, decision |-> decision,
   claim |-> claim, digest |-> digest]

CellOf(s) == MkCell(s.status, s.decisionID, s.decision, s.claim, s.digest)

(* One record is written: one cell moves. *)
LEMMA CellMoves ==
  ASSUME NEW r \in Requests, NEW p,
         store \in [Requests -> storedRequest],
         store' = [store EXCEPT ![r] = p]
  PROVE  /\ cellBar' = [cellBar EXCEPT ![r] = CellOf(p)]
         /\ cellBar[r] = CellOf(store[r])
  BY DEF cellBar, CellOf, MkCell

LEMMA CreateRefines ==
  ASSUME RelayInv, NEW r \in Requests, NEW from \in Agents, NEW to \in Agents,
         NEW life \in Lifetimes, NEW files \in SUBSET Artifacts,
         Create(r, from, to, life, files)
  PROVE  L!Next
  <1> DEFINE p == [NoRequest EXCEPT !.status = Awaiting, !.requester = from,
                     !.target = to, !.expiresAt = now + life,
                     !.attachments = files, !.version = 1]
  <1>1. store[r].status = Absent /\ store' = [store EXCEPT ![r] = p]
        /\ store \in [Requests -> storedRequest]
    BY DEF Create, RelayInv, TypeOK
  <1>2. CellOf(p) = [L!NoCell EXCEPT !.status = L!Awaiting]
    BY DEF CellOf, MkCell, NoRequest, L!NoCell, L!Awaiting, Awaiting
  <1> HIDE DEF p
  <1>3. cellBar' = [cellBar EXCEPT ![r] = CellOf(p)]
        /\ cellBar[r] = CellOf(store[r])
    BY <1>1, CellMoves
  <1>4. cellBar[r].status = L!Absent
    BY <1>1, <1>3 DEF CellOf, MkCell, L!Absent, Absent
  <1>5. L!Create(r)
    BY <1>2, <1>3, <1>4 DEF L!Create
  <1> QED
    BY <1>5 DEF L!Next

(* What each endpoint's update does to the cell of the record it replaces. *)
LEMMA ExecRefines ==
  ASSUME RelayInv, NEW h \in Handlers, Exec(h)
  PROVE  L!Next
  <1> DEFINE c == call[h]
             s == store[c.req]
             p == local[h].plan
             R == local[h].seenRevoked
             M == local[h].made
  <1>1. /\ c \in TransitionCalls /\ c.req \in Requests
        /\ store' = [store EXCEPT ![c.req] = p]
        /\ Planned(s, p, c, R, M)
        /\ ~Terminal(s.status)
    BY ExecWrites
  <1>2. /\ store \in [Requests -> storedRequest] /\ s \in storedRequest
        /\ RecordOK(s) /\ now \in Nat /\ local[h] \in LocalType
        /\ s.status # Absent
    BY <1>1, ReqAt DEF RelayInv, TypeOK, RecordsOK, Exec
  <1>3. R \in SUBSET Agents /\ M \in SUBSET Artifacts
    BY <1>2 DEF LocalType
  <1>4. PICK t \in 0..now : /\ ~Refused(s, c, t)
                            /\ p = [To(s, c, t, R, M) EXCEPT
                                      !.version = s.version + 1]
                            /\ To(s, c, t, R, M) # s
    BY <1>1 DEF Planned
  <1> DEFINE q == To(s, c, t, R, M)
  <1>5. q \in storedRequest
    <2>1. t \in Nat
      BY <1>2, <1>4
    <2> QED
      BY <1>1, <1>2, <1>3, <2>1, ToType
  <1>6. CellOf(p) = CellOf(q)
    <2> HIDE DEF q
    <2> QED
      BY <1>4, <1>5 DEF CellOf, MkCell, storedRequest, q
  <1>7. /\ cellBar' = [cellBar EXCEPT ![c.req] = CellOf(q)]
        /\ cellBar[c.req] = CellOf(s)
    <2>1. /\ cellBar' = [cellBar EXCEPT ![c.req] = CellOf(p)]
          /\ cellBar[c.req] = CellOf(s)
      BY <1>1, <1>2, CellMoves
    <2> HIDE DEF p, q, s, c
    <2> QED
      BY <1>6, <2>1
  <1>8. s.status \in {Awaiting, Accepted, Running}
    BY <1>1, <1>2, StatusSplit
  <1> HIDE DEF s, p, q, R, M
  <1>9. CASE c.op = "decide"
    <2>1. ~DecideRefused(s, c) /\ q = DecideTo(s, c, t, R) /\ q # s
      BY <1>4, <1>9 DEF Refused, To, q
    <2>2. c.id \in DecisionIDs /\ c.choice \in Decisions
      BY <1>1, <1>9, TransitionCallOps, CallFields
    <2>3. s.decisionID = None /\ s.status = Awaiting
      BY <2>1 DEF DecideRefused, DecideTo
    <2> DEFINE st == DecidedStatus(s, c, t, R)
    <2>4. st \in L!DecideOutcomes(c.choice)
      BY <2>2 DEF DecidedStatus, L!DecideOutcomes, L!Deny, L!Expired,
         L!Rejected, L!Accepted, L!Cancelled, Expired, Rejected, Accepted,
         Cancelled, Deny
    <2>5. CellOf(q) = [CellOf(s) EXCEPT !.decisionID = c.id,
                         !.decision = c.choice, !.status = st]
      <3> HIDE DEF st
      <3>1. q = [s EXCEPT !.decisionID = c.id, !.decision = c.choice,
                          !.status = st]
        BY <2>1, <2>3 DEF DecideTo, st
      <3>2. /\ q.status = st /\ q.decisionID = c.id /\ q.decision = c.choice
            /\ q.claim = s.claim /\ q.digest = s.digest
        BY <1>2, <3>1 DEF storedRequest
      <3> DEFINE w == CellOf(s)
                 w1 == MkCell(s.status, c.id, s.decision, s.claim, s.digest)
                 w2 == MkCell(s.status, c.id, c.choice, s.claim, s.digest)
      <3>3. /\ [w EXCEPT !.decisionID = c.id] = w1
            /\ [w1 EXCEPT !.decision = c.choice] = w2
            /\ [w2 EXCEPT !.status = st] = CellOf(q)
        BY <3>2 DEF CellOf, MkCell
      <3> HIDE DEF w, w1, w2
      <3>4. [w EXCEPT !.decisionID = c.id, !.decision = c.choice, !.status = st]
              = [[[w EXCEPT !.decisionID = c.id] EXCEPT !.decision = c.choice]
                   EXCEPT !.status = st]
        OBVIOUS
      <3> QED
        BY <3>3, <3>4 DEF w
    <2>6. cellBar[c.req].status = L!Awaiting /\ cellBar[c.req].decisionID = None
      BY <1>7, <2>3 DEF CellOf, MkCell, L!Awaiting, Awaiting
    <2>7. L!Decide(c.req, c.id, c.choice)
      <3> HIDE DEF st, c
      <3> QED
        BY <1>7, <2>4, <2>5, <2>6 DEF L!Decide
    <2> QED
      BY <1>1, <2>2, <2>7 DEF L!Next, L!Decisions, Decisions, L!Allow, L!Deny,
         Allow, Deny
  <1>10. CASE c.op = "markRunning"
    <2>1. q = MarkRunningTo(s, c) /\ q # s
      BY <1>4, <1>10 DEF To, q
    <2>2. c.id \in Claims
      BY <1>1, <1>10, TransitionCallOps, CallFields
    <2>3. s.status = Accepted
      BY <2>1 DEF MarkRunningTo
    <2>4. CellOf(q) = [CellOf(s) EXCEPT !.status = L!Running, !.claim = c.id]
      <3>1. q = [s EXCEPT !.claim = c.id, !.status = Running]
        BY <2>1, <2>3 DEF MarkRunningTo
      <3>2. /\ q.status = Running /\ q.claim = c.id
            /\ q.decisionID = s.decisionID /\ q.decision = s.decision
            /\ q.digest = s.digest
        BY <1>2, <3>1 DEF storedRequest
      <3>3. L!Running = Running
        BY DEF L!Running, Running
      <3> DEFINE w == CellOf(s)
                 w1 == MkCell(L!Running, s.decisionID, s.decision, s.claim,
                              s.digest)
      <3>4. /\ [w EXCEPT !.status = L!Running] = w1
            /\ [w1 EXCEPT !.claim = c.id] = CellOf(q)
        BY <3>2, <3>3 DEF CellOf, MkCell
      <3> HIDE DEF w, w1
      <3>5. [w EXCEPT !.status = L!Running, !.claim = c.id]
              = [[w EXCEPT !.status = L!Running] EXCEPT !.claim = c.id]
        OBVIOUS
      <3> QED
        BY <3>4, <3>5 DEF w
    <2>5. cellBar[c.req].status = L!Accepted /\ cellBar[c.req].claim = None
      BY <1>2, <1>7, <2>3 DEF CellOf, MkCell, L!Accepted, Accepted, RecordOK
    <2>6. L!Claim(c.req, c.id)
      BY <1>7, <2>4, <2>5 DEF L!Claim
    <2> QED
      BY <1>1, <2>2, <2>6 DEF L!Next
  <1>11. CASE c.op = "submit"
    <2>1. ~SubmitResultRefused(s, c) /\ q = SubmitResultTo(s, c, M) /\ q # s
      BY <1>4, <1>11 DEF Refused, To, q
    <2>2. c \in SubmitCalls
      BY <1>1, <1>11, TransitionCallOps
    <2>3. ~Terminal(s.status)
      BY <1>1 DEF s
    <2>4. s.status = Running /\ s.claim = c.id
      BY <2>1, <2>3 DEF SubmitResultRefused, executionClaimMatches
    <2> DEFINE dg == digestResult(c)
    <2>5. dg \in L!Digests /\ dg[1] = c.id /\ dg[2] = c.choice
      BY <2>2, CallFields DEF digestResult, L!Digests, L!ResultStates,
         L!Completed, L!Failed, L!Cancelled, ResultStates, Completed, Failed,
         Cancelled
    <2> HIDE DEF dg
    <2>6. CellOf(q) = [CellOf(s) EXCEPT !.status = dg[2], !.digest = dg]
      <3>1. q = [s EXCEPT !.status = c.choice, !.digest = dg,
                          !.resultFiles = M]
        BY <2>1, <2>3 DEF SubmitResultTo, dg
      <3>2. /\ q.status = c.choice /\ q.digest = dg /\ q.claim = s.claim
            /\ q.decisionID = s.decisionID /\ q.decision = s.decision
        BY <1>2, <3>1 DEF storedRequest
      <3> DEFINE w == CellOf(s)
                 w1 == MkCell(dg[2], s.decisionID, s.decision, s.claim, s.digest)
      <3>3. /\ [w EXCEPT !.status = dg[2]] = w1
            /\ [w1 EXCEPT !.digest = dg] = CellOf(q)
        BY <2>5, <3>2 DEF CellOf, MkCell
      <3> HIDE DEF w, w1
      <3>4. [w EXCEPT !.status = dg[2], !.digest = dg]
              = [[w EXCEPT !.status = dg[2]] EXCEPT !.digest = dg]
        OBVIOUS
      <3> QED
        BY <3>3, <3>4 DEF w
    <2>7. cellBar[c.req].status = L!Running /\ cellBar[c.req].claim = dg[1]
      BY <1>7, <2>4, <2>5 DEF CellOf, MkCell, L!Running, Running
    <2>8. L!Report(c.req, dg)
      BY <1>7, <2>6, <2>7 DEF L!Report
    <2> QED
      BY <1>1, <2>5, <2>8 DEF L!Next
  <1>12. CASE c.op = "cancel"
    <2>1. q = CancelTo(s, c)
      BY <1>12 DEF To, q
    <2>2. CellOf(q) = [CellOf(s) EXCEPT !.status = L!Cancelled]
      BY <1>2, <2>1 DEF CancelTo, CellOf, MkCell, storedRequest, L!Cancelled, Cancelled
    <2>3. cellBar[c.req].status \in {L!Awaiting, L!Accepted, L!Running}
      BY <1>7, <1>8 DEF CellOf, MkCell, L!Awaiting, L!Accepted, L!Running, Awaiting,
         Accepted, Running
    <2>4. L!Cancel(c.req)
      BY <1>7, <2>2, <2>3 DEF L!Cancel
    <2> QED
      BY <1>1, <2>4 DEF L!Next
  <1>13. CASE c.op = "inbox"
    <2>1. ~ExpireRefused(s, c, t) /\ q = ExpireTo(s, c)
      BY <1>4, <1>13 DEF Refused, To, q
    <2>2. CellOf(q) = [CellOf(s) EXCEPT !.status = L!Expired]
      BY <1>2, <2>1 DEF ExpireTo, CellOf, MkCell, storedRequest, L!Expired, Expired
    <2>3. cellBar[c.req].status = L!Awaiting
      BY <1>7, <2>1 DEF ExpireRefused, CellOf, MkCell, L!Awaiting, Awaiting
    <2>4. L!Expire(c.req)
      BY <1>7, <2>2, <2>3 DEF L!Expire
    <2> QED
      BY <1>1, <2>4 DEF L!Next
  <1> QED
    BY <1>1, <1>9, <1>10, <1>11, <1>12, <1>13, TransitionCallOps

(***************************************************************************)
(* The relay, handlers, transactions, retries and all, implements the      *)
(* atomic request lifecycle.                                               *)
(***************************************************************************)
THEOREM RelayImplementsLifecycle == Spec => RefinesLifecycle
  <1>1. Init => L!Init
    BY DEF Init, L!Init, cellBar, L!NoCell, NoRequest, L!Absent, Absent
  <1>2. RelayInv /\ [Next]_vars => [L!Next]_cellBar
    <2> SUFFICES ASSUME RelayInv, [Next]_vars
                 PROVE  [L!Next]_cellBar
      OBVIOUS
    <2>1. CASE store' = store
      BY <2>1 DEF cellBar
    <2> QED
      BY <2>1, StoreWriters, CreateRefines, ExecRefines
  <1> QED
    BY RelayInvariant, <1>1, <1>2, PTL DEF Spec, L!Spec, RefinesLifecycle
=============================================================================
