------------------------------ MODULE Receiver ------------------------------
(***************************************************************************)
(* The recipient's daemon (internal/receiver/service.go) and its two files *)
(* on disk, the mutation journal and the pending notices, running against  *)
(* a relay whose endpoints are the atomic ones of RequestTransitions (what *)
(* RelayRequests is shown to implement).                                   *)
(*                                                                         *)
(* Inside the daemon three goroutines handle requests: the local user's    *)
(* clicks ("user"), the event stream ("events") and the periodic or        *)
(* startup reconciliation ("reconcile"); each approved request has an      *)
(* execution goroutine of its own.  approvalDecisionMu (lock) is held      *)
(* across relay calls, but not by the execution goroutines and not by the  *)
(* handling of peer_cancelled.                                             *)
(*                                                                         *)
(* A relay call is a message: the relay may act on it at any later time,   *)
(* even after its caller timed out or crashed; it, or its answer, may be   *)
(* lost.  A crash loses everything but the disk and the messages.          *)
(*                                                                         *)
(* The model covers Allow once and Deny; standing grants are left out, and *)
(* so is the relay's retention limit (a 404 for an aged-out request).      *)
(***************************************************************************)
EXTENDS RequestTransitions, Sequences, FiniteSets

CONSTANTS
  Requests,       \* requests addressed to this recipient
  Authorities,    \* possible approval authorities (enrolment, policy...)
  Bodies,         \* possible answers of the runtime
  MaxTime,        \* 1 if the requests' deadline may pass, 0 if not
  MaxIDs,         \* bound on the decisions the daemon prepares
  MaxFaults,      \* bound on lost or timed-out calls
  MaxTotal,       \* bound on decisions and faults together
  MaxCrashes      \* bound on crashes

ASSUME ReceiverConstants ==
  /\ MaxTime \in 0..1
  /\ MaxIDs \in Nat /\ MaxFaults \in Nat /\ MaxCrashes \in Nat /\ MaxTotal \in Nat
  /\ None \notin Requests \cup Authorities \cup Bodies \cup Nat \cup Status

VARIABLES
  (* the relay and the network *)
  relay,          \* relay[r]: the stored request
  now,            \* 1 once the requests' deadline has passed
  net,            \* calls on their way to the relay
  stream,         \* events on their way to the daemon
  (* the recipient's disk *)
  journal,        \* journal[r]: mutation record of r, or None
  pending,        \* pending[r]: status of the pending notice of r, or None
  (* the daemon *)
  daemon,         \* "down", "starting", "up" or "failed" (Run returns)
  authority,      \* the approval authority activated at startup
  lock,           \* the goroutine that holds approvalDecisionMu, or None
  thread,         \* thread[t]: local state of goroutine t
  exec,           \* exec[r]: execution goroutine of r
  reply,          \* reply[p]: answer to p's outstanding call, or None
  (* bounds and history *)
  issued, faults, crashes,
  runs,           \* runs[r]: how often the runtime was started for r
  outcome         \* outcome[r]: what the last run produced, or None

relayVars   == <<relay, now, net, stream>>
diskVars    == <<journal, pending>>
processVars == <<daemon, authority, lock, thread, exec, reply>>
historyVars == <<issued, faults, crashes, runs, outcome>>
vars        == <<relayVars, diskVars, processVars, historyVars>>

-----------------------------------------------------------------------------
Threads == {"user", "events", "reconcile"}
Callers == Threads \cup Requests     \* request r stands for its execution

(* Phases of a mutation record. *)
DecisionPrepared == "decision_prepared"
ClaimPrepared    == "claim_prepared"
RuntimeStarted   == "runtime_started"
ResultPrepared   == "result_prepared"

(* The decision identity and the execution claim of an operation are both  *)
(* random; one number stands for the pair.  A Deny has no authority.       *)
mutationRecord ==
  [id : 1..MaxIDs, decision : Decisions, auth : Authorities \cup {None},
   phase : {DecisionPrepared, ClaimPrepared, RuntimeStarted, ResultPrepared},
   result : ResultStates \X Bodies \cup {None}]

(* A goroutine is no request's execution, and an absent record or result   *)
(* is not one.                                                             *)
ASSUME ReceiverValues ==
  /\ IsFiniteSet(Requests)
  /\ Requests \cap Threads = {}
  /\ None \notin mutationRecord
  /\ None \notin ResultStates \X Bodies

NoRequest == [status |-> Absent, requester |-> "peer", target |-> "me",
              expiresAt |-> 1, decisionID |-> None, decision |-> None,
              claim |-> None, digest |-> None, resultFiles |-> {}]

Idle   == [pc |-> "idle", req |-> None, status |-> None, op |-> None,
           snap |-> {}, seen |-> {}, left |-> {}]
NoExec == [pc |-> "none", op |-> None, cancelled |-> FALSE]

(* The relay calls of the daemon. *)
DecideCall(r, op) == MkCall("decide", "me", r, op.id, op.decision, None)
RunningCall(r, op) == MkCall("markRunning", "me", r, op.id, None, None)
ResultCall(r, op) == MkCall("submit", "me", r, op.id, op.result[1], op.result[2])

Error == "error"

(* The state's shape: relay records, disk, goroutines and messages.        *)
TypeOK ==
  /\ \A r \in Requests : /\ relay[r].status \in Status
                         /\ journal[r] \in mutationRecord \cup {None}
                         /\ pending[r] \in Status \cup {None}
                         /\ exec[r].op \in mutationRecord \cup {None}
                         /\ runs[r] \in Nat
  /\ now \in 0..MaxTime
  /\ daemon \in {"down", "starting", "up", "failed"}
  /\ authority \in Authorities
  /\ lock \in Threads \cup {None}
  /\ \A t \in Threads : thread[t].op \in mutationRecord \cup {None}
  /\ \A p \in Callers : reply[p] \in Status \cup {None, Error}
  /\ issued \in 0..MaxIDs /\ faults \in 0..MaxFaults
  /\ crashes \in 0..MaxCrashes

-----------------------------------------------------------------------------
Init ==
  /\ relay = [r \in Requests |-> NoRequest]
  /\ now = 0
  /\ net = {}
  /\ stream = <<>>
  /\ journal = [r \in Requests |-> None]
  /\ pending = [r \in Requests |-> None]
  /\ daemon = "up"
  /\ authority \in Authorities
  /\ lock = None
  /\ thread = [t \in Threads |-> Idle]
  /\ exec = [r \in Requests |-> NoExec]
  /\ reply = [p \in Callers |-> None]
  /\ issued = 0 /\ faults = 0 /\ crashes = 0
  /\ runs = [r \in Requests |-> 0]
  /\ outcome = [r \in Requests |-> None]

WithinTotal == issued + faults < MaxTotal

Alive == daemon \in {"starting", "up"}

-----------------------------------------------------------------------------
(***************************************************************************)
(* The relay and the network.                                              *)
(***************************************************************************)
Emit(e) == stream' = IF daemon = "up" THEN Append(stream, e) ELSE stream

Create(r) ==
  /\ relay[r].status = Absent
  /\ relay' = [relay EXCEPT ![r].status = Awaiting]
  /\ Emit(<<"peer_request", r, Awaiting>>)
  /\ UNCHANGED <<now, net, diskVars, processVars, historyVars>>

(* The requester cancels. *)
Cancel(r) ==
  /\ relay[r].status \in {Awaiting, Accepted, Running}
  /\ relay' = [relay EXCEPT ![r].status = Cancelled]
  /\ Emit(<<"peer_cancelled", r, Cancelled>>)
  /\ UNCHANGED <<now, net, diskVars, processVars, historyVars>>

Deadline ==
  /\ now < MaxTime
  /\ now' = 1
  /\ UNCHANGED <<relay, net, stream, diskVars, processVars, historyVars>>

Send(p, c) ==
  /\ net' = net \cup {[call |-> c, to |-> p, live |-> TRUE]}
  /\ reply' = [reply EXCEPT ![p] = None]

(* The relay serves a call; only a caller still waiting gets the answer. *)
Serve(m) ==
  LET c == m.call
      s == relay[c.req]
      to == To(s, c, now, {}, {})
      refused == Refused(s, c, now)
  IN
  /\ net' = net \ {m}
  /\ relay' = IF refused THEN relay ELSE [relay EXCEPT ![c.req] = to]
  /\ reply' = IF ~m.live THEN reply
              ELSE [reply EXCEPT ![m.to] = IF refused THEN Error ELSE to.status]
  /\ UNCHANGED <<now, stream, diskVars, daemon, authority, lock, thread, exec,
                 historyVars>>

(* A call is lost, or its caller gives up while it is still on its way. *)
Lose(m) ==
  /\ m.live
  /\ faults < MaxFaults /\ WithinTotal
  /\ faults' = faults + 1
  /\ net' \in {net \ {m}, (net \ {m}) \cup {[m EXCEPT !.live = FALSE]}}
  /\ reply' = [reply EXCEPT ![m.to] = Error]
  /\ UNCHANGED <<relay, now, stream, diskVars, daemon, authority, lock, thread,
                 exec, issued, crashes, runs, outcome>>

-----------------------------------------------------------------------------
(***************************************************************************)
(* Crash, restart, and the end of Run.                                     *)
(***************************************************************************)
LoseMemory ==
  /\ daemon' = "down"
  /\ lock' = None
  /\ thread' = [t \in Threads |-> Idle]
  /\ exec' = [r \in Requests |-> NoExec]
  /\ reply' = [p \in Callers |-> None]
  /\ stream' = <<>>
  /\ net' = {[m EXCEPT !.live = FALSE] : m \in net}
  /\ UNCHANGED <<relay, now, diskVars, authority, issued, faults, runs, outcome>>

Crash ==
  /\ daemon # "down"
  /\ crashes < MaxCrashes
  /\ crashes' = crashes + 1
  /\ LoseMemory

(* Run returned an error: the process ends. *)
Exit ==
  /\ daemon = "failed"
  /\ LoseMemory
  /\ UNCHANGED crashes

(* Startup: heartbeat, activateApprovalAuthority, then reconcile. *)
Restart ==
  /\ daemon = "down"
  /\ daemon' = "starting"
  /\ authority' \in Authorities
  /\ thread' = [thread EXCEPT !["reconcile"].pc = "inbox"]
  /\ UNCHANGED <<relayVars, diskVars, lock, exec, reply, historyVars>>

-----------------------------------------------------------------------------
(***************************************************************************)
(* Ends of a section guarded by approvalDecisionMu.  A reconciliation goes *)
(* on with its next request, or stops at the first error; a startup        *)
(* reconciliation that stops makes Run return.  An event whose handling    *)
(* fails ends the stream.                                                  *)
(***************************************************************************)
Resume(t, ok) ==
  /\ lock' = IF lock = t THEN None ELSE lock
  /\ thread' = [thread EXCEPT ![t] =
                  IF t = "reconcile" /\ ok
                    THEN [thread[t] EXCEPT !.pc = "next", !.op = None,
                                           !.req = None, !.status = None]
                  ELSE IF t = "events" /\ ~ok
                    THEN [Idle EXCEPT !.pc = "broken"]
                    ELSE Idle]
  /\ daemon' = IF t = "reconcile" /\ ~ok /\ daemon = "starting"
                 THEN "failed" ELSE daemon

(* The goroutine takes the lock, sends a call and waits. *)
Ask(t, op, step, c) ==
  /\ lock' = t
  /\ thread' = [thread EXCEPT ![t].pc = step, ![t].op = op]
  /\ Send(t, c)
  /\ UNCHANGED daemon

Forget(r) ==
  /\ journal' = [journal EXCEPT ![r] = None]
  /\ pending' = [pending EXCEPT ![r] = None]

(* Seeded defect: the authority is not compared. *)
StaleNotice(r, op) == pending[r] = None

(* requireCurrentApprovalAuthority, requireCurrentApprovedNotice. *)
Stale(r, op) == op.auth # authority \/ pending[r] = None

Active == {r \in Requests : exec[r].pc # "none"}

cancelExecution(r) ==
  exec' = [exec EXCEPT ![r].cancelled = exec[r].pc # "none"]

startExecution(r) ==
  exec' = [exec EXCEPT ![r] = IF @.pc # "none" THEN @
                              ELSE [NoExec EXCEPT !.pc = "load"]]

-----------------------------------------------------------------------------
(***************************************************************************)
(* The user.  prepareDecision journals a new operation, or reuses an       *)
(* identical one, before the relay is asked.                               *)
(***************************************************************************)
Prepared(r, decision) ==
  [id |-> issued + 1, decision |-> decision,
   auth |-> IF decision = Allow THEN authority ELSE None,
   phase |-> DecisionPrepared, result |-> None]

Reusable(r, decision) ==
  /\ journal[r].decision = decision
  /\ decision = Allow => journal[r].auth = authority

prepareDecision(r, decision, step) ==
  \/ /\ journal[r] = None
     /\ issued < MaxIDs /\ WithinTotal
     /\ issued' = issued + 1
     /\ journal' = [journal EXCEPT ![r] = Prepared(r, decision)]
     /\ thread' = [thread EXCEPT !["user"].pc = step, !["user"].req = r,
                                 !["user"].op = Prepared(r, decision)]
  \/ /\ journal[r] # None
     /\ Reusable(r, decision)
     /\ thread' = [thread EXCEPT !["user"].pc = step, !["user"].req = r,
                                 !["user"].op = journal[r]]
     /\ UNCHANGED <<issued, journal>>

UserFree == Alive /\ thread["user"].pc = "idle" /\ lock = None

(* AllowOnce of an awaiting request; refused while another one executes. *)
AllowOnce(r) ==
  /\ UserFree
  /\ pending[r] = Awaiting
  /\ journal[r] = None => Active = {}
  /\ prepareDecision(r, Allow, "commit")
  /\ lock' = "user"
  /\ UNCHANGED <<relayVars, pending, daemon, authority, exec, reply, faults,
                 crashes, runs, outcome>>

commitAllowOnce ==
  LET u == thread["user"]
  IN
  /\ u.pc = "commit"
  /\ \/ /\ Stale(u.req, u.op)
        /\ Resume("user", FALSE)
        /\ UNCHANGED <<net, reply>>
     \/ /\ ~Stale(u.req, u.op)
        /\ Ask("user", u.op, "decide", DecideCall(u.req, u.op))
  /\ UNCHANGED <<relay, now, stream, diskVars, authority, exec, historyVars>>

(* AllowOnce of a request that is already accepted recovers its operation. *)
AllowAccepted(r) ==
  /\ UserFree
  /\ pending[r] \in {Accepted, Running}
  /\ journal[r] # None
  /\ journal[r].phase \in {DecisionPrepared, ClaimPrepared}
       => journal[r].auth = authority
  /\ thread' = [thread EXCEPT !["user"].pc = "recover", !["user"].req = r,
                              !["user"].status = pending[r]]
  /\ lock' = "user"
  /\ UNCHANGED <<relayVars, diskVars, daemon, authority, exec, reply,
                 historyVars>>

UserDeny(r) ==
  /\ UserFree
  /\ pending[r] = Awaiting
  /\ prepareDecision(r, Deny, "sendDeny")
  /\ lock' = "user"
  /\ UNCHANGED <<relayVars, pending, daemon, authority, exec, reply, faults,
                 crashes, runs, outcome>>

sendDeny ==
  LET u == thread["user"]
  IN
  /\ u.pc = "sendDeny"
  /\ Ask("user", u.op, "deny", DecideCall(u.req, u.op))
  /\ UNCHANGED <<relay, now, stream, diskVars, authority, exec, historyVars>>

DenyReply ==
  LET u == thread["user"]
      st == reply["user"]
  IN
  /\ u.pc = "deny"
  /\ st # None
  /\ \/ /\ st \in {Rejected, Expired, Cancelled}
        /\ Forget(u.req)
        /\ Resume("user", TRUE)
     \/ /\ st \notin {Rejected, Expired, Cancelled}
        /\ Resume("user", FALSE)
        /\ UNCHANGED diskVars
  /\ reply' = [reply EXCEPT !["user"] = None]
  /\ UNCHANGED <<relayVars, authority, exec, historyVars>>

-----------------------------------------------------------------------------
(***************************************************************************)
(* recoverOperationLocked: what reconciliation, an event, or a second      *)
(* Allow makes of the relay status it was told (a snapshot) and of the     *)
(* journal.                                                                *)
(***************************************************************************)
AtRecover(t) == thread[t].pc = "recover" /\ lock \in {None, t}

Quiet(t, ok) == Resume(t, ok) /\ UNCHANGED <<net, reply, exec, diskVars>>

RecoverAwaiting(t) ==
  LET r == thread[t].req
      op == journal[r]
      deferred == op.decision = Allow /\ Active \ {r} # {} /\ r \notin Active
  IN
  /\ AtRecover(t) /\ thread[t].status = Awaiting
  /\ \/ op = None /\ Quiet(t, TRUE)
     \/ op # None /\ op.phase # DecisionPrepared /\ Quiet(t, FALSE)
     \/ /\ op # None /\ op.phase = DecisionPrepared
        /\ \/ deferred /\ Quiet(t, TRUE)
           \/ /\ ~deferred /\ op.decision = Allow /\ Stale(r, op)
              /\ journal' = [journal EXCEPT ![r] = None]
              /\ Resume(t, TRUE)
              /\ UNCHANGED <<net, reply, exec, pending>>
           \/ /\ ~deferred
              /\ op.decision = Allow => ~Stale(r, op)
              /\ Ask(t, op, "decide", DecideCall(r, op))
              /\ UNCHANGED <<exec, diskVars>>
  /\ UNCHANGED <<relay, now, stream, authority, historyVars>>

RecoverCommitted(t) ==
  LET r == thread[t].req
      st == thread[t].status
      op == journal[r]
  IN
  /\ AtRecover(t) /\ st \in {Accepted, Running}
  /\ \/ op = None /\ Quiet(t, TRUE)
     \/ op # None /\ op.phase = RuntimeStarted /\ Quiet(t, TRUE)
     \/ /\ op # None /\ op.phase \in {DecisionPrepared, ClaimPrepared}
        /\ Stale(r, op)
        /\ Quiet(t, TRUE)
     \/ /\ op # None /\ op.phase = DecisionPrepared /\ ~Stale(r, op)
        /\ Ask(t, op, "decide", DecideCall(r, op))
        /\ UNCHANGED <<exec, diskVars>>
     \/ /\ op # None /\ op.phase = ResultPrepared /\ st = Accepted
        /\ Quiet(t, FALSE)
     \/ /\ op # None
        /\ \/ op.phase = ClaimPrepared /\ ~Stale(r, op)
           \/ op.phase = ResultPrepared /\ st = Running
        /\ startExecution(r)
        /\ Resume(t, TRUE)
        /\ UNCHANGED <<net, reply, diskVars>>
  /\ UNCHANGED <<relay, now, stream, authority, historyVars>>

(* A prepared result is replayed if the relay reached its state. *)
Replays(op, st) ==
  /\ op # None
  /\ op.phase = ResultPrepared
  /\ op.result[1] = st

RecoverTerminal(t) ==
  LET r == thread[t].req
      st == thread[t].status
      op == journal[r]
  IN
  /\ AtRecover(t) /\ Terminal(st)
  /\ cancelExecution(r)
  /\ \/ /\ Replays(op, st)
        /\ Ask(t, op, "replay", ResultCall(r, op))
        /\ UNCHANGED diskVars
     \/ /\ ~Replays(op, st)
        /\ Forget(r)
        /\ Resume(t, TRUE)
        /\ UNCHANGED <<net, reply>>
  /\ UNCHANGED <<relay, now, stream, authority, historyVars>>

-----------------------------------------------------------------------------
(***************************************************************************)
(* handleDecisionMutation: the answer to Decide, seen by the goroutine     *)
(* that still holds the lock.                                              *)
(***************************************************************************)
Confirms(r, op) ==
  /\ op.decision = Allow
  /\ ~Stale(r, op)
  /\ journal[r] # None
  /\ journal[r].id = op.id
  /\ journal[r].decision = op.decision

(* The phase the journal holds once an accepted decision is recorded. *)
PhaseOnAccept(op) ==
  IF op.phase = DecisionPrepared THEN ClaimPrepared ELSE op.phase

DecisionAccepted(t) ==
  LET r == thread[t].req
      op == thread[t].op
      st == reply[t]
      phase == PhaseOnAccept(journal[r])
  IN
  /\ st \in {Accepted, Running}
  /\ \/ /\ Confirms(r, op) => phase = ResultPrepared /\ st = Accepted
        /\ Resume(t, FALSE)
        /\ UNCHANGED <<diskVars, exec>>
     \/ /\ Confirms(r, op)
        /\ phase = ResultPrepared => st = Running
        /\ journal' = [journal EXCEPT ![r].phase = phase]
        /\ pending' = [pending EXCEPT ![r] = st]
        /\ IF phase = RuntimeStarted THEN UNCHANGED exec ELSE startExecution(r)
        /\ Resume(t, TRUE)
  /\ UNCHANGED net

DecisionTerminal(t) ==
  LET r == thread[t].req
      op == thread[t].op
      st == reply[t]
  IN
  /\ st \in {Completed, Failed, Cancelled, Expired}
  /\ IF st = Expired THEN UNCHANGED exec ELSE cancelExecution(r)
  /\ \/ /\ Replays(op, st)
        /\ thread' = [thread EXCEPT ![t].pc = "replay"]
        /\ net' = net \cup {[call |-> ResultCall(r, op), to |-> t, live |-> TRUE]}
        /\ UNCHANGED <<lock, daemon, diskVars>>
     \/ /\ ~Replays(op, st)
        /\ Forget(r)
        /\ Resume(t, TRUE)
        /\ UNCHANGED net

(* The call failed, or the status has no case: "rejected" has none. *)
DecisionFailed(t) ==
  /\ reply[t] \in {Error, Rejected}
  /\ Resume(t, FALSE)
  /\ UNCHANGED <<net, diskVars, exec>>

HandleDecision(t) ==
  /\ thread[t].pc = "decide"
  /\ reply[t] # None
  /\ DecisionAccepted(t) \/ DecisionTerminal(t) \/ DecisionFailed(t)
  /\ reply' = [reply EXCEPT ![t] = None]
  /\ UNCHANGED <<relay, now, stream, authority, historyVars>>

(* The end of replayPreparedResult. *)
ReplayReply(t) ==
  LET same == reply[t] = thread[t].op.result[1]
  IN
  /\ thread[t].pc = "replay"
  /\ reply[t] # None
  /\ IF same THEN Forget(thread[t].req) ELSE UNCHANGED diskVars
  /\ Resume(t, same)
  /\ reply' = [reply EXCEPT ![t] = None]
  /\ UNCHANGED <<relay, now, net, stream, authority, exec, historyVars>>

-----------------------------------------------------------------------------
(***************************************************************************)
(* reconcile.  The inbox is a snapshot: the relay expires what is overdue, *)
(* then lists what is not terminal.  The pending store is replaced by it   *)
(* in a later step, and each entry is recovered later still.               *)
(***************************************************************************)
Swept ==
  [r \in Requests |->
     IF ExpireRefused(relay[r], MkCall("expire", "me", r, None, None, None), now)
       THEN relay[r]
       ELSE [relay[r] EXCEPT !.status = Expired]]

Listed == {r \in Requests : Swept[r].status \in {Awaiting, Accepted, Running}}

(* The recipient's event stream opens with the inbox. *)
InboxEvents ==
  CHOOSE q \in [1..Cardinality(Listed) ->
                  {<<"peer_request", r, Swept[r].status>> : r \in Listed}] :
    \A r \in Listed : \E i \in DOMAIN q : q[i][2] = r

(* A call of reconcile that fails. *)
ReconcileFails ==
  /\ faults < MaxFaults /\ WithinTotal
  /\ faults' = faults + 1
  /\ Resume("reconcile", FALSE)
  /\ UNCHANGED <<relayVars, diskVars, authority, exec, reply, issued, crashes,
                 runs, outcome>>

Inbox ==
  /\ \/ thread["reconcile"].pc = "inbox"
     \/ daemon = "up" /\ thread["reconcile"].pc = "idle"
  /\ \/ /\ relay' = Swept
        /\ thread' = [thread EXCEPT !["reconcile"] =
              [Idle EXCEPT !.pc = "replace", !.seen = Listed,
                           !.snap = {<<r, Swept[r].status>> : r \in Listed}]]
        /\ UNCHANGED <<now, net, stream, diskVars, daemon, authority, lock,
                       exec, reply, historyVars>>
     \/ ReconcileFails

Replace ==
  LET me == thread["reconcile"]
  IN
  /\ me.pc = "replace"
  /\ pending' = [r \in Requests |->
                   IF r \in me.seen
                     THEN (CHOOSE n \in me.snap : n[1] = r)[2]
                     ELSE None]
  /\ thread' = [thread EXCEPT !["reconcile"].pc = "next"]
  /\ UNCHANGED <<relayVars, journal, daemon, authority, lock, exec, reply,
                 historyVars>>

(* The next notice of the snapshot. *)
NextNotice ==
  /\ thread["reconcile"].pc = "next"
  /\ \E n \in thread["reconcile"].snap :
       thread' = [thread EXCEPT !["reconcile"] =
                    [@ EXCEPT !.pc = "recover", !.req = n[1], !.status = n[2],
                              !.snap = thread["reconcile"].snap \ {n}]]
  /\ UNCHANGED <<relayVars, diskVars, daemon, authority, lock, exec, reply,
                 historyVars>>

(* Seeded defect: operations missing from the inbox are not looked up. *)
ListNoOperations ==
  LET me == thread["reconcile"]
  IN
  /\ me.pc = "next"
  /\ me.snap = {} /\ me.seen # None
  /\ thread' = [thread EXCEPT !["reconcile"] = [@ EXCEPT !.seen = None]]
  /\ UNCHANGED <<relayVars, diskVars, daemon, authority, lock, exec, reply,
                 historyVars>>

(* After the snapshot, the journaled operations it did not mention. *)
ListOperations ==
  LET me == thread["reconcile"]
  IN
  /\ me.pc = "next"
  /\ me.snap = {} /\ me.seen # None
  /\ thread' = [thread EXCEPT !["reconcile"] =
                  [@ EXCEPT !.seen = None,
                            !.left = {r \in Requests \ me.seen : journal[r] # None}]]
  /\ UNCHANGED <<relayVars, diskVars, daemon, authority, lock, exec, reply,
                 historyVars>>

(* GetRequest of such an operation. *)
NextOperation ==
  LET me == thread["reconcile"]
  IN
  /\ me.pc = "next"
  /\ me.seen = None
  /\ \E r \in me.left :
       \/ /\ thread' = [thread EXCEPT !["reconcile"] =
                          [@ EXCEPT !.pc = "recover", !.req = r,
                                    !.status = relay[r].status,
                                    !.left = me.left \ {r}]]
          /\ UNCHANGED <<relayVars, diskVars, daemon, authority, lock, exec,
                         reply, historyVars>>
       \/ ReconcileFails

(* Reconciled.  At startup the daemon then opens the event stream. *)
Reconciled ==
  LET me == thread["reconcile"]
  IN
  /\ me.pc = "next"
  /\ me.seen = None /\ me.left = {}
  /\ thread' = [thread EXCEPT !["reconcile"] = Idle]
  /\ daemon' = "up"
  /\ \/ daemon = "up" /\ UNCHANGED <<relay, stream>>
     \/ daemon = "starting" /\ relay' = Swept /\ stream' = InboxEvents
  /\ UNCHANGED <<now, net, diskVars, authority, lock, exec, reply, historyVars>>

-----------------------------------------------------------------------------
(***************************************************************************)
(* The event stream.  peer_cancelled is handled without the lock, one file *)
(* after the other.                                                        *)
(***************************************************************************)
AtEvent(kind) ==
  /\ Alive
  /\ thread["events"].pc = "idle"
  /\ stream # <<>>
  /\ Head(stream)[1] = kind

PeerRequest ==
  LET r == Head(stream)[2]
      st == Head(stream)[3]
  IN
  /\ AtEvent("peer_request")
  /\ stream' = Tail(stream)
  /\ pending' = [pending EXCEPT ![r] = st]
  /\ thread' = IF st = Awaiting THEN thread
               ELSE [thread EXCEPT !["events"] =
                       [Idle EXCEPT !.pc = "recover", !.req = r, !.status = st]]
  /\ UNCHANGED <<relay, now, net, journal, daemon, authority, lock, exec, reply,
                 historyVars>>

PeerCancelled ==
  LET r == Head(stream)[2]
  IN
  /\ AtEvent("peer_cancelled")
  /\ stream' = Tail(stream)
  /\ cancelExecution(r)
  /\ thread' = [thread EXCEPT !["events"].pc = "unpend", !["events"].req = r]
  /\ UNCHANGED <<relay, now, net, diskVars, daemon, authority, lock, reply,
                 historyVars>>

RemovePending ==
  /\ thread["events"].pc = "unpend"
  /\ pending' = [pending EXCEPT ![thread["events"].req] = None]
  /\ thread' = [thread EXCEPT !["events"].pc = "unjournal"]
  /\ UNCHANGED <<relayVars, journal, daemon, authority, lock, exec, reply,
                 historyVars>>

RemoveJournal ==
  /\ thread["events"].pc = "unjournal"
  /\ journal' = [journal EXCEPT ![thread["events"].req] = None]
  /\ thread' = [thread EXCEPT !["events"] = Idle]
  /\ UNCHANGED <<relayVars, pending, daemon, authority, lock, exec, reply,
                 historyVars>>

(* The stream breaks, or the handling of an event broke it: what it still *)
(* held is lost, and the new stream opens with the inbox.                 *)
Reconnect ==
  /\ daemon = "up"
  /\ \/ thread["events"].pc = "broken" /\ UNCHANGED faults
     \/ /\ thread["events"].pc = "idle"
        /\ faults < MaxFaults /\ WithinTotal
        /\ faults' = faults + 1
  /\ relay' = Swept
  /\ stream' = InboxEvents
  /\ thread' = [thread EXCEPT !["events"] = Idle]
  /\ UNCHANGED <<now, net, diskVars, daemon, authority, lock, exec, reply,
                 issued, crashes, runs, outcome>>

-----------------------------------------------------------------------------
(***************************************************************************)
(* execute.  A cancelled execution fails at its next relay call.           *)
(***************************************************************************)
At(r, pc) == exec[r].pc = pc

End(r) == exec' = [exec EXCEPT ![r] = NoExec]

Load(r) ==
  LET op == journal[r]
      startable == op # None /\ op.phase = ClaimPrepared /\ ~Stale(r, op)
      prepared == op # None /\ op.phase = ResultPrepared
  IN
  /\ At(r, "load")
  /\ \/ ~startable /\ ~prepared /\ End(r)
     \/ startable /\ exec' = [exec EXCEPT ![r].pc = "fetch", ![r].op = op]
     \/ prepared /\ exec' = [exec EXCEPT ![r].pc = "submit", ![r].op = op]
  /\ UNCHANGED <<relayVars, diskVars, daemon, authority, lock, thread, reply,
                 historyVars>>

(* FetchExecution answers for accepted and running requests only; then     *)
(* MarkRunning is called.                                                  *)
Fetch(r) ==
  /\ At(r, "fetch")
  /\ \/ /\ exec[r].cancelled \/ relay[r].status \notin {Accepted, Running}
        /\ End(r)
        /\ UNCHANGED <<net, reply, faults>>
     \/ /\ faults < MaxFaults /\ WithinTotal
        /\ faults' = faults + 1
        /\ End(r)
        /\ UNCHANGED <<net, reply>>
     \/ /\ ~exec[r].cancelled /\ relay[r].status \in {Accepted, Running}
        /\ exec' = [exec EXCEPT ![r].pc = "marking"]
        /\ Send(r, RunningCall(r, exec[r].op))
        /\ UNCHANGED faults
  /\ UNCHANGED <<relay, now, stream, diskVars, daemon, authority, lock, thread,
                 issued, crashes, runs, outcome>>

(* The at-most-once boundary: runtime_started is on disk before the        *)
(* runtime starts.                                                         *)
MayStart(r, op) ==
  /\ journal[r] # None
  /\ journal[r].id = op.id
  /\ journal[r].phase = ClaimPrepared

(* Seeded defect: the boundary is not written before the runtime starts. *)
BoundaryUnsynced(r) ==
  LET may == reply[r] = Running /\ MayStart(r, exec[r].op)
  IN
  /\ At(r, "marking")
  /\ reply[r] # None
  /\ exec' = [exec EXCEPT ![r] = IF may THEN [@ EXCEPT !.pc = "start"] ELSE NoExec]
  /\ reply' = [reply EXCEPT ![r] = None]
  /\ UNCHANGED <<relayVars, diskVars, daemon, authority, lock, thread,
                 historyVars>>

Boundary(r) ==
  LET may == reply[r] = Running /\ MayStart(r, exec[r].op)
  IN
  /\ At(r, "marking")
  /\ reply[r] # None
  /\ \/ ~may /\ End(r) /\ UNCHANGED diskVars
     \/ /\ may
        /\ exec' = [exec EXCEPT ![r].pc = "start"]
        /\ journal' = [journal EXCEPT ![r].phase = RuntimeStarted]
        /\ pending' = [pending EXCEPT ![r] = IF @ = None THEN None ELSE Running]
  /\ reply' = [reply EXCEPT ![r] = None]
  /\ UNCHANGED <<relayVars, daemon, authority, lock, thread, historyVars>>

StartRuntime(r) ==
  /\ At(r, "start")
  /\ ~exec[r].cancelled
  /\ exec' = [exec EXCEPT ![r].pc = "runtime"]
  /\ runs' = [runs EXCEPT ![r] = @ + 1]
  /\ UNCHANGED <<relayVars, diskVars, daemon, authority, lock, thread, reply,
                 issued, faults, crashes, outcome>>

(* prepareAndSubmitResult: the runtime answered or failed, or attachments  *)
(* or workspaces failed before it started.  The result is journaled first. *)
PrepareResult(r, state, body) ==
  LET mine == /\ journal[r] # None
              /\ journal[r].id = exec[r].op.id
              /\ journal[r].phase = RuntimeStarted
  IN
  /\ At(r, "runtime") \/ (At(r, "start") /\ state = Failed)
  /\ \/ ~mine /\ End(r) /\ UNCHANGED <<journal, outcome>>
     \/ /\ mine
        /\ journal' = [journal EXCEPT ![r].phase = ResultPrepared,
                                      ![r].result = <<state, body>>]
        /\ exec' = [exec EXCEPT ![r].pc = "submit", ![r].op = journal'[r]]
        /\ outcome' = [outcome EXCEPT ![r] = <<state, body>>]
  /\ UNCHANGED <<relayVars, pending, daemon, authority, lock, thread, reply,
                 issued, faults, crashes, runs>>

SubmitPrepared(r) ==
  /\ At(r, "submit")
  /\ ~exec[r].cancelled
  /\ exec' = [exec EXCEPT ![r].pc = "submitting"]
  /\ Send(r, ResultCall(r, exec[r].op))
  /\ UNCHANGED <<relay, now, stream, diskVars, daemon, authority, lock, thread,
                 historyVars>>

(* Seeded defect: the record goes even if the submission failed. *)
SubmittedForgetting(r) ==
  /\ At(r, "submitting")
  /\ reply[r] # None
  /\ Forget(r)
  /\ End(r)
  /\ reply' = [reply EXCEPT ![r] = None]
  /\ UNCHANGED <<relayVars, daemon, authority, lock, thread, historyVars>>

Submitted(r) ==
  /\ At(r, "submitting")
  /\ reply[r] # None
  /\ IF reply[r] = exec[r].op.result[1] THEN Forget(r) ELSE UNCHANGED diskVars
  /\ End(r)
  /\ reply' = [reply EXCEPT ![r] = None]
  /\ UNCHANGED <<relayVars, daemon, authority, lock, thread, historyVars>>

(* The context is cancelled: the runtime is stopped, or the pending call   *)
(* abandoned (the relay may still serve it).                               *)
Abandon(r) ==
  /\ exec[r].cancelled
  /\ exec[r].pc \in {"start", "runtime", "submit", "marking", "submitting"}
  /\ End(r)
  /\ net' = {IF m.to = r THEN [m EXCEPT !.live = FALSE] ELSE m : m \in net}
  /\ reply' = [reply EXCEPT ![r] = None]
  /\ UNCHANGED <<relay, now, stream, diskVars, daemon, authority, lock, thread,
                 historyVars>>

-----------------------------------------------------------------------------
Recover(t) == RecoverAwaiting(t) \/ RecoverCommitted(t) \/ RecoverTerminal(t)

Call(t) == HandleDecision(t) \/ ReplayReply(t)

UserStep == commitAllowOnce \/ sendDeny \/ DenyReply

ReconcileStep ==
  \/ Inbox \/ Replace \/ NextNotice \/ ListOperations \/ NextOperation
  \/ Reconciled

EventStep == PeerRequest \/ PeerCancelled \/ RemovePending \/ RemoveJournal

ExecStep(r) ==
  \/ Load(r) \/ Fetch(r) \/ Boundary(r) \/ StartRuntime(r)
  \/ SubmitPrepared(r) \/ Submitted(r) \/ Abandon(r)
  \/ \E state \in {Completed, Failed}, body \in Bodies :
       PrepareResult(r, state, body)

Next ==
  \/ \E r \in Requests : Create(r) \/ Cancel(r)
  \/ Deadline
  \/ \E m \in net : Serve(m) \/ Lose(m)
  \/ Crash \/ Exit \/ Restart \/ Reconnect
  \/ \E r \in Requests : AllowOnce(r) \/ AllowAccepted(r) \/ UserDeny(r)
  \/ UserStep \/ ReconcileStep \/ EventStep
  \/ \E t \in Threads : Recover(t) \/ Call(t)
  \/ \E r \in Requests : ExecStep(r)

Spec == Init /\ [][Next]_vars

(***************************************************************************)
(* Fairness: every goroutine runs, the process supervisor restarts the     *)
(* daemon, heartbeatLoop reconciles at every tick, a call the caller still *)
(* waits for is answered or times out, the runtime is bounded by its       *)
(* timeout.  The mutex hands over to a waiting goroutine after a           *)
(* millisecond (sync.Mutex starvation mode), hence strong fairness, which  *)
(* only reconciliation needs.  Users, requesters, crashes and faults owe   *)
(* nothing.                                                                *)
(***************************************************************************)
Goroutine(t) ==
  \/ Recover(t) \/ Call(t)
  \/ t = "user" /\ UserStep
  \/ t = "reconcile" /\ ReconcileStep
  \/ t = "events" /\ EventStep
  \/ t = "events" /\ thread[t].pc = "broken" /\ Reconnect

Fairness ==
  /\ WF_vars(Exit \/ Restart)
  /\ WF_vars(\E m \in net : m.live /\ Serve(m))
  /\ SF_vars(Goroutine("reconcile"))
  /\ \A t \in Threads \ {"reconcile"} : WF_vars(Goroutine(t))
  /\ \A r \in Requests : WF_vars(ExecStep(r))

FairSpec == Spec /\ Fairness

-----------------------------------------------------------------------------
(***************************************************************************)
(* Correctness.                                                            *)
(***************************************************************************)
(* The runtime is started at most once for a request, across crashes,      *)
(* restarts and retries: execute's runtime_started boundary ("a receiver   *)
(* restart must never spawn the runtime again").                           *)
AtMostOnce == \A r \in Requests : runs[r] <= 1

(* What ran was allowed, under the authority that is now active, and was   *)
(* claimed at the relay: the runtime of r runs only for the very operation *)
(* the relay recorded as decision and as execution claim.                  *)
RunsAreApproved ==
  \A r \in Requests :
    exec[r].pc \in {"start", "runtime"} =>
      /\ exec[r].op.decision = Allow
      /\ exec[r].op.auth = authority
      /\ relay[r].decision = Allow
      /\ relay[r].decisionID = exec[r].op.id
      /\ relay[r].claim = exec[r].op.id

(* The relay's result is what the one run produced (replayPreparedResult   *)
(* submits the journaled payload, never a new one).                        *)
ResultIsTheRuns ==
  \A r \in Requests :
    relay[r].digest # None =>
      /\ outcome[r] # None
      /\ <<relay[r].digest[2], relay[r].digest[3]>> = outcome[r]
      /\ relay[r].status = outcome[r][1]

(* A result the runtime produced is on disk until the relay has reached a  *)
(* final state: no crash, cancellation or stale reconciliation drops it.   *)
ResultsAreKept ==
  \A r \in Requests :
    outcome[r] # None /\ ~Terminal(relay[r].status) =>
      /\ journal[r] # None
      /\ journal[r].phase = ResultPrepared
      /\ journal[r].result = outcome[r]

(* What the daemon committed at the relay it can still account for: an     *)
(* accepted request past the boundary keeps its record, so a restart can   *)
(* tell that its runtime may have started.                                 *)
StartsAreRemembered ==
  \A r \in Requests :
    runs[r] > 0 /\ ~Terminal(relay[r].status) =>
      journal[r] # None /\ journal[r].phase \in {RuntimeStarted, ResultPrepared}

(* The runtime starts at most once, and a restart can tell that it may have *)
(* started.                                                                *)
StartsOnce == TypeOK /\ AtMostOnce /\ StartsAreRemembered

(* The result of the one run is kept until the relay has it, and is the one *)
(* the relay gets.                                                         *)
ResultsSound == ResultIsTheRuns /\ ResultsAreKept

(* An Allow the relay holds was given under another enrolment or policy    *)
(* than the active one: every reconciliation refuses it and leaves it      *)
(* alone ("durable approval authority changed; refusing runtime recovery", *)
(* "manual resolution required").                                          *)
ManualResolution(r) ==
  /\ journal[r] # None
  /\ journal[r].phase \in {DecisionPrepared, ClaimPrepared}
  /\ journal[r].auth # authority
  /\ relay[r].status \in {Accepted, Running}

(* Reconciliation settles every journaled operation: its record goes away, *)
(* unless its runtime may have started before a crash, or the approval     *)
(* belongs to another authority, both of which the daemon logs and leaves  *)
(* to its user (heartbeatLoop and Run's startup reconciliation).           *)
OperationsSettle ==
  \A r \in Requests :
    (journal[r] # None) ~>
      \/ journal[r] = None \/ journal[r].phase = RuntimeStarted
      \/ ManualResolution(r)

(* Reconciliation discards a prepared Allow because "no relay decision     *)
(* committed" (recoverOperationLocked): at that moment the relay does not  *)
(* hold the decision that is discarded.                                    *)
DiscardIsSafe ==
  [][\A t \in Threads, r \in Requests :
       /\ thread[t].req = r /\ RecoverAwaiting(t)
       /\ journal[r] # None /\ journal'[r] = None
       => relay[r].decisionID # journal[r].id]_vars

(* Startup reconciliation retries a prepared decision: once the relay has  *)
(* answered the retry with a status, Run goes on.                          *)
RetriedDecisionsPass ==
  [][thread["reconcile"].pc = "decide"
       /\ reply["reconcile"] \notin {None, Error}
     => daemon' # "failed"]_vars
=============================================================================
