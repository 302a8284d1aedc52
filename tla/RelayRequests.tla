---------------------------- MODULE RelayRequests ----------------------------
(***************************************************************************)
(* The relay's request store (internal/collaboration/store.go) and the     *)
(* HTTP handlers that call it, as the server really runs them: any number  *)
(* of handler goroutines, each a sequence of Redis round trips, sharing    *)
(* one Redis.  A read-modify-write is two steps:                           *)
(*                                                                         *)
(*   watch  WATCH the keys, GET the record, run the endpoint's update;     *)
(*   exec   MULTI/EXEC the new record, which Redis refuses if a watched    *)
(*          key changed in between; the handler then starts over, five     *)
(*          attempts in all (transitionStoredWatching).                    *)
(*                                                                         *)
(* Every write of a request bumps its Version and the tombstones only      *)
(* grow, so "no watched key changed" is equality with what was read.  A    *)
(* handler may stop between any two steps (a dropped connection cancels    *)
(* its context, the process restarts): Abort.                              *)
(*                                                                         *)
(* Key retention (seven days) is longer than any request's deadline and is *)
(* not modelled here: a stored request stays stored.                       *)
(***************************************************************************)
EXTENDS RequestTransitions, FiniteSets

CONSTANTS
  Requests,       \* request identities (random in the code: never reused)
  Agents,         \* enrolled devices
  DecisionIDs,    \* decision identities recipients generate
  Claims,         \* execution claims recipients generate
  Bodies,         \* contents of results
  FileBodies,     \* the contents that carry a result file
  Artifacts,      \* artifact identities (random in the code: never reused)
  Handlers,       \* concurrently running HTTP handlers
  Lifetimes,      \* values of expires_in_seconds
  MaxTime         \* bound on the clock

ASSUME RelayConstants ==
  /\ Lifetimes \subseteq Nat
  /\ MaxTime \in Nat
  /\ FileBodies \subseteq Bodies
  /\ None \notin DecisionIDs \cup Claims \cup Bodies \cup Agents \cup Requests
                 \cup Decisions \cup Status \cup Artifacts
  /\ None \notin Claims \X ResultStates \X Bodies
  /\ None \notin [req : Requests, direction : {"input", "result"}]

VARIABLES
  (* Redis *)
  store,          \* store[r]: the stored request, of status Absent if none
  inbox,          \* inbox[a]: the set of request IDs queued for agent a
  artifacts,      \* artifacts[x]: what artifact x belongs to, or None
  revoked,        \* tombstones of revoked agents
  now,            \* the server's clock
  (* handlers *)
  pc,             \* pc[h]: the next step of handler h
  call,           \* call[h]: the call it serves
  local,          \* local[h]: its local variables
  (* what the outside world has seen *)
  acked,          \* calls answered with success
  disclosed,      \* <<agent, artifact>>: artifact bytes sent to an agent
  cancelEvents    \* cancelEvents[r]: peer_cancelled events published for r

redisVars   == <<store, inbox, artifacts, revoked>>
handlerVars == <<pc, call, local>>
outsideVars == <<acked, disclosed, cancelEvents>>
vars        == <<redisVars, now, handlerVars, outsideVars>>

-----------------------------------------------------------------------------
(* Types. *)

Digests == Claims \X ResultStates \X Bodies

NoRequest ==
  [status |-> Absent, requester |-> None, target |-> None, expiresAt |-> 0,
   attachments |-> {}, version |-> 0, decisionID |-> None, decision |-> None,
   claim |-> None, digest |-> None, resultFiles |-> {}]

storedRequest ==
  [status      : Status,
   requester   : Agents \cup {None},
   target      : Agents \cup {None},
   expiresAt   : Nat,
   attachments : SUBSET Artifacts,
   version     : Nat,
   decisionID  : DecisionIDs \cup {None},
   decision    : Decisions \cup {None},
   claim       : Claims \cup {None},
   digest      : Digests \cup {None},
   resultFiles : SUBSET Artifacts]

storedArtifact == [req : Requests, direction : {"input", "result"}]

(***************************************************************************)
(* The calls agents make.  Arguments that validation rejects before any    *)
(* Redis access are left out: a failed or cancelled result with files.     *)
(***************************************************************************)
DecideCalls  == {MkCall("decide", a, r, d, v, None) :
                   a \in Agents, r \in Requests, d \in DecisionIDs,
                   v \in Decisions}
RunningCalls == {MkCall("markRunning", a, r, k, None, None) :
                   a \in Agents, r \in Requests, k \in Claims}
ResultCalls  == {MkCall("submit", a, r, k, state, body) :
                   a \in Agents, r \in Requests, k \in Claims,
                   state \in ResultStates, body \in Bodies}
ValidResult(c) == c.choice # Completed => c.body \notin FileBodies
SubmitCalls  == {c \in ResultCalls : ValidResult(c)}
CancelCalls  == {MkCall("cancel", a, r, None, None, None) :
                   a \in Agents, r \in Requests}
InboxCalls   == {MkCall("inbox", a, None, None, None, None) : a \in Agents}
FetchCalls   == {MkCall("artifact", a, None, x, None, None) :
                   a \in Agents, x \in Artifacts}

(* An Inbox handler remembers which of the queued requests it is visiting. *)
VisitCalls   == {MkCall("inbox", a, r, None, None, None) :
                   a \in Agents, r \in Requests}

NoCall == MkCall("none", None, None, None, None, None)

Calls == DecideCalls \cup RunningCalls \cup SubmitCalls \cup CancelCalls
           \cup InboxCalls \cup FetchCalls

(***************************************************************************)
(* Local variables of a handler: the attempt it is in, the record it read  *)
(* and the record it means to write, the tombstones it read, the inbox IDs *)
(* still to visit, and the artifacts it has persisted.                     *)
(***************************************************************************)
Unread(attempt, todo, made) ==
  [attempt |-> attempt, seen |-> NoRequest, plan |-> NoRequest,
   seenRevoked |-> {}, todo |-> todo, made |-> made]

NoLocal == Unread(0, {}, {})

LocalType ==
  [attempt : Nat, seen : storedRequest, plan : storedRequest,
   seenRevoked : SUBSET Agents, todo : SUBSET Requests,
   made : SUBSET Artifacts]

Steps == {"idle", "precheck", "persist", "watch", "exec", "publish", "srem",
          "members", "item", "reread", "artifact"}

(* The state's shape: what Redis and the handlers may hold.                *)
TypeOK ==
  /\ store \in [Requests -> storedRequest]
  /\ inbox \in [Agents -> SUBSET Requests]
  /\ artifacts \in [Artifacts -> storedArtifact \cup {None}]
  /\ revoked \in SUBSET Agents
  /\ now \in Nat
  /\ pc \in [Handlers -> Steps]
  /\ call \in [Handlers -> Calls \cup VisitCalls \cup {NoCall}]
  /\ local \in [Handlers -> LocalType]
  /\ acked \subseteq Calls
  /\ disclosed \subseteq Agents \X Artifacts
  /\ cancelEvents \in [Requests -> Nat]

-----------------------------------------------------------------------------
Init ==
  /\ store = [r \in Requests |-> NoRequest]
  /\ inbox = [a \in Agents |-> {}]
  /\ artifacts = [x \in Artifacts |-> None]
  /\ revoked = {}
  /\ now = 0
  /\ pc = [h \in Handlers |-> "idle"]
  /\ call = [h \in Handlers |-> NoCall]
  /\ local = [h \in Handlers |-> NoLocal]
  /\ acked = {}
  /\ disclosed = {}
  /\ cancelEvents = [r \in Requests |-> 0]

Goto(h, step) == pc' = [pc EXCEPT ![h] = step]

(* The handler returns; its stack is gone. *)
Return(h) ==
  /\ Goto(h, "idle")
  /\ call' = [call EXCEPT ![h] = NoCall]
  /\ local' = [local EXCEPT ![h] = NoLocal]

Answer(c) == acked' = acked \cup {c}

-----------------------------------------------------------------------------
(***************************************************************************)
(* The commit of CreateRequest: one MULTI/EXEC that stores the request,    *)
(* its input artifacts and its inbox entry.  Its checks (idempotency,      *)
(* conversation, presence) read other keys, before; a party may have been  *)
(* revoked since.                                                          *)
(***************************************************************************)
Create(r, from, to, life, files) ==
  /\ store[r].status = Absent
  /\ from # to
  /\ \A x \in files : artifacts[x] = None
  /\ store' = [store EXCEPT ![r] =
                 [NoRequest EXCEPT !.status = Awaiting, !.requester = from,
                    !.target = to, !.expiresAt = now + life,
                    !.attachments = files, !.version = 1]]
  /\ inbox' = [inbox EXCEPT ![to] = @ \cup {r}]
  /\ artifacts' = [x \in Artifacts |->
                     IF x \in files THEN [req |-> r, direction |-> "input"]
                                    ELSE artifacts[x]]
  /\ UNCHANGED <<revoked, now, handlerVars, outsideVars>>

(* Revocation of a device: credential and tombstone go in one MULTI/EXEC. *)
Revoke(a) ==
  /\ revoked' = revoked \cup {a}
  /\ UNCHANGED <<store, inbox, artifacts, now, handlerVars, outsideVars>>

Tick ==
  /\ now < MaxTime
  /\ now' = now + 1
  /\ UNCHANGED <<redisVars, handlerVars, outsideVars>>

-----------------------------------------------------------------------------
(***************************************************************************)
(* A handler starts: its caller authenticates, so it is not revoked, and   *)
(* the request ID it names is one that was handed out.                     *)
(***************************************************************************)
FirstStep(op) ==
  CASE op = "submit"   -> "precheck"
    [] op = "inbox"    -> "members"
    [] op = "artifact" -> "artifact"
    [] OTHER           -> "watch"

Start(h, c) ==
  /\ pc[h] = "idle"
  /\ c.agent \notin revoked
  /\ c.req # None => store[c.req].status # Absent
  /\ Goto(h, FirstStep(c.op))
  /\ call' = [call EXCEPT ![h] = c]
  /\ UNCHANGED <<redisVars, now, local, outsideVars>>

Abort(h) ==
  /\ pc[h] # "idle"
  /\ Return(h)
  /\ UNCHANGED <<redisVars, now, outsideVars>>

(***************************************************************************)
(* SubmitResult first reads the request without a transaction: it answers  *)
(* an exact replay, refuses what the transition would refuse, and only     *)
(* then allocates artifacts.                                               *)
(***************************************************************************)
Precheck(h) ==
  LET c == call[h]
      s == store[c.req]
  IN
  /\ pc[h] = "precheck"
  /\ \/ /\ SubmitResultRefused(s, c)
        /\ Return(h)
        /\ UNCHANGED acked
     \/ /\ ~SubmitResultRefused(s, c) /\ Terminal(s.status)
        /\ Return(h)
        /\ Answer(c)
     \/ /\ ~SubmitResultRefused(s, c) /\ ~Terminal(s.status)
        /\ Goto(h, IF c.body \in FileBodies THEN "persist" ELSE "watch")
        /\ UNCHANGED <<call, local, acked>>
  /\ UNCHANGED <<redisVars, now, disclosed, cancelEvents>>

(* Seeded defect: the file's identity is listed but its bytes not stored. *)
PersistNothing(h, x) ==
  /\ pc[h] = "persist"
  /\ artifacts[x] = None
  /\ local' = [local EXCEPT ![h] = [local[h] EXCEPT !.made = {x}]]
  /\ Goto(h, "watch")
  /\ UNCHANGED <<redisVars, now, call, outsideVars>>

(* Result files are stored under fresh identities before the transition. *)
Persist(h, x) ==
  /\ pc[h] = "persist"
  /\ artifacts[x] = None
  /\ artifacts' = [artifacts EXCEPT
                     ![x] = [req |-> call[h].req, direction |-> "result"]]
  /\ local' = [local EXCEPT ![h] = [local[h] EXCEPT !.made = {x}]]
  /\ Goto(h, "watch")
  /\ UNCHANGED <<store, inbox, revoked, now, call, outsideVars>>

-----------------------------------------------------------------------------
(* transitionStoredWatching: the endpoint's update of the record just read. *)
Target(h) ==
  LET c == call[h]
  IN To(store[c.req], c, now, revoked, local[h].made)

(* Seeded defect: Cancel publishes whether or not it changed the state. *)
SucceedPublishing(h, changed) ==
  LET c == call[h]
  IN
  \/ /\ c.op \in {"decide", "markRunning"}
     /\ Return(h)
     /\ Answer(c)
  \/ /\ c.op \in {"submit", "inbox", "cancel"}
     /\ Goto(h, IF c.op = "cancel" THEN "publish" ELSE "srem")
     /\ UNCHANGED <<call, local, acked>>

(***************************************************************************)
(* What follows a transition that returned without error: SubmitResult and *)
(* Inbox remove the inbox entry, Cancel publishes if it changed the state, *)
(* the others answer.                                                      *)
(***************************************************************************)
Succeed(h, changed) ==
  LET c == call[h]
  IN
  \/ /\ c.op \in {"decide", "markRunning"} \/ (c.op = "cancel" /\ ~changed)
     /\ Return(h)
     /\ Answer(c)
  \/ /\ c.op = "cancel" /\ changed
     /\ Goto(h, "publish")
     /\ UNCHANGED <<call, local, acked>>
  \/ /\ c.op \in {"submit", "inbox"}
     /\ Goto(h, "srem")
     /\ UNCHANGED <<call, local, acked>>

(* A refusal ends the handler, except that Inbox goes on with a fresh read. *)
Refuse(h) ==
  IF call[h].op = "inbox"
    THEN Goto(h, "reread") /\ UNCHANGED <<call, local>>
    ELSE Return(h)

Watch(h) ==
  LET c == call[h]
      s == store[c.req]
  IN
  /\ pc[h] = "watch"
  /\ \/ /\ Refused(s, c, now)
        /\ Refuse(h)
        /\ UNCHANGED acked
     \/ /\ ~Refused(s, c, now) /\ Target(h) = s
        /\ Succeed(h, FALSE)
     \/ /\ ~Refused(s, c, now) /\ Target(h) # s
        /\ Goto(h, "exec")
        /\ local' = [local EXCEPT ![h] =
                       [local[h] EXCEPT !.seen = s,
                          !.plan = [Target(h) EXCEPT !.version = s.version + 1],
                          !.seenRevoked = revoked]]
        /\ UNCHANGED <<call, acked>>
  /\ UNCHANGED <<redisVars, now, disclosed, cancelEvents>>

(* Seeded defect: three attempts. *)
ThreeAttempts == 3

(* The attempts transitionStoredWatching makes. *)
MaxAttempts == 5

(* Seeded defects: the record, or the tombstones, are not watched. *)
RecordUnwatched(h) == call[h].op = "decide" => revoked = local[h].seenRevoked
TombstonesUnwatched(h) == store[call[h].req] = local[h].seen

(* No key the handler watches has changed: Decide also watches tombstones. *)
Unchanged(h) ==
  /\ store[call[h].req] = local[h].seen
  /\ call[h].op = "decide" => revoked = local[h].seenRevoked

Exec(h) ==
  /\ pc[h] = "exec"
  /\ Unchanged(h)
  /\ store' = [store EXCEPT ![call[h].req] = local[h].plan]
  /\ Succeed(h, TRUE)
  /\ UNCHANGED <<inbox, artifacts, revoked, now, disclosed, cancelEvents>>

(* redis.TxFailedErr: try again, or give up after the last attempt. *)
Retry(h) ==
  /\ pc[h] = "exec"
  /\ ~Unchanged(h)
  /\ IF local[h].attempt + 1 < MaxAttempts
       THEN /\ Goto(h, "watch")
            /\ local' = [local EXCEPT ![h] =
                           Unread(local[h].attempt + 1, local[h].todo,
                                  local[h].made)]
            /\ UNCHANGED call
       ELSE Return(h)
  /\ UNCHANGED <<redisVars, now, outsideVars>>

(* handler.cancel publishes peer_cancelled once its store call has returned. *)
Publish(h) ==
  LET c == call[h]
  IN
  /\ pc[h] = "publish"
  /\ cancelEvents' = [cancelEvents EXCEPT ![c.req] = @ + 1]
  /\ Return(h)
  /\ Answer(c)
  /\ UNCHANGED <<redisVars, now, disclosed>>

SRem(h) ==
  LET c == call[h]
  IN
  /\ pc[h] = "srem"
  /\ inbox' = [inbox EXCEPT ![c.agent] = @ \ {c.req}]
  /\ IF c.op = "inbox"
       THEN /\ Goto(h, "item")
            /\ UNCHANGED <<call, acked>>
            /\ local' = [local EXCEPT ![h] = Unread(0, local[h].todo, {})]
       ELSE Return(h) /\ Answer(c)
  /\ UNCHANGED <<store, artifacts, revoked, now, disclosed, cancelEvents>>

-----------------------------------------------------------------------------
(***************************************************************************)
(* Inbox: refuses a revoked agent, takes a snapshot of the set, then looks *)
(* at each request: terminal ones leave the set, an overdue awaiting one   *)
(* is expired, the others are returned to the caller.                      *)
(***************************************************************************)
Members(h) ==
  LET a == call[h].agent
  IN
  /\ pc[h] = "members"
  /\ IF a \in revoked
       THEN Return(h)
       ELSE /\ Goto(h, "item")
            /\ local' = [local EXCEPT ![h] =
                           [local[h] EXCEPT !.todo = inbox[a]]]
            /\ UNCHANGED call
  /\ UNCHANGED <<redisVars, now, outsideVars>>

Visit(h, r, step) ==
  /\ call' = [call EXCEPT ![h] = [call[h] EXCEPT !.req = r]]
  /\ local' = [local EXCEPT ![h] = Unread(0, local[h].todo \ {r}, {})]
  /\ Goto(h, step)

Item(h, r) ==
  LET s == store[r]
  IN
  /\ pc[h] = "item"
  /\ r \in local[h].todo
  /\ Visit(h, r,
       CASE s.status = Absent \/ Terminal(s.status)           -> "srem"
         [] s.status = Awaiting /\ now >= s.expiresAt         -> "watch"
         [] OTHER                                             -> "item")
  /\ UNCHANGED <<redisVars, now, outsideVars>>

(* Seeded defect: losing the race counts as expired. *)
RereadAsExpired(h) ==
  /\ pc[h] = "reread"
  /\ Goto(h, "srem")
  /\ UNCHANGED <<redisVars, now, call, local, outsideVars>>

(* expireAwaiting lost the race: look at the authoritative state again. *)
Reread(h) ==
  LET s == store[call[h].req]
  IN
  /\ pc[h] = "reread"
  /\ Goto(h, IF s.status = Absent \/ Terminal(s.status) THEN "srem" ELSE "item")
  /\ UNCHANGED <<redisVars, now, call, local, outsideVars>>

InboxReturn(h) ==
  /\ pc[h] = "item"
  /\ local[h].todo = {}
  /\ Return(h)
  /\ UNCHANGED <<redisVars, now, outsideVars>>

-----------------------------------------------------------------------------
(* Seeded defect: a result file need not be listed by the request. *)
MayFetchUnlisted(a, x) ==
  LET s == store[artifacts[x].req]
  IN
  /\ artifacts[x] # None
  /\ \/ /\ artifacts[x].direction = "input"
        /\ s.target = a
        /\ s.status \in {Accepted, Running}
        /\ x \in s.attachments
     \/ /\ artifacts[x].direction = "result"
        /\ s.requester = a
        /\ s.status = Completed

(***************************************************************************)
(* FetchArtifact: input bytes go to the recipient during the approved      *)
(* execution window, result bytes to the requester of a completed request  *)
(* that lists them.                                                        *)
(***************************************************************************)
MayFetch(a, x) ==
  LET s == store[artifacts[x].req]
  IN
  /\ artifacts[x] # None
  /\ \/ /\ artifacts[x].direction = "input"
        /\ s.target = a
        /\ s.status \in {Accepted, Running}
        /\ x \in s.attachments
     \/ /\ artifacts[x].direction = "result"
        /\ s.requester = a
        /\ s.status = Completed
        /\ x \in s.resultFiles

FetchArtifact(h) ==
  LET c == call[h]
  IN
  /\ pc[h] = "artifact"
  /\ disclosed' = IF MayFetch(c.agent, c.id)
                    THEN disclosed \cup {<<c.agent, c.id>>}
                    ELSE disclosed
  /\ Return(h)
  /\ UNCHANGED <<redisVars, now, acked, cancelEvents>>

-----------------------------------------------------------------------------
HandlerStep(h) ==
  \/ Precheck(h)
  \/ \E x \in Artifacts : Persist(h, x)
  \/ Watch(h)
  \/ Exec(h)
  \/ Retry(h)
  \/ Publish(h)
  \/ SRem(h)
  \/ Members(h)
  \/ \E r \in Requests : Item(h, r)
  \/ Reread(h)
  \/ InboxReturn(h)
  \/ FetchArtifact(h)

Next ==
  \/ \E r \in Requests, from, to \in Agents, life \in Lifetimes,
        files \in SUBSET Artifacts : Create(r, from, to, life, files)
  \/ \E a \in Agents : Revoke(a)
  \/ Tick
  \/ \E h \in Handlers, c \in Calls : Start(h, c)
  \/ \E h \in Handlers : Abort(h)
  \/ \E h \in Handlers : HandlerStep(h)

Spec == Init /\ [][Next]_vars

-----------------------------------------------------------------------------
(***************************************************************************)
(* Properties.                                                             *)
(***************************************************************************)

(* The part of a stored request that the lifecycle speaks about.           *)
cellBar == [r \in Requests |->
              [status     |-> store[r].status,
               decisionID |-> store[r].decisionID,
               decision   |-> store[r].decision,
               claim      |-> store[r].claim,
               digest     |-> store[r].digest]]

L == INSTANCE RequestLifecycle WITH cell <- cellBar

(***************************************************************************)
(* Whatever the interleaving of handlers, the stored requests change only  *)
(* as the atomic lifecycle allows: no lost update, no second decision or   *)
(* claim, nothing after a terminal status (the WATCH transactions of       *)
(* transitionStoredWatching).                                              *)
(***************************************************************************)
RefinesLifecycle == L!Spec

(***************************************************************************)
(* All successful answers to Decide for one request carry the same         *)
(* decision and identity, the recorded ones, however many recipients,      *)
(* retries or late duplicates raced (Decide's replay check).               *)
(***************************************************************************)
OneDecision ==
  \A c \in acked : c.op = "decide" =>
    /\ store[c.req].decisionID = c.id
    /\ store[c.req].decision = c.choice

(***************************************************************************)
(* "A second claim is rejected so two daemons using the same device        *)
(* credential cannot execute one Allow Once decision twice" (MarkRunning): *)
(* all claims and results ever accepted for a request carry one claim, and *)
(* the request had been allowed.                                           *)
(***************************************************************************)
OneExecution ==
  \A c \in acked : c.op \in {"markRunning", "submit"} =>
    /\ store[c.req].claim = c.id
    /\ store[c.req].decision = Allow

(***************************************************************************)
(* A result or a cancellation that was acknowledged stands for ever: a     *)
(* Cancel racing a SubmitResult, or an expiry computed from a stale read,  *)
(* never overwrites it.                                                    *)
(***************************************************************************)
AckedOutcomesStand ==
  \A c \in acked :
    /\ c.op = "submit" => /\ store[c.req].status = c.choice
                          /\ store[c.req].digest = digestResult(c)
    /\ c.op = "cancel" => store[c.req].status = Cancelled

(***************************************************************************)
(* peer_cancelled is published at most once for a request, and only for    *)
(* one its requester did cancel (Cancel's "changed" across retries).       *)
(***************************************************************************)
CancelAnnouncedOnce ==
  \A r \in Requests :
    /\ cancelEvents[r] <= 1
    /\ cancelEvents[r] = 1 => store[r].status = Cancelled

(***************************************************************************)
(* A request that still needs its recipient stays in the recipient's inbox *)
(* set, although Inbox prunes entries on the strength of earlier reads.    *)
(***************************************************************************)
InboxComplete ==
  \A r \in Requests :
    store[r].status \in {Awaiting, Accepted, Running}
      => r \in inbox[store[r].target]

(***************************************************************************)
(* Five attempts are enough: a transition that watches only the request    *)
(* never fails for contention, because a request changes at most three     *)
(* times after its creation (transitionStoredWatching's loop).  Decide     *)
(* also watches the organisation's tombstones and is not covered.          *)
(***************************************************************************)
RetriesSuffice ==
  \A h \in Handlers :
    (pc[h] = "exec" /\ call[h].op # "decide" /\ ~Unchanged(h))
      => local[h].attempt + 1 < MaxAttempts

(***************************************************************************)
(* Artifact bytes reach the recipient only if the request was allowed, and *)
(* the requester only if they belong to the completed result: files of a   *)
(* submission that lost its race stay private (FetchArtifact).             *)
(***************************************************************************)
DisclosureBounded ==
  \A p \in disclosed :
    LET x == artifacts[p[2]]
        s == store[x.req]
    IN
    /\ x # None
    /\ x.direction = "input"  => s.target = p[1] /\ s.decision = Allow
    /\ x.direction = "result" => /\ s.requester = p[1]
                                 /\ s.status = Completed
                                 /\ p[2] \in s.resultFiles

(***************************************************************************)
(* "A successful transition can never reference missing bytes": the files  *)
(* a request lists are stored and are its own (SubmitResult).              *)
(***************************************************************************)
FilesPersisted ==
  \A r \in Requests : \A x \in store[r].resultFiles :
    artifacts[x] = [req |-> r, direction |-> "result"]

Accepts(r) == store[r].status = Awaiting /\ store'[r].status = Accepted

(***************************************************************************)
(* "A queued request cannot execute after its requester is revoked": no    *)
(* step accepts a request whose requester has a tombstone, even if the     *)
(* revocation came after Decide read the tombstones.                       *)
(***************************************************************************)
NoRevokedApproval ==
  [][\A r \in Requests : Accepts(r) => store[r].requester \notin revoked]_vars
=============================================================================
