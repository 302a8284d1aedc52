# Team Relay in TLA+

Team Relay lets the agent of one teammate (the requester) ask the agent of
another (the recipient) to do some work.  A relay server stores the requests in
Redis and forwards notices; a daemon on the recipient's machine shows them to
its user, and after an *Allow* runs the local AI runtime and returns the result.
This directory holds TLA+ modules that model the system, TLC configurations that
check them on small instances, and TLAPS proofs for every size.  Source paths
below are relative to `src/`.

The promises under study: a request gets one decision, its runtime is started at
most once and only after an Allow that still counts, the requester gets the
result of that run or of none, and neither a crash, a lost message, a retry, a
revocation nor a race between handlers breaks this.

## 1. Inventory

| Component | State | Operations | Talks to |
|---|---|---|---|
| Request store (`internal/collaboration/store.go`) and its HTTP handlers (`handler.go`) | Redis: a JSON record per request, an inbox set per agent, artifacts, idempotency keys, conversations, presence, tombstones of revoked agents | CreateRequest, GetRequest, Inbox (expires overdue requests), Decide, FetchExecution, MarkRunning, SubmitResult, Cancel, FetchArtifact, Heartbeat, ListAgents | Redis by WATCH / MULTI / EXEC; the hub |
| Event hub (`hub.go`) and the events handler | map agent -> channels, revoked agents, one bounded channel per stream | Subscribe, unsubscribe, Publish, dropSubscriber, Revoke, IsRevoked | store (inbox replay), client's stream |
| Identity (`internal/store/redis.go`, `internal/server`, `internal/auth`) | Redis: organisation, members, devices, credentials, invites, audit list | Bootstrap, Authenticate, RotateAdminCredential, CreateInvite, RevokeInvite, Enroll, RevokeMember, RevokeDevice | store (tombstones), hub (`eviction.go`) |
| Receiver daemon (`internal/receiver/service.go`) | mutation journal and pending notices on disk (`mutation_store.go`, `pending_store.go`); goroutines; `approvalDecisionMu`, `reconcileMu`; active executions; approval authority | Run, AllowOnce, Approve, Deny, handleEvent, reconcile, recoverOperation, execute, prepareAndSubmitResult, replayPreparedResult | relay through `internal/client`; controller; local control server |
| Standing approvals (`approval_store.go`) | grants with scope, authority and expiry; revocation tombstones; one file | Upsert, RestorePrepared, Match, Revoke, pruning, load | receiver, mutation journal |
| Runtime controller (`controller.go`, `session_store.go`, `internal/runtime`) | per-conversation locks, concurrency limit, session per conversation | Execute, ResumesConversation, Probe | runtime processes |
| Local control server (`control.go`), desktop bridge, MCP server, command lines | none of their own | translate calls | receiver, client |
| Administration recovery (`cmd/team-relay-admin/recovery.go`) | recovery files staged before the call | bootstrap and rotation with recovery of a lost answer | server |
| Device setup (`cmd/team-relay/main.go`) | configuration, device token, enrolment attempt | reserve, stage, enrol, publish, resume | server |
| Private files (`internal/privatefs`), process lock | files of one user | create, atomic replace, directory sync; lock | all that keep files |
| Artifact sandboxes (`internal/artifact`) | a private directory per execution | Materialize, CollectResults, Cleanup | receiver, runtime processes |
| Runtime adapters and policy (`internal/runtime`) | frozen MCP inventory, one child process per run | EffectivePolicy, ValidatePolicySupport, Run of claude, codex and external | controller, third-party programs |
| Service lifecycle (`internal/lifecycle`), configuration, installers | definitions and registrations of the host's service manager | start, stop, restart | launchd, systemd |

What is hard here, and what must hold:

* **Relay.** Handlers of many callers interleave at every Redis round trip, and
  each may die between two.  One decision, one claim, one result; what was
  acknowledged stays; an Allow does not get past a revocation; an expiry computed
  from an old read does not overwrite an Allow; no file is listed before it is
  stored; five attempts are enough.
* **Hub.** Publishers, revocation, overflow and disconnection all touch the same
  channels.  No channel is closed twice or used after its close; a stream that
  stays open misses nothing; a revoked agent's streams end.
* **Receiver.** Three goroutines and one execution per request share two files;
  the process may die between any two steps; each relay call may be late, lost or
  answered to nobody.  The runtime starts at most once; what runs was approved
  under the present authority; a produced result is not lost; every journaled
  operation settles.
* **Identity.** Enrolments, their retries, and revocations of invitation, device and
  member race over keys that no single WATCH covers.  An invitation enrols once, a
  retry is the same device, an answered revocation is final.
* **Credentials on disk.** A rotation or an enrolment commits at the relay and its
  answer may be lost; the machine may crash between any two file operations.  The
  credential that works is always on the disk, and rerunning the command finishes.
* **Standing approvals.** A choice is journaled, granted, confirmed and decided in
  four writes, each of which may fail; revocation, expiry, a moved clock and another
  authority come between.  Nothing is approved that was not chosen since the last
  revocation, and no choice is lost.
* **Controller.** Reference-counted locks that are deleted while others wait, a
  slot limit, cancellation at every wait.
* **Runtime.** A child process that prints, fails, is killed or leaves descendants;
  files that change while they are collected; limits checked on two sides.
* **Service.** Commands of several steps against a service manager that answers
  before it is done.

`PROJECT.json` lists every hazard at its source line with the properties that
cover it.

## 2. Modules

| Module | What it is |
|---|---|
| `RequestTransitions` | The endpoint updates as pure operators on a stored request: for each of Decide, MarkRunning, SubmitResult, Cancel and the expiry run by Inbox, when it is refused and what it makes of the record.  Shared by the relay and the receiver models. |
| `RequestLifecycle` | Abstract specification: a request as an atomic cell (status, decision, claim, digest) and the steps it may take. |
| `RelayRequests` | The relay as it runs: handlers, each a sequence of Redis round trips, sharing one Redis.  Refines `RequestLifecycle`. |
| `RelayRequestsInv`, `RelayRequestsProofs` | Its inductive invariant and the proofs. |
| `Receiver` | The recipient's daemon with its disk, its goroutines, the network and crashes, against a relay with the atomic endpoints of `RequestTransitions`. |
| `ReceiverProofs` | Its inductive invariant and the proofs. |
| `Hub` | Event hub, events handler and revocation. |
| `HubInv`, `HubProofs` | Its inductive invariant and the proofs. |
| `Creation` | `CreateRequest`: idempotency key, transaction, announcement, retention. |
| `Presence` | Heartbeats, agent listings that repair the directory, eviction. |
| `Enrollment` | Invitations, enrolment and its retries, revocation of invitation, device and member. |
| `PrivateFiles` | Operators: what `internal/privatefs` leaves in a directory, and what a crash keeps of it. |
| `AdminCredential` | The administrator's bootstrap and rotation, relay and command line together, on `PrivateFiles`. |
| `DeviceSetup` | `team-relay setup`, on `PrivateFiles`. |
| `StandingApprovals` | Grant store, journal and the receiver's paths that choose, restore, match and revoke. |
| `Controller` | Conversation locks, slots and the session store. |
| `ArtifactSandbox` | The files of one execution and its result's way to the relay. |
| `RuntimePolicy` | Operators: policies, what a request makes of them, what a runtime must support. |
| `RuntimeRun` | An adapter, its child process and the sessions of one conversation. |
| `ServiceLifecycle` | start, stop and restart over launchd or systemd. |
| `EnrollmentProofs`, `StandingApprovalsProofs` | The inductive invariants of `Enrollment` and `StandingApprovals` and the proofs. |
| `StoresProofs` | The inductive invariants of `Creation`, `Presence` and `Controller`, as `MCStores` instantiates them, and the proofs. |
| `CommandsProofs` | The inductive invariants of `AdminCredential`, and of `DeviceSetup` and `ServiceLifecycle` as `MCCommands` instantiates them, and the proofs. |
| `ExecutionProofs` | The inductive invariants of `RuntimeRun` and of `ArtifactSandbox`, as `MCExecution` instantiates it, and the proofs. |
| `MCRelayRequests`, `MCReceiver`, `MCHub`, `MCEnrollment` | Instances of one module for TLC: symmetry sets and the values of function constants. |
| `MCStandingApprovals` | `StandingApprovals` in four scenarios, each with its own bounds. |
| `MCCommands` | `AdminCredential`, `DeviceSetup` and `ServiceLifecycle`: the commands that change files and remote state together. |
| `MCStores` | `Creation`, `Presence` and `Controller`: state that concurrent calls share. |
| `MCExecution` | `RuntimeRun` and `ArtifactSandbox`: an approved request, from its attachments to its result. |

The last three put components side by side that share no state.  A variable `subject`, chosen
at the start, says which component a behaviour is about; the others stay in their initial state.
Every behaviour of every component within the bounds is a behaviour of such a suite, and each property
speaks about one of them, so a suite checks what separate runs would.  The suites also draw
interchangeable values (tokens, keys, identities) in a fixed order, which is symmetry
reduction by hand, since TLC's own is not sound for liveness.  `scenario` does the same for the
bounds of `MCStandingApprovals`.

Definitions called "Seeded defect" or "Mutant" stand before some operators.  They are
used by no specification; each is a variant with one plausible bug, used to see that
the named property notices it.

`RelayRequests`, `Receiver` and `Hub` are three views of one protocol: the relay at the
grain of Redis round trips, the recipient against atomic endpoints (the ones
`RelayRequests` is shown to implement), and the notification path.  The other modules
each take one component with what it touches; what they assume of their neighbours is
said below.

### RequestTransitions and RelayRequests

`store[r]` is `storedRequest`: status, parties, deadline, decision identity and
decision, claim, digest of the result, listed files, version.  Payload texts are
members of small sets; the digest is the triple it is computed from, so equal
digests mean equal results (a cryptographic hash is taken to be injective).

A read-modify-write of `transitionStoredWatching` is two steps.  `Watch` reads the
record (and, for Decide, the tombstones) and runs the endpoint's update: it ends the
call if the update refuses or changes nothing.  `Exec` writes if nothing watched
changed; otherwise `Retry` counts an attempt and starts over.  Every write bumps the
version and tombstones only grow, so "unchanged" is equality with what was read.
`SubmitResult` has its unguarded read (`Precheck`) and the writes of its files
(`Persist`) before, and the removal from the inbox (`SRem`) after the transition;
`Inbox` reads the set (`Members`), then each request (`Item`), expires an overdue one
through the same transition, reads it again if that lost (`Reread`) and prunes final
ones; `cancel` publishes (`Publish`) after its commit.  `Abort` ends a handler between
any two steps.  `acked`, `disclosed` and `cancelEvents` record what callers have seen.

Left out here: `CreateRequest` is its commit only (its checks, retries and retention are
in `Creation`); keys do not age out (retention is seven days and every transition renews
it); `GetRequest` and `FetchExecution` read only.

### Receiver

Goroutines are `user` (one call of the control server at a time), `events`,
`reconcile` (startup, periodic and after a stream ended: `reconcileMu` lets one run
at a time) and one execution per request.  `lock` is `approvalDecisionMu`, held across
relay calls; executions and the handling of `peer_cancelled` do not take it.  A call is
a message in `net`: `Serve` applies it at any later time, `Lose` loses it or lets its
caller time out while it stays on its way.  `Crash` and `Exit` (Run returned an error)
keep the disk and the messages and nothing else; `Restart` may find another authority.
`runs` counts runtime starts, `outcome` is what the run produced.

A journal record goes through `decision_prepared`, `claim_prepared`,
`runtime_started`, `result_prepared`; the decision identity and the claim are drawn
together, so one number stands for both.  The bound notice of an Allow is represented
by the presence of the notice: the relay never changes a request's metadata.

Simplifications: a removal of the notice and of the journal record by one goroutine
under the lock is one step (the two writes of `peer_cancelled` are two); a local
write does not fail (`StandingApprovals` has the failing writes); the relay does not age requests out, so GetRequest is never a
404; standing grants are in `StandingApprovals`; the requester cancels after it has the answer of
its creation (`Hub` has the earlier cancellation).  A relay call of `Inbox` or `GetRequest` is one step, since it changes
nothing at the relay but expiries and may be read at any time.  Run's startup and the
user's calls do overlap, as in the code, where the control server is started on its own.

### Hub

`publish[e]` is the `Publish` call of one event; while it is at `send` it holds the
read lock, sending to one channel after the other, and every action that needs the
write lock waits (`Unlocked`).  A full channel is remembered and dropped after the
lock is released, one `dropSubscriber` at a time.  The events handler subscribes,
checks for revocation, replays the inbox, forwards.  Revocation first removes the
credentials and adds the store's tombstone, then calls `Hub.Revoke`.  A send on or a
close of a closed channel sets `panicked`.

A request may be cancelled as soon as it is committed, before its creation is published: a
retry of the creation with the same idempotency key is answered with the identity while the first
handler is still on its way to `Publish`.  The history variable `overtaken` holds the requests whose
cancellation began to be sent before their announcement did (section 7, note j).

### Creation and Presence

A create call looks its key up (`Lookup`), reads the cards (`ReadAgents`), watches the key
(`Watch`), and stores request, key, inbox entry and conversation in one transaction
(`Exec`); the handler announces after it (`Announce`).  `Interrupted` ends a call anywhere.
The requester repeats a call with the same key and the same or another content.  Every key
has its time to live: a transition renews the request's and the idempotency key's, only a
creation renews the inbox set's.  Presence checks are a choice here: whether a card is there
is `Presence`'s business.

In `Presence` a heartbeat is its WATCH of the tombstones and its EXEC; a listing reads the
set, the tombstones and then one card after the other, removing what it takes for dead.
`evictPresence` runs after the revocation, in the same handler.  The failure of a heartbeat
after five lost races is not a step of its own: it equals one that was never sent.

### Enrollment

A *key* is what one setup draws and repeats: device token and idempotency key.  `Enroll`
reads its record, the invitation and the member, then commits under a WATCH of the
invitation and the record; after a lost race it reads again.  `RevokeMember` reads the
devices, then the credentials, and commits under a WATCH of the member.  `dirty` is the
state of a WATCH: raised by any commit that writes a watched key.  Transactions that watch
all they read are one step.  `confirmed` remembers whose revocation was answered.

### PrivateFiles, AdminCredential and DeviceSetup

A path is `[now, durable]`.  Creation, rename and removal change `now`; `SyncDirectory` makes
`now` durable; a machine crash keeps or loses each unsynced entry on its own.  File contents are
synced before a rename, as in `writeAndClose`, so only a file created in place can be torn.

`AdminCredential` runs the command line's steps (prepare, stage, send, finalise, remove)
against handlers of the relay.  A client may give up and leave its call running; a call or
its answer may be lost.  There are two token files in one private directory: a rotation reads the current
token from one and writes its replacement to the same (`AtomicWriteFile`) or to the other (in place, if it does
not exist yet), and each has a recovery file of its own, beside the replacement.  A token from
`TEAM_RELAY_ADMIN_TOKEN` is one read from a file that the rotation does not write.  Replacements in a
directory other than the current token's are left out.  A crash while `WriteNewFile` writes leaves a torn file,
which later runs refuse until somebody removes it by hand.  `mishap` is history: it tells a recovery file
that went while the token in place was not durable.  The runs have one command at a time: two at once,
with a failing sync, can remove a finalised token, and nothing in the code or the
documents says that two may run.

`DeviceSetup` has the reservation of configuration and token, the staged attempt, the enrolment
call, the publication in order, and the resumption from an attempt.  Every file operation may
fail; `cleanup` and `preserveForRetry` run as in the code.

### StandingApprovals

`mem` and `disk` are the grant store, `jmem` and `jdisk` the journal: a failed write leaves memory as
it was and the disk with either version.  `op` is the operation that holds
`approvalDecisionMu`: a choice (`Approve`, `Upsert`, `ConfirmPersisted`, `Decide`), a recovery
(`recoverOperation`, `RestorePrepared`), an automatic approval (`maybeAutoApprove`, then the second
match of `allowOnceWithApprovalForNotice`).  Events, cancellations, the clock and crashes fall
between their writes.  The relay is the set of requests whose Allow it recorded.  `choices` and
`dropped` are history.

Recovery may reopen a timed window counted from a later explicit choice of the same grant, so
the property is that a grant ends at most one window after some explicit choice made since the
last confirmed revocation.  A call refused because the store is busy changes nothing and is no step.

### Controller

A lock is an object with `refs` and `gate`; `locks` maps a conversation to one, and an execution
keeps its pointer when the map has forgotten it.  Waiting for gate and slot, cancellation in
either wait, the check after the gate was taken, the session read and write, the release in
reverse order and restarts are steps of their own.  `last` is what the provider remembers.

### ArtifactSandbox

`execute` from `runtime_started` on: the request's directory, the downloads, the run, the
collection, the journaled result, its submission, the cleanup.  The return directory belongs to
the runtime and to processes it left behind: `Link`, `Rewrite` and `ReplaceDirectory` happen between
any two steps of `CollectResults`.  File identity, content and size are separate, so that a swap
between `Lstat`, `open`, `Fstat` and the last check can be told from no swap.  What is scanned for credentials
is what has a textual media type, which name and content decide (`Textual`).  An answer is the pair of its
sizes before and after redaction, the second perhaps the larger.  The relay's checks (`decodeJSON`, `prepareArtifacts`,
`SubmitResult`) are those of its source, with the byte limits of the code; `Key` is the lower-case form by which it compares
names.  The requester may cancel at any time: then the relay gives away no more attachments and takes no result, the run is
stopped, and recovery discards the journal record.  A submission's answer may be lost after the relay recorded it.  `lost` is
history: the run ended without a result in the journal.

After a crash the request's directory stays: no startup sweeps it (`leftover`); so it does when a removal fails, also
the one after a failed download, whose error is ignored.  Names that the
requester's side refuses when it saves (`.git` and the like) are delivered.

### RuntimePolicy and RuntimeRun

`RuntimePolicy` is the algebra of policies; deny lists of tools and commands are left out.
`RuntimeRun` starts an adapter with a policy and, for Claude, a frozen MCP inventory whose
fingerprint the approval covers; a run narrows the policy by its request, checks the session,
writes the private MCP file, launches the child, and reads lines until the pipe ends.  The child
prints any line of a small alphabet, exits, crashes, is killed, or leaves a process that holds
its output.  `CodexLine`, `ClaudeLine` and `ExternalLine` are what each adapter does with a line; an
error line without a message resets an earlier error, as in the code.  The fingerprint of the
working directory is part of the approved inventory.  The receiver itself never sets the
requested policy; it is an input of the adapters' interface and is treated as one.  The
receiver's sink never fails.

### ServiceLifecycle

`cmd` goes through the steps of `run`: inspect, install the definition, unload or reload, enable,
start; or disable, remove the entry, reload.  Configurations are numbered by age and a
definition is the number it was made from, so that "which one runs" is a comparison.  On
launchd `bootout` returns before the job is gone (`leaving`), and `unloadLaunchAgent` polls; it is
assumed that launchd does not report a job that is being ended as running, and that `enabled`
holds there from the definition.  On systemd `disable --now` is three calls of systemctl to the manager, and also
removes the entry of a linked unit.  An interrupt ends a command at any step, between those three too: Ctrl-C cancels
the context with which the manager command was started and kills it.  `cut` remembers a stop that ended there.
One command runs at a time.  Entries that belong to something else are refused and left out.

## 3. Runs

| Run | Question | Bounds | Result |
|---|---|---|---|
| `relay_race` | Do two handlers, racing through every endpoint on one request with competing identities, claims, an expiring deadline, revocations and aborts, keep the lifecycle and what was acknowledged? | 1 request, 2 agents, 2 decision identities, 2 claims, 2 handlers, clock 0..1 | passes |
| `relay_files` | Are result files stored before they are listed, and is only the winner's file disclosed? | 1 request, 2 artifacts, results with and without file, 2 handlers | passes |
| `receiver_faults` | With a crash anywhere, another authority after it, a lost or late call or a second decision: is everything that runs approved and remembered, does it run once and does its result survive? | 1 request, 2 authorities, 1 crash, 2 decisions or 1 decision and 1 fault (`MaxTotal`), clock 0..1 | passes |
| `receiver_settles` | Does every journaled operation settle, under another authority after a restart too? (liveness) | 1 request, 1 operation, 2 authorities, 1 crash, clock 0..1 | passes |
| `receiver_discard` | Is a discarded Allow one the relay does not hold? | 1 request, no fault, no crash | violated, finding 1 |
| `receiver_denyreplay` | Does a retried decision that the relay answers let Run go on? | 1 request, 1 crash | violated, finding 2 |
| `hub` | Do publication, a cancellation before it, overflow, disconnection and revocation keep the channels sound and the open streams complete, and do a revoked agent's streams end? (safety and liveness) | 2 agents, 1 request, 2 streams, channels of one event; up to renaming, and 1 revoked agent (`Representative`) | passes |
| `enroll_race` | Do enrolments, retries and revocations keep one device per invitation and key, and revocation final? | 2 each of invitations, keys, members, devices, handlers; 6 calls | passes |
| `commands` | *admin*: is the working credential always on the disk, and does rerunning finish a staged rotation? | 3 tokens, 2 token files, 1 command, 2 handlers; two of: a lost call, a failing file operation, a crash (`FewMishaps`) | passes |
| | *setup*, *setups*: does setup keep the token, publish in order, retry with the identity it staged, and complete? | 1, or 2 configurations; 3 keys, 2 failures, 2 crashes | |
| | *service*: does a stopped service stay stopped, a restarted one run the new definition, a failed install interrupt nothing, a started one come back? | both platforms, 3 commands, 2 failures or interrupts, 1 exit, 1 login, 3 polls | |
| `grants` | *crash*: are grants chosen, kept, loadable, and automatic approvals covered, over failing writes and crashes? | 2 requests, 2 scopes, 1 level, 2 faults | passes |
| | *window*: the same for timed grants and a moving clock | window 2, clock 0..2, 1 fault | |
| | *authority*: are grants of another enrolment or policy unusable? | 2 authorities, 1 fault | |
| | *clock*: does a clock set back open no window in the future? | 1 correction, clock 0..1, 1 fault | |
| `stores` | *retries*, *inbox*: with lost answers, transitions and expiring keys, is there one request per key, is it listed while it waits, does the recipient learn of it? | 2 calls, 2 identities, 2 contents or 2 keys, retention 3, deadline 2, clock 0..4, 1 fault | passes |
| | *presence*: does a revoked agent stay out, and is a live one that a listing removed listed again? | 2 agents, 1 listing | |
| | *controller*: do turns of a conversation exclude each other, resume the latest session, leave no lock, and end? | 2 executions, 2 conversations, 2 lock objects, 1 slot, 1 fault | |
| `execution` | *output*: is an answer the whole of a successful run, is no private file left, does a cancelled run end? | 3 adapters, 3 lines, 2 faults | passes |
| | *policy*: does a child get only what was approved, and a session only its own policy? | 3 policies, 3 policy requests, 2 servers, 2 runs, 2 restarts, 1 edit | |
| | *sandbox*: is what is delivered sound while files change, is it acceptable to the relay, and does every execution have an answer? | 4 names, two of them one in lower case, 3 inodes, 3 contents, 2 answers, 2 faults, a cancellation, 3 changes (1 with the rarer events, `FewChanges`) | |

Why the bounds are enough to be interesting.  A lost update needs two handlers; a
third adds only more of the same, and the proofs cover any number.  A request is
written at most three times after its creation, so one request with two handlers,
each of which may start any number of calls, reaches every record.  Channels of one
event overflow at the second event, and a request gives two, its arrival and its
cancellation.  One crash, at every step, meets every phase of the journal; the second
decision identity of `receiver_faults` is needed for an Allow after a discarded one.

In the other modules the numbers are the smallest at which the case happens: two holders of
one key, invitation or conversation, and as many lock objects as executions;
two scopes, so that one covers the other; retention one unit longer than a deadline and a clock
that passes both; as many failures and crashes as it takes to hit a command and its rerun.  A machine
that meets more than two mishaps is left out of *admin*, as is one that meets two of a kind.
Command sequences are bounded by `MaxCalls`, `MaxCommands` and the tokens and keys that can be
drawn.  `MaxPolls` is 60 in the code; that a poll can run out and that it can succeed late are both
reached with three.  The byte limits of
`ArtifactSandbox` are the code's own; two attachments stand for the number it allows.

Some runs are cut by something other than a constant.  `Representative` (`hub`) chooses one of several equal
agents and streams.  `DeadlineMatters` (`receiver_faults`,
`receiver_settles`) cuts the states in which the deadline passed and the request then ended otherwise than by it: nothing looks
at the deadline of such a request, so each behaves as one in which it did not pass.  `Unsettled` (`receiver_settles`) cuts what
follows when the only decision the bound admits is settled, since nothing is journaled after that; and until it is made, one
authority is as good as another.  In `receiver_settles` no call is lost and the user
decides once; lost and late calls are in `receiver_faults`.  `FewChanges` (`execution`) lets files change three times while
nothing else is unusual, and once with a cancellation, with an answer that grows, or with two faults.  `FewMishaps` (*admin* of
`commands`) is said above.

Deadlock is checked in the relay and receiver runs.  In the others the system may come to rest:
every bounded call, command or request has been used.

The bounds are the constants named `Max...`, `Capacity`, `Retention`, `Lifetime`, `Window` and the
constant sets, and the five named above; `Descendants` switches one behaviour of the environment on.

## 4. Properties

*Relay.* `RefinesLifecycle`: the interleaved handlers implement the atomic lifecycle.
`OneDecision`, `OneExecution`: all successful answers to Decide, and to MarkRunning and
SubmitResult, agree with one decision and one claim.  `AckedOutcomesStand`: an
acknowledged result or cancellation is never overwritten.  `CancelAnnouncedOnce`.
`InboxComplete`: a request that needs its recipient is in the inbox set.
`RetriesSuffice`: contention does not use up five attempts; Decide is excepted, since it
also watches the tombstones of the whole organisation.  `NoRevokedApproval`.
`FilesPersisted`, `DisclosureBounded`.

A property that a run names may be the conjunction of what one component promises; its parts are
definitions of their own, next to it.

*Receiver.* `StartsOnce` (`AtMostOnce`, `StartsAreRemembered`): the runtime starts at most once, and
a restart can tell that it may have started.  `RunsAreApproved`.  `ResultsSound`
(`ResultIsTheRuns`, `ResultsAreKept`).  `OperationsSettle` (liveness): a record goes, or stays at
`runtime_started`, or is one of another authority that the relay has accepted.  The last two the daemon logs as "manual
resolution required" and does not touch (`ManualResolution`, `service.go:1169` and `:1201`).

*Hub.* `NoPanic`, `LiveStreamsMissNothing`, `RevokedHaveNoSubscribers`,
`RegistryIsLive`, `RevokedStreamsEnd` (liveness).  `LiveStreamsMissNothing` excepts the cancellation of a request
that overtook its announcement.

*Creation.* `CreationSound`: `KeyOutlivesRequest` and `RetriesAgree` (a retry cannot make a second
request while the first is kept), `AwaitingIsListed` (the inbox set does not expire before a
request in it that can still be decided).

*Presence.* `DirectorySound` (`EvictedStaysOut`, `RevokedIsNotListed`).

*Creation and presence.* `LossesAreRepaired` (liveness): `TargetLearns`, `LiveAgentReturns`.

*Controller.* `TurnsSound` (`OneRunPerConversation`, `ResumesLatest`, `LocksAreReclaimed`),
`EveryCallEnds` (liveness).

*Identity.* `EnrolmentSound` (`InviteEnrolsOnce`, `OneDevicePerKey`), `RevocationSound`
(`RevocationIsFinal`, `RevokedDeviceHasNoCredential`), `ExactRetrySucceeds` (no step refuses a retry whose
enrolment is on record).

*Credentials on disk.* `CredentialKept` (`OneAdministrator`, `NeverLockedOut`) for the administrator;
`EnrolmentKept` (`TokenOnDisk`, `ConfigIsLast`, `AttemptOutlivesPublication`, `RetriesKeepIdentity`) for setup;
`RerunsComplete` (`RotationCompletes`, `RemovalIsConfirmed`, `SetupCompletes`) for both.  `NeverLockedOut` and
`RotationCompletes` name the cases that the code does not survive: notes a and k of section 7.

*Service.* `ServiceAsAsked` (`StoppedStaysStopped`, `RestartRunsLatest`,
`FailedInstallInterruptsNothing`, `BootstrapMeetsNoRegistration`), `StartedServiceRuns` (liveness).  The first and the
last except a `systemctl disable --now` that was cut short (note h).

*Standing approvals.* `GrantsSound` (`StoreLoads`, `GrantsAreChosen`, `OnlyThisAuthority`,
`NoChoiceIsLost`), `ApprovalsSound` (`AutoApprovalIsCovered`, `WindowStartsByNow`).  `GrantsAreChosen` and
`AutoApprovalIsCovered` hold while the clock only runs forward: one that is set back lengthens
every window by as much.

*Execution.* `RunSound` (`AnswerIsComplete`, `NoConfigurationLeft`, `GrantIsApproved`,
`SessionKeepsItsPolicy`), `CancelledRunEnds` (liveness); `ResultSound` (`DeliverablesAreSound`,
`PreparedIsAcceptable`, `NoSandboxLeft`), `ExecutionsAreAnswered` (liveness).  `PreparedIsAcceptable`: what is journaled
the relay accepts, unless only the relay can see what is wrong with it (`OnlyRelayRefuses`, notes e and f).
`ExecutionsAreAnswered`: an execution past its boundary has an end at the relay, but for those results and for a run
that died, was stopped or could not write the journal before it had a result.

The type invariant of each module is part of its component's conjunction; those of the relay
and the hub are named by their runs.

## 5. Fairness

`Receiver!Fairness`: goroutines run; a call somebody waits for is served (or, within
the fault bound, fails); the supervisor restarts the process (`internal/lifecycle`
installs the service with keep-alive); `heartbeatLoop` reconciles at each tick; a
runtime is bounded by its timeout.  Reconciliation, which waits for `approvalDecisionMu` behind
clicks and events without end, is strongly fair, because `sync.Mutex` hands the lock to a waiter after a millisecond.
Users, requesters, faults and crashes owe nothing.

`Hub!Fairness`: publishers go on; a stream's handler is strongly fair, because
`RWMutex` blocks new readers once a writer waits.  It also assumes that a write to a
stream ends, with success or with an error: the server sets no write deadline, so a
connected peer that never reads can hold its handler in a write, and the stream of
such a peer ends only when the connection does.

* `Creation`, `Presence`: handlers run, `heartbeatLoop` reconciles and sends heartbeats.
* `AdminCredential`, `DeviceSetup`: a started command and the handlers go on; the user reruns a
  command that did not finish, with the same arguments (strong fairness of its start, for each token file it
  is to end in; the other file is the one that holds what the rerun needs).  This is an assumption about the
  user, and the documents tell them to do so.
* `StandingApprovals` has none: its properties are safety.
* `Controller`: the steps of an execution are strongly fair: it goes on, and Go serves those that
  wait on a channel, for the gate or for a slot, in order.  A run ends because adapters bound
  it with `context.WithTimeout`; that this needs a child without lingering descendants is note g of
  section 7.
* `ArtifactSandbox`: `execute` goes on, reconciliation repeats, the supervisor restarts a receiver that died.  The requester
  owes nothing, and the device stays enrolled.
* `RuntimeRun`: the adapter goes on, the deadline comes, the kill of a cancelled child happens.  The
  child owes nothing.
* `ServiceLifecycle`: the service manager starts what it keeps alive and finishes a
  deregistration; the user logs in again.  Commands owe nothing.

A suite states the same conditions for the behaviours of their `subject`.

## 6. Proofs

A proof is for every value of the constants that satisfies the assumptions of its module.  These
are `RelayConstants`, `HubConstants`, `ReceiverConstants` and `ReceiverValues`, `EnrollmentConstants`,
`RetentionOutlivesApproval` and `AbsentIsNoRecord` of `Creation`, `ControllerConstants`, `WindowPositive`,
`LevelsAreStanding`, `AbsentIsNoValue` and `TimeIsNatural` of `StandingApprovals`, `AdminConstants`,
`SetupConstants` and `AttemptConstants` of `MCCommands`, `RuntimeConstants`,
`LinesAreDecoded` and `NoneIsNoSession` of `RuntimeRun`, and `SandboxLimits` and `NoneIsNoFile` of
`MCExecution`.  They say three kinds of things: bounds, clocks, sizes and lifetimes are natural
numbers (and a channel holds at least one event); the requests of the receiver, the executions of the
controller and the names of returned files are finitely many; and a value that stands for "none" is
no value, as identities of two kinds are not equal; so an absent or a torn file holds no token, key, marker or
attempt.  `RuntimeConstants` and `LinesAreDecoded` add that kinds,
policies and lines are such, and that a text line has its text.  Two are about the code:

* `requestRetention` is longer than the longest approval time (seven days and one day,
  `collaboration/store.go:37` and `:909`).
* `SandboxLimits`: an answer of which each byte is escaped to six, 4096 bytes to describe each file and the base64 form
  of the bytes fit the relay's body: `6 * answer + (4096 + 8/3) * files + 4/3 * bytes <= body`, here in thirds; with the
  code's limits there is room to spare.  Nothing is assumed of keys or of what redaction does to an answer.

TLC evaluates all of them in the runs.  `MaxIDs`, `MaxFaults` and the like
are any natural number in a proof, so the theorems hold for histories of any length.

**Relay.** `RelayRequestsProofs` proves `Spec => []RelayInv`, and from it the type
invariant, all eight safety invariants of the relay, the action property
`NoRevokedApproval` and the refinement `Spec => RefinesLifecycle`.  The properties are not
inductive: they say nothing of a handler in the middle of a transaction.  `RelayInv`
adds that a handler between `Watch` and `Exec` has read a well-formed record which is
either still current or of an older version (`ExecOK`), and that what it means to write
is the endpoint's update of exactly that record (`Planned`); `Advances` and
`Reports` say how a written record follows from the one it replaces and what its writer
may then report.  `AttemptOK` ties the attempts of a handler to the version of the
request: each lost race is a write by somebody else, and `RecordOK` bounds the versions by
four.  A handler that is about to prune, to publish or to acknowledge has seen what
justifies it (`PruneOK`, `PublishOK`, `OnePublisher`, `SubmittedOK`), and a final status
is final.  The refinement maps a record to its cell; only a successful `Exec` and
`Create` change it.

**Hub.** `HubProofs` proves `Spec => []HubInv`, and from it `TypeOK`, `NoPanic`,
`LiveStreamsMissNothing`, `RevokedHaveNoSubscribers` and `RegistryIsLive`, for any
number of streams and any capacity.  `SendersHoldTheLock` is the argument of the comment
in `dropSubscriber`: a sender's channels are registered as long as it sends, and
registered channels are open.  `RequestsReach` and `CancellationsReach` say of every
forwarding stream that an event was delivered or its `Publish` still has to deal with the
stream; they need the order of creation, publication and cancellation (`RequestOrder`)
and that a fresh channel is empty (`FreshChannels`).  `CancellationsReach` speaks of the requests that were not overtaken: for
those the cancellation is sent after the announcement began to be.

**Receiver.** `ReceiverProofs` proves `Spec => []ReceiverInv`, and from it `StartsOnce`, `RunsAreApproved`
and `ResultsSound`.  None of them is inductive: a call that timed out long ago may still reach the relay, an
answer may wait for a goroutine, a snapshot may be stale.  `ReceiverInv` says of each such place what the relay
must have recorded by the time it is used.  A call on its way carries an identity that was drawn, a claim
only of the decision the relay has, a result only if it is the run's (`CallOK`); a call someone waits for is the
one its caller made (`LiveOK`), so an answer means what the caller takes it to mean (`ThreadOK`, `ExecOK`).  A
final status seen anywhere is the relay's for good (`EventOK`, `ThreadOK`).  At the centre is `JournalOK`: once a run
of a request has begun, the relay has its claim, and until the relay's status is final the journal holds the
record of that claim, at `runtime_started` or later.  `Advances` (decision, claim, final status and outcome are never
taken back) is what every step shares; with it a step is proved for the one goroutine, execution or message it
moves.  The record may be dropped by `RemoveJournal`, which takes no lock, only because `peer_cancelled` is sent
after the status is final.

**Controller, Presence, Creation.** `StoresProofs` proves what the run `stores` checks of each, of that
component's own specification (`Control!Spec`, `Agency!Spec`, `Spec`).

`TurnsSound` from: `refs` of a lock is the number of executions that point to it
(`CountInv`), a caller points to the lock its conversation maps to and no two conversations map to one lock
(`PointerInv`), one execution is past a closed gate (`GateInv`), the slots taken are counted (`SlotInv`).

`DirectorySound` from: a heartbeat about to commit watched a tombstone set without its agent
(`BeatInv`), and a listing past its second read has every tombstone that was there when it began
(`ListInv`).

`CreationSound` from: a request and its idempotency key name each other and expire
together (`BindingInv`), what was answered is what is kept (`AnswerInv`), and the inbox set outlives the
deadline of every awaiting request, for which retention must exceed the approval time (`InboxInv`).

**Enrollment.** `EnrolmentSound`, `RevocationSound` and the action property `ExactRetrySucceeds`, from what the keys in Redis
say of each other (`DeviceInv`, `CredInv`, `ConfirmedInv`) and what a handler between its reads and its
transaction may rely on (`CallOK`): all that it watches, unless its transaction is bound to fail, and of the rest
what no other handler undoes (`Grows`).

**Standing approvals.** `StandingApprovalsProofs` proves `GrantsSound` and the action property `ApprovalsSound`, for any scopes,
identities and bounds and with every kind of fault at once, where the run has scenarios.  A grant file
write that fails may leave the new snapshot on disk and the old one in memory, so the invariant speaks of both.  A decision
counts as backed when the grant it names is in both, has been dropped by name, or is timed (`Backed`); every
record marked persisted, every decision the relay has, and every operation past the grant file is backed (`JournalInv`,
`OpInv`), and `Keeps` says that a replaced snapshot drops no such grant.  A record that recovery may still restore
rests on a live choice or on a tombstone in both snapshots (`Restorable`): a confirmed revocation ends the
choices and leaves the tombstone, and only a new choice takes the tombstone away.  That holds while the clock has only run
forward (`corrections = 0`), as in the property; the clause about windows has no such condition.

**Service lifecycle.** `CommandsProofs` proves `ServiceAsAsked` of `Service!Spec`, for both platforms and any number
of commands, faults, interrupts, crashes and logins.  The invariant says at each step of a
command what the service manager knows (`CommandInv`: past the unloading nothing is registered, past the
definition's writing the unit is this command's), and that what runs or will run is registered (`ManagerInv`).  Under
systemd that last part fails once a `disable --now` was cut short, and is claimed only while none was (`Whole`): the
exception is the property's own (section 7, h).

**Setup.** `CommandsProofs` proves `Device!Spec => [](SetupInv /\ OnlyTokenInv)`, for any keys and any number of
configurations, failing file operations, lost answers and crashes.  `SetupInv` says of each configuration that it is
complete only if its device is enrolled, that its staged attempt is durable except while it is written, and
that an enrolled device has its attempt, with the enrolled key, now and after a crash, until its configuration is durably
complete (`ConfigurationInv`); and, at each step of the setup that runs, what it has written and synced (`SetupRunInv`).  So
`RetriesKeepIdentity` and `AttemptOutlivesPublication` hold for any number of configurations (`IdentitiesAreKept`).  The
token is shared by the configurations of a directory, so what is said of it between two runs (`TokenInv`) is
said only of a configuration that is alone, and `EnrolmentIsKept` proves `EnrolmentKept` for that case: with two it
fails, as note c of section 7 says.

**Administrator.** `OneAdministratorAlways`: bootstrap makes one organisation with one credential and
rotations replace it one for one, for any commands, handlers and faults at once; it needs what the watched keys promise a
handler up to its transaction and nothing of the disk.  `CredentialIsKept` proves `CredentialKept` from `AdminInv`,
under one hypothesis that the run has too: one command at a time (`OneCommand`; section 2), without which the property
fails.  Any number of calls are lost, writes and syncs fail and crashes happen, in any order.  The difficulty is the call
that was given up and may still commit.  So `AdminInv` says of every call in flight that the token it would install is
recorded at the relay already or is in a recovery file that no crash takes back, and what its handler may rely on unless its
transaction is bound to fail (`BootstrapOK`, `RotateOK`).  The command's attempt is used by nobody until it is staged, is
staged until the token is published, and is confirmed from the answer on (`CliStagesOK`), and a replaced token never
returns (`RecordsInv`).  What a crash leaves must hold the credential too, so a file counts as keeping a token only
when what it holds is durable (`Keeps`): every staged attempt is (`DurableOK`), and some file keeps the credential as long as
`mishap` is `"none"`, and holds it until `mishap` is `"crashed"` (`HeldInv`).
`RemovalsAreConfirmed` proves `RemovalIsConfirmed`, the clause of `RerunsComplete` that says what a step may
not do: a recovery file goes only when the relay has committed its attempt, or when nothing was sent of it yet.

**Runtime.** `ExecutionProofs` proves `RunSound` for any policies, requests, servers and lines.  About the operators
of `RuntimePolicy`: `normalizePolicy` is idempotent, `EffectivePolicy` is its own normal form and no wider than
the adapter's policy (`RequestsOnlyNarrow`), and the arguments of the child name only tools that it allows (`ToolsAreAllowed`).  So
what a child is granted follows from the policy of its run, and the session it reports is that policy's
(`ChildInv`, `SessionInv`).  `AnswerIsComplete` speaks of the lines that were said, the adapter only of those it
has read: `PipeInv` says that the unread lines are the end of what was said, and `ResultInv` that the result is the
last text and the last report among the lines heard.  `HandledIsTaken` is the one place where the three adapters'
treatment of a line is compared with that.

**Sandbox.** `ExecutionProofs` proves `ResultSound` of `Sandbox!Spec`.  The files taken and the names still to take are
together no more than were listed (`LoopInv`), no name is taken twice, and the totals are within bounds
(`FilesInv`); a staged result is one that the relay accepts or that only the relay refuses (`StagedInv`).  The last needs arithmetic about sums over sets:
the sum does not depend on the order in which a set is taken apart, grows by the size of a file that is added, and
the encoded sum is bounded by the sum of the sizes and the number of files (`SumIsUnique`, `SumTakesAny`,
`EncodedIsBounded`).  The library's induction rules take an operator, so the induction is on a least
counterexample: the strict subsets of a finite set are well-founded, and a nonempty set of counterexamples has a
minimal element (`LeastSubset`).

With these, each invariant and each action property of the runs that pass is proved, under the hypotheses named above;
of `RerunsComplete` its safety clause is.  Only model-checked: the liveness properties (`OperationsSettle`,
`RevokedStreamsEnd`, `LossesAreRepaired`, `EveryCallEnds`,
`RerunsComplete`, `StartedServiceRuns`, `CancelledRunEnds`, `ExecutionsAreAnswered`) need fairness, which is outside what
the prover handles, and stay with TLC.

## 7. Findings

1. `receiver_discard`, `internal/receiver/service.go:1142`.  `reconcile` reads the inbox,
   then a request arrives by event and the user allows it.  `Replace` drops the notice,
   since the inbox did not list the request yet; `GetRequest` still says awaiting approval;
   the user's Decide commits, but its handling fails for want of the notice.  Then
   `recoverOperationLocked`, with the status it was given before it waited for the lock,
   discards the journal record on the ground that "No relay decision committed".  The
   relay keeps an accepted request nobody can run.
2. `receiver_denyreplay`, `internal/receiver/service.go:988`.  After a crash between
   journaling and sending a Deny, startup retries it as `docs/security-model.md:147`
   says; the relay answers `rejected`, which `handleDecisionMutation` does not know (`Deny`
   itself does); reconcile fails and Run returns an error.  The next start succeeds,
   because the relay then reports `rejected` and recovery removes the record.

Also seen in these modules.  Notes a, e, f, h, j and k are in the runs: a property names the case as its exception, and
TLC finds a counterexample to the property without it.  The others are counterexamples to a property above, or to
the definition named, once the instance is widened as said.

a. `cmd/team-relay-admin/recovery.go:158` (`NeverLockedOut`, exception `mishap = "crashed"`).  An `AtomicWriteFile` of the
   new token renames and then fails to sync the directory.  The rerun finds the token in place, syncs nothing, and removes
   the recovery record before the directory is synced.  A crash may keep the removal and lose the
   rename.  `docs/admin.md:98-106` promises a safe rerun and says that there is no recovery when
   both are lost.
b. `internal/store/redis.go:866` (`enroll_race`: `MemberRevocationIsComplete`).
   `RevokeMember` reads the devices and watches the member only; an enrolment of a further device
   writes no key it watches.  The device is left unrevoked, against `docs/admin.md:42`.  It cannot
   authenticate while the member is revoked (`RevocationIsFinal` holds), but its agent has no
   tombstone.
c. `cmd/team-relay/main.go:470` (*setups* of `commands`, which claims `EnrolmentKept` of *setup* only: `TokenOnDisk`).  A setup with another `--config` in
   the same directory is refused because the token exists, and its cleanup removes that token.
d. `internal/receiver/approval_store.go:332` (`grants`: `RevokedCeilingStaysRevoked`).  Revoke a wide grant
   whose choice is not yet confirmed in the journal, make a narrow choice with the same grant
   identity, and recovery of the first choice widens the grant again, against the comment at
   `approval_store.go:270`.
e. `internal/artifact/manager.go:202` (`PreparedIsAcceptable` and `ExecutionsAreAnswered`, exception `OnlyRelayRefuses`).
   Returned files whose names differ only in case are journaled and then refused by the relay at every replay; the requester
   never gets an answer.
f. `internal/receiver/service.go:1475` (the same).  Redaction comes after the length check, and an answer it makes longer than
   `maximumAnswerBytes` is refused at every replay.
g. `internal/runtime/process.go:56` (`RuntimeRun`: a descendant that never closes the output).
   `CancelledRunEnds` says that a cancelled run ends or such a descendant holds it; with one, the
   run keeps its slot and its conversation.
h. `internal/lifecycle/lifecycle.go:265` (`StoppedStaysStopped` and `StartedServiceRuns`, exception `cut`).  After an
   interrupted or failed `systemctl disable --now` the unit's links are gone and the process runs; the next stop finds no such
   unit and reports success, and a start may find running what no login will start again.
i. `internal/receiver/service.go:1124`.  A startup reconciliation that holds an awaiting snapshot while the
   user's Allow is accepted finds `claim_prepared` and fails with "inconsistent durable receiver
   state", which ends Run.  No document says otherwise.
j. `internal/collaboration/handler.go:139` (`LiveStreamsMissNothing`, exception `overtaken`).  A creation commits, a retry of
   it with the same idempotency key is answered with the identity before the first handler publishes, and the
   requester cancels at once.  A stream that opens between the two publications gets `peer_request` and never
   `peer_cancelled`.  The receiver's next reconciliation drops the notice, since the inbox no longer lists the request.
k. `cmd/team-relay-admin/recovery.go:138` (`RotationCompletes`, exceptions `Foreign` and `Superseded`).  With a
   `--replacement-token-file` other than the token file, the new token is written in place: a crash can tear it, and then
   `ensureRotationTokenMatchesOrAbsent` (`:173`) refuses every rerun, although `docs/admin.md:93-106` says that the
   replacement is published atomically and that the rerun is safe.  `prepareRotationAttempt` does not look at the
   destination of a new attempt, so an older credential there is met only after the rotation committed, and the
   same refusal follows.  And an attempt whose source another rotation replaced first stays, refused by the relay.
   In none of them is the administrator locked out: the recovery file keeps the new token.

## 8. Not modelled

* The local control server, the MCP server, the desktop bridge and most command lines translate
  calls and keep no state of their own.  The requester's side of attachments
  (`internal/mcpserver/attachments.go`) reads and saves files for one call.
* The process lock is one primitive of the operating system; one daemon per state directory is
  assumed.
* Parsing of configuration, prompts, progress and usage events, tool and command deny lists, audit
  records and pagination: data without control that a property here tells apart.
* Ownership, mode and ACL checks of `internal/privatefs`: they refuse, and change nothing.
* Delegation of service commands to docker compose, and the installers: scripts of other tools.
* `StandingApprovals` and `Receiver` are not composed: each has the other's part of the journal as far as
  it needs it.  The composition is too large for TLC at bounds where both are interesting.

`PROJECT.json` gives the reason for each.

## 9. Plan

1. An abstract specification of the standing approvals, a set of grants that choices add to and
   revocations take from, and the refinement by `StandingApprovals`.
