------------------------- MODULE StandingApprovals -------------------------
(***************************************************************************)
(* The recipient's standing approvals: the grant file of                   *)
(* receiver/approval_store.go, the journal of receiver/mutation_store.go   *)
(* and the paths of receiver/service.go that choose, restore, match and    *)
(* revoke grants.  Both files are replaced as a whole; memory keeps its    *)
(* old snapshot when the replacement reports an error, and the disk may    *)
(* hold either snapshot then.  approvalDecisionMu admits one operation at  *)
(* a time; inbox events, cancellations, the clock and a crash fall between *)
(* any two of its writes.                                                  *)
(***************************************************************************)
EXTENDS Integers, FiniteSets

CONSTANTS Requests,     \* requests in the recipient's inbox
          Member,         \* Member[r]: the authenticated requester of r
          Conversation,   \* Conversation[r]
          Scopes,         \* access scopes a notice may carry
          Authorities,    \* enrolment, agent and effective policy, as one value
          Levels,         \* standing levels the recipient uses
          Window,         \* ApprovalConversationWindow in clock units
          None,
          MaxTime, MaxFaults, MaxCorrections   \* bounds

ASSUME WindowPositive == Window \in Nat \ {0}
ASSUME LevelsAreStanding ==
  Levels \subseteq {"conversation_30m", "teammate_always", "all_always"}

VARIABLES now,        \* the wall clock
          authority,  \* Service.approvalAuthority, None before a heartbeat
          mem, disk,  \* the grant store: [grants, revocations]
          jmem, jdisk,  \* the journal: per request a mutationRecord or None
          pending,    \* the scope in the pending notice, None when not pending
          relay,      \* requests whose allow the relay has recorded
          op,         \* the operation holding approvalDecisionMu
          faults, corrections,
          choices,    \* history: the explicit standing choices
          dropped     \* history: grants revoked or pruned with an authority

vars == <<now, authority, mem, disk, jmem, jdisk, pending, relay, op,
          faults, corrections, choices, dropped>>
stores == <<mem, disk>>
journal == <<jmem, jdisk>>
history == <<choices, dropped>>

Conv30m == "conversation_30m"
AskAlways == "ask_always"

(***************************************************************************)
(* stableApprovalGrantID: a digest of authority, level and the subject the *)
(* level binds, so equal exactly when these are equal.                     *)
(***************************************************************************)
stableApprovalGrantID(a, level, r) ==
  <<a, level, IF level = "all_always" THEN None ELSE Member[r],
    IF level = Conv30m THEN Conversation[r] ELSE None>>

GrantIds == {stableApprovalGrantID(a, level, r) :
               a \in Authorities, level \in Levels, r \in Requests}

Timed(id) == id[2] = Conv30m

(* A time is kept only where something is read from it.                    *)
Stamp(id, t) == IF Timed(id) THEN t ELSE 0

approvalScopeCovers(ceiling, requested) ==
  /\ requested.count <= ceiling.count
  /\ requested.bytes <= ceiling.bytes
  /\ \A alias \in DOMAIN requested.access :
       requested.access[alias] <= ceiling.access[alias]

approvalGrantExpired(id, grant) == Timed(id) /\ now >= grant.created + Window

pruneLocked(store, a) ==
  [store EXCEPT !.grants =
     [id \in GrantIds |->
        IF @[id] # None /\ (id[1] # a \/ approvalGrantExpired(id, @[id]))
          THEN None ELSE @[id]]]

OtherAuthority(a) == {id \in GrantIds : mem.grants[id] # None /\ id[1] # a}

(***************************************************************************)
(* AtomicWriteFile succeeds, fails before the rename, or fails after it.   *)
(***************************************************************************)
Outcomes == {"ok", "old", "new"}

writeLocked(new, outcome) ==
  /\ IF outcome = "ok" THEN UNCHANGED faults
     ELSE new # mem /\ faults < MaxFaults /\ faults' = faults + 1
  /\ mem' = IF outcome = "ok" THEN new ELSE mem
  /\ disk' = IF new # mem /\ outcome # "old" THEN new ELSE disk

writeJournal(r, record, outcome) ==
  /\ IF outcome = "ok" THEN UNCHANGED faults
     ELSE faults < MaxFaults /\ faults' = faults + 1
  /\ jmem' = IF outcome = "ok" THEN [jmem EXCEPT ![r] = record] ELSE jmem
  /\ jdisk' = IF outcome = "old" THEN jdisk ELSE [jmem EXCEPT ![r] = record]

Idle == [step |-> "idle", r |-> None, level |-> None, id |-> None, notice |-> None,
         at |-> 0]

At(step, r, level, id, notice) ==
  [step |-> step, r |-> r, level |-> level, id |-> id, notice |-> notice, at |-> 0]

(* prepareDecision binds the choice to the authority and the exact notice. *)
Record(r, level, id, persisted) ==
  [level |-> level, id |-> id, authority |-> authority, notice |-> pending[r],
   persisted |-> persisted, phase |-> "decision_prepared",
   at |-> IF id = None THEN 0 ELSE Stamp(id, now)]

requireCurrent(record, r) ==
  /\ authority # None /\ record.authority = authority
  /\ pending[r] # None /\ record.notice = pending[r]

Prepared(r) == jmem[r] # None /\ jmem[r].phase = "decision_prepared"

Chosen(id, r) == [id |-> id, scope |-> pending[r], at |-> Stamp(id, now), live |-> TRUE]

Init ==
  /\ now = 0 /\ authority = None /\ faults = 0 /\ corrections = 0
  /\ mem = [grants |-> [id \in GrantIds |-> None], revocations |-> {}]
  /\ disk = mem
  /\ jmem = [r \in Requests |-> None] /\ jdisk = jmem
  /\ pending \in [Requests -> Scopes]
  /\ relay = {} /\ op = Idle /\ choices = {} /\ dropped = {}

-----------------------------------------------------------------------------
(***************************************************************************)
(* activateApprovalAuthority, for the identity a heartbeat returned.  A    *)
(* changed identity disables standing approvals until the next heartbeat.  *)
(***************************************************************************)
activateApprovalAuthority(a, outcome) ==
  /\ op = Idle
  /\ writeLocked(pruneLocked(mem, a), outcome)
  /\ authority' = IF authority \notin {None, a} THEN None
                  ELSE IF outcome = "ok" THEN a ELSE authority
  /\ dropped' = dropped \cup OtherAuthority(a)
  /\ UNCHANGED <<now, journal, pending, relay, op, corrections, choices>>

(* ApprovalGrants lists after pruning.                                     *)
ApprovalGrants(outcome) ==
  /\ op = Idle /\ authority # None
  /\ pruneLocked(mem, authority) # mem
  /\ writeLocked(pruneLocked(mem, authority), outcome)
  /\ dropped' = dropped \cup OtherAuthority(authority)
  /\ UNCHANGED <<now, authority, journal, pending, relay, op, corrections, choices>>

(* Revoking what pruning has removed is ApprovalGrants and "not found".   *)
RevokeApprovalGrant(id, outcome) ==
  LET kept == pruneLocked(mem, authority) IN
  /\ op = Idle /\ authority # None
  /\ kept.grants[id] # None
  /\ writeLocked([grants |-> [kept.grants EXCEPT ![id] = None],
                  revocations |-> kept.revocations \cup {id}], outcome)
  /\ choices' = IF outcome # "ok" THEN choices
                ELSE {IF c.id = id THEN [c EXCEPT !.live = FALSE] ELSE c : c \in choices}
  /\ dropped' = dropped \cup {id}
  /\ UNCHANGED <<now, authority, journal, pending, relay, op, corrections>>

-----------------------------------------------------------------------------
(***************************************************************************)
(* Approve up to the journal.  A durable record of the same choice is      *)
(* continued; any other record refuses the call.                           *)
(***************************************************************************)
Planned(r, level) ==
  IF level = AskAlways THEN None ELSE stableApprovalGrantID(authority, level, r)

AfterApprove(record) == IF record.id = None \/ record.persisted THEN "commit" ELSE "upsert"

prepareDecision(r, record, outcome, After(_)) ==
  LET go(kept) == At(After(kept), r, kept.level, kept.id, kept.notice) IN
  IF jmem[r] = None
    THEN /\ writeJournal(r, record, outcome)
         /\ op' = IF outcome = "ok" THEN go(record) ELSE Idle
    ELSE /\ outcome = "ok" /\ UNCHANGED <<journal, faults>>
         /\ op' = IF /\ jmem[r].level = record.level /\ jmem[r].id = record.id
                     /\ jmem[r].authority = authority /\ jmem[r].notice = record.notice
                    THEN go(jmem[r]) ELSE Idle

(* The relay refuses a second decision, whatever status the notice shows.  *)
Awaiting(r) == IF jmem[r] = None THEN r \notin relay ELSE Prepared(r)

Approve(r, level, outcome) ==
  /\ op = Idle /\ authority # None /\ pending[r] # None
  /\ Awaiting(r)
  /\ prepareDecision(r, Record(r, level, Planned(r, level), FALSE), outcome, AfterApprove)
  /\ choices' = IF op'.step = "upsert" \/ (outcome = "new" /\ level # AskAlways)
                  THEN choices \cup {Chosen(Planned(r, level), r)} ELSE choices
  /\ UNCHANGED <<now, authority, stores, pending, relay, corrections, dropped>>

(***************************************************************************)
(* ApprovalStore.Upsert: clears the tombstone, keeps the timestamps of a   *)
(* grant that is there, and its ceiling where that covers the notice.      *)
(***************************************************************************)
WithGrant(store, id, notice, created) ==
  LET existing == store.grants[id] IN
  [store EXCEPT !.grants[id] =
     IF existing = None THEN [ceiling |-> notice, created |-> Stamp(id, created)]
     ELSE IF approvalScopeCovers(existing.ceiling, notice) THEN existing
     ELSE [existing EXCEPT !.ceiling = notice]]

Upserted(store, id, notice) ==
  WithGrant([store EXCEPT !.revocations = @ \ {id}], id, notice, now)

Upsert(outcome) ==
  /\ op.step = "upsert"
  /\ writeLocked(Upserted(pruneLocked(mem, op.id[1]), op.id, op.notice), outcome)
  /\ op' = IF outcome = "ok" THEN [op EXCEPT !.step = "confirm"] ELSE Idle
  /\ choices' = choices \cup {[id |-> op.id, scope |-> op.notice,
                               at |-> Stamp(op.id, now), live |-> TRUE]}
  /\ dropped' = dropped \cup OtherAuthority(op.id[1])
  /\ UNCHANGED <<now, authority, journal, pending, relay, corrections>>

(* mutations.Update marks the grant persisted; a cancelled record refuses. *)
ConfirmPersisted(outcome) ==
  /\ op.step = "confirm"
  /\ IF jmem[op.r] = None
       THEN outcome = "ok" /\ op' = Idle /\ UNCHANGED <<journal, faults>>
       ELSE /\ writeJournal(op.r, [jmem[op.r] EXCEPT !.persisted = TRUE,
                                     !.at = IF op.id = None THEN 0 ELSE Stamp(op.id, now)],
                            outcome)
            /\ op' = IF outcome = "ok" THEN [op EXCEPT !.step = "commit"] ELSE Idle
  /\ UNCHANGED <<now, authority, stores, pending, relay, corrections, history>>

(***************************************************************************)
(* commitAllowOnce and the claim of handleDecisionMutation: the request or *)
(* its answer may be lost, and the notice may have changed meanwhile.      *)
(***************************************************************************)
Committable == jmem[op.r] # None /\ requireCurrent(jmem[op.r], op.r)

CommitRefused ==
  /\ op.step = "commit" /\ ~Committable
  /\ op' = Idle
  /\ UNCHANGED <<now, authority, stores, journal, pending, relay, faults, corrections, history>>

DecideLost(recorded) ==
  /\ op.step = "commit" /\ Committable
  /\ relay' = IF recorded THEN relay \cup {op.r} ELSE relay
  /\ op' = Idle
  /\ UNCHANGED <<now, authority, stores, journal, pending, faults, corrections, history>>

Decide(outcome) ==
  /\ op.step = "commit" /\ Committable
  /\ relay' = relay \cup {op.r}
  /\ writeJournal(op.r, [jmem[op.r] EXCEPT !.phase = "claim_prepared"], outcome)
  /\ op' = Idle
  /\ UNCHANGED <<now, authority, stores, pending, corrections, history>>

-----------------------------------------------------------------------------
(***************************************************************************)
(* recoverOperation for a prepared decision: a stale one is discarded      *)
(* while the relay has no decision and refused once it has.                *)
(***************************************************************************)
DiscardPrepared(r, outcome) ==
  /\ op = Idle /\ Prepared(r) /\ r \notin relay
  /\ ~requireCurrent(jmem[r], r)
  /\ writeJournal(r, None, outcome)
  /\ UNCHANGED <<now, authority, stores, pending, relay, op, corrections, history>>

recoverOperation(r) ==
  /\ op = Idle /\ Prepared(r)
  /\ requireCurrent(jmem[r], r)
  /\ op' = IF jmem[r].id = None \/ jmem[r].persisted
             THEN At("commit", r, jmem[r].level, jmem[r].id, jmem[r].notice)
             ELSE [At("restore", r, jmem[r].level, jmem[r].id, jmem[r].notice)
                     EXCEPT !.at = jmem[r].at]
  /\ UNCHANGED <<now, authority, stores, journal, pending, relay, faults, corrections, history>>

(***************************************************************************)
(* RestorePrepared never clears a tombstone and counts the window from the *)
(* journal's time, or from now if the clock was set back behind it.        *)
(***************************************************************************)
GrantedAt(t) == IF t > now THEN now ELSE t

(* Mutant: recovery does not look at the tombstones.                       *)
RestoredRevoked(store, id, notice, at) ==
  IF approvalGrantExpired(id, [created |-> GrantedAt(at)]) THEN store
  ELSE WithGrant([store EXCEPT !.revocations = @ \ {id}], id, notice, GrantedAt(at))

Restored(store, id, notice, at) ==
  IF \/ id \in store.revocations
     \/ approvalGrantExpired(id, [created |-> GrantedAt(at)])
    THEN store
    ELSE WithGrant(store, id, notice, GrantedAt(at))

RestorePrepared(outcome) ==
  /\ op.step = "restore"
  /\ writeLocked(Restored(pruneLocked(mem, op.id[1]), op.id, op.notice, op.at), outcome)
  /\ op' = IF outcome = "ok" THEN [op EXCEPT !.step = "confirm", !.at = 0] ELSE Idle
  /\ dropped' = dropped \cup OtherAuthority(op.id[1])
  /\ UNCHANGED <<now, authority, journal, pending, relay, corrections, choices>>

-----------------------------------------------------------------------------
(***************************************************************************)
(* Match: the most specific grant whose ceiling covers the notice.         *)
(***************************************************************************)
Rank == [level \in {Conv30m, "teammate_always", "all_always"} |->
           CASE level = Conv30m -> 1
             [] level = "teammate_always" -> 2
             [] level = "all_always" -> 3]

Matching(store, r) ==
  {level \in Levels :
     LET grant == store.grants[stableApprovalGrantID(authority, level, r)]
     IN grant # None /\ approvalScopeCovers(grant.ceiling, pending[r])}

Match(store, r) ==
  CHOOSE level \in Matching(store, r) :
    \A other \in Matching(store, r) : Rank[level] <= Rank[other]

(* maybeAutoApprove finds a grant for an awaiting notice.                  *)
maybeAutoApprove(r, outcome) ==
  LET kept == pruneLocked(mem, authority) IN
  /\ op = Idle /\ authority # None /\ pending[r] # None
  /\ Awaiting(r)
  /\ Matching(kept, r) # {}
  /\ writeLocked(kept, outcome)
  /\ op' = IF outcome # "ok" THEN Idle
           ELSE At("matched", r, Match(kept, r),
                   stableApprovalGrantID(authority, Match(kept, r), r), pending[r])
  /\ dropped' = dropped \cup OtherAuthority(authority)
  /\ UNCHANGED <<now, authority, journal, pending, relay, corrections, choices>>

(***************************************************************************)
(* allowOnceWithApprovalForNotice re-reads the notice and matches again    *)
(* before it journals the decision as already backed by a grant.           *)
(***************************************************************************)
(* Mutant: the first match is trusted.                                     *)
MatchedOnce == pending[op.r] # None

StillMatched ==
  LET kept == pruneLocked(mem, authority) IN
  /\ pending[op.r] = op.notice
  /\ Matching(kept, op.r) # {} /\ Match(kept, op.r) = op.level

MatchStale ==
  /\ op.step = "matched" /\ ~StillMatched
  /\ op' = Idle
  /\ UNCHANGED <<now, authority, stores, journal, pending, relay, faults, corrections, history>>

allowOnceWithApprovalForNotice(outcome) ==
  /\ op.step = "matched" /\ StillMatched
  /\ prepareDecision(op.r, Record(op.r, op.level, op.id, TRUE), outcome,
                     LAMBDA record : "commit")
  /\ UNCHANGED <<now, authority, stores, pending, relay, corrections, history>>

-----------------------------------------------------------------------------
(* An inbox event or the reconciled inbox replaces the pending notice.     *)
ReplaceNotice(r, scope) ==
  /\ pending[r] \notin {None, scope} /\ r \notin relay
  /\ pending' = [pending EXCEPT ![r] = scope]
  /\ UNCHANGED <<now, authority, stores, journal, relay, op, faults, corrections, history>>

(* peer_cancelled forgets the request and its journal record.              *)
PeerCancelled(r) ==
  /\ pending[r] # None /\ r \notin relay
  /\ pending' = [pending EXCEPT ![r] = None]
  /\ jmem' = [jmem EXCEPT ![r] = None] /\ jdisk' = jmem'
  /\ UNCHANGED <<now, authority, stores, relay, op, faults, corrections, history>>

Tick ==
  /\ now < MaxTime /\ now' = now + 1
  /\ UNCHANGED <<authority, stores, journal, pending, relay, op, faults, corrections, history>>

ClockSetBack ==
  /\ corrections < MaxCorrections /\ now > 0
  /\ now' = now - 1 /\ corrections' = corrections + 1
  /\ UNCHANGED <<authority, stores, journal, pending, relay, op, faults, history>>

(***************************************************************************)
(* A restart reloads both files; load drops the grants that have expired   *)
(* and refuses a file with both a grant and a tombstone of one identity.   *)
(***************************************************************************)
Loadable(store) == \A id \in store.revocations : store.grants[id] = None

Loaded(store) ==
  [store EXCEPT !.grants =
     [id \in GrantIds |-> IF @[id] # None /\ approvalGrantExpired(id, @[id])
                            THEN None ELSE @[id]]]

CrashAndRestart ==
  /\ faults < MaxFaults /\ faults' = faults + 1
  /\ Loadable(disk)
  /\ mem' = Loaded(disk) /\ disk' = Loaded(disk)
  /\ jmem' = jdisk /\ UNCHANGED jdisk
  /\ authority' = None /\ op' = Idle
  /\ UNCHANGED <<now, pending, relay, corrections, history>>

-----------------------------------------------------------------------------
Work ==
  \E outcome \in Outcomes :
    \/ Upsert(outcome) \/ ConfirmPersisted(outcome) \/ Decide(outcome)
    \/ RestorePrepared(outcome) \/ allowOnceWithApprovalForNotice(outcome)

Next ==
  \/ \E outcome \in Outcomes :
       \/ \E a \in Authorities : activateApprovalAuthority(a, outcome)
       \/ ApprovalGrants(outcome)
       \/ \E id \in GrantIds : id[1] = authority /\ RevokeApprovalGrant(id, outcome)
       \/ \E r \in Requests, level \in Levels \cup {AskAlways} : Approve(r, level, outcome)
       \/ \E r \in Requests : DiscardPrepared(r, outcome) \/ maybeAutoApprove(r, outcome)
  \/ Work
  \/ CommitRefused \/ MatchStale
  \/ \E recorded \in BOOLEAN : DecideLost(recorded)
  \/ \E r \in Requests : recoverOperation(r) \/ PeerCancelled(r)
  \/ \E r \in Requests, scope \in Scopes : ReplaceNotice(r, scope)
  \/ Tick \/ ClockSetBack \/ CrashAndRestart

Spec == Init /\ [][Next]_vars

-----------------------------------------------------------------------------
Grant == [ceiling : Scopes, created : 0..MaxTime]
Store == [grants : [GrantIds -> Grant \cup {None}], revocations : SUBSET GrantIds]
MutationRecord ==
  [level : Levels \cup {AskAlways}, id : GrantIds \cup {None}, authority : Authorities,
   notice : Scopes, persisted : BOOLEAN, phase : {"decision_prepared", "claim_prepared"},
   at : 0..MaxTime]

(***************************************************************************)
(* None is the nil of every kind: it is no identity, no scope and no       *)
(* record.  The clock and its corrections are natural numbers.             *)
(***************************************************************************)
ASSUME AbsentIsNoValue ==
  /\ None \notin Authorities /\ None \notin Scopes /\ None \notin Requests
  /\ None \notin GrantIds /\ None \notin Grant /\ None \notin MutationRecord
ASSUME TimeIsNatural == MaxTime \in Nat

(* The state's shape; the files always hold what a restart can load.       *)
TypeOK ==
  /\ now \in 0..MaxTime /\ authority \in Authorities \cup {None}
  /\ {mem, disk} \subseteq Store
  /\ \A r \in Requests : {jmem[r], jdisk[r]} \subseteq MutationRecord \cup {None}
  /\ pending \in [Requests -> Scopes \cup {None}] /\ relay \subseteq Requests
  /\ op.step \in {"idle", "upsert", "confirm", "commit", "restore", "matched"}

(***************************************************************************)
(* Whatever write failed and whenever the receiver died, the grant file    *)
(* loads again: load refuses a grant that also has a tombstone.            *)
(***************************************************************************)
StoreLoads == Loadable(mem) /\ Loadable(disk)

(***************************************************************************)
(* While activateApprovalAuthority has an identity in force, the store has *)
(* no grant of another enrolment, agent or policy.                         *)
(***************************************************************************)
OnlyThisAuthority ==
  authority # None => \A id \in GrantIds : mem.grants[id] # None => id[1] = authority

LiveChoice(id, since) ==
  \E c \in choices : c.id = id /\ c.live /\ (Timed(id) => since <= c.at)

(***************************************************************************)
(* A grant, in memory or on disk, rests on an explicit choice of the       *)
(* recipient made after the last revocation that was confirmed; a timed    *)
(* one ends at most one window after such a choice; and its ceiling is     *)
(* the scope of some request it was chosen for.  Recovery, failed writes   *)
(* and restarts included, as long as the clock only runs forward.          *)
(***************************************************************************)
GrantsAreChosen ==
  \A store \in {mem, disk}, id \in GrantIds :
    store.grants[id] # None /\ corrections = 0 =>
      /\ LiveChoice(id, store.grants[id].created)
      /\ \E c \in choices : c.id = id /\ c.scope = store.grants[id].ceiling

(***************************************************************************)
(* A request decided under an untimed standing choice has its grant,       *)
(* unless that grant was revoked or pruned with its authority: a crash     *)
(* between the journal and the grant file loses no choice.                 *)
(***************************************************************************)
NoChoiceIsLost ==
  \A r \in Requests :
    LET record == jmem[r] IN
    (record # None /\ r \in relay /\ record.id \notin {None} \cup dropped /\ ~Timed(record.id))
      => mem.grants[record.id] # None

CoveredBy(r, id) ==
  /\ LiveChoice(id, now - Window + 1)
  /\ \E c \in choices : c.id = id /\ approvalScopeCovers(c.scope, pending[r])

(***************************************************************************)
(* maybeAutoApprove decides only for a notice whose scope the recipient    *)
(* once chose for this grant, while a choice since the last revocation is  *)
(* within its window: the notice, the grants and the clock, which only     *)
(* runs forward, may all change between the match and the decision.        *)
(***************************************************************************)
AutoApprovalIsCovered ==
  \A r \in Requests :
    (/\ jmem[r] = None /\ jdisk[r] = None /\ jdisk'[r] # None /\ jdisk'[r].persisted
     /\ corrections = 0)
      => CoveredBy(r, jdisk'[r].id)

(***************************************************************************)
(* A clock that was set back never gives a grant a window that begins in   *)
(* the future.                                                             *)
(***************************************************************************)
WindowStartsByNow ==
  \A id \in GrantIds :
    (mem.grants[id] = None /\ disk.grants[id] = None /\ disk'.grants[id] # None)
      => disk'.grants[id].created <= now

(***************************************************************************)
(* What RestorePrepared's comment says: a completed local revoke remains   *)
(* authoritative, so a ceiling in force was chosen since the last one.     *)
(* The code does not keep this (README, 7, note d).                        *)
(***************************************************************************)
RevokedCeilingStaysRevoked ==
  \A id \in GrantIds :
    mem.grants[id] # None =>
      \E c \in choices : c.id = id /\ c.live /\ c.scope = mem.grants[id].ceiling

(***************************************************************************)
(* The grant store over crashes, failed writes, expiry and a change of     *)
(* identity: it loads, holds what was chosen and of this authority only,   *)
(* and has lost no choice.                                                 *)
(***************************************************************************)
GrantsSound ==
  /\ TypeOK
  /\ StoreLoads /\ GrantsAreChosen /\ OnlyThisAuthority /\ NoChoiceIsLost

(***************************************************************************)
(* No automatic approval goes beyond what was chosen, and no window begins *)
(* in the future.                                                          *)
(***************************************************************************)
ApprovalsSound == [][AutoApprovalIsCovered /\ WindowStartsByNow]_vars
=============================================================================
