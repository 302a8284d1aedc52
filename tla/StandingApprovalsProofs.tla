----------------------- MODULE StandingApprovalsProofs -----------------------
(***************************************************************************)
(* Proofs about StandingApprovals, for any requests, scopes, identities    *)
(* and bounds.  The invariant says what the two files promise each other   *)
(* after any failed write or crash: a decision that counts as backed by a  *)
(* grant has it in memory and on disk, a decision that recovery may still  *)
(* restore rests on a live choice or is covered by a tombstone in both.    *)
(***************************************************************************)
EXTENDS StandingApprovals, TLAPS

Choices == [id : GrantIds, scope : Scopes, at : 0..MaxTime, live : BOOLEAN]
Records == MutationRecord \cup {None}
Ops == [step : {"idle", "upsert", "confirm", "commit", "restore", "matched"},
        r : Requests \cup {None}, level : Levels \cup {AskAlways, None},
        id : GrantIds \cup {None}, notice : Scopes \cup {None}, at : 0..MaxTime]

(* The shape of the state.                                                 *)
ShapeInv ==
  /\ now \in 0..MaxTime /\ authority \in Authorities \cup {None} /\ corrections \in Nat
  /\ mem \in Store /\ disk \in Store
  /\ jmem \in [Requests -> Records] /\ jdisk \in [Requests -> Records]
  /\ pending \in [Requests -> Scopes \cup {None}] /\ relay \subseteq Requests
  /\ op \in Ops
  /\ choices \subseteq Choices /\ dropped \subseteq GrantIds

(* A tombstone excludes a grant, and only a revocation leaves one.         *)
StoreOK(store, drops) == Loadable(store) /\ store.revocations \subseteq drops

(* A grant that stays in force is kept by whatever replaces the snapshot.  *)
Keeps(old, new, drops) ==
  \A id \in GrantIds \ drops : ~Timed(id) /\ old.grants[id] # None => new.grants[id] # None

StoreInv == /\ StoreOK(mem, dropped) /\ StoreOK(disk, dropped)
            /\ Keeps(mem, disk, dropped) /\ OnlyThisAuthority

(* A grant on which a decision rests is in both snapshots.                 *)
Backed(id, old, new, drops) ==
  \/ id \in {None} \cup drops \/ Timed(id)
  \/ old.grants[id] # None /\ new.grants[id] # None

(* A record names its authority's grant; memory and file agree on which.   *)
RecordOK(record, decided, old, new, drops) ==
  record # None =>
    /\ record.id # None => record.id[1] = record.authority
    /\ record.persisted \/ decided => Backed(record.id, old, new, drops)

JournalInv ==
  \A r \in Requests :
    /\ RecordOK(jmem[r], r \in relay, mem, disk, dropped)
    /\ RecordOK(jdisk[r], r \in relay, mem, disk, dropped)
    /\ jmem[r] # None /\ jdisk[r] # None => jmem[r].id = jdisk[r].id

(* What the operation that holds approvalDecisionMu relies on.             *)
OpInv ==
  /\ op.step # "idle" => op.r \in Requests /\ op.notice \in Scopes /\ authority # None
  /\ op.step \in {"upsert", "restore", "confirm", "matched"} =>
       op.id \in GrantIds /\ op.id[1] = authority
  /\ op.step = "matched" =>
       op.level \in Levels /\ op.id = stableApprovalGrantID(authority, op.level, op.r)
  /\ op.step \in {"upsert", "restore", "confirm", "commit"} /\ jmem[op.r] # None =>
       jmem[op.r].id = op.id
  /\ op.step \in {"confirm", "matched", "commit"} => Backed(op.id, mem, disk, dropped)

(* A live choice whose window reaches back to `since` at the latest.       *)
LiveIn(id, since, made) == \E c \in made : c.id = id /\ c.live /\ (Timed(id) => since <= c.at)
ScopeIn(id, scope, made) == \E c \in made : c.id = id /\ c.scope = scope

ChosenIn(store, made) ==
  \A id \in GrantIds : store.grants[id] # None =>
    LiveIn(id, store.grants[id].created, made) /\ ScopeIn(id, store.grants[id].ceiling, made)

(* Recovery may restore this grant: it was chosen, and revoking leaves     *)
(* tombstones that stop it.                                                *)
Restorable(id, notice, at, made, old, new) ==
  /\ LiveIn(id, at, made) \/ (id \in old.revocations /\ id \in new.revocations)
  /\ ScopeIn(id, notice, made)

RecordChosen(record, made, old, new, time) ==
  record # None =>
    /\ record.at <= time
    /\ record.id # None /\ ~record.persisted =>
         Restorable(record.id, record.notice, record.at, made, old, new)

(* What rests on a choice, as long as the clock only ran forward.          *)
ChosenInv ==
  corrections = 0 =>
    /\ ChosenIn(mem, choices) /\ ChosenIn(disk, choices)
    /\ \A r \in Requests : /\ RecordChosen(jmem[r], choices, mem, disk, now)
                           /\ RecordChosen(jdisk[r], choices, mem, disk, now)
    /\ op.at <= now
    /\ op.step = "restore" => Restorable(op.id, op.notice, op.at, choices, mem, disk)

StandingInv == ShapeInv /\ StoreInv /\ JournalInv /\ OpInv /\ ChosenInv

-----------------------------------------------------------------------------
(* Identities of grants.                                                   *)
LEMMA GrantIdOf ==
  ASSUME NEW a \in Authorities, NEW level \in Levels, NEW r \in Requests
  PROVE  /\ stableApprovalGrantID(a, level, r) \in GrantIds
         /\ stableApprovalGrantID(a, level, r)[1] = a
BY DEF GrantIds, stableApprovalGrantID

LEMMA AuthorityOf == \A id \in GrantIds : id[1] \in Authorities
BY DEF GrantIds, stableApprovalGrantID

LEMMA StampType ==
  ASSUME NEW id, NEW t \in 0..MaxTime
  PROVE  Stamp(id, t) \in 0..MaxTime /\ Stamp(id, t) <= t /\ (Timed(id) => Stamp(id, t) = t)
BY TimeIsNatural DEF Stamp

(* Pruning drops expired grants and those of another authority.            *)
LEMMA Pruned ==
  ASSUME NEW store \in Store, NEW a
  PROVE  /\ pruneLocked(store, a) \in Store
         /\ pruneLocked(store, a).revocations = store.revocations
         /\ \A id \in GrantIds :
              /\ pruneLocked(store, a).grants[id] \in {store.grants[id], None}
              /\ pruneLocked(store, a).grants[id] # None =>
                   id[1] = a /\ ~approvalGrantExpired(id, store.grants[id])
              /\ id[1] = a /\ ~Timed(id) =>
                   pruneLocked(store, a).grants[id] = store.grants[id]
BY DEF pruneLocked, Store, approvalGrantExpired

(* A grant is added, or its ceiling replaced, and no other one is touched. *)
LEMMA Granted ==
  ASSUME NEW store \in Store, NEW id \in GrantIds, NEW notice \in Scopes,
         NEW t \in 0..MaxTime
  PROVE  /\ WithGrant(store, id, notice, t) \in Store
         /\ WithGrant(store, id, notice, t).revocations = store.revocations
         /\ \A j \in GrantIds \ {id} :
              WithGrant(store, id, notice, t).grants[j] = store.grants[j]
         /\ WithGrant(store, id, notice, t).grants[id] \in Grant
         /\ store.grants[id] = None =>
              /\ WithGrant(store, id, notice, t).grants[id].ceiling = notice
              /\ WithGrant(store, id, notice, t).grants[id].created = Stamp(id, t)
         /\ store.grants[id] # None =>
              /\ WithGrant(store, id, notice, t).grants[id].ceiling \in {store.grants[id].ceiling, notice}
              /\ WithGrant(store, id, notice, t).grants[id].created = store.grants[id].created
<1>1. PICK g : g = IF store.grants[id] = None THEN [ceiling |-> notice, created |-> Stamp(id, t)]
                   ELSE IF approvalScopeCovers(store.grants[id].ceiling, notice) THEN store.grants[id]
                   ELSE [store.grants[id] EXCEPT !.ceiling = notice]
  OBVIOUS
<1>2. WithGrant(store, id, notice, t) = [store EXCEPT !.grants[id] = g]
  BY <1>1 DEF WithGrant
<1>3. store.grants[id] # None => store.grants[id] \in Grant
  BY DEF Store
<1>4. Stamp(id, t) \in 0..MaxTime
  BY StampType
<1>5. CASE store.grants[id] = None
  <2>1. g = [ceiling |-> notice, created |-> Stamp(id, t)]
    BY <1>1, <1>5
  <2> QED
    BY <1>2, <1>4, <1>5, <2>1 DEF Store, Grant
<1>6. CASE store.grants[id] # None
  <2>1. g \in Grant /\ g.ceiling \in {store.grants[id].ceiling, notice}
                    /\ g.created = store.grants[id].created
    BY <1>1, <1>3, <1>6 DEF Grant
  <2> QED
    BY <1>2, <1>6, <2>1 DEF Store
<1> QED
  BY <1>5, <1>6

(* The outcomes of a replaced file: both snapshots, the disk's, none.      *)
LEMMA Written ==
  ASSUME NEW new, NEW outcome \in Outcomes, writeLocked(new, outcome)
  PROVE  /\ \/ mem' = new /\ disk' = new
            \/ mem' = mem /\ disk' = new
            \/ mem' = mem /\ disk' = disk
         /\ outcome = "ok" => mem' = new
         /\ outcome = "ok" /\ new # mem => disk' = new
BY DEF writeLocked, Outcomes

LEMMA Journaled ==
  ASSUME ShapeInv, NEW r \in Requests, NEW record \in Records, NEW outcome \in Outcomes,
         writeJournal(r, record, outcome)
  PROVE  /\ jmem' \in [Requests -> Records] /\ jdisk' \in [Requests -> Records]
         /\ \A q \in Requests \ {r} : jmem'[q] = jmem[q] /\ jdisk'[q] \in {jmem[q], jdisk[q]}
         /\ \/ outcome = "ok" /\ jmem'[r] = record /\ jdisk'[r] = record
            \/ outcome = "new" /\ jmem'[r] = jmem[r] /\ jdisk'[r] = record
            \/ outcome = "old" /\ jmem'[r] = jmem[r] /\ jdisk'[r] = jdisk[r]
BY DEF writeJournal, Outcomes, ShapeInv

-----------------------------------------------------------------------------
(* What a step on the grant store may do to the grants decisions rest on,  *)
(* and to the choices grants rest on.                                      *)
StoreMove ==
  dropped \subseteq dropped' /\ Keeps(mem, mem', dropped') /\ Keeps(mem, disk', dropped')

ChoiceMove ==
  /\ choices' \subseteq Choices
  /\ \A c \in choices :
       /\ \E d \in choices' : d.id = c.id /\ d.scope = c.scope
       /\ c.live => c \in choices' \/ (c.id \in mem'.revocations /\ c.id \in disk'.revocations)
  /\ \A id \in GrantIds :
       id \in mem.revocations /\ id \in disk.revocations =>
         \/ id \in mem'.revocations /\ id \in disk'.revocations
         \/ LiveIn(id, now, choices')

LEMMA BackedKept ==
  ASSUME StoreMove, NEW id \in GrantIds \cup {None}, Backed(id, mem, disk, dropped)
  PROVE  Backed(id, mem', disk', dropped')
BY AbsentIsNoValue DEF StoreMove, Keeps, Backed

LEMMA RecordTypes ==
  \A record \in Records : record # None =>
    /\ record \in MutationRecord /\ record.id \in GrantIds \cup {None}
    /\ record.at \in 0..MaxTime /\ record.notice \in Scopes /\ record.authority \in Authorities
BY DEF Records, MutationRecord

LEMMA JournalKept ==
  ASSUME ShapeInv, JournalInv, StoreMove, UNCHANGED <<jmem, jdisk, relay>>
  PROVE  JournalInv'
<1>1. ASSUME NEW r \in Requests, NEW record \in {jmem[r], jdisk[r]}
      PROVE  RecordOK(record, r \in relay, mem', disk', dropped')
  <2>1. record \in Records /\ RecordOK(record, r \in relay, mem, disk, dropped)
    BY <1>1 DEF ShapeInv, JournalInv
  <2> QED
    BY <2>1, RecordTypes, BackedKept DEF RecordOK
<1>2. \A r \in Requests : jmem'[r] = jmem[r] /\ jdisk'[r] = jdisk[r] /\ (r \in relay' <=> r \in relay)
  OBVIOUS
<1> QED
  BY <1>1, <1>2 DEF JournalInv

LEMMA RestorableKept ==
  ASSUME ShapeInv, ChoiceMove, NEW id \in GrantIds, NEW notice, NEW since \in 0..MaxTime,
         since <= now, Restorable(id, notice, since, choices, mem, disk)
  PROVE  Restorable(id, notice, since, choices', mem', disk')
<1>1. ScopeIn(id, notice, choices')
  BY DEF Restorable, ScopeIn, ChoiceMove
<1>3. LiveIn(id, now, choices') => LiveIn(id, since, choices')
  <2>1. \A c \in choices' : c.at \in Nat
    BY TimeIsNatural DEF ChoiceMove, Choices
  <2> QED
    BY <2>1, TimeIsNatural DEF LiveIn, ShapeInv
<1>4. CASE LiveIn(id, since, choices)
  BY <1>1, <1>4 DEF LiveIn, ChoiceMove, Restorable
<1>5. CASE id \in mem.revocations /\ id \in disk.revocations
  BY <1>1, <1>3, <1>5 DEF ChoiceMove, Restorable
<1> QED
  BY <1>4, <1>5 DEF Restorable

(* A record that does not change keeps its choice.                         *)
LEMMA RecordChosenKept ==
  ASSUME ShapeInv, ChoiceMove, NEW record \in Records, NEW time \in 0..MaxTime, now <= time,
         RecordChosen(record, choices, mem, disk, now)
  PROVE  RecordChosen(record, choices', mem', disk', time)
<1>1. record # None => record.at <= time
  BY RecordTypes, TimeIsNatural DEF RecordChosen, ShapeInv
<1>2. ASSUME record # None, record.id # None, ~record.persisted
      PROVE  Restorable(record.id, record.notice, record.at, choices', mem', disk')
  <2>1. record.id \in GrantIds /\ record.at \in 0..MaxTime /\ record.at <= now
    BY <1>2, RecordTypes DEF RecordChosen
  <2>2. Restorable(record.id, record.notice, record.at, choices, mem, disk)
    BY <1>2 DEF RecordChosen
  <2> QED
    BY <2>1, <2>2, RestorableKept
<1> QED
  BY <1>1, <1>2 DEF RecordChosen

(* Choices that are only added to keep what rests on them.                 *)
LEMMA ChosenGrows ==
  ASSUME NEW store, NEW made, NEW more, made \subseteq more, ChosenIn(store, made)
  PROVE  ChosenIn(store, more)
BY DEF ChosenIn, LiveIn, ScopeIn

(* Whatever the outcome of a replaced grant file.                          *)
LEMMA StoreStep ==
  ASSUME ShapeInv, StoreInv, NEW new \in Store, NEW outcome \in Outcomes,
         writeLocked(new, outcome),
         dropped \subseteq dropped', StoreOK(new, dropped'), Keeps(mem, new, dropped')
  PROVE  /\ mem' \in Store /\ disk' \in Store /\ StoreMove
         /\ StoreOK(mem', dropped') /\ StoreOK(disk', dropped')
         /\ Keeps(mem', disk', dropped')
<1>1. /\ StoreOK(mem, dropped') /\ StoreOK(disk, dropped')
      /\ Keeps(mem, disk, dropped') /\ Keeps(mem, mem, dropped') /\ Keeps(new, new, dropped')
  BY DEF StoreInv, StoreOK, Keeps
<1> QED
  BY <1>1, Written DEF ShapeInv, StoreMove

(* The same for the grants' choices, when choices are only added.          *)
LEMMA StoreChosen ==
  ASSUME ShapeInv, ChosenInv, corrections = 0, NEW new \in Store, NEW outcome \in Outcomes,
         writeLocked(new, outcome), choices \subseteq choices', choices' \subseteq Choices,
         ChosenIn(new, choices'),
         \A id \in mem.revocations : id \in new.revocations \/ LiveIn(id, now, choices')
  PROVE  /\ ChosenIn(mem', choices') /\ ChosenIn(disk', choices')
         /\ ChoiceMove
<1>1. ChosenIn(mem, choices') /\ ChosenIn(disk, choices')
  BY ChosenGrows DEF ChosenInv
<1>2. ChoiceMove
  <2>1. \A c \in choices : c \in choices'
    OBVIOUS
  <2>2. ASSUME NEW id \in GrantIds, id \in mem.revocations, id \in disk.revocations,
               ~LiveIn(id, now, choices')
        PROVE  id \in mem'.revocations /\ id \in disk'.revocations
    BY <2>2, Written
  <2> QED
    BY <2>1, <2>2 DEF ChoiceMove
<1> QED
  BY <1>1, <1>2, Written

(* Pruning for authority a.                                                *)
LEMMA PruneFacts ==
  ASSUME ShapeInv, StoreInv, ChosenInv, NEW a
  PROVE  /\ pruneLocked(mem, a) \in Store
         /\ StoreOK(pruneLocked(mem, a), dropped)
         /\ Keeps(mem, pruneLocked(mem, a), dropped \cup OtherAuthority(a))
         /\ corrections = 0 => ChosenIn(pruneLocked(mem, a), choices)
<1>1. mem \in Store
  BY DEF ShapeInv
<1> DEFINE p == pruneLocked(mem, a)
<1>2. /\ p \in Store /\ p.revocations = mem.revocations
      /\ \A id \in GrantIds : /\ p.grants[id] \in {mem.grants[id], None}
                              /\ id[1] = a /\ ~Timed(id) => p.grants[id] = mem.grants[id]
  BY <1>1, Pruned
<1>3. mem.revocations \subseteq GrantIds
  BY <1>1 DEF Store
<1> HIDE DEF p
<1>4. StoreOK(p, dropped)
  BY <1>2, <1>3 DEF StoreInv, StoreOK, Loadable
<1>5. Keeps(mem, p, dropped \cup OtherAuthority(a))
  BY <1>2 DEF Keeps, OtherAuthority
<1>6. corrections = 0 => ChosenIn(p, choices)
  BY <1>2 DEF ChosenInv, ChosenIn
<1> QED
  BY <1>2, <1>4, <1>5, <1>6 DEF p

(* Every action that only prunes: the stores, the journal and its choices. *)
LEMMA PruneStep ==
  ASSUME StandingInv, NEW a, NEW outcome \in Outcomes,
         writeLocked(pruneLocked(mem, a), outcome),
         dropped' = dropped \cup OtherAuthority(a),
         UNCHANGED <<now, journal, relay, corrections, choices>>
  PROVE  /\ mem' \in Store /\ disk' \in Store /\ dropped' \subseteq GrantIds /\ StoreMove
         /\ StoreOK(mem', dropped') /\ StoreOK(disk', dropped') /\ Keeps(mem', disk', dropped')
         /\ JournalInv'
         /\ corrections = 0 =>
              /\ ChosenIn(mem', choices') /\ ChosenIn(disk', choices')
              /\ \A r \in Requests : /\ RecordChosen(jmem'[r], choices', mem', disk', now')
                                     /\ RecordChosen(jdisk'[r], choices', mem', disk', now')
<1> DEFINE p == pruneLocked(mem, a)
<1>1. /\ ShapeInv /\ StoreInv /\ ChosenInv /\ JournalInv /\ mem \in Store
  BY DEF StandingInv, ShapeInv
<1>2. /\ p \in Store /\ StoreOK(p, dropped) /\ Keeps(mem, p, dropped')
      /\ corrections = 0 => ChosenIn(p, choices)
      /\ p.revocations = mem.revocations
  BY <1>1, PruneFacts, Pruned
<1>3. StoreOK(p, dropped') /\ dropped \subseteq dropped' /\ dropped' \subseteq GrantIds
  BY <1>1, <1>2 DEF StoreOK, ShapeInv, OtherAuthority
<1> HIDE DEF p
<1>4. writeLocked(p, outcome)
  BY DEF p
<1>5. /\ mem' \in Store /\ disk' \in Store /\ StoreMove
      /\ StoreOK(mem', dropped') /\ StoreOK(disk', dropped') /\ Keeps(mem', disk', dropped')
  BY <1>1, <1>2, <1>3, <1>4, StoreStep
<1>6. JournalInv'
  BY <1>1, <1>5, JournalKept DEF journal
<1>7. ASSUME corrections = 0
      PROVE  /\ ChosenIn(mem', choices') /\ ChosenIn(disk', choices')
             /\ \A r \in Requests : /\ RecordChosen(jmem'[r], choices', mem', disk', now')
                                    /\ RecordChosen(jdisk'[r], choices', mem', disk', now')
  <2>1. ChosenIn(mem', choices') /\ ChosenIn(disk', choices') /\ ChoiceMove
    <3>1. choices \subseteq choices' /\ choices' \subseteq Choices
      BY <1>1 DEF ShapeInv
    <3>2. ChosenIn(p, choices')
      BY <1>2, <1>7
    <3>3. \A id \in mem.revocations : id \in p.revocations \/ LiveIn(id, now, choices')
      BY <1>2
    <3> QED
      BY <1>1, <1>2, <1>4, <1>7, <3>1, <3>2, <3>3, StoreChosen
  <2>2. ASSUME NEW r \in Requests, NEW record \in {jmem[r], jdisk[r]}
        PROVE  RecordChosen(record, choices', mem', disk', now')
    <3>1. record \in Records /\ RecordChosen(record, choices, mem, disk, now)
      BY <1>1, <1>7, <2>2 DEF ShapeInv, ChosenInv
    <3>2. now' \in 0..MaxTime /\ now <= now'
      BY <1>1, TimeIsNatural DEF ShapeInv
    <3> QED
      BY <1>1, <2>1, <3>1, <3>2, RecordChosenKept
  <2> QED
    BY <2>1, <2>2 DEF journal
<1> QED
  BY <1>3, <1>5, <1>6, <1>7

(* activateApprovalAuthority and ApprovalGrants.                           *)
LEMMA AuthorityStep ==
  ASSUME StandingInv, NEW outcome \in Outcomes,
         \/ \E a \in Authorities : activateApprovalAuthority(a, outcome)
         \/ ApprovalGrants(outcome)
  PROVE  StandingInv'
<1>1. PICK a \in Authorities :
        /\ op = Idle /\ writeLocked(pruneLocked(mem, a), outcome)
        /\ dropped' = dropped \cup OtherAuthority(a)
        /\ UNCHANGED <<now, journal, pending, relay, op, corrections, choices>>
        /\ authority' \in Authorities \cup {None}
        /\ authority' # None => authority' = a /\ (outcome = "ok" \/ authority = a)
  BY DEF activateApprovalAuthority, ApprovalGrants, StandingInv, ShapeInv
<1>2. /\ mem' \in Store /\ disk' \in Store /\ dropped' \subseteq GrantIds
      /\ StoreOK(mem', dropped') /\ StoreOK(disk', dropped') /\ Keeps(mem', disk', dropped')
      /\ JournalInv'
      /\ corrections = 0 =>
           /\ ChosenIn(mem', choices') /\ ChosenIn(disk', choices')
           /\ \A r \in Requests : /\ RecordChosen(jmem'[r], choices', mem', disk', now')
                                  /\ RecordChosen(jdisk'[r], choices', mem', disk', now')
  BY <1>1, PruneStep
<1>3. ShapeInv'
  BY <1>1, <1>2 DEF StandingInv, ShapeInv, journal
<1>4. OnlyThisAuthority'
  <2>1. SUFFICES ASSUME authority' # None, NEW id \in GrantIds, mem'.grants[id] # None
                 PROVE  id[1] = a
    BY <1>1 DEF OnlyThisAuthority
  <2>2. mem \in Store /\ OnlyThisAuthority
    BY DEF StandingInv, ShapeInv, StoreInv
  <2>3. CASE outcome = "ok"
    BY <1>1, <2>1, <2>2, <2>3, Written, Pruned
  <2>4. CASE authority = a /\ outcome # "ok"
    <3>1. mem' = mem
      BY <1>1, <2>4 DEF writeLocked
    <3>2. authority # None
      BY <2>4, AbsentIsNoValue
    <3> QED
      BY <2>1, <2>2, <2>4, <3>1, <3>2 DEF OnlyThisAuthority
  <2> QED
    BY <1>1, <2>1, <2>3, <2>4
<1>5. OpInv'
  BY <1>1 DEF OpInv, Idle
<1>6. ChosenInv'
  BY <1>1, <1>2, <1>3, TimeIsNatural DEF ChosenInv, Idle, ShapeInv
<1> QED
  BY <1>2, <1>3, <1>4, <1>5, <1>6 DEF StandingInv, StoreInv

(* A revocation that is confirmed ends the choices and leaves tombstones.  *)
LEMMA RevokeStep ==
  ASSUME StandingInv, NEW outcome \in Outcomes, NEW id \in GrantIds, id[1] = authority,
         RevokeApprovalGrant(id, outcome)
  PROVE  StandingInv'
<1>0. /\ ShapeInv /\ StoreInv /\ ChosenInv /\ JournalInv /\ mem \in Store /\ disk \in Store
      /\ OnlyThisAuthority
  BY DEF StandingInv, ShapeInv, StoreInv
<1> DEFINE kept == pruneLocked(mem, authority)
           new == [grants |-> [kept.grants EXCEPT ![id] = None],
                   revocations |-> kept.revocations \cup {id}]
<1>1. /\ op = Idle /\ authority # None /\ kept.grants[id] # None
      /\ writeLocked(new, outcome)
      /\ choices' = IF outcome # "ok" THEN choices
                    ELSE {IF c.id = id THEN [c EXCEPT !.live = FALSE] ELSE c : c \in choices}
      /\ dropped' = dropped \cup {id}
      /\ UNCHANGED <<now, authority, jmem, jdisk, pending, relay, op, corrections>>
  BY DEF RevokeApprovalGrant, journal
<1>2. /\ kept \in Store /\ kept.revocations = mem.revocations
      /\ \A j \in GrantIds : kept.grants[j] \in {mem.grants[j], None}
  BY <1>0, Pruned
<1>3. OtherAuthority(authority) = {}
  BY <1>0, <1>1 DEF OtherAuthority, OnlyThisAuthority
<1>4. StoreOK(kept, dropped) /\ Keeps(mem, kept, dropped)
      /\ (corrections = 0 => ChosenIn(kept, choices))
  BY <1>0, <1>3, PruneFacts
<1> HIDE DEF kept
<1>5. /\ new \in Store /\ new.grants[id] = None /\ id \in new.revocations
      /\ mem.revocations \subseteq new.revocations
      /\ \A j \in GrantIds \ {id} : new.grants[j] = kept.grants[j]
      /\ new.revocations = mem.revocations \cup {id}
  BY <1>2 DEF Store
<1>6. new # mem
  BY <1>1, <1>2, <1>5
<1> HIDE DEF new
<1>7. StoreOK(new, dropped') /\ Keeps(mem, new, dropped') /\ dropped \subseteq dropped'
  BY <1>1, <1>2, <1>4, <1>5 DEF StoreOK, Keeps, Loadable, Store
<1>8. /\ mem' \in Store /\ disk' \in Store /\ StoreMove
      /\ StoreOK(mem', dropped') /\ StoreOK(disk', dropped') /\ Keeps(mem', disk', dropped')
  BY <1>0, <1>1, <1>5, <1>7, StoreStep
<1>9. choices' \subseteq Choices /\ dropped' \subseteq GrantIds
  BY <1>0, <1>1 DEF ShapeInv, Choices
<1>10. ShapeInv'
  BY <1>0, <1>1, <1>8, <1>9 DEF ShapeInv
<1>11. OnlyThisAuthority'
  <2>1. \A j \in GrantIds : mem'.grants[j] # None => mem.grants[j] # None
    BY <1>1, <1>2, <1>5, Written
  <2> QED
    BY <1>0, <1>1, <2>1 DEF OnlyThisAuthority
<1>12. JournalInv'
  BY <1>0, <1>1, <1>8, JournalKept
<1>13. OpInv'
  BY <1>1 DEF OpInv, Idle
<1>14. ASSUME corrections = 0
       PROVE  ChosenIn(mem', choices') /\ ChosenIn(disk', choices') /\ ChoiceMove
  <2>1. CASE outcome # "ok"
    <3>1. ChosenIn(new, choices)
      BY <1>4, <1>5, <1>14 DEF ChosenIn
    <3>2. choices' = choices
      BY <1>1, <2>1
    <3> QED
      BY <1>0, <1>1, <1>5, <1>9, <1>14, <3>1, <3>2, StoreChosen
  <2>2. CASE outcome = "ok"
    <3>1. mem' = new /\ disk' = new
      BY <1>1, <1>6, <2>2, Written
    <3>2. \A c \in choices : c.id # id => c \in choices'
      BY <1>1, <2>2
    <3>3. ASSUME NEW c \in choices
          PROVE  \E d \in choices' : d.id = c.id /\ d.scope = c.scope
      <4>1. CASE c.id # id
        BY <3>2, <4>1
      <4>2. CASE c.id = id
        <5>1. [c EXCEPT !.live = FALSE] \in choices'
          BY <1>1, <2>2, <4>2
        <5>2. [c EXCEPT !.live = FALSE].id = c.id /\ [c EXCEPT !.live = FALSE].scope = c.scope
          BY <1>0 DEF ShapeInv, Choices
        <5> QED
          BY <5>1, <5>2
      <4> QED
        BY <4>1, <4>2
    <3>4. ChosenIn(new, choices')
      BY <1>4, <1>5, <1>14, <3>2 DEF ChosenIn, LiveIn, ScopeIn
    <3>5. ChoiceMove
      BY <1>5, <1>9, <3>1, <3>2, <3>3 DEF ChoiceMove
    <3> QED
      BY <3>1, <3>4, <3>5
  <2> QED
    BY <2>1, <2>2
<1>15. ChosenInv'
  <2>1. SUFFICES ASSUME corrections = 0
                 PROVE  \A r \in Requests : \A record \in {jmem[r], jdisk[r]} :
                          RecordChosen(record, choices', mem', disk', now')
    <3>1. op'.at = 0 /\ op'.step = "idle" /\ 0 <= now' /\ corrections' = corrections
      BY <1>1, <1>10, TimeIsNatural DEF Idle, ShapeInv
    <3>2. \A r \in Requests : jmem'[r] = jmem[r] /\ jdisk'[r] = jdisk[r]
      BY <1>1
    <3> QED
      BY <1>14, <3>1, <3>2 DEF ChosenInv
  <2>2. \A r \in Requests : \A record \in {jmem[r], jdisk[r]} :
          record \in Records /\ RecordChosen(record, choices, mem, disk, now)
    BY <1>0, <2>1 DEF ShapeInv, ChosenInv
  <2>3. now' \in 0..MaxTime /\ now <= now'
    BY <1>0, <1>1, TimeIsNatural DEF ShapeInv
  <2> QED
    BY <1>0, <1>14, <2>1, <2>2, <2>3, RecordChosenKept
<1> QED
  BY <1>8, <1>10, <1>11, <1>12, <1>13, <1>15 DEF StandingInv, StoreInv

(* A grant in memory that stays in force is on disk.                       *)
LEMMA BackedInMemory ==
  ASSUME NEW id \in GrantIds, Keeps(mem', disk', dropped'), mem'.grants[id] # None
  PROVE  Backed(id, mem', disk', dropped')
BY DEF Keeps, Backed

(***************************************************************************)
(* A grant that Upsert or RestorePrepared adds to the pruned store, on a   *)
(* choice among `choices'`.                                                *)
(***************************************************************************)
LEMMA GrantStep ==
  ASSUME StandingInv, NEW outcome \in Outcomes, NEW new \in Store, writeLocked(new, outcome),
         op.step \in {"upsert", "restore"},
         op' \in Ops, op'.at \in {0, op.at}, op'.step \in {"idle", "confirm"},
         op'.step = "confirm" =>
           outcome = "ok" /\ op'.r = op.r /\ op'.notice = op.notice /\ op'.id = op.id,
         choices \subseteq choices', choices' \subseteq Choices,
         dropped' = dropped \cup OtherAuthority(op.id[1]),
         UNCHANGED <<now, authority, journal, pending, relay, corrections>>,
         StoreOK(new, dropped), Keeps(mem, new, dropped'),
         \A id \in GrantIds : new.grants[id] # None => id[1] = op.id[1],
         new.grants[op.id] # None \/ op.id \in dropped \/ Timed(op.id),
         corrections = 0 => ChosenIn(new, choices'),
         \A id \in mem.revocations : id \in new.revocations \/ LiveIn(id, now, choices')
  PROVE  StandingInv'
<1>0. /\ ShapeInv /\ StoreInv /\ ChosenInv /\ JournalInv /\ OpInv /\ OnlyThisAuthority
      /\ op \in Ops /\ op.id \in GrantIds /\ op.id[1] = authority /\ authority # None
  BY DEF StandingInv, ShapeInv, StoreInv, OpInv
<1>1. StoreOK(new, dropped') /\ dropped \subseteq dropped' /\ dropped' \subseteq GrantIds
  BY <1>0 DEF StoreOK, ShapeInv, OtherAuthority
<1>2. /\ mem' \in Store /\ disk' \in Store /\ StoreMove
      /\ StoreOK(mem', dropped') /\ StoreOK(disk', dropped') /\ Keeps(mem', disk', dropped')
  BY <1>0, <1>1, StoreStep
<1>3. corrections = 0 => op'.at <= now'
  BY <1>0, TimeIsNatural DEF ChosenInv, ShapeInv
<1>4. ShapeInv'
  BY <1>0, <1>1, <1>2 DEF ShapeInv, journal
<1>5. OnlyThisAuthority'
  <2>1. mem' \in {mem, new}
    BY Written
  <2> QED
    BY <1>0, <2>1 DEF OnlyThisAuthority
<1>6. JournalInv'
  BY <1>0, <1>2, JournalKept DEF journal
<1>7. OpInv'
  <2>1. SUFFICES ASSUME op'.step = "confirm"
                 PROVE  OpInv'
    BY DEF OpInv
  <2>2. mem' = new /\ outcome = "ok"
    BY <2>1, Written
  <2>3. Backed(op.id, mem', disk', dropped')
    <3>1. CASE new.grants[op.id] # None
      BY <1>0, <1>2, <2>2, <3>1, BackedInMemory
    <3>2. CASE op.id \in dropped \/ Timed(op.id)
      BY <1>1, <3>2 DEF Backed
    <3> QED
      BY <3>1, <3>2
  <2> QED
    BY <1>0, <2>1, <2>3 DEF OpInv, journal
<1>8. ChosenInv'
  <2>1. SUFFICES ASSUME corrections = 0
                 PROVE  /\ ChosenIn(mem', choices') /\ ChosenIn(disk', choices')
                        /\ \A r \in Requests : \A record \in {jmem[r], jdisk[r]} :
                             RecordChosen(record, choices', mem', disk', now')
    BY <1>3, <1>4 DEF ChosenInv, ShapeInv, journal
  <2>2. ChosenIn(mem', choices') /\ ChosenIn(disk', choices') /\ ChoiceMove
    BY <1>0, <2>1, StoreChosen
  <2>3. \A r \in Requests : \A record \in {jmem[r], jdisk[r]} :
          record \in Records /\ RecordChosen(record, choices, mem, disk, now)
    BY <1>0, <2>1 DEF ShapeInv, ChosenInv
  <2>4. now' \in 0..MaxTime /\ now <= now'
    BY <1>0, TimeIsNatural DEF ShapeInv
  <2> QED
    BY <1>0, <2>2, <2>3, <2>4, RecordChosenKept
<1> QED
  BY <1>2, <1>4, <1>5, <1>6, <1>7, <1>8 DEF StandingInv, StoreInv

(* A grant added on a live choice of its scope is chosen.                  *)
LEMMA GrantChosen ==
  ASSUME NEW base \in Store, NEW id \in GrantIds, NEW notice \in Scopes, NEW t \in 0..MaxTime,
         NEW made, made \subseteq Choices, ChosenIn(base, made),
         LiveIn(id, t, made), ScopeIn(id, notice, made)
  PROVE  ChosenIn(WithGrant(base, id, notice, t), made)
<1> DEFINE new == WithGrant(base, id, notice, t)
<1>1. /\ \A j \in GrantIds \ {id} : new.grants[j] = base.grants[j]
      /\ base.grants[id] = None =>
           new.grants[id].ceiling = notice /\ new.grants[id].created = Stamp(id, t)
      /\ base.grants[id] # None =>
           /\ new.grants[id].ceiling \in {base.grants[id].ceiling, notice}
           /\ new.grants[id].created = base.grants[id].created
  BY Granted
<1> HIDE DEF new
<1>2. LiveIn(id, Stamp(id, t), made)
  BY StampType DEF LiveIn
<1> QED
  BY <1>1, <1>2 DEF ChosenIn, new

LEMMA UpsertStep ==
  ASSUME StandingInv, NEW outcome \in Outcomes, Upsert(outcome)
  PROVE  StandingInv'
<1>0. /\ ShapeInv /\ StoreInv /\ ChosenInv /\ OpInv /\ mem \in Store /\ op \in Ops
      /\ now \in 0..MaxTime /\ choices \subseteq Choices /\ dropped \subseteq GrantIds
  BY DEF StandingInv, ShapeInv
<1>1. PICK id \in GrantIds, notice \in Scopes : id = op.id /\ notice = op.notice
  BY <1>0 DEF OpInv, Upsert
<1>2. PICK choice : choice = [id |-> id, scope |-> notice, at |-> Stamp(id, now), live |-> TRUE]
  OBVIOUS
<1>3. PICK kept : kept = pruneLocked(mem, id[1])
  OBVIOUS
<1>4. PICK base : base = [kept EXCEPT !.revocations = @ \ {id}]
  OBVIOUS
<1>5. PICK new : new = WithGrant(base, id, notice, now)
  OBVIOUS
<1>6. /\ op.step = "upsert" /\ writeLocked(new, outcome)
      /\ op' = IF outcome = "ok" THEN [op EXCEPT !.step = "confirm"] ELSE Idle
      /\ choices' = choices \cup {choice}
      /\ dropped' = dropped \cup OtherAuthority(id[1])
      /\ UNCHANGED <<now, authority, journal, pending, relay, corrections>>
  BY <1>1, <1>2, <1>3, <1>4, <1>5 DEF Upsert, Upserted
<1>7. /\ kept \in Store /\ kept.revocations = mem.revocations
      /\ \A j \in GrantIds : kept.grants[j] # None => j[1] = id[1]
      /\ StoreOK(kept, dropped) /\ Keeps(mem, kept, dropped')
      /\ corrections = 0 => ChosenIn(kept, choices)
  BY <1>0, <1>3, <1>6, Pruned, PruneFacts
<1>8. base \in Store /\ base.grants = kept.grants /\ base.revocations = mem.revocations \ {id}
  BY <1>4, <1>7 DEF Store
<1>9. /\ new \in Store /\ new.revocations = base.revocations
      /\ \A j \in GrantIds \ {id} : new.grants[j] = kept.grants[j]
      /\ new.grants[id] # None
  BY <1>0, <1>5, <1>8, Granted, AbsentIsNoValue
<1>10. choice \in Choices /\ choice \in choices'
  BY <1>0, <1>2, <1>6, StampType DEF Choices
<1>11. LiveIn(id, now, choices') /\ ScopeIn(id, notice, choices')
  BY <1>0, <1>2, <1>10, StampType, TimeIsNatural DEF LiveIn, ScopeIn
<1>12. choices \subseteq choices' /\ choices' \subseteq Choices
  BY <1>0, <1>6, <1>10
<1>13. StoreOK(new, dropped)
  BY <1>7, <1>8, <1>9 DEF StoreOK, Loadable, Store
<1>14. Keeps(mem, new, dropped')
  BY <1>7, <1>9 DEF Keeps
<1>15. \A j \in GrantIds : new.grants[j] # None => j[1] = id[1]
  BY <1>7, <1>9
<1>16. ASSUME corrections = 0
       PROVE  ChosenIn(new, choices')
  <2>1. ChosenIn(base, choices')
    BY <1>7, <1>8, <1>12, <1>16, ChosenGrows DEF ChosenIn
  <2> QED
    BY <1>0, <1>5, <1>8, <1>11, <1>12, <2>1, GrantChosen
<1>17. \A j \in mem.revocations : j \in new.revocations \/ LiveIn(j, now, choices')
  BY <1>8, <1>9, <1>11
<1>18. /\ op' \in Ops /\ op'.at \in {0, op.at} /\ op'.step \in {"idle", "confirm"}
       /\ op'.step = "confirm" =>
            outcome = "ok" /\ op'.r = op.r /\ op'.notice = op.notice /\ op'.id = op.id
  BY <1>0, <1>6, TimeIsNatural DEF Ops, Idle
<1> QED
  BY <1>1, <1>6, <1>9, <1>12, <1>13, <1>14, <1>15, <1>16, <1>17, <1>18, GrantStep

(* Recovery restores only what was chosen and has no tombstone.            *)
LEMMA RestoreStep ==
  ASSUME StandingInv, NEW outcome \in Outcomes, RestorePrepared(outcome)
  PROVE  StandingInv'
<1>0. /\ ShapeInv /\ StoreInv /\ ChosenInv /\ OpInv /\ mem \in Store /\ op \in Ops
      /\ now \in 0..MaxTime /\ choices \subseteq Choices /\ dropped \subseteq GrantIds
  BY DEF StandingInv, ShapeInv
<1>1. PICK id \in GrantIds, notice \in Scopes : id = op.id /\ notice = op.notice
  BY <1>0 DEF OpInv, RestorePrepared
<1>2. PICK t : t = GrantedAt(op.at)
  OBVIOUS
<1>3. PICK kept : kept = pruneLocked(mem, id[1])
  OBVIOUS
<1>4. t \in 0..MaxTime /\ t <= op.at
  BY <1>0, <1>2, TimeIsNatural DEF GrantedAt, Ops
<1>5. PICK new : new = Restored(kept, id, notice, op.at)
  OBVIOUS
<1>6. /\ op.step = "restore" /\ writeLocked(new, outcome)
      /\ op' = IF outcome = "ok" THEN [op EXCEPT !.step = "confirm", !.at = 0] ELSE Idle
      /\ choices' = choices
      /\ dropped' = dropped \cup OtherAuthority(id[1])
      /\ UNCHANGED <<now, authority, journal, pending, relay, corrections>>
  BY <1>1, <1>2, <1>3, <1>5 DEF RestorePrepared
<1>7. /\ kept \in Store /\ kept.revocations = mem.revocations
      /\ \A j \in GrantIds : kept.grants[j] # None => j[1] = id[1]
      /\ StoreOK(kept, dropped) /\ Keeps(mem, kept, dropped')
      /\ corrections = 0 => ChosenIn(kept, choices)
  BY <1>0, <1>3, <1>6, Pruned, PruneFacts
<1>8. \/ new = kept /\ (id \in mem.revocations \/ Timed(id))
      \/ new = WithGrant(kept, id, notice, t) /\ id \notin mem.revocations
  BY <1>2, <1>5, <1>7 DEF Restored, approvalGrantExpired
<1>9. /\ new \in Store /\ new.revocations = mem.revocations
      /\ \A j \in GrantIds \ {id} : new.grants[j] = kept.grants[j]
      /\ kept.grants[id] # None => new.grants[id] # None
      /\ new.grants[id] # None => new = kept \/ id \notin mem.revocations
      /\ new.grants[id] # None \/ id \in mem.revocations \/ Timed(id)
  BY <1>4, <1>7, <1>8, Granted, AbsentIsNoValue
<1>10. StoreOK(new, dropped)
  <2>1. \A j \in new.revocations : new.grants[j] = None
    BY <1>7, <1>9 DEF StoreOK, Loadable, Store
  <2> QED
    BY <1>7, <1>9, <2>1 DEF StoreOK, Loadable
<1>11. Keeps(mem, new, dropped')
  BY <1>7, <1>9 DEF Keeps
<1>12. \A j \in GrantIds : new.grants[j] # None => j[1] = id[1]
  BY <1>7, <1>9
<1>13. new.grants[id] # None \/ id \in dropped \/ Timed(id)
  BY <1>0, <1>9 DEF StoreInv, StoreOK
<1>14. ASSUME corrections = 0
       PROVE  ChosenIn(new, choices')
  <2>1. CASE new = kept
    BY <1>6, <1>7, <1>14, <2>1
  <2>2. CASE new = WithGrant(kept, id, notice, t) /\ id \notin mem.revocations
    <3>1. LiveIn(id, op.at, choices) /\ ScopeIn(id, notice, choices)
      BY <1>0, <1>1, <1>6, <1>14, <2>2 DEF ChosenInv, Restorable
    <3>2. LiveIn(id, t, choices)
      <4>1. \A c \in choices : c.at \in Nat
        BY <1>0, TimeIsNatural DEF Choices
      <4> QED
        BY <1>0, <1>4, <3>1, <4>1, TimeIsNatural DEF LiveIn, Ops
    <3> QED
      BY <1>0, <1>4, <1>6, <1>7, <1>14, <2>2, <3>1, <3>2, GrantChosen
  <2> QED
    BY <1>8, <2>1, <2>2
<1>15. /\ op' \in Ops /\ op'.at \in {0, op.at} /\ op'.step \in {"idle", "confirm"}
       /\ op'.step = "confirm" =>
            outcome = "ok" /\ op'.r = op.r /\ op'.notice = op.notice /\ op'.id = op.id
  <2>1. CASE outcome = "ok"
    <3>1. op' = [step |-> "confirm", r |-> op.r, level |-> op.level, id |-> op.id,
                 notice |-> op.notice, at |-> 0]
      BY <1>0, <1>6, <2>1 DEF Ops
    <3> QED
      BY <1>0, <2>1, <3>1, TimeIsNatural DEF Ops
  <2>2. CASE outcome # "ok"
    BY <1>6, <2>2, TimeIsNatural DEF Ops, Idle
  <2> QED
    BY <2>1, <2>2
<1>16. choices \subseteq choices' /\ choices' \subseteq Choices
  BY <1>0, <1>6
<1>17. \A j \in mem.revocations : j \in new.revocations \/ LiveIn(j, now, choices')
  BY <1>9
<1> QED
  BY <1>1, <1>6, <1>9, <1>10, <1>11, <1>12, <1>13, <1>14, <1>15, <1>16, <1>17, GrantStep

-----------------------------------------------------------------------------
(* Of any levels one is the most specific.                                 *)
LEMMA LeastRank ==
  ASSUME NEW found \in SUBSET {Conv30m, "teammate_always", "all_always"}, found # {}
  PROVE  \E level \in found : \A other \in found : Rank[level] <= Rank[other]
<1>1. Rank[Conv30m] = 1 /\ Rank["teammate_always"] = 2 /\ Rank["all_always"] = 3
  BY DEF Rank, Conv30m
<1>2. CASE Conv30m \in found
  BY <1>1, <1>2
<1>3. CASE Conv30m \notin found /\ "teammate_always" \in found
  BY <1>1, <1>3
<1>4. CASE Conv30m \notin found /\ "teammate_always" \notin found
  BY <1>1, <1>4
<1> QED
  BY <1>2, <1>3, <1>4

(* Match finds a level where one matches.                                  *)
LEMMA MatchIsMatching ==
  ASSUME NEW store, NEW r, Matching(store, r) # {}
  PROVE  Match(store, r) \in Matching(store, r)
<1>1. Matching(store, r) \subseteq {Conv30m, "teammate_always", "all_always"}
  BY LevelsAreStanding DEF Matching, Conv30m
<1>2. \E level \in Matching(store, r) :
        \A other \in Matching(store, r) : Rank[level] <= Rank[other]
  BY <1>1, LeastRank
<1> QED
  BY <1>2 DEF Match

LEMMA MatchFacts ==
  ASSUME NEW store, NEW r \in Requests, authority \in Authorities, Matching(store, r) # {}
  PROVE  /\ Match(store, r) \in Levels
         /\ stableApprovalGrantID(authority, Match(store, r), r) \in GrantIds
         /\ stableApprovalGrantID(authority, Match(store, r), r)[1] = authority
         /\ store.grants[stableApprovalGrantID(authority, Match(store, r), r)] # None
         /\ approvalScopeCovers(
              store.grants[stableApprovalGrantID(authority, Match(store, r), r)].ceiling, pending[r])
<1>1. PICK level : level = Match(store, r)
  OBVIOUS
<1>2. level \in Matching(store, r)
  BY <1>1, MatchIsMatching
<1> QED
  BY <1>1, <1>2, GrantIdOf DEF Matching

LEMMA MatchStep ==
  ASSUME StandingInv, NEW outcome \in Outcomes, NEW r \in Requests, maybeAutoApprove(r, outcome)
  PROVE  StandingInv'
<1>0. ShapeInv /\ StoreInv /\ OnlyThisAuthority /\ authority \in Authorities /\ mem \in Store
  BY DEF StandingInv, ShapeInv, StoreInv, maybeAutoApprove
<1>1. PICK kept : kept = pruneLocked(mem, authority)
  OBVIOUS
<1>2. PICK level, id : level = Match(kept, r) /\ id = stableApprovalGrantID(authority, level, r)
  OBVIOUS
<1>3. /\ op = Idle /\ authority # None /\ pending[r] # None /\ Matching(kept, r) # {}
      /\ writeLocked(kept, outcome)
      /\ op' = IF outcome # "ok" THEN Idle ELSE At("matched", r, level, id, pending[r])
      /\ dropped' = dropped \cup OtherAuthority(authority)
      /\ UNCHANGED <<now, authority, journal, pending, relay, corrections, choices>>
  BY <1>1, <1>2 DEF maybeAutoApprove
<1>4. /\ mem' \in Store /\ disk' \in Store /\ dropped' \subseteq GrantIds
      /\ StoreOK(mem', dropped') /\ StoreOK(disk', dropped') /\ Keeps(mem', disk', dropped')
      /\ JournalInv'
      /\ corrections = 0 =>
           /\ ChosenIn(mem', choices') /\ ChosenIn(disk', choices')
           /\ \A q \in Requests : /\ RecordChosen(jmem'[q], choices', mem', disk', now')
                                  /\ RecordChosen(jdisk'[q], choices', mem', disk', now')
  BY <1>1, <1>3, PruneStep
<1>5. level \in Levels /\ id \in GrantIds /\ id[1] = authority /\ kept.grants[id] # None
  BY <1>0, <1>2, <1>3, MatchFacts
<1>6. /\ op' \in Ops /\ op'.at = 0 /\ op'.step \in {"idle", "matched"}
      /\ op'.step = "matched" =>
           outcome = "ok" /\ op'.r = r /\ op'.notice = pending[r] /\ op'.id = id /\ op'.level = level
      /\ pending[r] \in Scopes
  BY <1>0, <1>3, <1>5, TimeIsNatural DEF Ops, Idle, At, ShapeInv
<1>7. ShapeInv'
  BY <1>0, <1>3, <1>4, <1>6 DEF ShapeInv, journal
<1>8. OnlyThisAuthority'
  <2>1. \A j \in GrantIds : kept.grants[j] # None => j[1] = authority
    BY <1>0, <1>1, Pruned
  <2> QED
    BY <1>0, <1>3, <2>1, Written DEF OnlyThisAuthority
<1>9. OpInv'
  <2>1. SUFFICES ASSUME op'.step = "matched"
                 PROVE  OpInv'
    BY <1>6 DEF OpInv
  <2>2. Backed(id, mem', disk', dropped')
    <3>1. mem'.grants[id] # None
      BY <1>3, <1>5, <1>6, <2>1, Written
    <3> QED
      BY <1>4, <1>5, <3>1, BackedInMemory
  <2> QED
    BY <1>2, <1>3, <1>5, <1>6, <2>1, <2>2 DEF OpInv
<1>10. ChosenInv'
  <2>1. 0 <= now' /\ corrections' = corrections
    BY <1>3, <1>7, TimeIsNatural DEF ShapeInv
  <2> QED
    BY <1>4, <1>6, <2>1 DEF ChosenInv
<1> QED
  BY <1>4, <1>7, <1>8, <1>9, <1>10 DEF StandingInv, StoreInv

-----------------------------------------------------------------------------
(* A step that leaves the grant store alone and adds choices at most.      *)
LEMMA ChoicesGrow ==
  ASSUME ShapeInv, UNCHANGED <<mem, disk>>, choices \subseteq choices', choices' \subseteq Choices
  PROVE  ChoiceMove
BY DEF ChoiceMove

(***************************************************************************)
(* One record of the journal is written, whatever the outcome; the relay   *)
(* may record the decision.                                                *)
(***************************************************************************)
LEMMA JournalStep ==
  ASSUME StandingInv, NEW r \in Requests, NEW record \in Records, NEW outcome \in Outcomes,
         writeJournal(r, record, outcome), UNCHANGED <<now, mem, disk, dropped, corrections>>,
         choices \subseteq choices', choices' \subseteq Choices,
         relay' \in {relay, relay \cup {r}},
         \A one \in {record, jmem[r], jdisk[r]} : RecordOK(one, r \in relay', mem, disk, dropped),
         record # None /\ jmem[r] # None => record.id = jmem[r].id,
         corrections = 0 /\ outcome # "old" => RecordChosen(record, choices', mem, disk, now)
  PROVE  /\ jmem' \in [Requests -> Records] /\ jdisk' \in [Requests -> Records]
         /\ JournalInv'
         /\ corrections = 0 =>
              /\ ChosenIn(mem', choices') /\ ChosenIn(disk', choices')
              /\ \A q \in Requests : /\ RecordChosen(jmem'[q], choices', mem', disk', now')
                                     /\ RecordChosen(jdisk'[q], choices', mem', disk', now')
<1>0. ShapeInv /\ JournalInv /\ ChosenInv
  BY DEF StandingInv
<1>1. /\ jmem' \in [Requests -> Records] /\ jdisk' \in [Requests -> Records]
      /\ \A q \in Requests \ {r} : jmem'[q] = jmem[q] /\ jdisk'[q] \in {jmem[q], jdisk[q]}
      /\ \/ outcome = "ok" /\ jmem'[r] = record /\ jdisk'[r] = record
         \/ outcome = "new" /\ jmem'[r] = jmem[r] /\ jdisk'[r] = record
         \/ outcome = "old" /\ jmem'[r] = jmem[r] /\ jdisk'[r] = jdisk[r]
  BY <1>0, Journaled
<1>2. ASSUME NEW q \in Requests
      PROVE  /\ RecordOK(jmem'[q], q \in relay', mem, disk, dropped)
             /\ RecordOK(jdisk'[q], q \in relay', mem, disk, dropped)
             /\ jmem'[q] # None /\ jdisk'[q] # None => jmem'[q].id = jdisk'[q].id
  <2>1. CASE q = r
    BY <1>0, <1>1, <2>1 DEF JournalInv
  <2>2. CASE q # r
    <3>1. q \in relay' <=> q \in relay
      BY <2>2
    <3> QED
      BY <1>0, <1>1, <2>2, <3>1 DEF JournalInv
  <2> QED
    BY <2>1, <2>2
<1>3. JournalInv'
  BY <1>2 DEF JournalInv
<1>4. ASSUME corrections = 0
      PROVE  /\ ChosenIn(mem', choices') /\ ChosenIn(disk', choices')
             /\ \A q \in Requests : /\ RecordChosen(jmem'[q], choices', mem', disk', now')
                                    /\ RecordChosen(jdisk'[q], choices', mem', disk', now')
  <2>1. ChosenIn(mem, choices') /\ ChosenIn(disk, choices')
    BY <1>0, <1>4, ChosenGrows DEF ChosenInv
  <2>2. ChoiceMove
    BY <1>0, ChoicesGrow
  <2>3. now \in 0..MaxTime /\ now <= now
    BY <1>0, TimeIsNatural DEF ShapeInv
  <2>4. ASSUME NEW q \in Requests, NEW one \in {jmem[q], jdisk[q]}
        PROVE  RecordChosen(one, choices', mem', disk', now)
    <3>1. one \in Records /\ RecordChosen(one, choices, mem, disk, now)
      BY <1>0, <1>4, <2>4 DEF ShapeInv, ChosenInv
    <3> QED
      BY <1>0, <2>2, <2>3, <3>1, RecordChosenKept
  <2> QED
    BY <1>1, <1>4, <2>1, <2>4
<1> QED
  BY <1>1, <1>3, <1>4

(***************************************************************************)
(* The rest of such a step: what is left to show is the operation's state. *)
(***************************************************************************)
LEMMA QuietStep ==
  ASSUME StandingInv, UNCHANGED <<now, authority, mem, disk, corrections, dropped>>,
         choices' \subseteq Choices, relay' \subseteq Requests,
         pending' \in [Requests -> Scopes \cup {None}], op' \in Ops,
         op'.at \in {0, op.at} \/ op'.at <= now,
         jmem' \in [Requests -> Records] /\ jdisk' \in [Requests -> Records],
         JournalInv', OpInv',
         corrections = 0 =>
              /\ ChosenIn(mem', choices') /\ ChosenIn(disk', choices')
              /\ \A q \in Requests : /\ RecordChosen(jmem'[q], choices', mem', disk', now')
                                     /\ RecordChosen(jdisk'[q], choices', mem', disk', now')
              /\ op'.step = "restore" =>
                   Restorable(op'.id, op'.notice, op'.at, choices', mem', disk')
  PROVE  StandingInv'
<1>0. ShapeInv /\ StoreInv /\ ChosenInv /\ OnlyThisAuthority
  BY DEF StandingInv, StoreInv
<1>1. ShapeInv'
  BY <1>0 DEF ShapeInv
<1>2. OnlyThisAuthority'
  BY <1>0 DEF OnlyThisAuthority
<1>3. StoreInv'
  BY <1>0, <1>2 DEF StoreInv
<1>4. corrections = 0 => op'.at <= now'
  BY <1>0, TimeIsNatural DEF ChosenInv, ShapeInv
<1>5. ChosenInv'
  BY <1>4 DEF ChosenInv
<1> QED
  BY <1>1, <1>3, <1>5 DEF StandingInv

(* When the operation ends, nothing more is relied on.                     *)
LEMMA EndedOp == op' = Idle => OpInv' /\ op' \in Ops /\ op'.at = 0 /\ op'.step # "restore"
BY TimeIsNatural DEF OpInv, Idle, Ops

(* A record of the journal is dropped or updated.                          *)
LEMMA ConfirmStep ==
  ASSUME StandingInv, NEW outcome \in Outcomes, ConfirmPersisted(outcome)
  PROVE  StandingInv'
<1>0. ShapeInv /\ JournalInv /\ OpInv /\ ChosenInv /\ op \in Ops /\ op.r \in Requests
      /\ op.id \in GrantIds /\ op.step = "confirm" /\ now \in 0..MaxTime
  BY DEF StandingInv, ShapeInv, OpInv, ConfirmPersisted
<1>1. UNCHANGED <<now, authority, mem, disk, pending, relay, corrections, choices, dropped>>
  BY DEF ConfirmPersisted, stores, history
<1>2. CASE jmem[op.r] = None
  <2>1. op' = Idle /\ UNCHANGED <<jmem, jdisk>>
    BY <1>2 DEF ConfirmPersisted, journal
  <2>2. JournalInv'
    BY <1>0, <1>1, <2>1 DEF JournalInv
  <2> QED
    BY <1>0, <1>1, <2>1, <2>2, EndedOp, QuietStep DEF ShapeInv, ChosenInv
<1>3. CASE jmem[op.r] # None
  <2>1. PICK record : record = [jmem[op.r] EXCEPT !.persisted = TRUE,
                                  !.at = IF op.id = None THEN 0 ELSE Stamp(op.id, now)]
    OBVIOUS
  <2>2. /\ writeJournal(op.r, record, outcome)
        /\ op' = IF outcome = "ok" THEN [op EXCEPT !.step = "commit"] ELSE Idle
    BY <1>3, <2>1 DEF ConfirmPersisted
  <2>3. jmem[op.r] \in MutationRecord /\ jmem[op.r].id = op.id
    BY <1>0, <1>3 DEF ShapeInv, Records, OpInv
  <2>4. Stamp(op.id, now) \in 0..MaxTime /\ Stamp(op.id, now) <= now /\ op.id # None
    BY <1>0, StampType, AbsentIsNoValue
  <2>5. record = [level |-> jmem[op.r].level, id |-> op.id, authority |-> jmem[op.r].authority,
                  notice |-> jmem[op.r].notice, persisted |-> TRUE, phase |-> jmem[op.r].phase,
                  at |-> Stamp(op.id, now)]
    BY <2>1, <2>3, <2>4 DEF MutationRecord
  <2>6. record \in MutationRecord
    BY <1>0, <2>3, <2>4, <2>5 DEF MutationRecord
  <2>7. Backed(op.id, mem, disk, dropped)
    BY <1>0 DEF OpInv
  <2>8. \A one \in {record, jmem[op.r], jdisk[op.r]} :
          RecordOK(one, op.r \in relay', mem, disk, dropped)
    <3>1. RecordOK(record, op.r \in relay, mem, disk, dropped)
      BY <1>0, <1>3, <2>3, <2>5, <2>7 DEF JournalInv, RecordOK
    <3> QED
      BY <1>0, <1>1, <3>1 DEF JournalInv
  <2>9. RecordChosen(record, choices', mem, disk, now)
    BY <2>4, <2>5 DEF RecordChosen
  <2>10. /\ jmem' \in [Requests -> Records] /\ jdisk' \in [Requests -> Records]
         /\ JournalInv'
         /\ corrections = 0 =>
              /\ ChosenIn(mem', choices') /\ ChosenIn(disk', choices')
              /\ \A q \in Requests : /\ RecordChosen(jmem'[q], choices', mem', disk', now')
                                     /\ RecordChosen(jdisk'[q], choices', mem', disk', now')
    <3>1. record \in Records
      BY <2>6 DEF Records
    <3>2. choices \subseteq choices' /\ choices' \subseteq Choices
      BY <1>0, <1>1 DEF ShapeInv
    <3>3. record # None /\ jmem[op.r] # None => record.id = jmem[op.r].id
      BY <2>3, <2>5
    <3> QED
      BY <1>0, <1>1, <2>2, <2>8, <2>9, <3>1, <3>2, <3>3, JournalStep
  <2>11. OpInv' /\ op' \in Ops /\ op'.at \in {0, op.at} /\ op'.step # "restore"
    <3>1. CASE outcome # "ok"
      BY <2>2, <3>1, EndedOp
    <3>2. CASE outcome = "ok"
      <4>1. op' = [op EXCEPT !.step = "commit"]
        BY <2>2, <3>2
      <4>2. /\ op' \in Ops /\ op'.step = "commit" /\ op'.r = op.r /\ op'.id = op.id
            /\ op'.notice = op.notice /\ op'.at = op.at
        BY <1>0, <4>1 DEF Ops
      <4>3. jmem'[op.r] = record
        BY <1>0, <2>2, <3>2 DEF writeJournal, ShapeInv
      <4> QED
        BY <1>0, <1>1, <2>5, <2>7, <4>2, <4>3 DEF OpInv
    <3> QED
      BY <3>1, <3>2
  <2> QED
    BY <1>0, <1>1, <2>10, <2>11, QuietStep DEF ShapeInv
<1> QED
  BY <1>2, <1>3

(* At the commit both copies of the record rest on the operation's grant.  *)
LEMMA CommitBacked ==
  ASSUME StandingInv, op.step = "commit", jmem[op.r] # None
  PROVE  /\ op.r \in Requests /\ jmem[op.r] \in MutationRecord
         /\ \A one \in {jmem[op.r], jdisk[op.r]} : RecordOK(one, TRUE, mem, disk, dropped)
<1>0. ShapeInv /\ JournalInv /\ OpInv /\ op.r \in Requests
  BY DEF StandingInv, OpInv
<1>1. jmem[op.r].id = op.id /\ Backed(op.id, mem, disk, dropped)
  BY <1>0 DEF OpInv
<1>2. jdisk[op.r] # None => jdisk[op.r].id = op.id
  BY <1>0, <1>1 DEF JournalInv
<1>3. jmem[op.r] \in MutationRecord
  BY <1>0 DEF ShapeInv, Records
<1> QED
  BY <1>0, <1>1, <1>2, <1>3 DEF JournalInv, RecordOK

LEMMA DecideStep ==
  ASSUME StandingInv, NEW outcome \in Outcomes, Decide(outcome)
  PROVE  StandingInv'
<1>0. ShapeInv /\ JournalInv /\ OpInv /\ ChosenInv /\ jmem[op.r] # None /\ op.step = "commit"
  BY DEF StandingInv, Decide, Committable
<1>1. /\ relay' = relay \cup {op.r} /\ op' = Idle
      /\ UNCHANGED <<now, authority, mem, disk, pending, corrections, choices, dropped>>
  BY DEF Decide, stores, history
<1>2. PICK record : record = [jmem[op.r] EXCEPT !.phase = "claim_prepared"]
  OBVIOUS
<1>3. writeJournal(op.r, record, outcome)
  BY <1>2 DEF Decide
<1>4. /\ op.r \in Requests /\ jmem[op.r] \in MutationRecord
      /\ \A one \in {jmem[op.r], jdisk[op.r]} : RecordOK(one, TRUE, mem, disk, dropped)
  BY <1>0, CommitBacked
<1>5. /\ record \in MutationRecord /\ record.id = jmem[op.r].id
      /\ record.authority = jmem[op.r].authority /\ record.persisted = jmem[op.r].persisted
      /\ record.at = jmem[op.r].at /\ record.notice = jmem[op.r].notice
  BY <1>2, <1>4 DEF MutationRecord
<1>6. RecordOK(record, TRUE, mem, disk, dropped)
  BY <1>0, <1>4, <1>5 DEF RecordOK
<1>7. corrections = 0 => RecordChosen(record, choices', mem, disk, now)
  BY <1>0, <1>1, <1>4, <1>5 DEF ChosenInv, RecordChosen
<1>8. \A one \in {record, jmem[op.r], jdisk[op.r]} :
        RecordOK(one, op.r \in relay', mem, disk, dropped)
  <2>1. op.r \in relay'
    BY <1>1
  <2> QED
    BY <1>4, <1>6, <2>1 DEF RecordOK
<1>9. /\ jmem' \in [Requests -> Records] /\ jdisk' \in [Requests -> Records]
      /\ JournalInv'
      /\ corrections = 0 =>
           /\ ChosenIn(mem', choices') /\ ChosenIn(disk', choices')
           /\ \A q \in Requests : /\ RecordChosen(jmem'[q], choices', mem', disk', now')
                                  /\ RecordChosen(jdisk'[q], choices', mem', disk', now')
  <2>1. record \in Records
    BY <1>5 DEF Records
  <2>2. choices \subseteq choices' /\ choices' \subseteq Choices /\ relay' \in {relay, relay \cup {op.r}}
    BY <1>0, <1>1 DEF ShapeInv
  <2> QED
    BY <1>1, <1>3, <1>4, <1>5, <1>7, <1>8, <2>1, <2>2, JournalStep
<1> QED
  BY <1>0, <1>1, <1>4, <1>9, EndedOp, QuietStep DEF ShapeInv

LEMMA DiscardStep ==
  ASSUME StandingInv, NEW outcome \in Outcomes, NEW r \in Requests, DiscardPrepared(r, outcome)
  PROVE  StandingInv'
<1>0. ShapeInv /\ JournalInv /\ OpInv /\ op = Idle
  BY DEF StandingInv, DiscardPrepared
<1>1. /\ writeJournal(r, None, outcome)
      /\ UNCHANGED <<now, authority, mem, disk, pending, relay, op, corrections, choices, dropped>>
  BY DEF DiscardPrepared, stores, history
<1>2. /\ jmem' \in [Requests -> Records] /\ jdisk' \in [Requests -> Records]
      /\ JournalInv'
      /\ corrections = 0 =>
           /\ ChosenIn(mem', choices') /\ ChosenIn(disk', choices')
           /\ \A q \in Requests : /\ RecordChosen(jmem'[q], choices', mem', disk', now')
                                  /\ RecordChosen(jdisk'[q], choices', mem', disk', now')
  <2>1. None \in Records /\ choices \subseteq choices' /\ choices' \subseteq Choices
    BY <1>0, <1>1 DEF Records, ShapeInv
  <2>2. \A one \in {None, jmem[r], jdisk[r]} : RecordOK(one, r \in relay', mem, disk, dropped)
    BY <1>0, <1>1 DEF JournalInv, RecordOK
  <2>3. RecordChosen(None, choices', mem, disk, now)
    BY DEF RecordChosen
  <2> QED
    BY <1>1, <2>1, <2>2, <2>3, JournalStep
<1>3. op' = Idle
  BY <1>0, <1>1
<1> QED
  BY <1>0, <1>1, <1>2, <1>3, EndedOp, QuietStep DEF ShapeInv

(* What prepareDecision starts from: a new record, or the one it continues.*)
LEMMA ApproveStep ==
  ASSUME StandingInv, NEW outcome \in Outcomes, NEW r \in Requests,
         NEW level \in Levels \cup {AskAlways}, Approve(r, level, outcome)
  PROVE  StandingInv'
<1>0. /\ ShapeInv /\ JournalInv /\ ChosenInv /\ op = Idle
      /\ authority \in Authorities /\ pending[r] \in Scopes /\ now \in 0..MaxTime
  BY DEF StandingInv, Approve, ShapeInv
<1>1. PICK id : id = Planned(r, level)
  OBVIOUS
<1>2. PICK record : record = Record(r, level, id, FALSE)
  OBVIOUS
<1>3. PICK choice : choice = Chosen(id, r)
  OBVIOUS
<1>4. /\ UNCHANGED <<now, authority, mem, disk, pending, relay, corrections, dropped>>
      /\ r \notin relay \/ jmem[r] # None
      /\ choices' = IF op'.step = "upsert" \/ (outcome = "new" /\ level # AskAlways)
                      THEN choices \cup {choice} ELSE choices
  BY <1>1, <1>3 DEF Approve, stores, Awaiting
<1>5. \/ /\ jmem[r] = None /\ writeJournal(r, record, outcome)
         /\ op' = IF outcome = "ok"
                    THEN At(AfterApprove(record), r, record.level, record.id, record.notice)
                    ELSE Idle
      \/ /\ jmem[r] # None /\ outcome = "ok" /\ UNCHANGED <<jmem, jdisk, faults>>
         /\ op' = Idle
      \/ /\ jmem[r] # None /\ outcome = "ok" /\ UNCHANGED <<jmem, jdisk, faults>>
         /\ jmem[r].id = id /\ jmem[r].authority = authority /\ jmem[r].level = level
         /\ jmem[r].notice = pending[r]
         /\ op' = At(AfterApprove(jmem[r]), r, jmem[r].level, jmem[r].id, jmem[r].notice)
  BY <1>1, <1>2 DEF Approve, prepareDecision, journal, Record
<1>6. /\ level = AskAlways => id = None
      /\ level # AskAlways => id \in GrantIds /\ id[1] = authority
      /\ id = None => level = AskAlways
  BY <1>0, <1>1, GrantIdOf, AbsentIsNoValue DEF Planned
<1>7. /\ record \in MutationRecord /\ record.id = id /\ record.authority = authority
      /\ record.persisted = FALSE /\ record.notice = pending[r] /\ record.level = level
      /\ record.at = IF id = None THEN 0 ELSE Stamp(id, now)
  <2>1. (IF id = None THEN 0 ELSE Stamp(id, now)) \in 0..MaxTime
    BY <1>0, StampType, TimeIsNatural
  <2> QED
    BY <1>0, <1>2, <1>6, <2>1 DEF Record, MutationRecord
<1>8. id # None => /\ choice \in Choices /\ choice.id = id /\ choice.live
                   /\ choice.at = Stamp(id, now) /\ choice.scope = pending[r]
  BY <1>0, <1>3, <1>6, StampType DEF Chosen, Choices
<1>9. op'.step = "upsert" => id # None
  BY <1>5, <1>7 DEF At, AfterApprove, Idle
<1>10. choices \subseteq choices' /\ choices' \subseteq Choices
  BY <1>0, <1>4, <1>6, <1>8, <1>9 DEF ShapeInv
<1>11. CASE jmem[r] = None
  <2>1. /\ writeJournal(r, record, outcome)
        /\ op' = IF outcome = "ok"
                   THEN At(AfterApprove(record), r, record.level, record.id, record.notice)
                   ELSE Idle
    BY <1>5, <1>11
  <2>2. record # None
    BY <1>7, AbsentIsNoValue
  <2>3. \A one \in {record, jmem[r], jdisk[r]} : RecordOK(one, r \in relay', mem, disk, dropped)
    <3>1. RecordOK(record, r \in relay, mem, disk, dropped)
      BY <1>4, <1>6, <1>7, <1>11 DEF RecordOK
    <3> QED
      BY <1>0, <1>4, <3>1 DEF JournalInv
  <2>4. ASSUME outcome # "old"
        PROVE  RecordChosen(record, choices', mem, disk, now)
    <3>1. record.at <= now
      BY <1>0, <1>7, StampType, TimeIsNatural
    <3>2. ASSUME id # None
          PROVE  Restorable(id, pending[r], record.at, choices', mem, disk)
      <4>1. outcome = "ok" => op'.step = "upsert"
        BY <1>7, <2>1, <3>2 DEF At, AfterApprove
      <4>2. choice \in choices'
        BY <1>4, <1>6, <2>4, <3>2, <4>1 DEF Outcomes
      <4>3. LiveIn(id, record.at, choices') /\ ScopeIn(id, pending[r], choices')
        BY <1>0, <1>7, <1>8, <3>2, <4>2, StampType, TimeIsNatural DEF LiveIn, ScopeIn
      <4> QED
        BY <4>3 DEF Restorable
    <3> QED
      BY <1>7, <3>1, <3>2 DEF RecordChosen
  <2>5. /\ jmem' \in [Requests -> Records] /\ jdisk' \in [Requests -> Records]
        /\ JournalInv'
        /\ corrections = 0 =>
             /\ ChosenIn(mem', choices') /\ ChosenIn(disk', choices')
             /\ \A q \in Requests : /\ RecordChosen(jmem'[q], choices', mem', disk', now')
                                    /\ RecordChosen(jdisk'[q], choices', mem', disk', now')
    <3>1. record \in Records
      BY <1>7 DEF Records
    <3> QED
      BY <1>4, <1>10, <1>11, <2>1, <2>3, <2>4, <3>1, JournalStep
  <2>6. OpInv' /\ op' \in Ops /\ op'.at = 0 /\ op'.step # "restore"
    <3>1. CASE outcome # "ok"
      BY <2>1, <3>1, EndedOp
    <3>2. CASE outcome = "ok"
      <4>1. op' = At(IF id = None THEN "commit" ELSE "upsert", r, level, id, pending[r])
        BY <1>7, <2>1, <3>2 DEF AfterApprove
      <4>2. /\ op'.step = IF id = None THEN "commit" ELSE "upsert"
            /\ op'.r = r /\ op'.level = level /\ op'.id = id /\ op'.notice = pending[r]
            /\ op'.at = 0 /\ op' \in Ops
        BY <1>0, <1>6, <4>1, TimeIsNatural DEF At, Ops
      <4>3. jmem'[r] = record
        BY <1>0, <2>1, <3>2 DEF writeJournal, ShapeInv
      <4>4. id = None => Backed(id, mem', disk', dropped')
        BY DEF Backed
      <4> QED
        BY <1>0, <1>4, <1>6, <1>7, <4>2, <4>3, <4>4, AbsentIsNoValue DEF OpInv
    <3> QED
      BY <3>1, <3>2
  <2> QED
    BY <1>0, <1>4, <1>10, <2>5, <2>6, QuietStep DEF ShapeInv
<1>12. CASE jmem[r] # None
  <2>1. UNCHANGED <<jmem, jdisk>>
    BY <1>5, <1>12
  <2>2. JournalInv'
    BY <1>0, <1>4, <2>1 DEF JournalInv
  <2>3. ASSUME corrections = 0
        PROVE  /\ ChosenIn(mem', choices') /\ ChosenIn(disk', choices')
               /\ \A q \in Requests : /\ RecordChosen(jmem'[q], choices', mem', disk', now')
                                      /\ RecordChosen(jdisk'[q], choices', mem', disk', now')
    <3>1. ChosenIn(mem, choices') /\ ChosenIn(disk, choices')
      BY <1>0, <1>10, <2>3, ChosenGrows DEF ChosenInv
    <3>2. ChoiceMove
      BY <1>0, <1>4, <1>10, ChoicesGrow
    <3>3. \A q \in Requests : \A one \in {jmem[q], jdisk[q]} :
            one \in Records /\ RecordChosen(one, choices, mem, disk, now)
      BY <1>0, <2>3 DEF ShapeInv, ChosenInv
    <3>4. now \in 0..MaxTime /\ now <= now
      BY <1>0, TimeIsNatural
    <3>5. \A q \in Requests : \A one \in {jmem[q], jdisk[q]} :
            RecordChosen(one, choices', mem', disk', now)
      BY <1>0, <3>2, <3>3, <3>4, RecordChosenKept
    <3> QED
      BY <1>4, <2>1, <3>1, <3>5
  <2>4. OpInv' /\ op' \in Ops /\ op'.at = 0 /\ op'.step # "restore"
    <3>1. CASE op' = Idle
      BY <3>1, EndedOp
    <3>2. CASE op' # Idle
      <4>1. /\ jmem[r].id = id /\ jmem[r].authority = authority
            /\ op' = At(AfterApprove(jmem[r]), r, level, id, pending[r])
        BY <1>5, <1>12, <3>2
      <4>2. /\ op'.step = AfterApprove(jmem[r])
            /\ op'.r = r /\ op'.level = level /\ op'.id = id /\ op'.notice = pending[r]
            /\ op'.at = 0 /\ op' \in Ops
        BY <1>0, <1>6, <4>1, TimeIsNatural DEF At, Ops, AfterApprove
      <4>3. op'.step = "commit" => Backed(id, mem, disk, dropped)
        <5>1. RecordOK(jmem[r], r \in relay, mem, disk, dropped)
          BY <1>0 DEF JournalInv
        <5>2. op'.step = "commit" => jmem[r].id = None \/ jmem[r].persisted
          BY <4>2 DEF AfterApprove
        <5>3. id = None => Backed(id, mem, disk, dropped)
          BY DEF Backed
        <5> QED
          BY <1>12, <4>1, <5>1, <5>2, <5>3 DEF RecordOK
      <4>4. op'.step \in {"upsert", "commit"} /\ (op'.step = "upsert" => id # None)
        BY <4>1, <4>2 DEF AfterApprove
      <4> QED
        BY <1>0, <1>4, <1>6, <2>1, <4>1, <4>2, <4>3, <4>4, AbsentIsNoValue DEF OpInv
    <3> QED
      BY <3>1, <3>2
  <2> QED
    BY <1>0, <1>4, <1>10, <2>1, <2>2, <2>3, <2>4, QuietStep DEF ShapeInv
<1> QED
  BY <1>11, <1>12

(* An automatic decision is journalled as backed by the matched grant.     *)
LEMMA AllowStep ==
  ASSUME StandingInv, NEW outcome \in Outcomes, allowOnceWithApprovalForNotice(outcome)
  PROVE  StandingInv'
<1>0. /\ ShapeInv /\ JournalInv /\ ChosenInv /\ OpInv /\ op \in Ops /\ op.step = "matched"
      /\ op.r \in Requests /\ op.notice \in Scopes /\ op.id \in GrantIds /\ op.id[1] = authority
      /\ op.level \in Levels /\ authority \in Authorities /\ now \in 0..MaxTime
      /\ pending[op.r] = op.notice
  BY DEF StandingInv, allowOnceWithApprovalForNotice, ShapeInv, OpInv, StillMatched
<1>1. PICK r \in Requests : r = op.r
  BY <1>0
<1>2. PICK record : record = Record(r, op.level, op.id, TRUE)
  OBVIOUS
<1>3. UNCHANGED <<now, authority, mem, disk, pending, relay, corrections, choices, dropped>>
  BY DEF allowOnceWithApprovalForNotice, stores, history
<1>4. \/ /\ jmem[r] = None /\ writeJournal(r, record, outcome)
         /\ op' = IF outcome = "ok" THEN At("commit", r, record.level, record.id, record.notice)
                  ELSE Idle
      \/ /\ jmem[r] # None /\ UNCHANGED <<jmem, jdisk>>
         /\ op' = Idle
      \/ /\ jmem[r] # None /\ UNCHANGED <<jmem, jdisk>>
         /\ jmem[r].id = record.id
         /\ op' = At("commit", r, jmem[r].level, jmem[r].id, jmem[r].notice)
  BY <1>1, <1>2 DEF allowOnceWithApprovalForNotice, prepareDecision, journal
<1>5. /\ record \in MutationRecord /\ record.id = op.id /\ record.authority = authority
      /\ record.persisted = TRUE /\ record.notice = op.notice /\ record.level = op.level
      /\ record.at <= now
  <2>1. Stamp(op.id, now) \in 0..MaxTime /\ Stamp(op.id, now) <= now /\ op.id # None
    BY <1>0, StampType, AbsentIsNoValue
  <2> QED
    BY <1>0, <1>1, <1>2, <2>1 DEF Record, MutationRecord
<1>6. Backed(op.id, mem, disk, dropped)
  BY <1>0 DEF OpInv
<1>7. choices \subseteq choices' /\ choices' \subseteq Choices
  BY <1>0, <1>3 DEF ShapeInv
<1>8. CASE jmem[r] = None
  <2>1. /\ writeJournal(r, record, outcome)
        /\ op' = IF outcome = "ok" THEN At("commit", r, record.level, record.id, record.notice)
                 ELSE Idle
    BY <1>4, <1>8
  <2>2. \A one \in {record, jmem[r], jdisk[r]} : RecordOK(one, r \in relay', mem, disk, dropped)
    <3>1. RecordOK(record, r \in relay, mem, disk, dropped)
      BY <1>0, <1>5, <1>6 DEF RecordOK
    <3> QED
      BY <1>0, <1>3, <3>1 DEF JournalInv
  <2>3. RecordChosen(record, choices', mem, disk, now)
    BY <1>5 DEF RecordChosen
  <2>4. /\ jmem' \in [Requests -> Records] /\ jdisk' \in [Requests -> Records]
        /\ JournalInv'
        /\ corrections = 0 =>
             /\ ChosenIn(mem', choices') /\ ChosenIn(disk', choices')
             /\ \A q \in Requests : /\ RecordChosen(jmem'[q], choices', mem', disk', now')
                                    /\ RecordChosen(jdisk'[q], choices', mem', disk', now')
    <3>1. record \in Records
      BY <1>5 DEF Records
    <3> QED
      BY <1>3, <1>7, <1>8, <2>1, <2>2, <2>3, <3>1, JournalStep
  <2>5. OpInv' /\ op' \in Ops /\ op'.at = 0 /\ op'.step # "restore"
    <3>1. CASE outcome # "ok"
      BY <2>1, <3>1, EndedOp
    <3>2. CASE outcome = "ok"
      <4>1. op' = At("commit", r, op.level, op.id, op.notice)
        BY <1>5, <2>1, <3>2
      <4>2. /\ op'.step = "commit" /\ op'.r = r /\ op'.id = op.id /\ op'.notice = op.notice
            /\ op'.at = 0 /\ op' \in Ops
        BY <1>0, <4>1, TimeIsNatural DEF At, Ops
      <4>3. jmem'[r] = record
        BY <1>0, <2>1, <3>2 DEF writeJournal, ShapeInv
      <4> QED
        BY <1>0, <1>3, <1>5, <1>6, <4>2, <4>3, AbsentIsNoValue DEF OpInv
    <3> QED
      BY <3>1, <3>2
  <2> QED
    BY <1>0, <1>3, <1>7, <2>4, <2>5, QuietStep DEF ShapeInv
<1>9. CASE jmem[r] # None
  <2>1. UNCHANGED <<jmem, jdisk>>
    BY <1>4, <1>9
  <2>2. JournalInv'
    BY <1>0, <1>3, <2>1 DEF JournalInv
  <2>3. corrections = 0 =>
          /\ ChosenIn(mem', choices') /\ ChosenIn(disk', choices')
          /\ \A q \in Requests : /\ RecordChosen(jmem'[q], choices', mem', disk', now')
                                 /\ RecordChosen(jdisk'[q], choices', mem', disk', now')
    BY <1>0, <1>3, <2>1 DEF ChosenInv
  <2>4. OpInv' /\ op' \in Ops /\ op'.at = 0 /\ op'.step # "restore"
    <3>1. CASE op' = Idle
      BY <3>1, EndedOp
    <3>2. CASE op' # Idle
      <4>1. /\ jmem[r].id = op.id
            /\ op' = At("commit", r, jmem[r].level, op.id, jmem[r].notice)
        BY <1>4, <1>5, <1>9, <3>2
      <4>2. jmem[r] \in MutationRecord
        BY <1>0, <1>9 DEF ShapeInv, Records
      <4>3. /\ op'.step = "commit" /\ op'.r = r /\ op'.id = op.id /\ op'.notice = jmem[r].notice
            /\ op'.at = 0 /\ op' \in Ops /\ op'.notice \in Scopes
        BY <1>0, <4>1, <4>2, TimeIsNatural DEF At, Ops, MutationRecord
      <4> QED
        BY <1>0, <1>3, <1>6, <2>1, <4>1, <4>3, AbsentIsNoValue DEF OpInv
    <3> QED
      BY <3>1, <3>2
  <2> QED
    BY <1>0, <1>3, <1>7, <2>1, <2>2, <2>3, <2>4, QuietStep DEF ShapeInv
<1> QED
  BY <1>8, <1>9

(* The operation ends or the relay alone records its decision.             *)
LEMMA EndStep ==
  ASSUME StandingInv,
         CommitRefused \/ MatchStale \/ \E recorded \in BOOLEAN : DecideLost(recorded)
  PROVE  StandingInv'
<1>0. ShapeInv /\ JournalInv /\ ChosenInv /\ OpInv /\ op.step # "idle" /\ op.r \in Requests
  BY DEF StandingInv, CommitRefused, MatchStale, DecideLost, OpInv
<1>1. /\ op' = Idle /\ relay' \in {relay, relay \cup {op.r}}
      /\ relay' = relay \/ (op.step = "commit" /\ jmem[op.r] # None)
      /\ UNCHANGED <<now, authority, mem, disk, jmem, jdisk, pending, corrections, choices, dropped>>
  BY DEF CommitRefused, MatchStale, DecideLost, Committable, stores, journal, history
<1>2. JournalInv'
  <2>1. CASE relay' = relay
    BY <1>0, <1>1, <2>1 DEF JournalInv
  <2>2. CASE relay' # relay
    <3>1. /\ op.r \in Requests
          /\ \A one \in {jmem[op.r], jdisk[op.r]} : RecordOK(one, TRUE, mem, disk, dropped)
      BY <1>1, <2>2, CommitBacked
    <3>2. ASSUME NEW q \in Requests, NEW one \in {jmem[q], jdisk[q]}
          PROVE  RecordOK(one, q \in relay', mem, disk, dropped)
      <4>1. CASE q = op.r
        BY <3>1, <3>2, <4>1 DEF RecordOK
      <4>2. CASE q # op.r
        BY <1>0, <1>1, <3>2, <4>2 DEF JournalInv, RecordOK
      <4> QED
        BY <4>1, <4>2
    <3> QED
      BY <1>0, <1>1, <3>2 DEF JournalInv
  <2> QED
    BY <2>1, <2>2
<1> QED
  BY <1>0, <1>1, <1>2, EndedOp, QuietStep DEF ShapeInv, ChosenInv

LEMMA RecoverStep ==
  ASSUME StandingInv, NEW r \in Requests, recoverOperation(r)
  PROVE  StandingInv'
<1>0. ShapeInv /\ JournalInv /\ ChosenInv /\ OpInv /\ now \in 0..MaxTime
  BY DEF StandingInv, ShapeInv
<1>1. /\ jmem[r] # None /\ authority # None /\ jmem[r].authority = authority
      /\ UNCHANGED <<now, authority, mem, disk, jmem, jdisk, pending, relay, corrections, choices, dropped>>
  BY DEF recoverOperation, Prepared, requireCurrent, stores, journal, history
<1>2. PICK record \in MutationRecord : record = jmem[r]
  BY <1>0, <1>1 DEF ShapeInv, Records
<1>3. op' = IF record.id = None \/ record.persisted
              THEN At("commit", r, record.level, record.id, record.notice)
              ELSE [At("restore", r, record.level, record.id, record.notice) EXCEPT !.at = record.at]
  BY <1>2 DEF recoverOperation
<1>4. /\ op' \in Ops /\ op'.r = r /\ op'.id = record.id /\ op'.notice = record.notice
      /\ record.notice \in Scopes
      /\ op'.step = "commit" => op'.at = 0 /\ (record.id = None \/ record.persisted)
      /\ op'.step # "commit" =>
           /\ op'.step = "restore" /\ record.id # None /\ ~record.persisted /\ op'.at = record.at
           /\ record.id \in GrantIds
  <2>1. CASE record.id = None \/ record.persisted
    BY <1>3, <2>1, TimeIsNatural DEF At, Ops, MutationRecord
  <2>2. CASE ~(record.id = None \/ record.persisted)
    BY <1>3, <2>2, TimeIsNatural DEF At, Ops, MutationRecord
  <2> QED
    BY <2>1, <2>2
<1>5. RecordOK(record, r \in relay, mem, disk, dropped)
  BY <1>0, <1>2 DEF JournalInv
<1>6. JournalInv'
  BY <1>0, <1>1 DEF JournalInv
<1>7. OpInv'
  <2>1. op'.step = "commit" => Backed(record.id, mem, disk, dropped)
    BY <1>1, <1>2, <1>4, <1>5 DEF RecordOK, Backed
  <2> QED
    BY <1>1, <1>2, <1>4, <1>5, <2>1 DEF OpInv, RecordOK
<1>8. ASSUME corrections = 0
      PROVE  /\ ChosenIn(mem', choices') /\ ChosenIn(disk', choices')
             /\ \A q \in Requests : /\ RecordChosen(jmem'[q], choices', mem', disk', now')
                                    /\ RecordChosen(jdisk'[q], choices', mem', disk', now')
             /\ op'.step = "restore" => Restorable(op'.id, op'.notice, op'.at, choices', mem', disk')
             /\ op'.at <= now
  <2>1. RecordChosen(record, choices, mem, disk, now)
    BY <1>0, <1>2, <1>8 DEF ChosenInv
  <2>2. op'.step = "restore" => Restorable(op'.id, op'.notice, op'.at, choices', mem', disk')
    BY <1>1, <1>2, <1>4, <2>1 DEF RecordChosen
  <2>3. op'.at <= now
    BY <1>0, <1>1, <1>2, <1>4, <2>1, TimeIsNatural DEF RecordChosen
  <2> QED
    BY <1>0, <1>1, <1>8, <2>2, <2>3 DEF ChosenInv
<1>9. ShapeInv'
  BY <1>0, <1>1, <1>4 DEF ShapeInv
<1>10. StoreInv'
  BY <1>1 DEF StandingInv, StoreInv, OnlyThisAuthority
<1>11. ChosenInv'
  BY <1>1, <1>8 DEF ChosenInv
<1> QED
  BY <1>6, <1>7, <1>9, <1>10, <1>11 DEF StandingInv

(* Events of the inbox, between any two steps of an operation.             *)
LEMMA NoticeStep ==
  ASSUME StandingInv, NEW r \in Requests,
         PeerCancelled(r) \/ \E scope \in Scopes : ReplaceNotice(r, scope)
  PROVE  StandingInv'
<1>0. ShapeInv /\ JournalInv /\ ChosenInv /\ OpInv
  BY DEF StandingInv
<1>1. /\ UNCHANGED <<now, authority, mem, disk, relay, op, corrections, choices, dropped>>
      /\ pending' \in [Requests -> Scopes \cup {None}]
  BY <1>0 DEF PeerCancelled, ReplaceNotice, ShapeInv, stores, history
<1>2. /\ jmem' \in [Requests -> Records] /\ jdisk' \in [Requests -> Records]
      /\ \A q \in Requests : /\ jmem'[q] \in {jmem[q], None}
                             /\ jdisk'[q] \in {jdisk[q], jmem[q], None}
                             /\ jdisk'[q] # None /\ jmem'[q] # None => jdisk'[q].id = jmem'[q].id
  <2>1. CASE PeerCancelled(r)
    <3>1. jmem' = [jmem EXCEPT ![r] = None] /\ jdisk' = jmem'
      BY <2>1 DEF PeerCancelled
    <3> QED
      BY <1>0, <3>1 DEF ShapeInv, Records
  <2>2. CASE \E scope \in Scopes : ReplaceNotice(r, scope)
    <3>1. UNCHANGED <<jmem, jdisk>>
      BY <2>2 DEF ReplaceNotice, journal
    <3> QED
      BY <1>0, <3>1 DEF ShapeInv, JournalInv
  <2> QED
    BY <2>1, <2>2
<1>3. JournalInv'
  <2>1. ASSUME NEW q \in Requests, NEW one \in {jmem[q], jdisk[q], None}
        PROVE  RecordOK(one, q \in relay', mem', disk', dropped')
    BY <1>0, <1>1, <2>1 DEF JournalInv, RecordOK
  <2> QED
    BY <1>2, <2>1 DEF JournalInv
<1>4. OpInv'
  BY <1>0, <1>1, <1>2 DEF OpInv
<1>5. ASSUME corrections = 0
      PROVE  /\ ChosenIn(mem', choices') /\ ChosenIn(disk', choices')
             /\ \A q \in Requests : /\ RecordChosen(jmem'[q], choices', mem', disk', now')
                                    /\ RecordChosen(jdisk'[q], choices', mem', disk', now')
             /\ op'.step = "restore" => Restorable(op'.id, op'.notice, op'.at, choices', mem', disk')
  <2>1. ASSUME NEW q \in Requests, NEW one \in {jmem[q], jdisk[q], None}
        PROVE  RecordChosen(one, choices', mem', disk', now')
    BY <1>0, <1>1, <1>5, <2>1 DEF ChosenInv, RecordChosen
  <2> QED
    BY <1>0, <1>1, <1>2, <1>5, <2>1 DEF ChosenInv
<1> QED
  BY <1>0, <1>1, <1>2, <1>3, <1>4, <1>5, QuietStep DEF ShapeInv

(* The clock.                                                              *)
LEMMA ClockStep ==
  ASSUME StandingInv, Tick \/ ClockSetBack
  PROVE  StandingInv'
<1>0. ShapeInv /\ StoreInv /\ JournalInv /\ ChosenInv /\ OpInv /\ now \in 0..MaxTime
  BY DEF StandingInv, ShapeInv
<1>1. UNCHANGED <<authority, mem, disk, jmem, jdisk, pending, relay, op, choices, dropped>>
  BY DEF Tick, ClockSetBack, stores, journal, history
<1>2. /\ now' \in 0..MaxTime /\ corrections' \in Nat
      /\ corrections' = 0 => corrections = 0 /\ now <= now'
  BY <1>0, TimeIsNatural DEF Tick, ClockSetBack, ShapeInv
<1>3. ShapeInv' /\ StoreInv' /\ JournalInv' /\ OpInv'
  BY <1>0, <1>1, <1>2 DEF ShapeInv, StoreInv, OnlyThisAuthority, JournalInv, OpInv
<1>4. ASSUME corrections' = 0
      PROVE  /\ \A q \in Requests : /\ RecordChosen(jmem[q], choices', mem', disk', now')
                                    /\ RecordChosen(jdisk[q], choices', mem', disk', now')
             /\ op.at <= now'
  <2>1. corrections = 0 /\ now <= now' /\ op \in Ops
    BY <1>0, <1>2, <1>4 DEF ShapeInv
  <2>2. \A q \in Requests : \A one \in {jmem[q], jdisk[q]} :
          one \in Records /\ RecordChosen(one, choices, mem, disk, now)
    BY <1>0, <2>1 DEF ShapeInv, ChosenInv
  <2>3. ChoiceMove
    BY <1>0, <1>1, ChoicesGrow DEF ShapeInv
  <2>4. op.at <= now'
    BY <1>0, <1>2, <2>1, TimeIsNatural DEF ChosenInv, Ops
  <2> QED
    BY <1>0, <1>2, <2>1, <2>2, <2>3, <2>4, RecordChosenKept
<1>5. ChosenInv'
  BY <1>0, <1>1, <1>2, <1>4 DEF ChosenInv
<1> QED
  BY <1>3, <1>5 DEF StandingInv

(* A restart reads the files, and drops what has expired.                  *)
LEMMA CrashStep ==
  ASSUME StandingInv, CrashAndRestart
  PROVE  StandingInv'
<1>0. ShapeInv /\ StoreInv /\ JournalInv /\ ChosenInv /\ OpInv /\ disk \in Store /\ mem \in Store
  BY DEF StandingInv, ShapeInv
<1>1. PICK loaded : loaded = Loaded(disk)
  OBVIOUS
<1>2. /\ mem' = loaded /\ disk' = loaded /\ jmem' = jdisk /\ jdisk' = jdisk
      /\ authority' = None /\ op' = Idle
      /\ UNCHANGED <<now, pending, relay, corrections, choices, dropped>>
  BY <1>1 DEF CrashAndRestart, history
<1>3. /\ loaded \in Store /\ loaded.revocations = disk.revocations
      /\ \A id \in GrantIds : /\ loaded.grants[id] \in {disk.grants[id], None}
                              /\ ~Timed(id) => loaded.grants[id] = disk.grants[id]
  BY <1>0, <1>1 DEF Loaded, Store, approvalGrantExpired
<1>4. op' \in Ops /\ op'.at = 0 /\ OpInv' /\ op'.step # "restore"
  BY <1>2, EndedOp
<1>5. ShapeInv'
  BY <1>0, <1>2, <1>3, <1>4 DEF ShapeInv
<1>6. StoreInv'
  <2>1. StoreOK(loaded, dropped)
    BY <1>0, <1>3 DEF StoreInv, StoreOK, Loadable, Store
  <2>2. Keeps(loaded, loaded, dropped)
    BY DEF Keeps
  <2> QED
    BY <1>2, <2>1, <2>2 DEF StoreInv, OnlyThisAuthority
<1>7. JournalInv'
  <2>1. ASSUME NEW q \in Requests
        PROVE  RecordOK(jdisk[q], q \in relay, loaded, loaded, dropped)
    <3>1. jdisk[q] \in Records /\ RecordOK(jdisk[q], q \in relay, mem, disk, dropped)
      BY <1>0 DEF ShapeInv, JournalInv
    <3>2. \A id \in GrantIds \cup {None} :
            Backed(id, mem, disk, dropped) => Backed(id, loaded, loaded, dropped)
      BY <1>3 DEF Backed
    <3> QED
      BY <3>1, <3>2, RecordTypes DEF RecordOK
  <2> QED
    BY <1>2, <2>1 DEF JournalInv
<1>8. ASSUME corrections = 0
      PROVE  /\ ChosenIn(loaded, choices)
             /\ \A q \in Requests : RecordChosen(jdisk[q], choices, loaded, loaded, now)
  <2>1. ChosenIn(loaded, choices)
    BY <1>0, <1>3, <1>8 DEF ChosenInv, ChosenIn
  <2>2. \A q \in Requests : RecordChosen(jdisk[q], choices, loaded, loaded, now)
    BY <1>0, <1>3, <1>8 DEF ChosenInv, RecordChosen, Restorable
  <2> QED
    BY <2>1, <2>2
<1>9. ChosenInv'
  <2>1. 0 <= now' /\ corrections' = corrections
    BY <1>2, <1>5, TimeIsNatural DEF ShapeInv
  <2> QED
    BY <1>2, <1>4, <1>8, <2>1 DEF ChosenInv
<1> QED
  BY <1>4, <1>5, <1>6, <1>7, <1>9 DEF StandingInv

-----------------------------------------------------------------------------
LEMMA StandingInit == Init => StandingInv
<1> SUFFICES ASSUME Init PROVE StandingInv
  OBVIOUS
<1>1. PICK empty : empty = [grants |-> [id \in GrantIds |-> None], revocations |-> {}]
  OBVIOUS
<1>2. /\ mem = empty /\ disk = empty /\ empty \in Store /\ empty.revocations = {}
      /\ \A id \in GrantIds : empty.grants[id] = None
  BY <1>1 DEF Init, Store
<1>3. /\ jmem = [r \in Requests |-> None] /\ jdisk = jmem
      /\ authority = None /\ corrections = 0 /\ relay = {} /\ choices = {} /\ dropped = {}
      /\ now = 0 /\ op = Idle /\ pending \in [Requests -> Scopes]
  BY DEF Init
<1>4. op \in Ops /\ op.at = 0 /\ op.step = "idle"
  BY <1>3, TimeIsNatural DEF Ops, Idle
<1>5. ShapeInv
  BY <1>2, <1>3, <1>4, TimeIsNatural DEF ShapeInv, Records
<1>6. StoreInv
  BY <1>2, <1>3 DEF StoreInv, StoreOK, Loadable, Keeps, OnlyThisAuthority
<1>7. JournalInv
  BY <1>3 DEF JournalInv, RecordOK
<1>8. OpInv
  BY <1>4 DEF OpInv
<1>9. ChosenInv
  BY <1>2, <1>3, <1>4 DEF ChosenInv, ChosenIn, RecordChosen
<1> QED
  BY <1>5, <1>6, <1>7, <1>8, <1>9 DEF StandingInv

LEMMA StandingStep ==
  ASSUME StandingInv, [Next]_vars
  PROVE  StandingInv'
<1>1. CASE UNCHANGED vars
  <2>1. UNCHANGED <<now, authority, mem, disk, jmem, jdisk, pending, relay, op, corrections,
                    choices, dropped>>
    BY <1>1 DEF vars
  <2>2. ShapeInv' /\ StoreInv' /\ JournalInv' /\ OpInv'
    BY <2>1 DEF StandingInv, ShapeInv, StoreInv, OnlyThisAuthority, JournalInv, OpInv
  <2>3. ChosenInv'
    BY <2>1 DEF StandingInv, ChosenInv
  <2> QED
    BY <2>2, <2>3 DEF StandingInv
<1>2. ASSUME NEW outcome \in Outcomes, \E a \in Authorities : activateApprovalAuthority(a, outcome)
      PROVE  StandingInv'
  BY <1>2, AuthorityStep
<1>3. ASSUME NEW outcome \in Outcomes, ApprovalGrants(outcome)
      PROVE  StandingInv'
  BY <1>3, AuthorityStep
<1>4. ASSUME NEW outcome \in Outcomes, NEW id \in GrantIds, id[1] = authority,
             RevokeApprovalGrant(id, outcome)
      PROVE  StandingInv'
  BY <1>4, RevokeStep
<1>5. ASSUME NEW outcome \in Outcomes, NEW r \in Requests, NEW level \in Levels \cup {AskAlways},
             Approve(r, level, outcome)
      PROVE  StandingInv'
  BY <1>5, ApproveStep
<1>6. ASSUME NEW outcome \in Outcomes, NEW r \in Requests, DiscardPrepared(r, outcome)
      PROVE  StandingInv'
  BY <1>6, DiscardStep
<1>7. ASSUME NEW outcome \in Outcomes, NEW r \in Requests, maybeAutoApprove(r, outcome)
      PROVE  StandingInv'
  BY <1>7, MatchStep
<1>8. CASE Work
  BY <1>8, UpsertStep, ConfirmStep, DecideStep, RestoreStep, AllowStep DEF Work
<1>9. CASE CommitRefused \/ MatchStale \/ \E recorded \in BOOLEAN : DecideLost(recorded)
  BY <1>9, EndStep
<1>10. ASSUME NEW r \in Requests, recoverOperation(r)
       PROVE  StandingInv'
  BY <1>10, RecoverStep
<1>11. ASSUME NEW r \in Requests, PeerCancelled(r) \/ \E scope \in Scopes : ReplaceNotice(r, scope)
       PROVE  StandingInv'
  BY <1>11, NoticeStep
<1>12. CASE Tick \/ ClockSetBack
  BY <1>12, ClockStep
<1>13. CASE CrashAndRestart
  BY <1>13, CrashStep
<1> QED
  BY <1>1, <1>2, <1>3, <1>4, <1>5, <1>6, <1>7, <1>8, <1>9, <1>10, <1>11, <1>12, <1>13 DEF Next

LEMMA GrantsFollow == StandingInv => GrantsSound
<1> SUFFICES ASSUME StandingInv PROVE GrantsSound
  OBVIOUS
<1>0. ShapeInv /\ StoreInv /\ JournalInv /\ ChosenInv
  BY DEF StandingInv
<1>1. TypeOK
  <2>1. \A r \in Requests : {jmem[r], jdisk[r]} \subseteq MutationRecord \cup {None}
    BY <1>0 DEF ShapeInv, Records
  <2>2. op.step \in {"idle", "upsert", "confirm", "commit", "restore", "matched"}
    BY <1>0 DEF ShapeInv, Ops
  <2> QED
    BY <1>0, <2>1, <2>2 DEF ShapeInv, TypeOK
<1>2. StoreLoads /\ OnlyThisAuthority
  BY <1>0 DEF StoreInv, StoreOK, StoreLoads
<1>3. GrantsAreChosen
  BY <1>0 DEF ChosenInv, ChosenIn, LiveIn, ScopeIn, GrantsAreChosen, LiveChoice
<1>4. NoChoiceIsLost
  BY <1>0 DEF JournalInv, RecordOK, Backed, NoChoiceIsLost
<1> QED
  BY <1>1, <1>2, <1>3, <1>4 DEF GrantsSound

(***************************************************************************)
(* The grant file of approval_store.go, for any requests, scopes and       *)
(* identities, any failed writes, crashes and clock: it loads again, holds *)
(* only what the recipient chose for the authority in force, and keeps     *)
(* every grant a recorded decision rests on.                               *)
(***************************************************************************)
THEOREM GrantsAreSound == Spec => []GrantsSound
<1>1. Init => StandingInv
  BY StandingInit
<1>2. StandingInv /\ [Next]_vars => StandingInv'
  BY StandingStep
<1>3. StandingInv => GrantsSound
  BY GrantsFollow
<1> QED
  BY <1>1, <1>2, <1>3, PTL DEF Spec

-----------------------------------------------------------------------------
(* Only allowOnceWithApprovalForNotice journals a new record as persisted. *)
LEMMA NewlyPersisted ==
  ASSUME StandingInv, Next, NEW r \in Requests,
         jmem[r] = None, jdisk[r] = None, jdisk'[r] # None, jdisk'[r].persisted
  PROVE  \E outcome \in Outcomes :
           /\ allowOnceWithApprovalForNotice(outcome) /\ r = op.r
           /\ jdisk'[r] = Record(r, op.level, op.id, TRUE)
<1>0. ShapeInv /\ OpInv /\ jmem \in [Requests -> Records]
  BY DEF StandingInv, ShapeInv
<1>1. ASSUME NEW q \in Requests, NEW record, NEW outcome \in Outcomes,
             writeJournal(q, record, outcome)
      PROVE  q = r /\ jdisk'[r] = record
  BY <1>0, <1>1 DEF writeJournal
<1>2. jdisk' # jdisk /\ jdisk' # jmem
  OBVIOUS
<1>3. ASSUME NEW outcome \in Outcomes, NEW q \in Requests, NEW level, Approve(q, level, outcome)
      PROVE  FALSE
  <2>1. writeJournal(q, Record(q, level, Planned(q, level), FALSE), outcome) \/ jdisk' = jdisk
    BY <1>3 DEF Approve, prepareDecision, journal
  <2>2. jdisk'[r] = Record(q, level, Planned(q, level), FALSE)
    BY <1>1, <1>2, <1>3, <2>1
  <2> QED
    BY <2>2 DEF Record
<1>4. ASSUME NEW outcome \in Outcomes, ConfirmPersisted(outcome) \/ Decide(outcome)
      PROVE  FALSE
  <2>1. op.r \in Requests
    BY <1>0, <1>4 DEF OpInv, ConfirmPersisted, Decide
  <2>2. jdisk' = jdisk \/ (jmem[op.r] # None /\ \E record : writeJournal(op.r, record, outcome))
    BY <1>4 DEF ConfirmPersisted, Decide, Committable, journal
  <2> QED
    BY <1>1, <1>2, <2>1, <2>2
<1>5. ASSUME NEW outcome \in Outcomes, NEW q \in Requests, DiscardPrepared(q, outcome)
      PROVE  FALSE
  BY <1>1, <1>5 DEF DiscardPrepared
<1>6. ASSUME NEW q \in Requests, PeerCancelled(q)
      PROVE  FALSE
  BY <1>0, <1>6 DEF PeerCancelled
<1>7. ASSUME NEW outcome \in Outcomes, allowOnceWithApprovalForNotice(outcome)
      PROVE  r = op.r /\ jdisk'[r] = Record(r, op.level, op.id, TRUE)
  <2>1. op.r \in Requests
    BY <1>0, <1>7 DEF OpInv, allowOnceWithApprovalForNotice
  <2>2. writeJournal(op.r, Record(op.r, op.level, op.id, TRUE), outcome) \/ jdisk' = jdisk
    BY <1>7 DEF allowOnceWithApprovalForNotice, prepareDecision, journal
  <2> QED
    BY <1>1, <1>2, <2>1, <2>2
<1>8. \/ \E outcome \in Outcomes :
           \/ \E q \in Requests, level \in Levels \cup {AskAlways} : Approve(q, level, outcome)
           \/ ConfirmPersisted(outcome) \/ Decide(outcome)
           \/ \E q \in Requests : DiscardPrepared(q, outcome)
           \/ allowOnceWithApprovalForNotice(outcome)
      \/ \E q \in Requests : PeerCancelled(q)
  <2>1. ASSUME UNCHANGED jdisk PROVE FALSE
    BY <1>2, <2>1
  <2> QED
    BY <2>1 DEF Next, Work, activateApprovalAuthority, ApprovalGrants, RevokeApprovalGrant,
                Upsert, RestorePrepared, maybeAutoApprove, CommitRefused, MatchStale, DecideLost,
                recoverOperation, ReplaceNotice, Tick, ClockSetBack, CrashAndRestart, journal
<1> QED
  BY <1>3, <1>4, <1>5, <1>6, <1>7, <1>8

LEMMA AutoApprovalStep ==
  ASSUME StandingInv, Next
  PROVE  AutoApprovalIsCovered
<1> SUFFICES ASSUME NEW r \in Requests, jmem[r] = None, jdisk[r] = None, jdisk'[r] # None,
                    jdisk'[r].persisted, corrections = 0
             PROVE  CoveredBy(r, jdisk'[r].id)
  BY DEF AutoApprovalIsCovered
<1>0. /\ ShapeInv /\ OpInv /\ ChosenInv /\ mem \in Store /\ now \in 0..MaxTime
      /\ choices \subseteq Choices
  BY DEF StandingInv, ShapeInv
<1>1. PICK outcome \in Outcomes : /\ allowOnceWithApprovalForNotice(outcome) /\ r = op.r
                                  /\ jdisk'[r] = Record(r, op.level, op.id, TRUE)
  BY NewlyPersisted
<1>2. PICK kept : kept = pruneLocked(mem, authority)
  OBVIOUS
<1>3. /\ op.step = "matched" /\ pending[r] = op.notice
      /\ Matching(kept, r) # {} /\ Match(kept, r) = op.level
  BY <1>1, <1>2 DEF allowOnceWithApprovalForNotice, StillMatched
<1>4. /\ authority \in Authorities /\ op.id = stableApprovalGrantID(authority, op.level, r)
      /\ op.id \in GrantIds
  BY <1>0, <1>1, <1>3 DEF OpInv, ShapeInv
<1>5. kept.grants[op.id] # None /\ approvalScopeCovers(kept.grants[op.id].ceiling, pending[r])
  BY <1>3, <1>4, MatchFacts
<1>6. /\ mem.grants[op.id] # None /\ kept.grants[op.id] = mem.grants[op.id]
      /\ ~approvalGrantExpired(op.id, mem.grants[op.id])
  BY <1>0, <1>2, <1>4, <1>5, Pruned
<1>7. /\ LiveIn(op.id, mem.grants[op.id].created, choices)
      /\ ScopeIn(op.id, mem.grants[op.id].ceiling, choices)
  BY <1>0, <1>4, <1>6 DEF ChosenInv, ChosenIn
<1>8. LiveChoice(op.id, now - Window + 1)
  <2>1. mem.grants[op.id].created \in Nat /\ \A c \in choices : c.at \in Nat
    BY <1>0, <1>4, <1>6, TimeIsNatural DEF Store, Grant, Choices
  <2>2. Timed(op.id) => now - Window + 1 <= mem.grants[op.id].created
    BY <1>0, <1>6, <2>1, WindowPositive, TimeIsNatural DEF approvalGrantExpired
  <2>3. now - Window + 1 \in Int
    BY <1>0, WindowPositive, TimeIsNatural
  <2> QED
    BY <1>7, <2>1, <2>2, <2>3 DEF LiveIn, LiveChoice
<1>9. \E c \in choices : c.id = op.id /\ approvalScopeCovers(c.scope, pending[r])
  BY <1>5, <1>6, <1>7 DEF ScopeIn
<1>10. jdisk'[r].id = op.id
  BY <1>1 DEF Record
<1> QED
  BY <1>8, <1>9, <1>10 DEF CoveredBy

LEMMA WindowStep ==
  ASSUME StandingInv, Next
  PROVE  WindowStartsByNow
<1> SUFFICES ASSUME NEW id \in GrantIds, mem.grants[id] = None, disk.grants[id] = None,
                    disk'.grants[id] # None
             PROVE  disk'.grants[id].created <= now
  BY DEF WindowStartsByNow
<1>0. ShapeInv /\ OpInv /\ mem \in Store /\ disk \in Store /\ op \in Ops /\ now \in 0..MaxTime
  BY DEF StandingInv, ShapeInv
<1>1. ASSUME NEW new, NEW outcome \in Outcomes, writeLocked(new, outcome)
      PROVE  disk' = new
  BY <1>1, Written
<1>2. \A a : pruneLocked(mem, a) \in Store /\ pruneLocked(mem, a).grants[id] = None
  BY <1>0, Pruned
<1>3. ASSUME NEW store \in Store, store.grants[id] = None, NEW j \in GrantIds,
             NEW notice \in Scopes, NEW t \in 0..MaxTime, t <= now,
             disk' = WithGrant(store, j, notice, t)
      PROVE  disk'.grants[id].created <= now
  <2>1. id = j
    BY <1>3, Granted
  <2>2. disk'.grants[id].created = Stamp(id, t)
    BY <1>3, <2>1, Granted
  <2>3. Stamp(id, t) <= t /\ Stamp(id, t) \in 0..MaxTime
    BY StampType
  <2> QED
    BY <1>0, <1>3, <2>2, <2>3, TimeIsNatural
<1>4. ASSUME NEW outcome \in Outcomes, Upsert(outcome)
      PROVE  disk'.grants[id].created <= now
  <2>1. op.id \in GrantIds /\ op.notice \in Scopes
    BY <1>0, <1>4 DEF OpInv, Upsert
  <2>2. PICK kept : kept = pruneLocked(mem, op.id[1])
    OBVIOUS
  <2>3. PICK base : base = [kept EXCEPT !.revocations = @ \ {op.id}]
    OBVIOUS
  <2>4. base \in Store /\ base.grants[id] = None
    BY <1>2, <2>2, <2>3 DEF Store
  <2>5. disk' = WithGrant(base, op.id, op.notice, now)
    BY <1>1, <1>4, <2>2, <2>3 DEF Upsert, Upserted
  <2>6. now <= now
    BY <1>0, TimeIsNatural
  <2> QED
    BY <1>0, <1>3, <2>1, <2>4, <2>5, <2>6
<1>5. ASSUME NEW outcome \in Outcomes, RestorePrepared(outcome)
      PROVE  disk'.grants[id].created <= now
  <2>1. op.id \in GrantIds /\ op.notice \in Scopes
    BY <1>0, <1>5 DEF OpInv, RestorePrepared
  <2>2. PICK kept : kept = pruneLocked(mem, op.id[1])
    OBVIOUS
  <2>3. PICK t : t = GrantedAt(op.at)
    OBVIOUS
  <2>4. t \in 0..MaxTime /\ t <= now
    BY <1>0, <2>3, TimeIsNatural DEF GrantedAt, Ops
  <2>5. kept \in Store /\ kept.grants[id] = None
    BY <1>2, <2>2
  <2>6. disk' = kept \/ disk' = WithGrant(kept, op.id, op.notice, t)
    BY <1>1, <1>5, <2>2, <2>3 DEF RestorePrepared, Restored
  <2> QED
    BY <1>3, <2>1, <2>4, <2>5, <2>6
<1>6. ASSUME NEW outcome \in Outcomes, NEW j \in GrantIds, RevokeApprovalGrant(j, outcome)
      PROVE  FALSE
  <2>1. PICK kept : kept = pruneLocked(mem, authority)
    OBVIOUS
  <2>2. disk' = [grants |-> [kept.grants EXCEPT ![j] = None],
                 revocations |-> kept.revocations \cup {j}]
    BY <1>1, <1>6, <2>1 DEF RevokeApprovalGrant
  <2>3. kept \in Store /\ kept.grants[id] = None
    BY <1>2, <2>1
  <2> QED
    BY <2>2, <2>3 DEF Store
<1>7. ASSUME NEW outcome \in Outcomes, NEW a, writeLocked(pruneLocked(mem, a), outcome)
      PROVE  FALSE
  BY <1>1, <1>2, <1>7
<1>8. ASSUME CrashAndRestart
      PROVE  FALSE
  BY <1>0, <1>8 DEF CrashAndRestart, Loaded, Store
<1>9. \/ \E outcome \in Outcomes :
           \/ Upsert(outcome) \/ RestorePrepared(outcome)
           \/ \E j \in GrantIds : RevokeApprovalGrant(j, outcome)
           \/ \E a : writeLocked(pruneLocked(mem, a), outcome)
      \/ CrashAndRestart
  <2>1. ASSUME UNCHANGED disk PROVE FALSE
    BY <2>1
  <2>2. ASSUME NEW outcome \in Outcomes, NEW a, activateApprovalAuthority(a, outcome)
        PROVE  writeLocked(pruneLocked(mem, a), outcome)
    BY <2>2 DEF activateApprovalAuthority
  <2>3. ASSUME NEW outcome \in Outcomes,
               ApprovalGrants(outcome) \/ \E r \in Requests : maybeAutoApprove(r, outcome)
        PROVE  writeLocked(pruneLocked(mem, authority), outcome)
    BY <2>3 DEF ApprovalGrants, maybeAutoApprove
  <2> QED
    BY <2>1, <2>2, <2>3
       DEF Next, Work, Approve, DiscardPrepared, ConfirmPersisted, Decide,
           allowOnceWithApprovalForNotice, CommitRefused, MatchStale, DecideLost,
           recoverOperation, PeerCancelled, ReplaceNotice, Tick, ClockSetBack, stores
<1> QED
  BY <1>4, <1>5, <1>6, <1>7, <1>8, <1>9

(***************************************************************************)
(* maybeAutoApprove and what it journals, for any interleaving of notices, *)
(* revocations and crashes: a decision made without asking is for a scope  *)
(* the recipient chose, by a grant still in its window; and no window      *)
(* begins after the present, however the clock was set.                    *)
(***************************************************************************)
THEOREM ApprovalsAreSound == Spec => ApprovalsSound
<1>1. Init => StandingInv
  BY StandingInit
<1>2. StandingInv /\ [Next]_vars => StandingInv'
  BY StandingStep
<1>3. StandingInv /\ [Next]_vars => [AutoApprovalIsCovered /\ WindowStartsByNow]_vars
  BY AutoApprovalStep, WindowStep
<1> QED
  BY <1>1, <1>2, <1>3, PTL DEF Spec, ApprovalsSound
=============================================================================
