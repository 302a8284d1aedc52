----------------------------- MODULE Enrollment -----------------------------
(***************************************************************************)
(* Invitations, enrolment and revocation: CreateInvite, RevokeInvite,      *)
(* Enroll, RevokeMember and RevokeDevice of internal/store/redis.go with   *)
(* the HTTP handlers of internal/server that call them, one step per read  *)
(* or transaction whose order another handler can see.                     *)
(*                                                                         *)
(* A key stands for what one setup draws and repeats in every retry: its   *)
(* device token and its idempotency key.  A device stands for the device   *)
(* and the agent drawn with it, an invite for its token and its record.    *)
(*                                                                         *)
(* WATCH is a flag, `dirty`, raised by a commit that writes a watched key. *)
(* A transaction that watches every key it reads (RevokeInvite,            *)
(* RevokeDevice) is one step; the others read keys that they do not watch. *)
(***************************************************************************)
EXTENDS Naturals, FiniteSets

CONSTANTS
  None,
  Invites, Keys, Members, Devices,
  Handlers,     \* HTTP handlers of the relay
  MaxCalls      \* bound on the calls made

ASSUME EnrollmentConstants ==
  /\ MaxCalls \in Nat
  /\ None \notin Invites \cup Keys \cup Members \cup Devices
  /\ Members \cap Devices = {}     \* their identities have different prefixes
  /\ None \notin [invite : Invites, device : Devices]

VARIABLES
  invite,       \* invite[i]: [status, member] of its record
  clock,        \* clock[i]: "live", then "expired", then its token is "gone"
  member,       \* member[m]: the status of its record
  device,       \* device[d]: [status, member, key, invite]
  cred,         \* cred[k]: the device that the credential of k is for, or None
  deviceCred,   \* deviceCred[d]: the key that d's credential entry names
  memberCreds,  \* memberCreds[m]: the keys of the member's credential set
  record,       \* record[k]: [invite, device] of its enrolment, or None
  revoked,      \* devices (agents) with a permanent tombstone
  call,         \* call[h]: the call that handler h serves
  confirmed,    \* members and devices whose revocation was answered
  calls         \* calls made

inviteVars == <<invite, clock>>
credVars   == <<cred, deviceCred, memberCreds>>
redisVars  == <<inviteVars, member, device, credVars, record, revoked>>
vars       == <<redisVars, call, confirmed, calls>>

-----------------------------------------------------------------------------
NoDevice == [status |-> "none", member |-> None, key |-> None, invite |-> None]
NoCall == [op |-> "none", key |-> None, invite |-> None, member |-> None,
           device |-> None, step |-> "idle", devices |-> {}, keys |-> {},
           late |-> FALSE, dirty |-> FALSE, attempt |-> 0]

(* The state's shape, and no handler is past its fifth attempt.            *)
TypeOK ==
  /\ invite \in [Invites -> [status : {"none", "pending", "used", "revoked"},
                             member : Members \cup {None}]]
  /\ clock \in [Invites -> {"live", "expired", "gone"}]
  /\ member \in [Members -> {"none", "active", "revoked"}]
  /\ device \in [Devices -> [status : {"none", "active", "revoked"},
                             member : Members \cup {None}, key : Keys \cup {None},
                             invite : Invites \cup {None}]]
  /\ cred \in [Keys -> Devices \cup {None}]
  /\ deviceCred \in [Devices -> Keys \cup {None}]
  /\ memberCreds \in [Members -> SUBSET Keys]
  /\ \A k \in Keys : record[k] = None
                       \/ record[k] \in [invite : Invites, device : Devices]
  /\ revoked \subseteq Devices
  /\ \A h \in Handlers : call[h].attempt \in 0..4

Init ==
  /\ invite = [i \in Invites |-> [status |-> "none", member |-> None]]
  /\ clock = [i \in Invites |-> "live"]
  /\ member = [m \in Members |-> "none"]
  /\ device = [d \in Devices |-> NoDevice]
  /\ cred = [k \in Keys |-> None] /\ deviceCred = [d \in Devices |-> None]
  /\ memberCreds = [m \in Members |-> {}]
  /\ record = [k \in Keys |-> None]
  /\ revoked = {} /\ confirmed = {} /\ calls = 0
  /\ call = [h \in Handlers |-> NoCall]

-----------------------------------------------------------------------------
(* Calls. *)

At(h, op, step) == call[h].op = op /\ call[h].step = step
Goto(h, step)   == call' = [call EXCEPT ![h].step = step]
Reply(h)        == call' = [call EXCEPT ![h] = NoCall]

Begin(h, fields) ==
  /\ call[h] = NoCall /\ calls < MaxCalls
  /\ calls' = calls + 1
  /\ call' = [call EXCEPT ![h] = fields]
  /\ UNCHANGED <<redisVars, confirmed>>

(* Retry: a failed EXEC starts over, five attempts in all.                 *)
Retry(h, first) ==
  call' = [call EXCEPT ![h] =
             IF call[h].attempt = 4 THEN NoCall
             ELSE [call[h] EXCEPT !.step = first, !.attempt = @ + 1,
                                  !.dirty = FALSE]]

(* Mutant: Enroll does not watch the invitation.                           *)
WatchedWithoutInvite(c) ==
  CASE c.op = "enroll"       -> {<<"key", c.key>>}
    [] c.op = "revokeMember" -> {<<"member", c.member>>}
    [] OTHER                 -> {}

(***************************************************************************)
(* The keys a running transaction watches: Enroll the invitation, its      *)
(* record and its credential; RevokeMember the member's record only.       *)
(***************************************************************************)
Watched(c) ==
  CASE c.op = "enroll"       -> {<<"invite", c.invite>>, <<"key", c.key>>}
    [] c.op = "revokeMember" -> {<<"member", c.member>>}
    [] OTHER                 -> {}

InTransaction(c) == c.step \in {"invite", "member", "devices", "creds", "exec"}

(* A commit by h of these writes, which then goes on at `next`.            *)
Commit(h, writes, next) ==
  call' = [g \in Handlers |->
             IF g = h THEN next
             ELSE [call[g] EXCEPT !.dirty = @ \/
                     (InTransaction(call[g]) /\ Watched(call[g]) \cap writes # {})]]

-----------------------------------------------------------------------------
(* Authenticate: the device credential, its member and its device.         *)
Authenticates(k) ==
  /\ cred[k] # None
  /\ LET d == device[cred[k]] IN d.status = "active" /\ member[d.member] = "active"

-----------------------------------------------------------------------------
(***************************************************************************)
(* CreateInvite for a new member, or for an existing one that is active.   *)
(* The member is read before a transaction that does not watch it.         *)
(***************************************************************************)
CreateInvite(h) ==
  \E i \in Invites, m \in Members \cup {None} :
    /\ invite[i].status = "none" /\ \A g \in Handlers : ~(call[g].op = "create"
                                                          /\ call[g].invite = i)
    /\ m # None => member[m] = "active"
    /\ Begin(h, [NoCall EXCEPT !.op = "create", !.invite = i, !.member = m,
                               !.step = "exec"])

CreateInviteExec(h) ==
  /\ At(h, "create", "exec")
  /\ invite' = [invite EXCEPT ![call[h].invite] =
                  [status |-> "pending", member |-> call[h].member]]
  /\ Reply(h)
  /\ UNCHANGED <<clock, member, device, credVars, record, revoked, confirmed, calls>>

RevokeInvite(h) ==
  \E i \in Invites :
    /\ call[h] = NoCall /\ calls < MaxCalls /\ calls' = calls + 1
    /\ invite[i].status = "pending"
    /\ invite' = [invite EXCEPT ![i].status = "revoked"]
    /\ Commit(h, {<<"invite", i>>}, NoCall)
    /\ UNCHANGED <<clock, member, device, credVars, record, revoked, confirmed>>

(***************************************************************************)
(* Time: an invitation expires; a day later its token is forgotten, which  *)
(* no call outlasts.                                                       *)
(***************************************************************************)
Lapse(i) ==
  /\ invite[i].status # "none"
  /\ \/ clock[i] = "live" /\ clock' = [clock EXCEPT ![i] = "expired"]
     \/ /\ clock[i] = "expired"
        /\ \A h \in Handlers : call[h].invite # i
        /\ clock' = [clock EXCEPT ![i] = "gone"]
  /\ UNCHANGED <<invite, member, device, credVars, record, revoked, call, confirmed,
                 calls>>

-----------------------------------------------------------------------------
(***************************************************************************)
(* readEnrollmentRecord: nothing, the stored result of this very request,  *)
(* or a conflict: another request, or a result that was revoked since.     *)
(***************************************************************************)
readEnrollmentRecord(k, i) ==
  LET r == record[k] IN
    CASE r = None -> "none"
      [] /\ r # None /\ r.invite = i
         /\ device[r.device].status = "active"
         /\ member[device[r.device].member] = "active"
         /\ deviceCred[r.device] = k /\ cred[k] = r.device -> "found"
      [] OTHER -> "conflict"

(* The request's time is taken when the handler starts.                    *)
Enroll(h) ==
  \E k \in Keys, i \in Invites :
    /\ invite[i].status # "none"
    /\ Begin(h, [NoCall EXCEPT !.op = "enroll", !.key = k, !.invite = i,
                               !.step = "replay", !.late = clock[i] # "live"])

(* The first look at the record, and the token's reference.                *)
EnrollReplay(h) ==
  /\ At(h, "enroll", "replay")
  /\ IF readEnrollmentRecord(call[h].key, call[h].invite) # "none"
     THEN Reply(h) ELSE Goto(h, "reference")
  /\ UNCHANGED <<redisVars, confirmed, calls>>

EnrollReference(h) ==
  /\ At(h, "enroll", "reference")
  /\ Goto(h, IF clock[call[h].invite] = "gone" THEN "reread" ELSE "record")
  /\ UNCHANGED <<redisVars, confirmed, calls>>

(* WATCH, and the record again.                                            *)
EnrollRecord(h) ==
  /\ At(h, "enroll", "record")
  /\ CASE readEnrollmentRecord(call[h].key, call[h].invite) = "found" -> Reply(h)
       [] readEnrollmentRecord(call[h].key, call[h].invite) = "conflict" ->
            Goto(h, "reread")
       [] OTHER -> Goto(h, "invite")
  /\ UNCHANGED <<redisVars, confirmed, calls>>

(* Mutant: a used invitation is refused without looking for an exact retry.*)
EnrollInviteNoReread(h) ==
  /\ At(h, "enroll", "invite")
  /\ IF invite[call[h].invite].status = "pending" /\ ~call[h].late
     THEN Goto(h, "member") ELSE Goto(h, "refused")
  /\ UNCHANGED <<redisVars, confirmed, calls>>

(* The invitation: used, revoked, expired or pending.                      *)
EnrollInvite(h) ==
  /\ At(h, "enroll", "invite")
  /\ LET status == invite[call[h].invite].status IN
       Goto(h, CASE status = "used" -> "reread"
                 [] status = "pending" /\ ~call[h].late -> "member"
                 [] OTHER -> "refused")
  /\ UNCHANGED <<redisVars, confirmed, calls>>

(***************************************************************************)
(* The credential must be new and an existing member active: this read of  *)
(* the member is not watched.  A new member is drawn.                      *)
(***************************************************************************)
EnrollMember(h) ==
  /\ At(h, "enroll", "member")
  /\ LET m == invite[call[h].invite].member IN
       \/ /\ cred[call[h].key] # None \/ (m # None /\ member[m] # "active")
          /\ Goto(h, "reread")
       \/ /\ cred[call[h].key] = None
          /\ \E n \in Members :
               /\ IF m # None THEN n = m /\ member[m] = "active"
                  ELSE member[n] = "none" /\ \A g \in Handlers \ {h} : call[g].member # n
               /\ call' = [call EXCEPT ![h].step = "exec", ![h].member = n]
  /\ UNCHANGED <<redisVars, confirmed, calls>>

TxFailed(h) ==
  /\ At(h, "enroll", "exec") /\ call[h].dirty
  /\ Retry(h, "record")
  /\ UNCHANGED <<redisVars, confirmed, calls>>

(* What the transaction writes besides the member's record.                *)
Enrolled(h, d) ==
  LET c == call[h] IN
    /\ device[d] = NoDevice
    /\ invite' = [invite EXCEPT ![c.invite].status = "used"]
    /\ device' = [device EXCEPT ![d] = [status |-> "active", member |-> c.member,
                                        key |-> c.key, invite |-> c.invite]]
    /\ cred' = [cred EXCEPT ![c.key] = d]
    /\ deviceCred' = [deviceCred EXCEPT ![d] = c.key]
    /\ memberCreds' = [memberCreds EXCEPT ![c.member] = @ \cup {c.key}]
    /\ record' = [record EXCEPT ![c.key] = [invite |-> c.invite, device |-> d]]
    /\ Commit(h, {<<"invite", c.invite>>, <<"key", c.key>>}
                   \cup {<<"member", m>> : m \in {n \in Members : member[n] # member'[n]}},
              NoCall)
    /\ UNCHANGED <<clock, revoked, confirmed, calls>>

EnrollExec(h) ==
  /\ At(h, "enroll", "exec") /\ ~call[h].dirty
  /\ IF invite[call[h].invite].member = None
     THEN member' = [member EXCEPT ![call[h].member] = "active"]
     ELSE UNCHANGED member
  /\ \E d \in Devices : Enrolled(h, d)

(* Used, conflicting or forgotten: perhaps an exact retry after all.       *)
EnrollReread(h) ==
  /\ At(h, "enroll", "reread")
  /\ IF readEnrollmentRecord(call[h].key, call[h].invite) = "found"
     THEN Reply(h) ELSE Goto(h, "refused")
  /\ UNCHANGED <<redisVars, confirmed, calls>>

Refused(h) ==
  /\ At(h, "enroll", "refused")
  /\ Reply(h)
  /\ UNCHANGED <<redisVars, confirmed, calls>>

-----------------------------------------------------------------------------
(* RevokeMember: WATCH and read the member, then its sets, unwatched.      *)
RevokeMember(h) ==
  \E m \in Members :
    /\ member[m] # "none"
    /\ Begin(h, [NoCall EXCEPT !.op = "revokeMember", !.member = m, !.step = "devices"])

MemberDevices(m) == {d \in Devices : device[d].member = m}

(* Mutant: the credentials are read before the devices.                    *)
RevokeMemberReadSwapped(h) ==
  /\ \/ /\ At(h, "revokeMember", "devices")
        /\ call' = [call EXCEPT ![h].step = "creds",
                                ![h].keys = memberCreds[call[h].member]]
     \/ /\ At(h, "revokeMember", "creds")
        /\ call' = [call EXCEPT ![h].step = "exec",
                                ![h].devices = MemberDevices(call[h].member)]
  /\ UNCHANGED <<redisVars, confirmed, calls>>

(* The device set first, then the credential set and the device records.   *)
RevokeMemberRead(h) ==
  /\ \/ /\ At(h, "revokeMember", "devices")
        /\ call' = [call EXCEPT ![h].step = "creds",
                                ![h].devices = MemberDevices(call[h].member)]
     \/ /\ At(h, "revokeMember", "creds")
        /\ call' = [call EXCEPT ![h].step = "exec",
                                ![h].keys = memberCreds[call[h].member]]
  /\ UNCHANGED <<redisVars, confirmed, calls>>

RevokeTxFailed(h) ==
  /\ At(h, "revokeMember", "exec") /\ call[h].dirty
  /\ Retry(h, "devices")
  /\ UNCHANGED <<redisVars, confirmed, calls>>

(* A member already revoked only has the tombstones of its devices renewed.*)
RevokeMemberAgain(h) ==
  /\ At(h, "revokeMember", "exec") /\ ~call[h].dirty
  /\ member[call[h].member] = "revoked"
  /\ revoked' = revoked \cup call[h].devices
  /\ Goto(h, "evict")
  /\ UNCHANGED <<inviteVars, member, device, credVars, record, confirmed, calls>>

RevokeMemberExec(h) ==
  LET c == call[h] IN
    /\ At(h, "revokeMember", "exec") /\ ~c.dirty
    /\ member[c.member] = "active"
    /\ member' = [member EXCEPT ![c.member] = "revoked"]
    /\ device' = [d \in Devices |-> IF d \in c.devices
                                    THEN [device[d] EXCEPT !.status = "revoked"]
                                    ELSE device[d]]
    /\ revoked' = revoked \cup c.devices
    /\ cred' = [k \in Keys |-> IF k \in c.keys THEN None ELSE cred[k]]
    /\ deviceCred' = [d \in Devices |-> IF d \in c.devices THEN None ELSE deviceCred[d]]
    /\ memberCreds' = [memberCreds EXCEPT ![c.member] = {}]
    /\ Commit(h, {<<"member", c.member>>} \cup {<<"key", k>> : k \in c.keys},
              [c EXCEPT !.step = "evict"])
    /\ UNCHANGED <<inviteVars, record, confirmed, calls>>

(***************************************************************************)
(* RevokeDevice watches the device and its credential entry: one step.  A  *)
(* revoked device has its tombstone renewed.                               *)
(***************************************************************************)
RevokeDevice(h) ==
  \E d \in Devices :
    LET k == deviceCred[d] IN
      /\ call[h] = NoCall /\ calls < MaxCalls /\ calls' = calls + 1
      /\ device[d].status # "none"
      /\ revoked' = revoked \cup {d}
      /\ device' = [device EXCEPT ![d].status = "revoked"]
      /\ IF device[d].status = "revoked" \/ k = None THEN UNCHANGED credVars
         ELSE /\ cred' = [cred EXCEPT ![k] = None]
              /\ memberCreds' = [memberCreds EXCEPT ![device[d].member] = @ \ {k}]
              /\ deviceCred' = [deviceCred EXCEPT ![d] = None]
      /\ Commit(h, {<<"key", k>>},
                [NoCall EXCEPT !.op = "revokeDevice", !.step = "evict", !.device = d,
                               !.devices = {d}])
      /\ UNCHANGED <<inviteVars, member, record, confirmed>>

(***************************************************************************)
(* evictRevokedAgents adds the tombstones once more; the answer follows.   *)
(***************************************************************************)
EvictRevokedAgents(h) ==
  /\ call[h].step = "evict"
  /\ revoked' = revoked \cup call[h].devices
  /\ confirmed' = confirmed \cup
       {IF call[h].op = "revokeMember" THEN call[h].member ELSE call[h].device}
  /\ Reply(h)
  /\ UNCHANGED <<inviteVars, member, device, credVars, record, calls>>

(* The handler dies, or Redis fails it, before its next step.              *)
Abort(h) ==
  /\ call[h] # NoCall
  /\ Reply(h)
  /\ UNCHANGED <<redisVars, confirmed, calls>>

-----------------------------------------------------------------------------
EnrollStep(h) ==
  \/ EnrollReplay(h) \/ EnrollReference(h) \/ EnrollRecord(h) \/ EnrollInvite(h)
  \/ EnrollMember(h) \/ TxFailed(h) \/ EnrollExec(h) \/ EnrollReread(h) \/ Refused(h)

RevokeStep(h) ==
  \/ RevokeMemberRead(h) \/ RevokeTxFailed(h) \/ RevokeMemberAgain(h)
  \/ RevokeMemberExec(h) \/ EvictRevokedAgents(h)

Next ==
  \/ \E h \in Handlers : \/ CreateInvite(h) \/ CreateInviteExec(h) \/ RevokeInvite(h)
                         \/ Enroll(h) \/ EnrollStep(h)
                         \/ RevokeMember(h) \/ RevokeStep(h) \/ RevokeDevice(h)
                         \/ Abort(h)
  \/ \E i \in Invites : Lapse(i)

Spec == Init /\ [][Next]_vars

-----------------------------------------------------------------------------
(* Properties. *)

(***************************************************************************)
(* An invitation enrols one device, and it is used exactly when it has:    *)
(* Enroll races itself and RevokeInvite on the invitation.                 *)
(***************************************************************************)
InviteEnrolsOnce ==
  \A i \in Invites :
    LET enrolled == {d \in Devices : device[d].invite = i} IN
      /\ Cardinality(enrolled) <= 1
      /\ invite[i].status = "used" <=> enrolled # {}

(***************************************************************************)
(* A setup that retries, even with another invitation, has one device, the *)
(* one its record names.                                                   *)
(***************************************************************************)
OneDevicePerKey ==
  \A k \in Keys : \A d \in Devices :
    device[d].key = k => record[k] # None /\ record[k].device = d

(***************************************************************************)
(* Once a revocation is answered, no credential of that member or device   *)
(* authenticates again, whatever enrolment was in flight.                  *)
(***************************************************************************)
RevocationIsFinal ==
  \A k \in Keys : Authenticates(k) =>
    confirmed \cap {cred[k], device[cred[k]].member} = {}

(***************************************************************************)
(* A revoked device keeps no credential, because RevokeMember reads the    *)
(* devices before the credentials while Enroll adds both.                  *)
(***************************************************************************)
RevokedDeviceHasNoCredential ==
  \A d \in Devices : device[d].status = "revoked" =>
    deviceCred[d] = None /\ \A k \in Keys : cred[k] # d

(***************************************************************************)
(* A refused enrolment is not the exact retry of one that succeeded and    *)
(* still stands: Enroll looks for the record again after a lost race.      *)
(***************************************************************************)
ExactRetrySucceeds ==
  [][\A h \in Handlers :
       call[h].step # "refused" /\ call'[h].step = "refused"
         => readEnrollmentRecord(call[h].key, call[h].invite) # "found"]_vars

(***************************************************************************)
(* docs/admin.md: "Revoking a member revokes all of that member's          *)
(* devices."  Enroll may add a device after RevokeMember has read them, so *)
(* the code does not keep this (README, 7, note b).                        *)
(***************************************************************************)
MemberRevocationIsComplete ==
  \A m \in Members \cap confirmed : \A d \in MemberDevices(m) :
    device[d].status = "revoked" /\ d \in revoked

(***************************************************************************)
(* Enroll uses an invitation once and a device key once, whatever races.   *)
(***************************************************************************)
EnrolmentSound == TypeOK /\ InviteEnrolsOnce /\ OneDevicePerKey

(***************************************************************************)
(* An answered revocation stands, and takes the credential with it.        *)
(***************************************************************************)
RevocationSound == RevocationIsFinal /\ RevokedDeviceHasNoCredential
=============================================================================
