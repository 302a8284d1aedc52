-------------------------- MODULE EnrollmentProofs --------------------------
(***************************************************************************)
(* Proofs about Enrollment, for any number of invitations, setups,         *)
(* members, devices and handlers.  The invariant has two halves: what the  *)
(* keys of Redis say of each other, and what a handler that has read some  *)
(* of them may still rely on when its transaction runs, which is all that  *)
(* it watches and, of the rest, only what no other handler undoes.         *)
(***************************************************************************)
EXTENDS Enrollment, FiniteSetTheorems, TLAPS

Ops   == {"none", "create", "enroll", "revokeMember", "revokeDevice"}
Steps == {"idle", "replay", "reference", "record", "invite", "member", "exec",
          "reread", "refused", "devices", "creds", "evict"}
CallStates ==
  [op : Ops, key : Keys \cup {None}, invite : Invites \cup {None},
   member : Members \cup {None}, device : Devices \cup {None}, step : Steps,
   devices : SUBSET Devices, keys : SUBSET Keys, late : BOOLEAN, dirty : BOOLEAN,
   attempt : 0..4]

ShapeInv == TypeOK /\ call \in [Handlers -> CallStates]
                   /\ record \in [Keys -> [invite : Invites, device : Devices] \cup {None}]

(* A device, its setup's record and its invitation name each other.        *)
DeviceInv ==
  /\ \A d \in Devices : device[d].status = "none" => device[d] = NoDevice
  /\ \A d \in Devices : device[d].status # "none" =>
       /\ device[d].member \in Members /\ member[device[d].member] # "none"
       /\ device[d].key \in Keys /\ device[d].invite \in Invites
       /\ record[device[d].key] # None /\ record[device[d].key].device = d
  /\ \A k \in Keys : record[k] # None =>
       /\ device[record[k].device].key = k
       /\ device[record[k].device].invite = record[k].invite
  /\ \A d, e \in Devices :
       device[d].invite # None /\ device[d].invite = device[e].invite => d = e
  /\ \A i \in Invites :
       invite[i].status = "used" <=> \E d \in Devices : device[d].invite = i

(* A credential is for an active device that knows it, and is in the set   *)
(* of its member until that member is revoked.                             *)
CredInv ==
  /\ \A k \in Keys : cred[k] # None =>
       /\ device[cred[k]].status = "active" /\ deviceCred[cred[k]] = k
       /\ member[device[cred[k]].member] = "active" =>
            k \in memberCreds[device[cred[k]].member]
  /\ \A d \in Devices : device[d].status = "revoked" => deviceCred[d] = None

(* What was confirmed is revoked.                                          *)
ConfirmedInv ==
  \A x \in confirmed :
    \/ x \in Members /\ member[x] = "revoked"
    \/ x \in Devices /\ device[x].status = "revoked"

(* The enrolment of h is about to make a member.                           *)
Fresh(h) ==
  call[h].op = "enroll" /\ call[h].step = "exec" /\ invite[call[h].invite].member = None

CreateOK(h) ==
  call[h].op = "create" =>
    /\ call[h].step = "exec" /\ call[h].invite \in Invites
    /\ invite[call[h].invite].status = "none"

(* Unless its transaction is bound to fail, an enrolment past its checks   *)
(* is for a pending invitation and a setup without a record.               *)
EnrollOK(h) ==
  call[h].op = "enroll" =>
    /\ call[h].key \in Keys /\ call[h].invite \in Invites
    /\ call[h].step \in {"replay", "reference", "record", "invite", "member", "exec",
                         "reread", "refused"}
    /\ invite[call[h].invite].status # "none"
    /\ call[h].step \in {"invite", "member", "exec"} /\ ~call[h].dirty => record[call[h].key] = None
    /\ call[h].step \in {"member", "exec"} /\ ~call[h].dirty =>
         invite[call[h].invite].status = "pending"
    /\ call[h].step = "exec" =>
         /\ call[h].member \in Members
         /\ invite[call[h].invite].member = None <=> member[call[h].member] = "none"

(* A member's revocation past its reads has the credentials of every       *)
(* device it has read.                                                     *)
RevokeOK(h) ==
  /\ call[h].op = "revokeMember" =>
       /\ call[h].member \in Members /\ member[call[h].member] # "none"
       /\ call[h].step \in {"devices", "creds", "exec", "evict"}
       /\ call[h].step \in {"creds", "exec"} =>
            \A d \in call[h].devices : device[d].member = call[h].member
       /\ call[h].step = "exec" /\ member[call[h].member] = "active" =>
            \A k \in Keys : cred[k] \in call[h].devices => k \in call[h].keys
       /\ call[h].step = "evict" => member[call[h].member] = "revoked"
  /\ call[h].op = "revokeDevice" =>
       /\ call[h].step = "evict" /\ call[h].device \in Devices
       /\ device[call[h].device].status = "revoked"
  /\ call[h].op = "none" => call[h].step = "idle"

CallOK(h) == CreateOK(h) /\ EnrollOK(h) /\ RevokeOK(h)

(* Identities drawn by different calls differ.                             *)
DistinctInv ==
  \A g, h \in Handlers : g # h =>
    /\ call[g].op = "create" /\ call[h].op = "create" => call[g].invite # call[h].invite
    /\ Fresh(h) => call[g].member # call[h].member

CallInv == \A h \in Handlers : CallOK(h)

EnrollmentInv ==
  ShapeInv /\ DeviceInv /\ CredInv /\ ConfirmedInv /\ CallInv /\ DistinctInv
-----------------------------------------------------------------------------
(* What other handlers can do to a call: mark it for failure.              *)
Keeps(g) ==
  /\ call'[g].op = call[g].op /\ call'[g].key = call[g].key
  /\ call'[g].invite = call[g].invite /\ call'[g].member = call[g].member
  /\ call'[g].device = call[g].device /\ call'[g].step = call[g].step
  /\ call'[g].devices = call[g].devices /\ call'[g].keys = call[g].keys
  /\ call[g].dirty => call'[g].dirty

(* What no transaction undoes, watched or not.                             *)
Grows ==
  /\ \A i \in Invites : invite[i].status # "none" =>
       invite'[i].status # "none" /\ invite'[i].member = invite[i].member
  /\ \A m \in Members : /\ member[m] # "none" => member'[m] # "none"
                        /\ member[m] = "revoked" => member'[m] = "revoked"
  /\ \A d \in Devices : /\ device[d].status # "none" => device'[d].member = device[d].member
                        /\ device[d].status = "revoked" => device'[d].status = "revoked"
  /\ \A k \in Keys : cred'[k] # None /\ device[cred'[k]].status # "none" => cred'[k] = cred[k]

(* What the transaction of a call relies on and another may have changed.  *)
Undisturbed(g) ==
  /\ call[g].op = "create" => invite'[call[g].invite].status = "none"
  /\ call[g].op = "enroll" /\ call[g].step \in {"invite", "member", "exec"} /\ ~call'[g].dirty =>
       /\ record'[call[g].key] = record[call[g].key]
       /\ invite'[call[g].invite].status = invite[call[g].invite].status
  /\ Fresh(g) => member'[call[g].member] = "none"

StoreUnchanged == UNCHANGED <<invite, member, device, credVars, record>>

LEMMA OthersOK ==
  ASSUME EnrollmentInv, NEW g \in Handlers, Keeps(g), Grows, Undisturbed(g),
         cred' \in [Keys -> Devices \cup {None}], member' \in [Members -> {"none", "active", "revoked"}]
  PROVE  CallOK(g)'
<1> USE DEF EnrollmentInv
<1>0. /\ CreateOK(g) /\ EnrollOK(g) /\ RevokeOK(g) /\ call[g] \in CallStates
      /\ member \in [Members -> {"none", "active", "revoked"}]
  BY DEF CallInv, CallOK, ShapeInv, TypeOK
<1>1. CreateOK(g)'
  BY <1>0 DEF CreateOK, Keeps, Undisturbed
<1>2. EnrollOK(g)'
  <2> SUFFICES ASSUME call'[g].op = "enroll"
               PROVE  EnrollOK(g)'
    BY DEF EnrollOK
  <2>1. /\ call[g].op = "enroll" /\ call[g].key \in Keys /\ call[g].invite \in Invites
        /\ invite[call[g].invite].status # "none"
    BY <1>0 DEF Keeps, EnrollOK
  <2>2. /\ invite'[call[g].invite].status # "none"
        /\ invite'[call[g].invite].member = invite[call[g].invite].member
    BY <2>1 DEF Grows
  <2>3. call[g].step = "exec" =>
          /\ call[g].member \in Members
          /\ invite'[call[g].invite].member = None <=> member'[call[g].member] = "none"
    BY <1>0, <2>1, <2>2 DEF Grows, Undisturbed, Fresh, EnrollOK
  <2>4. /\ call[g].step \in {"invite", "member", "exec"} /\ ~call'[g].dirty =>
             record'[call[g].key] = None
        /\ call[g].step \in {"member", "exec"} /\ ~call'[g].dirty =>
             invite'[call[g].invite].status = "pending"
    BY <1>0, <2>1 DEF Keeps, EnrollOK, Undisturbed
  <2> QED
    BY <1>0, <2>1, <2>2, <2>3, <2>4 DEF Keeps, EnrollOK
<1>3. RevokeOK(g)'
  <2>1. ASSUME call[g].op = "revokeMember"
        PROVE  /\ call[g].member \in Members /\ member'[call[g].member] # "none"
               /\ call[g].step \in {"devices", "creds", "exec", "evict"}
               /\ call[g].step \in {"creds", "exec"} =>
                    \A d \in call[g].devices : device'[d].member = call[g].member
               /\ call[g].step = "exec" /\ member'[call[g].member] = "active" =>
                    \A k \in Keys : cred'[k] \in call[g].devices => k \in call[g].keys
               /\ call[g].step = "evict" => member'[call[g].member] = "revoked"
    <3>1. /\ call[g].member \in Members /\ member'[call[g].member] # "none"
          /\ call[g].step \in {"devices", "creds", "exec", "evict"}
          /\ call[g].step = "evict" => member'[call[g].member] = "revoked"
          /\ member'[call[g].member] = "active" => member[call[g].member] = "active"
      BY <1>0, <2>1 DEF RevokeOK, Grows
    <3>2. ASSUME call[g].step \in {"creds", "exec"}, NEW d \in call[g].devices
          PROVE  d \in Devices /\ device[d].status # "none" /\ device'[d].member = call[g].member
      <4>1. d \in Devices /\ device[d].member = call[g].member
        BY <1>0, <2>1, <3>2 DEF RevokeOK, CallStates
      <4>2. device[d].status # "none"
        BY <3>1, <4>1, EnrollmentConstants DEF DeviceInv, NoDevice
      <4> QED
        BY <4>1, <4>2 DEF Grows
    <3>3. ASSUME call[g].step = "exec", member'[call[g].member] = "active",
                 NEW k \in Keys, cred'[k] \in call[g].devices
          PROVE  k \in call[g].keys
      <4>1. cred'[k] = cred[k]
        BY <3>2, <3>3, EnrollmentConstants DEF Grows
      <4> QED
        BY <1>0, <2>1, <3>1, <3>3, <4>1 DEF RevokeOK
    <3> QED
      BY <3>1, <3>2, <3>3
  <2>2. ASSUME call[g].op = "revokeDevice"
        PROVE  /\ call[g].step = "evict" /\ call[g].device \in Devices
               /\ device'[call[g].device].status = "revoked"
    BY <1>0, <2>2 DEF RevokeOK, Grows
  <2> QED
    BY <1>0, <2>1, <2>2 DEF RevokeOK, Keeps
<1> QED
  BY <1>1, <1>2, <1>3 DEF CallOK

(* Distinct identities stay distinct while h goes on with one of its own.  *)
LEMMA StillDistinct ==
  ASSUME EnrollmentInv, Grows, NEW h \in Handlers,
         \A g \in Handlers \ {h} : Keeps(g),
         call'[h].op = "create" =>
           \A g \in Handlers \ {h} : call[g].op = "create" => call[g].invite # call'[h].invite,
         Fresh(h)' => \A g \in Handlers \ {h} : call[g].member # call'[h].member,
         \A g \in Handlers \ {h} : Fresh(g) => call'[h].member # call[g].member
  PROVE  DistinctInv'
<1> USE DEF EnrollmentInv
<1>1. ASSUME NEW g \in Handlers \ {h}, Fresh(g)'
      PROVE  Fresh(g) /\ call'[g].member = call[g].member
  <2>1. /\ call[g].op = "enroll" /\ call[g].step = "exec" /\ invite'[call[g].invite].member = None
        /\ call'[g].member = call[g].member
    BY <1>1 DEF Fresh, Keeps
  <2>2. call[g].invite \in Invites /\ invite[call[g].invite].status # "none"
    BY <2>1 DEF CallInv, CallOK, EnrollOK
  <2> QED
    BY <2>1, <2>2 DEF Grows, Fresh
<1>2. ASSUME NEW f \in Handlers, NEW g \in Handlers, f # g, Fresh(g)'
      PROVE  call'[f].member # call'[g].member
  <2>1. CASE g = h
    BY <1>2, <2>1 DEF Keeps
  <2>2. CASE g # h
    BY <1>1, <1>2, <2>2 DEF Keeps, DistinctInv
  <2> QED
    BY <2>1, <2>2
<1>3. ASSUME NEW f \in Handlers, NEW g \in Handlers, f # g,
             call'[f].op = "create", call'[g].op = "create"
      PROVE  call'[f].invite # call'[g].invite
  BY <1>3 DEF Keeps, DistinctInv
<1> QED
  BY <1>2, <1>3 DEF DistinctInv

(* A handler takes a step of its own: the store stays as it is.            *)
LEMMA OwnStep ==
  ASSUME EnrollmentInv, NEW h \in Handlers, NEW r \in CallStates,
         call' = [call EXCEPT ![h] = r], StoreUnchanged,
         UNCHANGED clock, revoked' \in SUBSET Devices, CallOK(h)',
         r.op = "create" =>
           \A g \in Handlers \ {h} : call[g].op = "create" => call[g].invite # r.invite,
         Fresh(h)' => \A g \in Handlers \ {h} : call[g].member # r.member,
         \A g \in Handlers \ {h} : Fresh(g) => r.member # call[g].member
  PROVE  ShapeInv' /\ DeviceInv' /\ CredInv' /\ CallInv' /\ DistinctInv'
<1> USE DEF EnrollmentInv
<1>1. call' \in [Handlers -> CallStates] /\ call'[h] = r
      /\ \A g \in Handlers \ {h} : call'[g] = call[g]
  BY DEF ShapeInv
<1>2. Grows
  BY DEF Grows, StoreUnchanged, credVars
<1>3. ASSUME NEW g \in Handlers \ {h}
      PROVE  Keeps(g) /\ Undisturbed(g)
  <2>1. Keeps(g)
    BY <1>1 DEF Keeps
  <2>2. Fresh(g) => member[call[g].member] = "none"
    BY DEF Fresh, CallInv, CallOK, EnrollOK
  <2>3. call[g].op = "create" => invite[call[g].invite].status = "none"
    BY DEF CallInv, CallOK, CreateOK
  <2> QED
    BY <2>1, <2>2, <2>3 DEF Undisturbed, StoreUnchanged
<1>4. ShapeInv'
  <2>1. \A g \in Handlers : call'[g].attempt \in 0..4
    BY <1>1 DEF CallStates
  <2> QED
    BY <1>1, <2>1 DEF ShapeInv, TypeOK, StoreUnchanged, credVars
<1>5. DeviceInv' /\ CredInv'
  BY DEF DeviceInv, CredInv, StoreUnchanged, credVars
<1>6. CallInv'
  <2>1. ASSUME NEW g \in Handlers \ {h}
        PROVE  CallOK(g)'
    BY <1>2, <1>3, <1>4, OthersOK DEF ShapeInv, TypeOK
  <2> QED
    BY <2>1 DEF CallInv
<1>7. DistinctInv'
  BY <1>1, <1>2, <1>3, StillDistinct
<1> QED
  BY <1>4, <1>5, <1>6, <1>7

LEMMA NoCallState ==
  /\ NoCall \in CallStates /\ NoCall.op = "none" /\ NoCall.step = "idle" /\ NoCall.member = None
BY DEF NoCall, CallStates, Ops, Steps

LEMMA FreshMember ==
  ASSUME EnrollmentInv, NEW g \in Handlers, Fresh(g)
  PROVE  call[g].member \in Members /\ member[call[g].member] = "none"
BY DEF EnrollmentInv, CallInv, CallOK, EnrollOK, Fresh

(* The handler answers, dies or gives up: it forgets the call.             *)
LEMMA Replies ==
  ASSUME EnrollmentInv, NEW h \in Handlers, Reply(h), StoreUnchanged, UNCHANGED clock,
         revoked' \in SUBSET Devices
  PROVE  ShapeInv' /\ DeviceInv' /\ CredInv' /\ CallInv' /\ DistinctInv'
<1>1. call' = [call EXCEPT ![h] = NoCall]
  BY DEF Reply
<1>2. call'[h] = NoCall
  BY <1>1 DEF EnrollmentInv, ShapeInv
<1>3. CallOK(h)' /\ ~Fresh(h)'
  BY <1>2, NoCallState DEF CallOK, CreateOK, EnrollOK, RevokeOK, Fresh
<1>4. \A g \in Handlers \ {h} : Fresh(g) => NoCall.member # call[g].member
  BY FreshMember, NoCallState, EnrollmentConstants
<1> QED
  BY <1>1, <1>3, <1>4, NoCallState, OwnStep

(* The handler goes on with its call.                                      *)
LEMMA GoesOn ==
  ASSUME EnrollmentInv, NEW h \in Handlers, NEW r \in CallStates,
         call' = [call EXCEPT ![h] = r], StoreUnchanged, UNCHANGED clock,
         revoked' \in SUBSET Devices,
         CallOK(h)', call[h].op # "create", r.op # "create", ~Fresh(h)', r.member = call[h].member
  PROVE  ShapeInv' /\ DeviceInv' /\ CredInv' /\ CallInv' /\ DistinctInv'
<1>1. \A g \in Handlers \ {h} : Fresh(g) => r.member # call[g].member
  BY DEF EnrollmentInv, DistinctInv
<1> QED
  BY <1>1, OwnStep
-----------------------------------------------------------------------------
(* Calls begin. *)
LEMMA CreateInviteStep ==
  ASSUME EnrollmentInv, NEW h \in Handlers, CreateInvite(h)
  PROVE  EnrollmentInv'
<1>1. PICK i \in Invites, m \in Members \cup {None} :
        /\ invite[i].status = "none"
        /\ \A g \in Handlers : ~(call[g].op = "create" /\ call[g].invite = i)
        /\ m # None => member[m] = "active"
        /\ Begin(h, [NoCall EXCEPT !.op = "create", !.invite = i, !.member = m,
                                   !.step = "exec"])
  BY DEF CreateInvite
<1> DEFINE r == [NoCall EXCEPT !.op = "create", !.invite = i, !.member = m, !.step = "exec"]
<1>2. /\ r \in CallStates /\ r.op = "create" /\ r.invite = i /\ r.member = m /\ r.step = "exec"
  BY NoCallState DEF CallStates, Ops, Steps
<1>3. /\ call' = [call EXCEPT ![h] = r] /\ StoreUnchanged /\ UNCHANGED <<clock, revoked, confirmed>>
  BY <1>1 DEF Begin, redisVars, inviteVars, credVars, StoreUnchanged
<1> HIDE DEF r
<1>4. call'[h] = r
  BY <1>3 DEF EnrollmentInv, ShapeInv
<1>5. CallOK(h)' /\ ~Fresh(h)'
  BY <1>1, <1>2, <1>3, <1>4 DEF CallOK, CreateOK, EnrollOK, RevokeOK, Fresh, StoreUnchanged
<1>6. \A g \in Handlers \ {h} : Fresh(g) => r.member # call[g].member
  BY <1>1, <1>2, FreshMember, EnrollmentConstants
<1>7. ShapeInv' /\ DeviceInv' /\ CredInv' /\ CallInv' /\ DistinctInv'
  <2>1. revoked' \in SUBSET Devices
    BY <1>3 DEF EnrollmentInv, ShapeInv, TypeOK
  <2> QED
    BY <1>1, <1>2, <1>3, <1>5, <1>6, <2>1, OwnStep
<1>8. ConfirmedInv'
  BY <1>3 DEF EnrollmentInv, ConfirmedInv, StoreUnchanged
<1> QED
  BY <1>7, <1>8 DEF EnrollmentInv

LEMMA BeginStep ==
  ASSUME EnrollmentInv, NEW h \in Handlers, Enroll(h) \/ RevokeMember(h)
  PROVE  EnrollmentInv'
<1>1. ASSUME NEW r \in CallStates, Begin(h, r), r.op # "create", CallOK(h)', ~Fresh(h)',
             r.member # None => r.member \in Members /\ member[r.member] # "none"
      PROVE  EnrollmentInv'
  <2>1. /\ call' = [call EXCEPT ![h] = r] /\ StoreUnchanged /\ UNCHANGED <<clock, revoked, confirmed>>
    BY <1>1 DEF Begin, redisVars, inviteVars, credVars, StoreUnchanged
  <2>2. \A g \in Handlers \ {h} : Fresh(g) => r.member # call[g].member
    BY <1>1, FreshMember, EnrollmentConstants
  <2>3. revoked' \in SUBSET Devices
    BY <2>1 DEF EnrollmentInv, ShapeInv, TypeOK
  <2>4. ShapeInv' /\ DeviceInv' /\ CredInv' /\ CallInv' /\ DistinctInv'
    BY <1>1, <2>1, <2>2, <2>3, OwnStep
  <2>5. ConfirmedInv'
    BY <2>1 DEF EnrollmentInv, ConfirmedInv, StoreUnchanged
  <2> QED
    BY <2>4, <2>5 DEF EnrollmentInv
<1>2. CASE Enroll(h)
  <2>1. PICK k \in Keys, i \in Invites :
          /\ invite[i].status # "none"
          /\ Begin(h, [NoCall EXCEPT !.op = "enroll", !.key = k, !.invite = i,
                                     !.step = "replay", !.late = clock[i] # "live"])
    BY <1>2 DEF Enroll
  <2> DEFINE r == [NoCall EXCEPT !.op = "enroll", !.key = k, !.invite = i,
                                 !.step = "replay", !.late = clock[i] # "live"]
  <2>2. /\ r \in CallStates /\ r.op = "enroll" /\ r.key = k /\ r.invite = i
        /\ r.step = "replay" /\ r.member = None
    BY NoCallState DEF CallStates, Ops, Steps
  <2>3. Begin(h, r)
    BY <2>1
  <2> HIDE DEF r
  <2>4. call'[h] = r /\ StoreUnchanged
    BY <2>3 DEF Begin, EnrollmentInv, ShapeInv, redisVars, inviteVars, credVars, StoreUnchanged
  <2>5. CallOK(h)' /\ ~Fresh(h)'
    BY <2>1, <2>2, <2>4 DEF CallOK, CreateOK, EnrollOK, RevokeOK, Fresh, StoreUnchanged
  <2> QED
    BY <1>1, <2>2, <2>3, <2>5
<1>3. CASE RevokeMember(h)
  <2>1. PICK m \in Members :
          /\ member[m] # "none"
          /\ Begin(h, [NoCall EXCEPT !.op = "revokeMember", !.member = m, !.step = "devices"])
    BY <1>3 DEF RevokeMember
  <2> DEFINE r == [NoCall EXCEPT !.op = "revokeMember", !.member = m, !.step = "devices"]
  <2>2. r \in CallStates /\ r.op = "revokeMember" /\ r.step = "devices" /\ r.member = m
    BY NoCallState DEF CallStates, Ops, Steps
  <2>3. Begin(h, r)
    BY <2>1
  <2> HIDE DEF r
  <2>4. call'[h] = r /\ StoreUnchanged
    BY <2>3 DEF Begin, EnrollmentInv, ShapeInv, redisVars, inviteVars, credVars, StoreUnchanged
  <2>5. CallOK(h)' /\ ~Fresh(h)'
    BY <2>1, <2>2, <2>4 DEF CallOK, CreateOK, EnrollOK, RevokeOK, Fresh, StoreUnchanged
  <2> QED
    BY <1>1, <2>1, <2>2, <2>3, <2>5
<1> QED
  BY <1>2, <1>3

-----------------------------------------------------------------------------
(* Steps that read. *)
Reads == UNCHANGED <<redisVars, confirmed, calls>>

LEMMA ReadOnly ==
  ASSUME EnrollmentInv, Reads
  PROVE  /\ StoreUnchanged /\ UNCHANGED clock /\ revoked' \in SUBSET Devices
         /\ ConfirmedInv'
BY DEF Reads, redisVars, inviteVars, credVars, StoreUnchanged, EnrollmentInv, ConfirmedInv,
       ShapeInv, TypeOK

LEMMA ReplyStep ==
  ASSUME EnrollmentInv, NEW h \in Handlers, Reply(h), Reads
  PROVE  EnrollmentInv'
BY ReadOnly, Replies DEF EnrollmentInv

(* An enrolment goes to its next step, of which what the step requires is  *)
(* known.                                                                  *)
LEMMA EnrollGoes ==
  ASSUME EnrollmentInv, NEW h \in Handlers, call[h].op = "enroll",
         NEW s \in {"reference", "record", "invite", "member", "reread", "refused"},
         Goto(h, s), Reads,
         s \in {"invite", "member"} /\ ~call[h].dirty => record[call[h].key] = None,
         s = "member" /\ ~call[h].dirty => invite[call[h].invite].status = "pending"
  PROVE  EnrollmentInv'
<1> DEFINE r == [call[h] EXCEPT !.step = s]
<1>0. call[h] \in CallStates /\ EnrollOK(h)
  BY DEF EnrollmentInv, ShapeInv, CallInv, CallOK
<1>1. /\ r \in CallStates /\ r.op = "enroll" /\ r.key = call[h].key /\ r.invite = call[h].invite
      /\ r.step = s /\ r.member = call[h].member /\ r.dirty = call[h].dirty
  BY <1>0 DEF CallStates, Steps
<1>2. call' = [call EXCEPT ![h] = r] /\ call'[h] = r
  BY DEF Goto, EnrollmentInv, ShapeInv
<1> HIDE DEF r
<1>3. CallOK(h)' /\ ~Fresh(h)'
  BY <1>0, <1>1, <1>2, ReadOnly DEF CallOK, CreateOK, EnrollOK, RevokeOK, Fresh, StoreUnchanged
<1> QED
  BY <1>1, <1>2, <1>3, ReadOnly, GoesOn DEF EnrollmentInv

LEMMA EnrollReads ==
  ASSUME EnrollmentInv, NEW h \in Handlers,
         EnrollReplay(h) \/ EnrollReference(h) \/ EnrollRecord(h) \/ EnrollInvite(h)
         \/ EnrollReread(h) \/ Refused(h) \/ Abort(h)
  PROVE  EnrollmentInv'
<1> USE DEF Reads
<1>0. CallOK(h)
  BY DEF EnrollmentInv, CallInv
<1>1. CASE EnrollReplay(h)
  BY <1>1, EnrollGoes, ReplyStep DEF EnrollReplay, At
<1>2. CASE EnrollReference(h)
  BY <1>2, EnrollGoes DEF EnrollReference, At
<1>3. CASE EnrollRecord(h)
  <2>1. call[h].op = "enroll" /\ Reads
    BY <1>3 DEF EnrollRecord, At
  <2>2. \/ Reply(h) \/ Goto(h, "reread")
        \/ Goto(h, "invite") /\ record[call[h].key] = None
    BY <1>3 DEF EnrollRecord, readEnrollmentRecord
  <2> QED
    BY <2>1, <2>2, EnrollGoes, ReplyStep
<1>4. CASE EnrollInvite(h)
  <2>1. call[h].op = "enroll" /\ call[h].step = "invite" /\ Reads
    BY <1>4 DEF EnrollInvite, At
  <2>2. \/ Goto(h, "reread") \/ Goto(h, "refused")
        \/ Goto(h, "member") /\ invite[call[h].invite].status = "pending"
    BY <1>4 DEF EnrollInvite
  <2>3. ~call[h].dirty => record[call[h].key] = None
    BY <1>0, <2>1 DEF CallOK, EnrollOK
  <2> QED
    BY <2>1, <2>2, <2>3, EnrollGoes
<1>5. CASE EnrollReread(h)
  BY <1>5, EnrollGoes, ReplyStep DEF EnrollReread, At
<1>6. CASE Refused(h) \/ Abort(h)
  BY <1>6, ReplyStep DEF Refused, Abort
<1> QED
  BY <1>1, <1>2, <1>3, <1>4, <1>5, <1>6

(* The new member is drawn: nobody else has it.                            *)
LEMMA EnrollMemberStep ==
  ASSUME EnrollmentInv, NEW h \in Handlers, EnrollMember(h)
  PROVE  EnrollmentInv'
<1>0. /\ call[h] \in CallStates /\ EnrollOK(h) /\ call[h].op = "enroll"
      /\ call[h].step = "member" /\ Reads
  BY DEF EnrollmentInv, ShapeInv, CallInv, CallOK, EnrollMember, At, Reads
<1> DEFINE m == invite[call[h].invite].member
<1>1. CASE Goto(h, "reread")
  BY <1>0, <1>1, EnrollGoes
<1>2. CASE \E n \in Members :
             /\ IF m # None THEN n = m /\ member[m] = "active"
                ELSE member[n] = "none" /\ \A g \in Handlers \ {h} : call[g].member # n
             /\ call' = [call EXCEPT ![h].step = "exec", ![h].member = n]
  <2>1. PICK n \in Members :
          /\ IF m # None THEN n = m /\ member[m] = "active"
             ELSE member[n] = "none" /\ \A g \in Handlers \ {h} : call[g].member # n
          /\ call' = [call EXCEPT ![h].step = "exec", ![h].member = n]
    BY <1>2
  <2> DEFINE r == [call[h] EXCEPT !.step = "exec", !.member = n]
  <2>2. /\ r \in CallStates /\ r.op = "enroll" /\ r.key = call[h].key
        /\ r.invite = call[h].invite /\ r.step = "exec" /\ r.member = n
        /\ r.dirty = call[h].dirty
    BY <1>0 DEF CallStates, Steps
  <2>3. call' = [call EXCEPT ![h] = r] /\ call'[h] = r
    BY <2>1 DEF EnrollmentInv, ShapeInv
  <2> HIDE DEF r
  <2>4. CallOK(h)'
    <3>1. m = None <=> member[n] = "none"
      BY <2>1
    <3> QED
      BY <1>0, <2>2, <2>3, <3>1, ReadOnly
      DEF CallOK, CreateOK, EnrollOK, RevokeOK, StoreUnchanged
  <2>5. Fresh(h)' => \A g \in Handlers \ {h} : call[g].member # r.member
    BY <2>1, <2>2, <2>3, ReadOnly, <1>0 DEF Fresh, StoreUnchanged
  <2>6. \A g \in Handlers \ {h} : Fresh(g) => r.member # call[g].member
    BY <2>1, <2>2, FreshMember
  <2>7. ShapeInv' /\ DeviceInv' /\ CredInv' /\ CallInv' /\ DistinctInv'
    BY <1>0, <2>2, <2>3, <2>4, <2>5, <2>6, ReadOnly, OwnStep
  <2> QED
    BY <1>0, <2>7, ReadOnly DEF EnrollmentInv
<1> QED
  BY <1>1, <1>2 DEF EnrollMember

(* RevokeMember reads the devices, then the credentials.                   *)
LEMMA RevokeMemberReadStep ==
  ASSUME EnrollmentInv, NEW h \in Handlers, RevokeMemberRead(h)
  PROVE  EnrollmentInv'
<1>0. /\ call[h] \in CallStates /\ RevokeOK(h) /\ call[h].op = "revokeMember" /\ Reads
      /\ call[h].member \in Members
  BY DEF EnrollmentInv, ShapeInv, CallInv, CallOK, RevokeMemberRead, At, Reads, RevokeOK
<1>1. ASSUME NEW r \in CallStates, call' = [call EXCEPT ![h] = r], r.op = "revokeMember",
             r.member = call[h].member, CallOK(h)'
      PROVE  EnrollmentInv'
  <2>1. call'[h] = r
    BY <1>1 DEF EnrollmentInv, ShapeInv
  <2>2. ~Fresh(h)'
    BY <1>1, <2>1 DEF Fresh
  <2> QED
    BY <1>0, <1>1, <2>2, ReadOnly, GoesOn DEF EnrollmentInv
<1>2. CASE call' = [call EXCEPT ![h].step = "creds", ![h].devices = MemberDevices(call[h].member)]
  <2> DEFINE r == [call[h] EXCEPT !.step = "creds", !.devices = MemberDevices(call[h].member)]
  <2>1. /\ r \in CallStates /\ r.op = "revokeMember" /\ r.member = call[h].member
        /\ r.step = "creds" /\ r.devices = MemberDevices(call[h].member)
    BY <1>0 DEF CallStates, Steps, MemberDevices
  <2>2. call' = [call EXCEPT ![h] = r] /\ call'[h] = r
    BY <1>2 DEF EnrollmentInv, ShapeInv
  <2> HIDE DEF r
  <2>3. \A d \in r.devices : device[d].member = r.member
    BY <2>1 DEF MemberDevices
  <2>4. CallOK(h)'
    BY <1>0, <2>1, <2>2, <2>3, ReadOnly
    DEF CallOK, CreateOK, EnrollOK, RevokeOK, StoreUnchanged
  <2> QED
    BY <1>1, <2>1, <2>2, <2>4
<1>3. CASE /\ call[h].step = "creds"
           /\ call' = [call EXCEPT ![h].step = "exec", ![h].keys = memberCreds[call[h].member]]
  <2> DEFINE r == [call[h] EXCEPT !.step = "exec", !.keys = memberCreds[call[h].member]]
  <2>0. memberCreds[call[h].member] \in SUBSET Keys
    BY <1>0 DEF EnrollmentInv, ShapeInv, TypeOK
  <2>1. /\ r \in CallStates /\ r.op = "revokeMember" /\ r.member = call[h].member
        /\ r.step = "exec" /\ r.devices = call[h].devices
        /\ r.keys = memberCreds[call[h].member]
    BY <1>0, <2>0 DEF CallStates, Steps
  <2>2. call' = [call EXCEPT ![h] = r] /\ call'[h] = r
    BY <1>3 DEF EnrollmentInv, ShapeInv
  <2> HIDE DEF r
  <2>3. \A d \in r.devices : device[d].member = r.member
    BY <1>0, <1>3, <2>1 DEF RevokeOK
  <2>4. ASSUME member[r.member] = "active", NEW k \in Keys, cred[k] \in r.devices
        PROVE  k \in r.keys
    <3>1. cred[k] # None
      BY <1>0, <2>1, <2>4, EnrollmentConstants DEF CallStates
    <3> QED
      BY <2>1, <2>3, <2>4, <3>1 DEF EnrollmentInv, CredInv
  <2>5. CallOK(h)'
    BY <1>0, <2>1, <2>2, <2>3, <2>4, ReadOnly
    DEF CallOK, CreateOK, EnrollOK, RevokeOK, StoreUnchanged, credVars
  <2> QED
    BY <1>1, <2>1, <2>2, <2>5
<1> QED
  BY <1>2, <1>3 DEF RevokeMemberRead, At

(* A failed transaction starts over, or is given up.                       *)
LEMMA RetryStep ==
  ASSUME EnrollmentInv, NEW h \in Handlers, TxFailed(h) \/ RevokeTxFailed(h)
  PROVE  EnrollmentInv'
<1>0. call[h] \in CallStates /\ CallOK(h) /\ Reads
      /\ call[h].op \in {"enroll", "revokeMember"}
  BY DEF EnrollmentInv, ShapeInv, CallInv, TxFailed, RevokeTxFailed, Reads, At
<1>1. CASE call[h].attempt = 4
  <2>1. Reply(h)
    BY <1>1 DEF TxFailed, RevokeTxFailed, Retry, Reply
  <2> QED
    BY <1>0, <2>1, ReplyStep
<1>2. CASE call[h].attempt # 4
  <2>1. PICK first : /\ call' = [call EXCEPT ![h] = [call[h] EXCEPT
                          !.step = first, !.attempt = @ + 1, !.dirty = FALSE]]
                     /\ \/ first = "record" /\ call[h].op = "enroll"
                        \/ first = "devices" /\ call[h].op = "revokeMember"
    BY <1>2 DEF TxFailed, RevokeTxFailed, Retry, At
  <2> DEFINE r == [call[h] EXCEPT !.step = first, !.attempt = @ + 1, !.dirty = FALSE]
  <2>2. /\ r \in CallStates /\ r.op = call[h].op /\ r.key = call[h].key
        /\ r.invite = call[h].invite /\ r.member = call[h].member /\ r.step = first
    <3>1. call[h].attempt + 1 \in 0..4 /\ first \in Steps
      BY <1>0, <1>2, <2>1 DEF CallStates, Steps
    <3> QED
      BY <1>0, <3>1 DEF CallStates
  <2>3. call' = [call EXCEPT ![h] = r] /\ call'[h] = r
    BY <2>1 DEF EnrollmentInv, ShapeInv
  <2> HIDE DEF r
  <2>4. CallOK(h)' /\ ~Fresh(h)'
    BY <1>0, <2>1, <2>2, <2>3, ReadOnly
    DEF CallOK, CreateOK, EnrollOK, RevokeOK, Fresh, StoreUnchanged
  <2> QED
    BY <1>0, <2>2, <2>3, <2>4, ReadOnly, GoesOn DEF EnrollmentInv
<1> QED
  BY <1>1, <1>2
-----------------------------------------------------------------------------
(* Steps that write. *)

(* A commit touches another call in its dirty flag only, and marks it      *)
(* whenever it writes a key that call watches.                             *)
LEMMA CommitMarks ==
  ASSUME EnrollmentInv, NEW h \in Handlers, NEW writes, NEW next \in CallStates,
         Commit(h, writes, next)
  PROVE  /\ call' \in [Handlers -> CallStates] /\ call'[h] = next
         /\ \A g \in Handlers \ {h} :
              /\ Keeps(g)
              /\ ~call'[g].dirty => ~(InTransaction(call[g]) /\ Watched(call[g]) \cap writes # {})
<1>0. call \in [Handlers -> CallStates]
  BY DEF EnrollmentInv, ShapeInv
<1>1. call'[h] = next
  BY DEF Commit
<1>2. ASSUME NEW g \in Handlers \ {h}
      PROVE  /\ call'[g] \in CallStates /\ Keeps(g)
             /\ ~call'[g].dirty => ~(InTransaction(call[g]) /\ Watched(call[g]) \cap writes # {})
  <2> DEFINE b == call[g].dirty \/ (InTransaction(call[g]) /\ Watched(call[g]) \cap writes # {})
  <2>1. call'[g] = [call[g] EXCEPT !.dirty = b]
    BY DEF Commit
  <2>2. b \in BOOLEAN
    BY DEF CallStates
  <2>3. call[g].dirty => b
    OBVIOUS
  <2>4. b \/ ~(InTransaction(call[g]) /\ Watched(call[g]) \cap writes # {})
    OBVIOUS
  <2> HIDE DEF b
  <2>5. /\ call'[g] \in CallStates /\ call'[g].dirty = b
        /\ call'[g].op = call[g].op /\ call'[g].key = call[g].key
        /\ call'[g].invite = call[g].invite /\ call'[g].member = call[g].member
        /\ call'[g].device = call[g].device /\ call'[g].step = call[g].step
        /\ call'[g].devices = call[g].devices /\ call'[g].keys = call[g].keys
    BY <1>0, <2>1, <2>2 DEF CallStates
  <2> QED
    BY <2>3, <2>4, <2>5 DEF Keeps
<1>3. call' = [g \in Handlers |-> call'[g]]
  BY DEF Commit
<1> QED
  BY <1>1, <1>2, <1>3

(* So a commit that announces the invitations and records it changes, and  *)
(* undoes nothing, leaves every other call with what it relies on.         *)
LEMMA CommitKeeps ==
  ASSUME EnrollmentInv, NEW h \in Handlers, NEW writes, NEW next \in CallStates,
         Commit(h, writes, next), Grows,
         cred' \in [Keys -> Devices \cup {None}], member' \in [Members -> {"none", "active", "revoked"}],
         \A i \in Invites : invite'[i].status # invite[i].status =>
           invite[i].status # "none" /\ <<"invite", i>> \in writes,
         \A k \in Keys : record'[k] # record[k] => <<"key", k>> \in writes,
         \A g \in Handlers \ {h} : Fresh(g) => member'[call[g].member] = "none",
         CallOK(h)', next.op # "create", ~Fresh(h)',
         \A g \in Handlers \ {h} : Fresh(g) => next.member # call[g].member
  PROVE  call' \in [Handlers -> CallStates] /\ CallInv' /\ DistinctInv'
<1>1. /\ call' \in [Handlers -> CallStates] /\ call'[h] = next
      /\ \A g \in Handlers \ {h} :
           /\ Keeps(g)
           /\ ~call'[g].dirty => ~(InTransaction(call[g]) /\ Watched(call[g]) \cap writes # {})
  BY CommitMarks
<1>2. ASSUME NEW g \in Handlers \ {h}
      PROVE  Undisturbed(g)
  <2>0. CreateOK(g) /\ EnrollOK(g)
    BY DEF EnrollmentInv, CallInv, CallOK
  <2>1. call[g].op = "create" => invite'[call[g].invite].status = "none"
    BY <2>0 DEF CreateOK
  <2>2. ASSUME call[g].op = "enroll", call[g].step \in {"invite", "member", "exec"}, ~call'[g].dirty
        PROVE  /\ record'[call[g].key] = record[call[g].key]
               /\ invite'[call[g].invite].status = invite[call[g].invite].status
    <3>1. InTransaction(call[g])
      BY <2>2 DEF InTransaction
    <3>2. <<"invite", call[g].invite>> \notin writes /\ <<"key", call[g].key>> \notin writes
      BY <1>1, <2>2, <3>1 DEF Watched
    <3> QED
      BY <2>0, <2>2, <3>2 DEF EnrollOK
  <2> QED
    BY <2>1, <2>2 DEF Undisturbed
<1>3. CallInv'
  BY <1>1, <1>2, OthersOK DEF CallInv
<1>4. DistinctInv'
  BY <1>1, StillDistinct
<1> QED
  BY <1>1, <1>3, <1>4

LEMMA LapseStep ==
  ASSUME EnrollmentInv, NEW i \in Invites, Lapse(i)
  PROVE  EnrollmentInv'
<1> USE DEF EnrollmentInv
<1>1. StoreUnchanged /\ UNCHANGED <<revoked, call, confirmed>>
  BY DEF Lapse, StoreUnchanged
<1>2. clock' \in [Invites -> {"live", "expired", "gone"}]
  BY DEF Lapse, ShapeInv, TypeOK
<1>3. ShapeInv'
  BY <1>1, <1>2 DEF ShapeInv, TypeOK, StoreUnchanged, credVars
<1>4. DeviceInv' /\ CredInv' /\ ConfirmedInv'
  BY <1>1 DEF DeviceInv, CredInv, ConfirmedInv, StoreUnchanged, credVars
<1>5. CallInv' /\ DistinctInv'
  BY <1>1 DEF CallInv, CallOK, CreateOK, EnrollOK, RevokeOK, DistinctInv, Fresh,
              StoreUnchanged, credVars
<1> QED
  BY <1>3, <1>4, <1>5

(* The invitation is new: nobody has asked to enrol with it.               *)
LEMMA CreateInviteExecStep ==
  ASSUME EnrollmentInv, NEW h \in Handlers, CreateInviteExec(h)
  PROVE  EnrollmentInv'
<1> USE DEF EnrollmentInv
<1> DEFINE i == call[h].invite
           new == [status |-> "pending", member |-> call[h].member]
<1>1. /\ call[h].op = "create" /\ i \in Invites /\ invite[i].status = "none"
      /\ call[h].member \in Members \cup {None}
  BY DEF CreateInviteExec, At, CallInv, CallOK, CreateOK, ShapeInv, CallStates
<1>2. /\ invite' = [invite EXCEPT ![i] = new] /\ Reply(h)
      /\ UNCHANGED <<clock, member, device, cred, deviceCred, memberCreds, record, revoked, confirmed>>
  BY DEF CreateInviteExec, credVars
<1>3. \A j \in Invites : invite'[j] = IF j = i THEN new ELSE invite[j]
  BY <1>1, <1>2 DEF ShapeInv, TypeOK
<1>4. call' = [call EXCEPT ![h] = NoCall] /\ call'[h] = NoCall
      /\ \A g \in Handlers \ {h} : call'[g] = call[g]
  BY <1>2 DEF Reply, ShapeInv
<1>5. Grows
  BY <1>1, <1>2, <1>3 DEF Grows
<1>6. ASSUME NEW g \in Handlers \ {h}
      PROVE  Keeps(g) /\ Undisturbed(g)
  <2>1. Keeps(g)
    BY <1>4 DEF Keeps
  <2>2. Fresh(g) => member'[call[g].member] = "none"
    BY <1>2, FreshMember
  <2>3. call[g].op = "create" => invite'[call[g].invite].status = "none"
    <3>1. call[g].op = "create" => call[g].invite # i /\ call[g].invite \in Invites
                                   /\ invite[call[g].invite].status = "none"
      BY <1>1 DEF DistinctInv, CallInv, CallOK, CreateOK
    <3> QED
      BY <1>3, <3>1
  <2>4. call[g].op = "enroll" => call[g].invite \in Invites /\ call[g].invite # i
    BY <1>1 DEF CallInv, CallOK, EnrollOK
  <2> QED
    BY <1>2, <1>3, <2>1, <2>2, <2>3, <2>4 DEF Undisturbed
<1>7. ShapeInv'
  <2>1. call' \in [Handlers -> CallStates]
    BY <1>4, NoCallState DEF ShapeInv
  <2>2. \A g \in Handlers : call'[g].attempt \in 0..4
    BY <2>1 DEF CallStates
  <2>3. invite' \in [Invites -> [status : {"none", "pending", "used", "revoked"},
                                 member : Members \cup {None}]]
    BY <1>1, <1>2 DEF ShapeInv, TypeOK
  <2> QED
    BY <1>2, <2>1, <2>2, <2>3 DEF ShapeInv, TypeOK
<1>8. DeviceInv'
  <2>1. \A j \in Invites : invite'[j].status = "used" <=> invite[j].status = "used"
    BY <1>1, <1>3
  <2> QED
    BY <1>2, <2>1 DEF DeviceInv
<1>9. CredInv' /\ ConfirmedInv'
  BY <1>2 DEF CredInv, ConfirmedInv
<1>10. CallInv'
  <2>1. CallOK(h)'
    BY <1>4, NoCallState DEF CallOK, CreateOK, EnrollOK, RevokeOK
  <2>2. ASSUME NEW g \in Handlers \ {h}
        PROVE  CallOK(g)'
    BY <1>5, <1>6, <1>7, OthersOK DEF ShapeInv, TypeOK
  <2> QED
    BY <2>1, <2>2 DEF CallInv
<1>11. DistinctInv'
  <2>1. ~Fresh(h)' /\ call'[h].op # "create" /\ call'[h].member = None
    BY <1>4, NoCallState DEF Fresh
  <2>2. \A g \in Handlers \ {h} : Fresh(g) => call'[h].member # call[g].member
    BY <2>1, FreshMember, EnrollmentConstants
  <2> QED
    BY <1>5, <1>6, <2>1, <2>2, StillDistinct
<1> QED
  BY <1>7, <1>8, <1>9, <1>10, <1>11

LEMMA RevokeInviteStep ==
  ASSUME EnrollmentInv, NEW h \in Handlers, RevokeInvite(h)
  PROVE  EnrollmentInv'
<1> USE DEF EnrollmentInv
<1>1. PICK i \in Invites :
        /\ invite[i].status = "pending"
        /\ invite' = [invite EXCEPT ![i].status = "revoked"]
        /\ Commit(h, {<<"invite", i>>}, NoCall)
        /\ UNCHANGED <<clock, member, device, cred, deviceCred, memberCreds, record, revoked, confirmed>>
  BY DEF RevokeInvite, credVars
<1>2. \A j \in Invites : /\ invite'[j].member = invite[j].member
                         /\ invite'[j].status = IF j = i THEN "revoked" ELSE invite[j].status
  BY <1>1 DEF ShapeInv, TypeOK
<1>3. Grows
  BY <1>1, <1>2 DEF Grows
<1>4. call'[h] = NoCall
  BY <1>1, NoCallState, CommitMarks
<1>5. CallOK(h)' /\ ~Fresh(h)'
  BY <1>4, NoCallState DEF CallOK, CreateOK, EnrollOK, RevokeOK, Fresh
<1>6. \A g \in Handlers \ {h} : Fresh(g) => /\ NoCall.member # call[g].member
                                            /\ member'[call[g].member] = "none"
  BY <1>1, FreshMember, NoCallState, EnrollmentConstants
<1>7. call' \in [Handlers -> CallStates] /\ CallInv' /\ DistinctInv'
  <2>1. /\ cred' \in [Keys -> Devices \cup {None}]
        /\ member' \in [Members -> {"none", "active", "revoked"}]
    BY <1>1 DEF ShapeInv, TypeOK
  <2>2. \A j \in Invites : invite'[j].status # invite[j].status =>
           invite[j].status # "none" /\ <<"invite", j>> \in {<<"invite", i>>}
    BY <1>1, <1>2
  <2> QED
    BY <1>1, <1>3, <1>5, <1>6, <2>1, <2>2, NoCallState, CommitKeeps
<1>8. ShapeInv'
  <2>1. \A g \in Handlers : call'[g].attempt \in 0..4
    BY <1>7 DEF CallStates
  <2>2. invite' \in [Invites -> [status : {"none", "pending", "used", "revoked"},
                                 member : Members \cup {None}]]
    BY <1>1 DEF ShapeInv, TypeOK
  <2> QED
    BY <1>1, <1>7, <2>1, <2>2 DEF ShapeInv, TypeOK
<1>9. DeviceInv'
  <2>1. \A j \in Invites : invite'[j].status = "used" <=> invite[j].status = "used"
    BY <1>1, <1>2
  <2> QED
    BY <1>1, <2>1 DEF DeviceInv
<1>10. CredInv' /\ ConfirmedInv'
  BY <1>1 DEF CredInv, ConfirmedInv
<1> QED
  BY <1>7, <1>8, <1>9, <1>10
(* The transaction of an enrolment: its invitation is pending and its      *)
(* setup has no record, so neither has a device.                           *)
LEMMA EnrollExecStep ==
  ASSUME EnrollmentInv, NEW h \in Handlers, EnrollExec(h)
  PROVE  EnrollmentInv'
<1> USE DEF EnrollmentInv
<1>1. PICK d \in Devices : Enrolled(h, d)
  BY DEF EnrollExec
<1> DEFINE i == call[h].invite
           k == call[h].key
           m == call[h].member
           new == [status |-> "active", member |-> m, key |-> k, invite |-> i]
           rec == [invite |-> i, device |-> d]
           writes == {<<"invite", i>>, <<"key", k>>}
                       \cup {<<"member", x>> : x \in {n \in Members : member[n] # member'[n]}}
<1>2. /\ call[h].op = "enroll" /\ call[h].step = "exec" /\ ~call[h].dirty
      /\ i \in Invites /\ k \in Keys /\ m \in Members
      /\ invite[i].status = "pending" /\ record[k] = None
      /\ invite[i].member = None <=> member[m] = "none"
  BY DEF EnrollExec, At, CallInv, CallOK, EnrollOK
<1>3. /\ device[d] = NoDevice
      /\ invite' = [invite EXCEPT ![i].status = "used"]
      /\ device' = [device EXCEPT ![d] = new]
      /\ cred' = [cred EXCEPT ![k] = d] /\ deviceCred' = [deviceCred EXCEPT ![d] = k]
      /\ memberCreds' = [memberCreds EXCEPT ![m] = @ \cup {k}]
      /\ record' = [record EXCEPT ![k] = rec]
      /\ Commit(h, writes, NoCall)
      /\ UNCHANGED <<clock, revoked, confirmed>>
  BY <1>1 DEF Enrolled
<1>4. member' = IF invite[i].member = None THEN [member EXCEPT ![m] = "active"] ELSE member
  BY DEF EnrollExec
<1>5. \A n \in Members : member'[n] = IF n = m /\ member[m] = "none" THEN "active" ELSE member[n]
  BY <1>2, <1>4 DEF ShapeInv, TypeOK
<1>6. \A j \in Invites : /\ invite'[j].member = invite[j].member
                         /\ invite'[j].status = IF j = i THEN "used" ELSE invite[j].status
  BY <1>2, <1>3 DEF ShapeInv, TypeOK
<1>7. \A e \in Devices : device'[e] = IF e = d THEN new ELSE device[e]
  BY <1>3 DEF ShapeInv, TypeOK
<1>8. \A x \in Keys : /\ cred'[x] = IF x = k THEN d ELSE cred[x]
                      /\ record'[x] = IF x = k THEN rec ELSE record[x]
  BY <1>2, <1>3 DEF ShapeInv, TypeOK
<1>9. device[d].status = "none" /\ d # None
  BY <1>3, EnrollmentConstants DEF NoDevice
<1>10. Grows
  BY <1>2, <1>5, <1>6, <1>7, <1>8, <1>9 DEF Grows
<1>11. call'[h] = NoCall
  BY <1>3, NoCallState, CommitMarks
<1>12. CallOK(h)' /\ ~Fresh(h)'
  BY <1>11, NoCallState DEF CallOK, CreateOK, EnrollOK, RevokeOK, Fresh
<1>13. \A g \in Handlers \ {h} : Fresh(g) => /\ NoCall.member # call[g].member
                                             /\ member'[call[g].member] = "none"
  <2>1. ASSUME NEW g \in Handlers \ {h}, Fresh(g)
        PROVE  call[g].member # m /\ call[g].member \in Members /\ member[call[g].member] = "none"
    BY <2>1, FreshMember DEF DistinctInv
  <2> QED
    BY <1>5, <2>1, NoCallState, EnrollmentConstants
<1>14. /\ cred' \in [Keys -> Devices \cup {None}]
       /\ member' \in [Members -> {"none", "active", "revoked"}]
  BY <1>2, <1>3, <1>4 DEF ShapeInv, TypeOK
<1>15. call' \in [Handlers -> CallStates] /\ CallInv' /\ DistinctInv'
  <2>1. \A j \in Invites : invite'[j].status # invite[j].status =>
          invite[j].status # "none" /\ <<"invite", j>> \in writes
    BY <1>2, <1>6
  <2>2. \A x \in Keys : record'[x] # record[x] => <<"key", x>> \in writes
    BY <1>8
  <2> HIDE DEF writes
  <2> QED
    BY <1>3, <1>10, <1>12, <1>13, <1>14, <2>1, <2>2, NoCallState, CommitKeeps
<1>16. ShapeInv'
  <2>1. \A g \in Handlers : call'[g].attempt \in 0..4
    BY <1>15 DEF CallStates
  <2>2. invite' \in [Invites -> [status : {"none", "pending", "used", "revoked"},
                                 member : Members \cup {None}]]
    <3> DEFINE S == [status : {"none", "pending", "used", "revoked"}, member : Members \cup {None}]
    <3>1. invite \in [Invites -> S]
      BY DEF ShapeInv, TypeOK
    <3>2. [invite[i] EXCEPT !.status = "used"] \in S
      BY <1>2, <3>1
    <3>3. invite' = [invite EXCEPT ![i] = [invite[i] EXCEPT !.status = "used"]]
      BY <1>3, <3>1
    <3> QED
      BY <3>1, <3>2, <3>3
  <2>3. device' \in [Devices -> [status : {"none", "active", "revoked"},
                                 member : Members \cup {None}, key : Keys \cup {None},
                                 invite : Invites \cup {None}]]
    BY <1>2, <1>3 DEF ShapeInv, TypeOK
  <2>4. deviceCred' \in [Devices -> Keys \cup {None}] /\ memberCreds' \in [Members -> SUBSET Keys]
    BY <1>2, <1>3 DEF ShapeInv, TypeOK
  <2>5. record' \in [Keys -> [invite : Invites, device : Devices] \cup {None}]
    BY <1>2, <1>3 DEF ShapeInv
  <2>6. \A x \in Keys : record'[x] = None \/ record'[x] \in [invite : Invites, device : Devices]
    BY <2>5
  <2> QED
    BY <1>3, <1>14, <1>15, <2>1, <2>2, <2>3, <2>4, <2>5, <2>6 DEF ShapeInv, TypeOK
<1>17. \A e \in Devices : device[e].invite # i /\ device[e].key # k
  <2>1. \A e \in Devices : device[e].invite # i
    BY <1>2 DEF DeviceInv
  <2>2. \A e \in Devices : device[e].key # k
    BY <1>2, EnrollmentConstants DEF DeviceInv, NoDevice, ShapeInv, TypeOK
  <2> QED
    BY <2>1, <2>2
<1>18. \A x \in Keys : record[x] # None => record[x].device \in Devices /\ record[x].device # d
  <2>1. \A x \in Keys : record[x] # None => record[x] \in [invite : Invites, device : Devices]
    BY DEF ShapeInv
  <2>2. device[d].key = None
    BY <1>3 DEF NoDevice
  <2> QED
    BY <2>1, <2>2, EnrollmentConstants DEF DeviceInv
<1>19. rec # None /\ rec.device = d /\ rec.invite = i
  <2>1. rec \in [invite : Invites, device : Devices]
    BY <1>2
  <2> QED
    BY <2>1, EnrollmentConstants
<1>20. DeviceInv'
  <2>1. \A e \in Devices : device'[e].status = "none" => device'[e] = NoDevice
    BY <1>7 DEF DeviceInv
  <2>2. ASSUME NEW e \in Devices, device'[e].status # "none"
        PROVE  /\ device'[e].member \in Members /\ member'[device'[e].member] # "none"
               /\ device'[e].key \in Keys /\ device'[e].invite \in Invites
               /\ record'[device'[e].key] # None /\ record'[device'[e].key].device = e
    <3>1. CASE e = d
      BY <1>2, <1>5, <1>7, <1>8, <1>19, <3>1
    <3>2. CASE e # d
      <4>1. device'[e] = device[e] /\ device[e].key # k
        BY <1>7, <1>17, <3>2
      <4> QED
        BY <1>5, <1>8, <2>2, <4>1 DEF DeviceInv
    <3> QED
      BY <3>1, <3>2
  <2>3. ASSUME NEW x \in Keys, record'[x] # None
        PROVE  /\ device'[record'[x].device].key = x
               /\ device'[record'[x].device].invite = record'[x].invite
    <3>1. CASE x = k
      BY <1>7, <1>8, <1>19, <3>1
    <3>2. CASE x # k
      BY <1>7, <1>8, <1>18, <2>3, <3>2 DEF DeviceInv
    <3> QED
      BY <3>1, <3>2
  <2>4. \A e, f \in Devices :
          device'[e].invite # None /\ device'[e].invite = device'[f].invite => e = f
    BY <1>7, <1>17 DEF DeviceInv
  <2>5. ASSUME NEW j \in Invites
        PROVE  invite'[j].status = "used" <=> \E e \in Devices : device'[e].invite = j
    <3>1. CASE j = i
      BY <1>6, <1>7, <3>1
    <3>2. CASE j # i
      <4>1. \A e \in Devices : device'[e].invite = j <=> device[e].invite = j
        BY <1>3, <1>7, <3>2, EnrollmentConstants DEF NoDevice
      <4> QED
        BY <1>6, <3>2, <4>1 DEF DeviceInv
    <3> QED
      BY <3>1, <3>2
  <2> QED
    BY <2>1, <2>2, <2>3, <2>4, <2>5 DEF DeviceInv
<1>21. CredInv'
  <2>1. \A n \in Members : memberCreds'[n] = IF n = m THEN memberCreds[m] \cup {k} ELSE memberCreds[n]
    BY <1>2, <1>3 DEF ShapeInv, TypeOK
  <2>2. \A e \in Devices : deviceCred'[e] = IF e = d THEN k ELSE deviceCred[e]
    BY <1>3 DEF ShapeInv, TypeOK
  <2>3. ASSUME NEW x \in Keys, cred'[x] # None
        PROVE  /\ device'[cred'[x]].status = "active" /\ deviceCred'[cred'[x]] = x
               /\ member'[device'[cred'[x]].member] = "active" =>
                    x \in memberCreds'[device'[cred'[x]].member]
    <3>1. CASE x = k
      BY <1>2, <1>7, <1>8, <2>1, <2>2, <3>1
    <3>2. CASE x # k
      <4>1. cred'[x] = cred[x] /\ cred[x] \in Devices /\ device[cred[x]].status = "active"
            /\ deviceCred[cred[x]] = x
        BY <1>8, <2>3, <3>2 DEF CredInv, ShapeInv, TypeOK
      <4>2. cred[x] # d /\ device'[cred[x]] = device[cred[x]]
        BY <1>7, <1>9, <4>1
      <4>3. device[cred[x]].member \in Members /\ member[device[cred[x]].member] # "none"
        BY <4>1 DEF DeviceInv
      <4>4. member'[device[cred[x]].member] = member[device[cred[x]].member]
        BY <1>5, <4>3
      <4>5. memberCreds[device[cred[x]].member] \subseteq memberCreds'[device[cred[x]].member]
        BY <2>1, <4>3
      <4>6. member[device[cred[x]].member] = "active" => x \in memberCreds[device[cred[x]].member]
        BY <2>3, <4>1 DEF CredInv
      <4>7. deviceCred'[cred[x]] = x
        BY <2>2, <4>1, <4>2
      <4> QED
        BY <4>1, <4>2, <4>4, <4>5, <4>6, <4>7
    <3> QED
      BY <3>1, <3>2
  <2>4. \A e \in Devices : device'[e].status = "revoked" => deviceCred'[e] = None
    BY <1>7, <2>2 DEF CredInv
  <2> QED
    BY <2>3, <2>4 DEF CredInv
<1>22. ConfirmedInv'
  BY <1>3, <1>5, <1>7, <1>9 DEF ConfirmedInv
<1> QED
  BY <1>15, <1>16, <1>20, <1>21, <1>22

-----------------------------------------------------------------------------
(* The transaction of RevokeMember: every device it revokes loses its      *)
(* credential, since the credentials were read after the devices.          *)
LEMMA RevokeMemberExecStep ==
  ASSUME EnrollmentInv, NEW h \in Handlers, RevokeMemberExec(h)
  PROVE  EnrollmentInv'
<1> USE DEF EnrollmentInv
<1> DEFINE c == call[h]
           m == call[h].member
           next == [call[h] EXCEPT !.step = "evict"]
           writes == {<<"member", m>>} \cup {<<"key", k>> : k \in call[h].keys}
<1>1. /\ c \in CallStates /\ c.op = "revokeMember" /\ c.step = "exec" /\ m \in Members
      /\ member[m] = "active" /\ \A k \in Keys : cred[k] \in c.devices => k \in c.keys
      /\ \A d \in c.devices : device[d].member = m
      /\ c.devices \in SUBSET Devices /\ c.keys \in SUBSET Keys
  BY DEF RevokeMemberExec, At, CallInv, CallOK, RevokeOK, ShapeInv, CallStates
<1>2. /\ member' = [member EXCEPT ![m] = "revoked"]
      /\ device' = [d \in Devices |-> IF d \in c.devices THEN [device[d] EXCEPT !.status = "revoked"]
                                      ELSE device[d]]
      /\ revoked' = revoked \cup c.devices
      /\ cred' = [k \in Keys |-> IF k \in c.keys THEN None ELSE cred[k]]
      /\ deviceCred' = [d \in Devices |-> IF d \in c.devices THEN None ELSE deviceCred[d]]
      /\ memberCreds' = [memberCreds EXCEPT ![m] = {}]
      /\ Commit(h, writes, next)
      /\ UNCHANGED <<invite, clock, record, confirmed>>
  BY DEF RevokeMemberExec, inviteVars
<1>3. /\ next \in CallStates /\ next.op = "revokeMember" /\ next.step = "evict" /\ next.member = m
  BY <1>1 DEF CallStates, Steps
<1> HIDE DEF next, writes
<1>4. \A n \in Members : member'[n] = IF n = m THEN "revoked" ELSE member[n]
  BY <1>1, <1>2 DEF ShapeInv, TypeOK
<1>5. \A d \in Devices :
        /\ device'[d].member = device[d].member /\ device'[d].key = device[d].key
        /\ device'[d].invite = device[d].invite
        /\ device'[d].status = IF d \in c.devices THEN "revoked" ELSE device[d].status
        /\ d \notin c.devices => device'[d] = device[d]
  BY <1>2 DEF ShapeInv, TypeOK
<1>6. Grows
  BY <1>1, <1>2, <1>4, <1>5 DEF Grows
<1>7. call'[h] = next
  BY <1>2, <1>3, CommitMarks
<1>8. CallOK(h)' /\ ~Fresh(h)'
  BY <1>1, <1>3, <1>4, <1>7 DEF CallOK, CreateOK, EnrollOK, RevokeOK, Fresh
<1>9. \A g \in Handlers \ {h} : Fresh(g) => /\ next.member # call[g].member
                                            /\ member'[call[g].member] = "none"
  BY <1>1, <1>3, <1>4, FreshMember
<1>10. /\ cred' \in [Keys -> Devices \cup {None}]
       /\ member' \in [Members -> {"none", "active", "revoked"}]
  BY <1>1, <1>2 DEF ShapeInv, TypeOK
<1>11. call' \in [Handlers -> CallStates] /\ CallInv' /\ DistinctInv'
  BY <1>2, <1>3, <1>6, <1>8, <1>9, <1>10, CommitKeeps
<1>12. ShapeInv'
  <2>1. \A g \in Handlers : call'[g].attempt \in 0..4
    BY <1>11 DEF CallStates
  <2>2. device' \in [Devices -> [status : {"none", "active", "revoked"},
                                 member : Members \cup {None}, key : Keys \cup {None},
                                 invite : Invites \cup {None}]]
    <3> DEFINE S == [status : {"none", "active", "revoked"}, member : Members \cup {None},
                     key : Keys \cup {None}, invite : Invites \cup {None}]
    <3>1. device \in [Devices -> S]
      BY DEF ShapeInv, TypeOK
    <3>2. \A d \in Devices : [device[d] EXCEPT !.status = "revoked"] \in S
      BY <3>1
    <3> QED
      BY <1>2, <3>1, <3>2
  <2>3. deviceCred' \in [Devices -> Keys \cup {None}] /\ memberCreds' \in [Members -> SUBSET Keys]
        /\ revoked' \subseteq Devices
    BY <1>1, <1>2 DEF ShapeInv, TypeOK
  <2> QED
    BY <1>2, <1>10, <1>11, <2>1, <2>2, <2>3 DEF ShapeInv, TypeOK
<1>13. \A d \in c.devices : d \in Devices /\ device[d].status # "none"
  BY <1>1, EnrollmentConstants DEF DeviceInv, NoDevice
<1>14. DeviceInv'
  <2>1. \A d \in Devices : device'[d].status = "none" => device'[d] = NoDevice
    BY <1>5 DEF DeviceInv
  <2>2. \A d \in Devices : device'[d].status # "none" =>
          /\ device'[d].member \in Members /\ member'[device'[d].member] # "none"
          /\ device'[d].key \in Keys /\ device'[d].invite \in Invites
          /\ record'[device'[d].key] # None /\ record'[device'[d].key].device = d
    <3> SUFFICES ASSUME NEW d \in Devices, device'[d].status # "none"
                 PROVE  /\ device'[d].member \in Members /\ member'[device'[d].member] # "none"
                        /\ device'[d].key \in Keys /\ device'[d].invite \in Invites
                        /\ record'[device'[d].key] # None /\ record'[device'[d].key].device = d
      OBVIOUS
    <3>1. device[d].status # "none"
      BY <1>5, <1>13
    <3> QED
      BY <1>2, <1>4, <1>5, <3>1 DEF DeviceInv
  <2>3. \A k \in Keys : record[k] # None => record[k].device \in Devices
    BY DEF ShapeInv
  <2>4. \A k \in Keys : record'[k] # None =>
          /\ device'[record'[k].device].key = k
          /\ device'[record'[k].device].invite = record'[k].invite
    BY <1>2, <1>5, <2>3 DEF DeviceInv
  <2>5. \A d, e \in Devices :
          device'[d].invite # None /\ device'[d].invite = device'[e].invite => d = e
    BY <1>5 DEF DeviceInv
  <2>6. \A i \in Invites : invite'[i].status = "used" <=> \E d \in Devices : device'[d].invite = i
    BY <1>2, <1>5 DEF DeviceInv
  <2> QED
    BY <2>1, <2>2, <2>4, <2>5, <2>6 DEF DeviceInv
<1>15. CredInv'
  <2>1. ASSUME NEW k \in Keys, cred'[k] # None
        PROVE  /\ device'[cred'[k]].status = "active" /\ deviceCred'[cred'[k]] = k
               /\ member'[device'[cred'[k]].member] = "active" =>
                    k \in memberCreds'[device'[cred'[k]].member]
    <3>1. cred'[k] = cred[k] /\ cred[k] \in Devices /\ cred[k] \notin c.devices /\ cred[k] # None
      BY <1>1, <1>2, <2>1 DEF ShapeInv, TypeOK
    <3>2. device'[cred[k]] = device[cred[k]] /\ deviceCred'[cred[k]] = deviceCred[cred[k]]
      BY <1>2, <1>5, <3>1
    <3>3. device[cred[k]].status = "active" /\ deviceCred[cred[k]] = k
          /\ device[cred[k]].member \in Members
      BY <3>1 DEF CredInv, DeviceInv
    <3>4. \A n \in Members : n # m => memberCreds'[n] = memberCreds[n]
      BY <1>1, <1>2 DEF ShapeInv, TypeOK
    <3> QED
      BY <1>4, <3>1, <3>2, <3>3, <3>4 DEF CredInv
  <2>2. \A d \in Devices : device'[d].status = "revoked" => deviceCred'[d] = None
    BY <1>2, <1>5 DEF CredInv
  <2> QED
    BY <2>1, <2>2 DEF CredInv
<1>16. ConfirmedInv'
  BY <1>2, <1>4, <1>5 DEF ConfirmedInv
<1> QED
  BY <1>11, <1>12, <1>14, <1>15, <1>16
(* RevokeDevice knows the credential of an active device from its entry.   *)
LEMMA RevokeDeviceStep ==
  ASSUME EnrollmentInv, NEW h \in Handlers, RevokeDevice(h)
  PROVE  EnrollmentInv'
<1> USE DEF EnrollmentInv
<1> DEFINE next(d) == [NoCall EXCEPT !.op = "revokeDevice", !.step = "evict", !.device = d,
                                     !.devices = {d}]
<1>1. PICK d \in Devices :
        /\ device[d].status # "none"
        /\ revoked' = revoked \cup {d}
        /\ device' = [device EXCEPT ![d].status = "revoked"]
        /\ IF device[d].status = "revoked" \/ deviceCred[d] = None
           THEN UNCHANGED <<cred, deviceCred, memberCreds>>
           ELSE /\ cred' = [cred EXCEPT ![deviceCred[d]] = None]
                /\ memberCreds' = [memberCreds EXCEPT ![device[d].member] = @ \ {deviceCred[d]}]
                /\ deviceCred' = [deviceCred EXCEPT ![d] = None]
        /\ Commit(h, {<<"key", deviceCred[d]>>}, next(d))
        /\ UNCHANGED <<invite, clock, member, record, confirmed>>
  BY DEF RevokeDevice, credVars, inviteVars
<1> DEFINE r == next(d)
<1>2. r \in CallStates /\ r.op = "revokeDevice" /\ r.step = "evict" /\ r.device = d /\ r.member = None
  BY NoCallState DEF CallStates, Ops, Steps
<1>3. Commit(h, {<<"key", deviceCred[d]>>}, r)
  BY <1>1
<1> HIDE DEF r, next
<1>4. \A e \in Devices :
        /\ device'[e].member = device[e].member /\ device'[e].key = device[e].key
        /\ device'[e].invite = device[e].invite
        /\ device'[e].status = IF e = d THEN "revoked" ELSE device[e].status
        /\ e # d => device'[e] = device[e]
  BY <1>1 DEF ShapeInv, TypeOK
<1>5. \A k \in Keys : cred'[k] # None => cred'[k] = cred[k]
  BY <1>1 DEF ShapeInv, TypeOK
<1>6. Grows
  BY <1>1, <1>4, <1>5 DEF Grows
<1>7. call'[h] = r
  BY <1>2, <1>3, CommitMarks
<1>8. CallOK(h)' /\ ~Fresh(h)'
  BY <1>2, <1>4, <1>7 DEF CallOK, CreateOK, EnrollOK, RevokeOK, Fresh
<1>9. \A g \in Handlers \ {h} : Fresh(g) => /\ r.member # call[g].member
                                            /\ member'[call[g].member] = "none"
  BY <1>1, <1>2, FreshMember, EnrollmentConstants
<1>10. /\ cred' \in [Keys -> Devices \cup {None}]
       /\ member' \in [Members -> {"none", "active", "revoked"}]
       /\ deviceCred' \in [Devices -> Keys \cup {None}]
       /\ memberCreds' \in [Members -> SUBSET Keys]
  <2>1. /\ cred \in [Keys -> Devices \cup {None}]
        /\ member \in [Members -> {"none", "active", "revoked"}]
        /\ deviceCred \in [Devices -> Keys \cup {None}]
        /\ memberCreds \in [Members -> SUBSET Keys]
    BY DEF ShapeInv, TypeOK
  <2>2. CASE device[d].status = "revoked" \/ deviceCred[d] = None
    BY <1>1, <2>1, <2>2
  <2>3. CASE ~(device[d].status = "revoked" \/ deviceCred[d] = None)
    <3>1. deviceCred[d] \in Keys
      BY <2>1, <2>3
    <3>2. device[d].member \in Members
      BY <1>1 DEF DeviceInv
    <3>3. cred' \in [Keys -> Devices \cup {None}]
      BY <1>1, <2>1, <2>3, <3>1
    <3>4. deviceCred' \in [Devices -> Keys \cup {None}]
      BY <1>1, <2>1, <2>3
    <3>5. memberCreds[device[d].member] \ {deviceCred[d]} \in SUBSET Keys
      BY <2>1, <3>2
    <3>6. memberCreds' \in [Members -> SUBSET Keys]
      BY <1>1, <2>1, <2>3, <3>2, <3>5
    <3> QED
      BY <1>1, <2>1, <3>3, <3>4, <3>6
  <2> QED
    BY <2>2, <2>3
<1>11. call' \in [Handlers -> CallStates] /\ CallInv' /\ DistinctInv'
  BY <1>1, <1>2, <1>3, <1>6, <1>8, <1>9, <1>10, CommitKeeps
<1>12. ShapeInv'
  <2>1. \A g \in Handlers : call'[g].attempt \in 0..4
    BY <1>11 DEF CallStates
  <2>2. device' \in [Devices -> [status : {"none", "active", "revoked"},
                                 member : Members \cup {None}, key : Keys \cup {None},
                                 invite : Invites \cup {None}]]
    <3> DEFINE S == [status : {"none", "active", "revoked"}, member : Members \cup {None},
                     key : Keys \cup {None}, invite : Invites \cup {None}]
    <3>1. device \in [Devices -> S]
      BY DEF ShapeInv, TypeOK
    <3>2. [device[d] EXCEPT !.status = "revoked"] \in S
      BY <3>1
    <3>3. device' = [device EXCEPT ![d] = [device[d] EXCEPT !.status = "revoked"]]
      BY <1>1, <3>1
    <3> QED
      BY <3>1, <3>2, <3>3
  <2> QED
    BY <1>1, <1>10, <1>11, <2>1, <2>2 DEF ShapeInv, TypeOK
<1>13. DeviceInv'
  <2>1. \A e \in Devices : device'[e].status = "none" => device'[e] = NoDevice
    BY <1>4 DEF DeviceInv
  <2>2. ASSUME NEW e \in Devices, device'[e].status # "none"
        PROVE  /\ device'[e].member \in Members /\ member'[device'[e].member] # "none"
               /\ device'[e].key \in Keys /\ device'[e].invite \in Invites
               /\ record'[device'[e].key] # None /\ record'[device'[e].key].device = e
    <3>1. device[e].status # "none"
      BY <1>1, <1>4, <2>2
    <3> QED
      BY <1>1, <1>4, <3>1 DEF DeviceInv
  <2>3. \A k \in Keys : record[k] # None => record[k].device \in Devices
    BY DEF ShapeInv
  <2>4. \A k \in Keys : record'[k] # None =>
          /\ device'[record'[k].device].key = k
          /\ device'[record'[k].device].invite = record'[k].invite
    BY <1>1, <1>4, <2>3 DEF DeviceInv
  <2>5. \A e, f \in Devices :
          device'[e].invite # None /\ device'[e].invite = device'[f].invite => e = f
    BY <1>4 DEF DeviceInv
  <2>6. \A i \in Invites : invite'[i].status = "used" <=> \E e \in Devices : device'[e].invite = i
    BY <1>1, <1>4 DEF DeviceInv
  <2> QED
    BY <2>1, <2>2, <2>4, <2>5, <2>6 DEF DeviceInv
<1>14. CredInv'
  <2>1. ASSUME NEW k \in Keys
        PROVE  cred'[k] # d
    <3>1. CASE device[d].status = "revoked" \/ deviceCred[d] = None
      <4>1. cred' = cred
        BY <1>1, <3>1
      <4>2. ASSUME cred[k] = d
            PROVE  FALSE
        BY <3>1, <4>2, EnrollmentConstants DEF CredInv
      <4> QED
        BY <4>1, <4>2
    <3>2. CASE ~(device[d].status = "revoked" \/ deviceCred[d] = None)
      <4>1. cred' = [cred EXCEPT ![deviceCred[d]] = None]
        BY <1>1, <3>2
      <4>2. cred[k] = d => k = deviceCred[d]
        BY EnrollmentConstants DEF CredInv
      <4> QED
        BY <4>1, <4>2, EnrollmentConstants DEF ShapeInv, TypeOK
    <3> QED
      BY <3>1, <3>2
  <2>2. deviceCred'[d] = None
    BY <1>1 DEF CredInv, ShapeInv, TypeOK
  <2>3. \A e \in Devices \ {d} : deviceCred'[e] = deviceCred[e]
    BY <1>1 DEF ShapeInv, TypeOK
  <2>4. ASSUME NEW k \in Keys, cred'[k] # None
        PROVE  /\ device'[cred'[k]].status = "active" /\ deviceCred'[cred'[k]] = k
               /\ member'[device'[cred'[k]].member] = "active" =>
                    k \in memberCreds'[device'[cred'[k]].member]
    <3>1. cred'[k] = cred[k] /\ cred[k] \in Devices /\ cred[k] # d /\ cred[k] # None
      BY <1>5, <2>1, <2>4 DEF ShapeInv, TypeOK
    <3>2. device'[cred[k]] = device[cred[k]] /\ deviceCred'[cred[k]] = deviceCred[cred[k]]
      BY <1>4, <2>3, <3>1
    <3>3. device[cred[k]].status = "active" /\ deviceCred[cred[k]] = k
          /\ device[cred[k]].member \in Members
      BY <3>1 DEF CredInv, DeviceInv
    <3>4. device[d].member \in Members
      BY <1>1 DEF DeviceInv
    <3>5. \A n \in Members : k \in memberCreds[n] => k \in memberCreds'[n]
      <4>1. CASE device[d].status = "revoked" \/ deviceCred[d] = None
        BY <1>1, <4>1
      <4>2. CASE ~(device[d].status = "revoked" \/ deviceCred[d] = None)
        <5>1. memberCreds' = [memberCreds EXCEPT ![device[d].member] = @ \ {deviceCred[d]}]
          BY <1>1, <4>2
        <5>2. cred' = [cred EXCEPT ![deviceCred[d]] = None]
          BY <1>1, <4>2
        <5>3. k # deviceCred[d]
          BY <2>4, <5>2 DEF ShapeInv, TypeOK
        <5> QED
          BY <3>4, <5>1, <5>3 DEF ShapeInv, TypeOK
      <4> QED
        BY <4>1, <4>2
    <3> QED
      BY <1>1, <3>1, <3>2, <3>3, <3>5 DEF CredInv
  <2>5. \A e \in Devices : device'[e].status = "revoked" => deviceCred'[e] = None
    BY <1>4, <2>2, <2>3 DEF CredInv
  <2> QED
    BY <2>4, <2>5 DEF CredInv
<1>15. ConfirmedInv'
  BY <1>1, <1>4 DEF ConfirmedInv
<1> QED
  BY <1>11, <1>12, <1>13, <1>14, <1>15

(* Renewed tombstones, and the answer.                                     *)
LEMMA TombstoneStep ==
  ASSUME EnrollmentInv, NEW h \in Handlers, RevokeMemberAgain(h) \/ EvictRevokedAgents(h)
  PROVE  EnrollmentInv'
<1>0. /\ call[h] \in CallStates /\ CallOK(h) /\ StoreUnchanged /\ UNCHANGED clock
      /\ revoked' \in SUBSET Devices
  <2>1. call[h] \in CallStates /\ CallOK(h) /\ revoked \in SUBSET Devices
    BY DEF EnrollmentInv, ShapeInv, CallInv, TypeOK
  <2>2. call[h].devices \in SUBSET Devices
    BY <2>1 DEF CallStates
  <2> QED
    BY <2>1, <2>2 DEF RevokeMemberAgain, EvictRevokedAgents, StoreUnchanged, inviteVars
<1>1. CASE RevokeMemberAgain(h)
  <2> DEFINE r == [call[h] EXCEPT !.step = "evict"]
  <2>1. /\ call[h].op = "revokeMember" /\ call[h].step = "exec"
        /\ member[call[h].member] = "revoked" /\ UNCHANGED confirmed
    BY <1>1 DEF RevokeMemberAgain, At
  <2>2. r \in CallStates /\ r.op = call[h].op /\ r.member = call[h].member /\ r.step = "evict"
    BY <1>0 DEF CallStates, Steps
  <2>3. call' = [call EXCEPT ![h] = r] /\ call'[h] = r
    BY <1>1 DEF RevokeMemberAgain, Goto, EnrollmentInv, ShapeInv
  <2> HIDE DEF r
  <2>4. CallOK(h)' /\ ~Fresh(h)'
    BY <1>0, <2>1, <2>2, <2>3 DEF CallOK, CreateOK, EnrollOK, RevokeOK, Fresh, StoreUnchanged
  <2>5. ShapeInv' /\ DeviceInv' /\ CredInv' /\ CallInv' /\ DistinctInv'
    BY <1>0, <2>1, <2>2, <2>3, <2>4, GoesOn
  <2>6. ConfirmedInv'
    BY <1>0, <2>1 DEF EnrollmentInv, ConfirmedInv, StoreUnchanged
  <2> QED
    BY <2>5, <2>6 DEF EnrollmentInv
<1>2. CASE EvictRevokedAgents(h)
  <2>1. /\ call[h].step = "evict" /\ Reply(h)
        /\ confirmed' = confirmed \cup
             {IF call[h].op = "revokeMember" THEN call[h].member ELSE call[h].device}
    BY <1>2 DEF EvictRevokedAgents
  <2>2. call[h].op \in {"revokeMember", "revokeDevice"}
    BY <1>0, <2>1 DEF CallOK, CreateOK, EnrollOK, RevokeOK, CallStates, Ops
  <2>3. \/ /\ call[h].op = "revokeMember" /\ call[h].member \in Members
           /\ member[call[h].member] = "revoked"
        \/ /\ call[h].op # "revokeMember" /\ call[h].device \in Devices
           /\ device[call[h].device].status = "revoked"
    BY <1>0, <2>1, <2>2 DEF CallOK, RevokeOK
  <2>4. ConfirmedInv'
    BY <1>0, <2>1, <2>3 DEF EnrollmentInv, ConfirmedInv, StoreUnchanged
  <2> QED
    BY <1>0, <2>1, <2>4, Replies DEF EnrollmentInv
<1> QED
  BY <1>1, <1>2

-----------------------------------------------------------------------------
LEMMA EnrollmentInit == Init => EnrollmentInv
<1> SUFFICES ASSUME Init PROVE EnrollmentInv
  OBVIOUS
<1>1. ShapeInv
  <2>1. call \in [Handlers -> CallStates] /\ \A h \in Handlers : call[h].attempt \in 0..4
    BY NoCallState DEF Init, CallStates
  <2> QED
    BY <2>1 DEF Init, ShapeInv, TypeOK, NoDevice
<1>2. DeviceInv
  BY EnrollmentConstants DEF Init, DeviceInv, NoDevice
<1>3. CredInv /\ ConfirmedInv
  BY DEF Init, CredInv, ConfirmedInv, NoDevice
<1>4. \A h \in Handlers : call[h].op = "none" /\ call[h].step = "idle"
  BY NoCallState DEF Init
<1>5. CallInv /\ DistinctInv
  BY <1>4 DEF CallInv, CallOK, CreateOK, EnrollOK, RevokeOK, DistinctInv, Fresh
<1> QED
  BY <1>1, <1>2, <1>3, <1>5 DEF EnrollmentInv

LEMMA EnrollmentStep ==
  ASSUME EnrollmentInv, [Next]_vars
  PROVE  EnrollmentInv'
<1>1. ASSUME NEW h \in Handlers, EnrollStep(h)
      PROVE  EnrollmentInv'
  BY <1>1, EnrollReads, EnrollMemberStep, RetryStep, EnrollExecStep DEF EnrollStep
<1>2. ASSUME NEW h \in Handlers, RevokeStep(h)
      PROVE  EnrollmentInv'
  BY <1>2, RevokeMemberReadStep, RetryStep, TombstoneStep, RevokeMemberExecStep DEF RevokeStep
<1>3. CASE UNCHANGED vars
  BY <1>3 DEF vars, redisVars, inviteVars, credVars, EnrollmentInv, ShapeInv, TypeOK, DeviceInv,
              CredInv, ConfirmedInv, CallInv, CallOK, CreateOK, EnrollOK, RevokeOK, DistinctInv, Fresh
<1> QED
  BY <1>1, <1>2, <1>3, CreateInviteStep, CreateInviteExecStep, RevokeInviteStep, BeginStep,
     RevokeDeviceStep, EnrollReads, LapseStep DEF Next

LEMMA EnrollmentInvariant == Spec => []EnrollmentInv
BY EnrollmentInit, EnrollmentStep, PTL DEF Spec

(***************************************************************************)
(* Enroll, for any number of concurrent setups, retries and revocations:   *)
(* an invitation enrols at most one device and is used exactly when it     *)
(* has, and a setup has the one device its record names.                   *)
(***************************************************************************)
THEOREM EnrolmentIsSound == Spec => []EnrolmentSound
<1>1. ASSUME EnrollmentInv
      PROVE  InviteEnrolsOnce
  <2> SUFFICES ASSUME NEW i \in Invites
               PROVE  /\ Cardinality({d \in Devices : device[d].invite = i}) <= 1
                      /\ invite[i].status = "used" <=> {d \in Devices : device[d].invite = i} # {}
    BY DEF InviteEnrolsOnce
  <2> DEFINE E == {d \in Devices : device[d].invite = i}
  <2>1. \A d, e \in E : d = e
    BY <1>1, EnrollmentConstants DEF EnrollmentInv, DeviceInv
  <2>2. E = {} \/ \E d : E = {d}
    BY <2>1
  <2>3. invite[i].status = "used" <=> E # {}
    BY <1>1 DEF EnrollmentInv, DeviceInv
  <2> HIDE DEF E
  <2>4. Cardinality(E) <= 1
    <3>1. CASE E = {}
      BY <3>1, FS_EmptySet
    <3>2. ASSUME NEW d, E = {d}
          PROVE  Cardinality(E) <= 1
      BY <3>2, FS_Singleton
    <3> QED
      BY <2>2, <3>1, <3>2
  <2> QED
    BY <2>3, <2>4 DEF E
<1>2. ASSUME EnrollmentInv
      PROVE  OneDevicePerKey
  BY <1>2, EnrollmentConstants DEF EnrollmentInv, DeviceInv, OneDevicePerKey, NoDevice, ShapeInv, TypeOK
<1>3. EnrollmentInv => EnrolmentSound
  BY <1>1, <1>2 DEF EnrollmentInv, ShapeInv, EnrolmentSound
<1> QED
  BY <1>3, EnrollmentInvariant, PTL

(***************************************************************************)
(* RevokeMember and RevokeDevice, for any enrolment or revocation in       *)
(* flight: after the answer no credential of the member or the device      *)
(* authenticates, and a revoked device has no credential left.             *)
(***************************************************************************)
THEOREM RevocationIsSound == Spec => []RevocationSound
<1>1. ASSUME EnrollmentInv
      PROVE  RevocationIsFinal
  <2> SUFFICES ASSUME NEW k \in Keys, Authenticates(k)
               PROVE  confirmed \cap {cred[k], device[cred[k]].member} = {}
    BY DEF RevocationIsFinal
  <2>1. cred[k] \in Devices /\ device[cred[k]].status = "active"
        /\ member[device[cred[k]].member] = "active"
    BY <1>1 DEF EnrollmentInv, ShapeInv, TypeOK, Authenticates
  <2>2. device[cred[k]].member \in Members
    BY <1>1, <2>1 DEF EnrollmentInv, DeviceInv
  <2> QED
    BY <1>1, <2>1, <2>2, EnrollmentConstants DEF EnrollmentInv, ConfirmedInv
<1>2. ASSUME EnrollmentInv
      PROVE  RevokedDeviceHasNoCredential
  BY <1>2, EnrollmentConstants DEF EnrollmentInv, CredInv, RevokedDeviceHasNoCredential
<1>3. EnrollmentInv => RevocationSound
  BY <1>1, <1>2 DEF RevocationSound
<1> QED
  BY <1>3, EnrollmentInvariant, PTL

(***************************************************************************)
(* Enroll after a lost race: a handler refuses a request only when the     *)
(* record does not answer it, for the two steps that refuse one have just  *)
(* seen an invitation that is not used, so that no record names it, or     *)
(* read the record again.                                                  *)
(***************************************************************************)
THEOREM ExactRetriesSucceed == Spec => ExactRetrySucceeds
<1> DEFINE Refuses(h) == call[h].step # "refused" /\ call'[h].step = "refused"
           OK(h) == Refuses(h) => readEnrollmentRecord(call[h].key, call[h].invite) # "found"
<1>1. ASSUME EnrollmentInv, [Next]_vars
      PROVE  [\A h \in Handlers : OK(h)]_vars
  <2>0. call \in [Handlers -> CallStates] /\ NoCall.step # "refused"
    BY <1>1 DEF EnrollmentInv, ShapeInv, NoCall
  <2>1. ASSUME NEW h \in Handlers, NEW g \in Handlers, NEW step, Goto(h, step),
               step # "refused" \/ g # h
        PROVE  OK(g)
    BY <2>0, <2>1 DEF Goto, CallStates
  <2>2. ASSUME NEW h \in Handlers, NEW g \in Handlers, Reply(h)
        PROVE  OK(g)
    BY <2>0, <2>2 DEF Reply
  <2>3. ASSUME NEW h \in Handlers, NEW g \in Handlers, NEW W, NEW c, Commit(h, W, c),
               c.step # "refused"
        PROVE  OK(g)
    BY <2>0, <2>3 DEF Commit, CallStates
  <2>4. ASSUME NEW h \in Handlers, NEW g \in Handlers, NEW c, call' = [call EXCEPT ![h] = c],
               c.step # "refused"
        PROVE  OK(g)
    BY <2>0, <2>4
  <2>5. ASSUME NEW h \in Handlers, NEW g \in Handlers, EnrollInvite(h)
        PROVE  OK(g)
    <3> DEFINE i == call[h].invite
    <3>1. CASE invite[i].status = "used"
      BY <2>1, <2>5, <3>1 DEF EnrollInvite
    <3>2. CASE invite[i].status # "used"
      <4>1. readEnrollmentRecord(call[h].key, i) # "found"
        <5>1. call[h].key \in Keys /\ i \in Invites
          BY <1>1, <2>5 DEF EnrollmentInv, CallInv, CallOK, EnrollOK, EnrollInvite, At
        <5>2. record[call[h].key] # None => record[call[h].key].invite # i
          BY <1>1, <3>2, <5>1 DEF EnrollmentInv, DeviceInv, ShapeInv
        <5> QED
          BY <5>2 DEF readEnrollmentRecord
      <4>2. PICK step : Goto(h, step)
        BY <2>5 DEF EnrollInvite
      <4> QED
        BY <2>1, <4>1, <4>2
    <3> QED
      BY <3>1, <3>2
  <2>6. ASSUME NEW h \in Handlers, NEW g \in Handlers, EnrollReread(h)
        PROVE  OK(g)
    <3>1. CASE readEnrollmentRecord(call[h].key, call[h].invite) = "found"
      BY <2>2, <2>6, <3>1 DEF EnrollReread
    <3>2. CASE readEnrollmentRecord(call[h].key, call[h].invite) # "found"
      BY <2>1, <2>6, <3>2 DEF EnrollReread
    <3> QED
      BY <3>1, <3>2
  <2>7. ASSUME NEW h \in Handlers, NEW g \in Handlers,
               \/ EnrollReplay(h) \/ EnrollReference(h) \/ EnrollRecord(h) \/ Refused(h)
               \/ RevokeMemberAgain(h) \/ EvictRevokedAgents(h) \/ Abort(h) \/ CreateInviteExec(h)
        PROVE  OK(g)
    <3>1. Reply(h) \/ \E step \in {"reference", "reread", "record", "invite", "evict"} : Goto(h, step)
      BY <2>7 DEF EnrollReplay, EnrollReference, EnrollRecord, Refused, RevokeMemberAgain,
                  EvictRevokedAgents, Abort, CreateInviteExec
    <3> QED
      BY <2>1, <2>2, <3>1
  <2>8. ASSUME NEW h \in Handlers, NEW g \in Handlers,
               \/ EnrollMember(h) \/ TxFailed(h) \/ RevokeMemberRead(h) \/ RevokeTxFailed(h)
        PROVE  OK(g)
    <3>1. CASE EnrollMember(h)
      BY <2>0, <2>1, <3>1 DEF EnrollMember, CallStates
    <3>2. CASE TxFailed(h)
      BY <2>0, <3>2 DEF TxFailed, Retry, CallStates
    <3>3. CASE RevokeMemberRead(h)
      BY <2>0, <3>3 DEF RevokeMemberRead, CallStates
    <3>4. CASE RevokeTxFailed(h)
      BY <2>0, <3>4 DEF RevokeTxFailed, Retry, CallStates
    <3> QED
      BY <2>8, <3>1, <3>2, <3>3, <3>4
  <2>9. ASSUME NEW h \in Handlers, NEW g \in Handlers,
               CreateInvite(h) \/ Enroll(h) \/ RevokeMember(h)
        PROVE  OK(g)
    <3>1. \E c : c.step # "refused" /\ call' = [call EXCEPT ![h] = c]
      BY <2>9 DEF CreateInvite, Enroll, RevokeMember, Begin, NoCall
    <3> QED
      BY <2>4, <3>1
  <2>10. ASSUME NEW h \in Handlers, NEW g \in Handlers,
                RevokeInvite(h) \/ EnrollExec(h) \/ RevokeMemberExec(h) \/ RevokeDevice(h)
         PROVE  OK(g)
    <3>1. \E W, c : c.step # "refused" /\ Commit(h, W, c)
      <4>1. CASE RevokeInvite(h)
        BY <2>0, <4>1 DEF RevokeInvite
      <4>2. CASE EnrollExec(h)
        BY <2>0, <4>2 DEF EnrollExec, Enrolled
      <4>3. CASE RevokeMemberExec(h)
        <5>1. [call[h] EXCEPT !.step = "evict"].step # "refused"
          BY <2>0 DEF CallStates
        <5> QED
          BY <4>3, <5>1 DEF RevokeMemberExec
      <4>4. CASE RevokeDevice(h)
        BY <4>4 DEF RevokeDevice, NoCall
      <4> QED
        BY <2>10, <4>1, <4>2, <4>3, <4>4
    <3> QED
      BY <2>3, <3>1
  <2>11. ASSUME NEW i \in Invites, NEW g \in Handlers, Lapse(i)
         PROVE  OK(g)
    BY <2>11 DEF Lapse
  <2> QED
    BY <1>1, <2>5, <2>6, <2>7, <2>8, <2>9, <2>10, <2>11 DEF Next, EnrollStep, RevokeStep
<1> QED
  BY <1>1, EnrollmentInvariant, PTL DEF Spec, ExactRetrySucceeds
=============================================================================
