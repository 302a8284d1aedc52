---------------------------- MODULE StoresProofs ----------------------------
(***************************************************************************)
(* Proofs about the three components MCStores puts side by side: Creation, *)
(* Presence (here Agency) and Controller (here Control), each for every    *)
(* value of its constants.                                                 *)
(***************************************************************************)
EXTENDS MCStores, FiniteSetTheorems, TLAPS

(***************************************************************************)
(* Creation, for any number of calls, keys, contents and identities and    *)
(* any retention longer than the longest approval time.  The invariant     *)
(* ties the three keys of a request together: its record and its           *)
(* idempotency key name each other and expire at the same moment, and the  *)
(* inbox outlives every deadline it lists.                                 *)
(***************************************************************************)

Steps == {"idle", "lookup", "agents", "watch", "exec", "announce"}
CallStates == [step : Steps, key : Keys \cup {None}, content : Contents \cup {None},
               id : Ids \cup {None}]
Answers == [key : Keys, content : Contents, id : Ids]

ShapeInv ==
  /\ now \in Nat
  /\ requests \in [Ids -> RequestRecords \cup {None}]
  /\ idem \in [Keys -> KeyRecords \cup {None}]
  /\ inbox \in [ids : SUBSET Ids, ttl : Nat]
  /\ call \in [Calls -> CallStates]
  /\ answers \in SUBSET Answers
  /\ used \in SUBSET Ids /\ known \in SUBSET Ids

(* The call past its lookup knows its key and content; an identity drawn   *)
(* is its own, unused until the transaction stores it.                     *)
CallInv ==
  /\ \A c \in Calls : call[c].step # "idle" => call[c].key \in Keys /\ call[c].content \in Contents
  /\ \A c \in Calls : call[c].step = "exec" => call[c].id \in Ids \ used
  /\ \A c \in Calls : call[c].step = "announce" => call[c].id \in used
  /\ \A c, d \in Calls :
       c # d /\ call[c].step = "exec" /\ call[d].step \in {"exec", "announce"} => call[c].id # call[d].id

(* The request kept under an identity is of the key and the content.       *)
Agrees(i, key, content) ==
  requests[i] # None => requests[i].key = key /\ requests[i].content = content

(* Records name each other, and expire together.                           *)
BindingInv ==
  /\ Live \subseteq used
  /\ \A i \in Ids : requests[i] # None =>
       /\ idem[requests[i].key] # None
       /\ idem[requests[i].key].id = i
       /\ idem[requests[i].key].digest = requests[i].content
       /\ idem[requests[i].key].ttl = requests[i].ttl
  /\ \A k \in Keys : idem[k] # None =>
       idem[k].id \in used /\ Agrees(idem[k].id, k, idem[k].digest)

(* What was answered, or is about to be, is what is kept.                  *)
AnswerInv ==
  /\ \A z \in answers : z.id \in used /\ Agrees(z.id, z.key, z.content)
  /\ \A c \in Calls : call[c].step = "announce" => Agrees(call[c].id, call[c].key, call[c].content)

(* The inbox lists what can be decided, beyond its deadline.               *)
InboxInv ==
  \A i \in Ids : requests[i] # None =>
    /\ requests[i].expires <= now + Lifetime
    /\ (requests[i].status = "awaiting" /\ now < requests[i].expires) =>
         i \in inbox.ids /\ requests[i].expires < inbox.ttl

CreationInv == ShapeInv /\ CallInv /\ BindingInv /\ AnswerInv /\ InboxInv
-----------------------------------------------------------------------------
LEMMA CreationInit == Init => CreationInv
<1> SUFFICES ASSUME Init PROVE CreationInv
  OBVIOUS
<1>1. ShapeInv
  BY DEF Init, ShapeInv, CallStates, Steps, NoCall
<1>2. CallInv
  BY DEF Init, CallInv, NoCall
<1>3. BindingInv /\ AnswerInv /\ InboxInv
  BY DEF Init, BindingInv, AnswerInv, InboxInv, Live, NoCall
<1> QED
  BY <1>1, <1>2, <1>3 DEF CreationInv

LEMMA IdleCall == NoCall \in CallStates /\ NoCall.step = "idle"
BY DEF NoCall, CallStates, Steps

(* A step of a call that leaves the store alone: it moves its own state,   *)
(* draws an identity nobody has, or answers with a request that agrees.    *)
LEMMA CallMoves ==
  ASSUME CreationInv, NEW c \in Calls, NEW r \in CallStates,
         call' = [call EXCEPT ![c] = r],
         UNCHANGED <<now, requests, idem, inbox, used>>,
         known' \in SUBSET Ids,
         r.step # "idle" => r.key \in Keys /\ r.content \in Contents,
         r.step # "announce",
         r.step = "exec" => r.id \in Ids \ used /\ \A d \in Calls : r.id # call[d].id,
         \/ answers' = answers
         \/ \E i \in used :
              /\ call[c].step # "idle" /\ Agrees(i, call[c].key, call[c].content)
              /\ answers' = answers \cup {[key |-> call[c].key, content |-> call[c].content, id |-> i]}
  PROVE  CreationInv'
<1> USE DEF CreationInv
<1>1. \A d \in Calls : call'[d] = IF d = c THEN r ELSE call[d]
  BY DEF ShapeInv
<1>2. \A i, k, z : Agrees(i, k, z)' <=> Agrees(i, k, z)
  BY DEF Agrees
<1>3. ShapeInv'
  <2>1. answers' \in SUBSET Answers
    BY DEF ShapeInv, CallInv, Answers
  <2> QED
    BY <2>1 DEF ShapeInv
<1>4. CallInv'
  BY <1>1 DEF CallInv
<1>5. BindingInv'
  BY <1>2 DEF BindingInv, Live
<1>6. AnswerInv'
  BY <1>1 DEF AnswerInv, Agrees
<1>7. InboxInv'
  BY DEF InboxInv
<1> QED
  BY <1>3, <1>4, <1>5, <1>6, <1>7

(* An answer from an idempotency record names the request it is bound to.  *)
LEMMA ExistingStep ==
  ASSUME CreationInv, NEW c \in Calls, call[c].step # "idle",
         idem[call[c].key] # None, Existing(c, idem[call[c].key]),
         UNCHANGED <<now, requests, idem, inbox, used, known>>
  PROVE  CreationInv'
<1> DEFINE k == call[c].key
<1>1. k \in Keys /\ idem[k] \in KeyRecords
  BY DEF CreationInv, CallInv, ShapeInv
<1>2. call' = [call EXCEPT ![c] = NoCall]
  BY DEF Existing, Answer, Fail
<1>3. \/ answers' = answers
      \/ /\ idem[k].digest = call[c].content
         /\ answers' = answers \cup {[key |-> k, content |-> call[c].content, id |-> idem[k].id]}
  BY DEF Existing, Answer, Fail
<1>4. idem[k].id \in used /\ Agrees(idem[k].id, k, idem[k].digest)
  BY <1>1 DEF CreationInv, BindingInv
<1>5. known' \in SUBSET Ids
  BY DEF CreationInv, ShapeInv
<1>6. \/ answers' = answers
      \/ \E i \in used :
           /\ call[c].step # "idle" /\ Agrees(i, call[c].key, call[c].content)
           /\ answers' = answers \cup {[key |-> call[c].key, content |-> call[c].content, id |-> i]}
  BY <1>3, <1>4
<1> QED
  BY <1>2, <1>5, <1>6, CallMoves, IdleCall

(* The steps of a call before and after its transaction.                   *)
LEMMA CallStep ==
  ASSUME CreationInv, NEW c \in Calls,
         \/ \E key \in Keys, content \in Contents : createRequest(c, key, content)
         \/ Lookup(c) \/ ReadAgents(c) \/ Watch(c) \/ Retry(c)
         \/ \E heard \in BOOLEAN : Announce(c, heard)
         \/ Interrupted(c)
  PROVE  CreationInv'
<1> USE DEF keys
<1>0. call[c] \in CallStates /\ known \in SUBSET Ids /\ used \in SUBSET Ids
      /\ call \in [Calls -> CallStates]
  BY DEF CreationInv, ShapeInv
<1>1. ASSUME NEW key \in Keys, NEW content \in Contents, createRequest(c, key, content)
      PROVE  CreationInv'
  <2> DEFINE r == [NoCall EXCEPT !.step = "lookup", !.key = key, !.content = content]
  <2>1. r \in CallStates /\ r.step = "lookup" /\ r.key = key /\ r.content = content
    BY DEF NoCall, CallStates, Steps
  <2>2. call' = [call EXCEPT ![c] = r] /\ answers' = answers
    BY <1>1 DEF createRequest
  <2> HIDE DEF r
  <2> QED
    BY <1>0, <1>1, <2>1, <2>2, CallMoves DEF createRequest
<1>2. ASSUME NEW r \in CallStates, call' = [call EXCEPT ![c] = r], answers' = answers,
             UNCHANGED <<now, requests, idem, inbox, used, known>>,
             call[c].step # "idle", r.step \in {"agents", "watch", "exec"},
             r.key = call[c].key, r.content = call[c].content,
             r.step = "exec" => r.id \in Ids \ used /\ \A d \in Calls : r.id # call[d].id
      PROVE  CreationInv'
  <2>1. r.key \in Keys /\ r.content \in Contents
    BY <1>2 DEF CreationInv, CallInv
  <2> QED
    BY <1>0, <1>2, <2>1, CallMoves
<1>3. CASE Lookup(c)
  <2>1. call[c].step = "lookup"
    BY <1>3 DEF Lookup
  <2>2. CASE idem[call[c].key] # None
    BY <1>3, <2>1, <2>2, ExistingStep DEF Lookup
  <2>3. CASE idem[call[c].key] = None
    <3> DEFINE r == [call[c] EXCEPT !.step = "agents"]
    <3>1. r \in CallStates /\ r.step = "agents" /\ r.key = call[c].key /\ r.content = call[c].content
      BY <1>0 DEF CallStates, Steps
    <3>2. call' = [call EXCEPT ![c] = r] /\ answers' = answers
          /\ UNCHANGED <<now, requests, idem, inbox, used, known>>
      BY <1>0, <1>3, <2>3 DEF Lookup, Goto
    <3> HIDE DEF r
    <3> QED
      BY <1>2, <2>1, <3>1, <3>2
  <2> QED
    BY <2>2, <2>3
<1>4. ASSUME Fail(c), UNCHANGED <<now, requests, idem, inbox, used, known>>
      PROVE  CreationInv'
  BY <1>0, <1>4, CallMoves, IdleCall DEF Fail
<1>5. CASE ReadAgents(c)
  <2>1. CASE Fail(c)
    BY <1>4, <1>5, <2>1 DEF ReadAgents
  <2>2. CASE Goto(c, "watch") /\ UNCHANGED answers
    <3> DEFINE r == [call[c] EXCEPT !.step = "watch"]
    <3>1. r \in CallStates /\ r.step = "watch" /\ r.key = call[c].key /\ r.content = call[c].content
      BY <1>0 DEF CallStates, Steps
    <3>2. call' = [call EXCEPT ![c] = r] /\ answers' = answers /\ call[c].step = "agents"
          /\ UNCHANGED <<now, requests, idem, inbox, used, known>>
      BY <1>0, <1>5, <2>2 DEF ReadAgents, Goto
    <3> HIDE DEF r
    <3> QED
      BY <1>2, <3>1, <3>2
  <2> QED
    BY <1>5, <2>1, <2>2 DEF ReadAgents
<1>6. CASE Watch(c)
  <2>1. call[c].step = "watch"
    BY <1>6 DEF Watch
  <2>2. CASE idem[call[c].key] # None
    BY <1>6, <2>1, <2>2, ExistingStep DEF Watch
  <2>3. CASE idem[call[c].key] = None
    <3>1. PICK i \in Ids \ (used \cup {call[d].id : d \in Calls}) :
            /\ call' = [call EXCEPT ![c].step = "exec", ![c].id = i]
            /\ UNCHANGED answers
      BY <1>6, <2>3 DEF Watch
    <3> DEFINE r == [call[c] EXCEPT !.step = "exec", !.id = i]
    <3>2. r \in CallStates /\ r.step = "exec" /\ r.key = call[c].key /\ r.content = call[c].content
          /\ r.id = i
      BY <1>0 DEF CallStates, Steps
    <3>3. call' = [call EXCEPT ![c] = r]
          /\ UNCHANGED <<now, requests, idem, inbox, used, known>>
      BY <1>0, <1>6, <3>1 DEF Watch
    <3>4. r.id \in Ids \ used /\ \A d \in Calls : r.id # call[d].id
      BY <3>2
    <3> HIDE DEF r
    <3> QED
      BY <1>2, <2>1, <3>1, <3>2, <3>3, <3>4
  <2> QED
    BY <2>2, <2>3
<1>7. CASE Retry(c)
  <2> DEFINE r == [call[c] EXCEPT !.step = "watch", !.id = None]
  <2>1. r \in CallStates /\ r.step = "watch" /\ r.key = call[c].key /\ r.content = call[c].content
    BY <1>0 DEF CallStates, Steps
  <2>2. call' = [call EXCEPT ![c] = r] /\ answers' = answers /\ call[c].step = "exec"
        /\ UNCHANGED <<now, requests, idem, inbox, used, known>>
    BY <1>0, <1>7 DEF Retry
  <2> HIDE DEF r
  <2> QED
    BY <1>2, <2>1, <2>2
<1>8. ASSUME NEW heard \in BOOLEAN, Announce(c, heard)
      PROVE  CreationInv'
  <2>1. call[c].step = "announce" /\ call[c].id \in used
        /\ Agrees(call[c].id, call[c].key, call[c].content)
    BY <1>8 DEF Announce, CreationInv, CallInv, AnswerInv
  <2>2. known' \in SUBSET Ids
    BY <1>0, <1>8, <2>1 DEF Announce
  <2>3. \E i \in used :
           /\ call[c].step # "idle" /\ Agrees(i, call[c].key, call[c].content)
           /\ answers' = answers \cup {[key |-> call[c].key, content |-> call[c].content, id |-> i]}
    BY <1>8, <2>1 DEF Announce, Answer
  <2> QED
    BY <1>8, <2>2, <2>3, CallMoves, IdleCall DEF Announce, Answer
<1>9. CASE Interrupted(c)
  BY <1>4, <1>9 DEF Interrupted
<1> QED
  BY <1>1, <1>3, <1>5, <1>6, <1>7, <1>8, <1>9
-----------------------------------------------------------------------------
(* The transaction: the key was free, so no kept request is of it; the     *)
(* identity was unused, so nothing refers to it yet.                       *)
LEMMA ExecStep ==
  ASSUME CreationInv, NEW c \in Calls, Exec(c)
  PROVE  CreationInv'
<1> USE DEF CreationInv
<1> DEFINE i == call[c].id
           k == call[c].key
           new == [call[c] EXCEPT !.step = "announce"]
<1>1. /\ call[c] \in CallStates /\ call[c].step = "exec" /\ idem[k] = None
      /\ k \in Keys /\ call[c].content \in Contents /\ i \in Ids /\ i \notin used
  BY DEF ShapeInv, CallInv, Exec
<1>2. /\ now' = now /\ answers' = answers /\ known' = known
      /\ requests' = [requests EXCEPT ![i] = Stored(c)]
      /\ idem' = [idem EXCEPT ![k] =
                   [id |-> i, digest |-> call[c].content, ttl |-> now + Retention]]
      /\ inbox' = [ids |-> inbox.ids \cup {i}, ttl |-> now + Retention]
      /\ used' = used \cup {i}
      /\ call' = [call EXCEPT ![c] = new]
  BY DEF Exec, Bound, Goto, ShapeInv
<1>3. Stored(c) \in RequestRecords
  BY <1>1, RetentionOutlivesApproval DEF Stored, RequestRecords, Status, ShapeInv
<1>4. [id |-> i, digest |-> call[c].content, ttl |-> now + Retention] \in KeyRecords
  BY <1>1, RetentionOutlivesApproval DEF KeyRecords, ShapeInv
<1>5. /\ new \in CallStates /\ new.step = "announce" /\ new.id = i /\ new.key = k
      /\ new.content = call[c].content
  BY <1>1 DEF CallStates, Steps
<1> HIDE DEF new
<1>6. ShapeInv'
  BY <1>1, <1>2, <1>3, <1>4, <1>5, RetentionOutlivesApproval DEF ShapeInv
<1>7. CallInv'
  <2>1. \A d \in Calls : call'[d] = IF d = c THEN new ELSE call[d]
    BY <1>2 DEF ShapeInv
  <2>2. \A d \in Calls : d # c /\ call[d].step = "exec" => call[d].id # i
    BY <1>1 DEF CallInv
  <2>3. \A d \in Calls : call'[d].step # "idle" => call'[d].key \in Keys /\ call'[d].content \in Contents
    BY <1>1, <1>5, <2>1 DEF CallInv
  <2>4. \A d \in Calls : call'[d].step = "exec" => call'[d].id \in Ids \ used'
    BY <1>2, <1>5, <2>1, <2>2 DEF CallInv
  <2>5. \A d \in Calls : call'[d].step = "announce" => call'[d].id \in used'
    BY <1>2, <1>5, <2>1 DEF CallInv
  <2>6. \A d, e \in Calls :
          d # e /\ call'[d].step = "exec" /\ call'[e].step \in {"exec", "announce"} =>
            call'[d].id # call'[e].id
    BY <1>1, <1>5, <2>1, <2>2 DEF CallInv
  <2> QED
    BY <2>3, <2>4, <2>5, <2>6 DEF CallInv
<1>8. \A j \in Ids : requests'[j] = IF j = i THEN Stored(c) ELSE requests[j]
  BY <1>1, <1>2 DEF ShapeInv
<1>9. /\ Stored(c).key = k /\ Stored(c).content = call[c].content
      /\ Stored(c).ttl = now + Retention /\ Stored(c).expires = now + Lifetime
      /\ Stored(c) # None
  BY <1>3, AbsentIsNoRecord DEF Stored
<1>10. requests[i] = None
  BY <1>1 DEF BindingInv, Live
<1>11. \A j \in Ids : requests[j] # None => requests[j].key \in Keys /\ requests[j].key # k
  BY <1>1 DEF BindingInv, ShapeInv, RequestRecords
<1>12. BindingInv'
  <2>1. Live' \subseteq used'
    BY <1>2, <1>8 DEF BindingInv, Live
  <2>2. ASSUME NEW j \in Ids, requests'[j] # None
        PROVE  /\ idem'[requests'[j].key] # None
               /\ idem'[requests'[j].key].id = j
               /\ idem'[requests'[j].key].digest = requests'[j].content
               /\ idem'[requests'[j].key].ttl = requests'[j].ttl
    <3>1. CASE j = i
      BY <1>1, <1>2, <1>4, <1>8, <1>9, <3>1, AbsentIsNoRecord DEF ShapeInv
    <3>2. CASE j # i
      <4>1. requests'[j] = requests[j] /\ idem'[requests[j].key] = idem[requests[j].key]
        BY <1>2, <1>8, <1>11, <2>2, <3>2 DEF ShapeInv
      <4> QED
        BY <2>2, <4>1 DEF BindingInv
    <3> QED
      BY <3>1, <3>2
  <2>3. ASSUME NEW m \in Keys, idem'[m] # None
        PROVE  /\ idem'[m].id \in used'
               /\ requests'[idem'[m].id] # None =>
                    /\ requests'[idem'[m].id].key = m
                    /\ requests'[idem'[m].id].content = idem'[m].digest
    <3>1. CASE m = k
      BY <1>1, <1>2, <1>8, <1>9, <3>1 DEF ShapeInv
    <3>2. CASE m # k
      <4>1. idem'[m] = idem[m] /\ idem[m].id \in used /\ idem[m].id # i /\ idem[m].id \in Ids
        BY <1>1, <1>2, <2>3, <3>2 DEF ShapeInv, BindingInv
      <4> QED
        BY <1>2, <1>8, <2>3, <4>1 DEF BindingInv, Agrees
    <3> QED
      BY <3>1, <3>2
  <2> QED
    BY <2>1, <2>2, <2>3 DEF BindingInv, Agrees
<1>13. AnswerInv'
  <2>1. ASSUME NEW z \in answers'
        PROVE  /\ z.id \in used'
               /\ requests'[z.id] # None =>
                    requests'[z.id].key = z.key /\ requests'[z.id].content = z.content
    <3>1. z \in answers /\ z.id \in used /\ z.id # i /\ z.id \in Ids
      BY <1>1, <1>2 DEF AnswerInv, ShapeInv
    <3> QED
      BY <1>2, <1>8, <3>1 DEF AnswerInv, Agrees
  <2>2. ASSUME NEW d \in Calls, call'[d].step = "announce", requests'[call'[d].id] # None
        PROVE  /\ requests'[call'[d].id].key = call'[d].key
               /\ requests'[call'[d].id].content = call'[d].content
    <3>1. CASE d = c
      <4>1. call'[d] = new
        BY <1>2, <3>1 DEF ShapeInv
      <4> QED
        BY <1>1, <1>5, <1>8, <1>9, <4>1
    <3>2. CASE d # c
      <4>1. call'[d] = call[d]
        BY <1>2, <3>2 DEF ShapeInv
      <4>2. call[d].id \in used /\ call[d].id # i /\ call[d].id \in Ids
        BY <1>1, <2>2, <4>1 DEF CallInv, ShapeInv
      <4> QED
        BY <1>8, <2>2, <4>1, <4>2 DEF AnswerInv, Agrees
    <3> QED
      BY <3>1, <3>2
  <2> QED
    BY <2>1, <2>2 DEF AnswerInv, Agrees
<1>14. InboxInv'
  <2>1. ASSUME NEW j \in Ids, requests'[j] # None
        PROVE  /\ requests'[j].expires <= now' + Lifetime
               /\ (requests'[j].status = "awaiting" /\ now' < requests'[j].expires) =>
                    j \in inbox'.ids /\ requests'[j].expires < inbox'.ttl
    <3>1. requests'[j].expires <= now' + Lifetime
      BY <1>2, <1>8, <1>9, <2>1, RetentionOutlivesApproval DEF InboxInv, ShapeInv
    <3>2. requests'[j].expires \in Nat
      BY <1>3, <1>8, <2>1 DEF ShapeInv, RequestRecords
    <3>3. requests'[j].expires < inbox'.ttl
      BY <1>2, <3>1, <3>2, RetentionOutlivesApproval DEF ShapeInv
    <3>4. requests'[j].status = "awaiting" /\ now' < requests'[j].expires => j \in inbox'.ids
      BY <1>2, <1>8, <2>1 DEF InboxInv
    <3> QED
      BY <3>1, <3>3, <3>4
  <2> QED
    BY <2>1 DEF InboxInv
<1> QED
  BY <1>6, <1>7, <1>12, <1>13, <1>14

-----------------------------------------------------------------------------
(* A transition renews the request and its key together.                   *)
LEMMA TransitionStep ==
  ASSUME CreationInv, NEW i \in Ids, Transition(i)
  PROVE  CreationInv'
<1> USE DEF CreationInv
<1>1. requests[i] # None /\ requests[i] \in RequestRecords
  BY DEF Transition, Live, ShapeInv
<1> DEFINE k == requests[i].key
<1>2. k \in Keys /\ idem[k] # None /\ idem[k] \in KeyRecords /\ idem[k].id = i
      /\ idem[k].digest = requests[i].content
  BY <1>1 DEF RequestRecords, BindingInv, ShapeInv
<1>3. PICK s \in NextStatus(requests[i].status) :
        /\ requests' = [requests EXCEPT ![i].status = s, ![i].ttl = now + Retention]
        /\ idem' = IF idem[k] = None THEN idem ELSE [idem EXCEPT ![k].ttl = now + Retention]
        /\ inbox' = IF s = "done" THEN [inbox EXCEPT !.ids = @ \ {i}] ELSE inbox
  BY DEF Transition
<1>4. s \in {"accepted", "done"}
  BY DEF NextStatus
<1> DEFINE r == [requests[i] EXCEPT !.status = s, !.ttl = now + Retention]
           m == [idem[k] EXCEPT !.ttl = now + Retention]
<1>5. /\ r \in RequestRecords /\ r.key = k /\ r.content = requests[i].content
      /\ r.ttl = now + Retention /\ r.expires = requests[i].expires /\ r.status = s
  <2>1. now + Retention \in Nat /\ s \in Status
    BY <1>4, RetentionOutlivesApproval DEF ShapeInv, Status
  <2> QED
    BY <1>1, <2>1 DEF RequestRecords
<1>6. m \in KeyRecords /\ m.id = i /\ m.digest = requests[i].content /\ m.ttl = now + Retention
  BY <1>2, RetentionOutlivesApproval DEF KeyRecords, ShapeInv
<1>7. requests' = [requests EXCEPT ![i] = r] /\ idem' = [idem EXCEPT ![k] = m]
  BY <1>2, <1>3 DEF ShapeInv
<1> HIDE DEF r, m
<1>8. UNCHANGED <<now, call, answers, used, known>>
  BY DEF Transition
<1>9. r # None /\ m # None
  BY <1>5, <1>6, AbsentIsNoRecord
<1>10. \A j \in Ids : requests'[j] = IF j = i THEN r ELSE requests[j]
  BY <1>7 DEF ShapeInv
<1>11. \A h \in Keys : idem'[h] = IF h = k THEN m ELSE idem[h]
  BY <1>7 DEF ShapeInv
<1>12. \A j \in Ids : /\ requests'[j] # None <=> requests[j] # None
                      /\ requests'[j].key = requests[j].key
                      /\ requests'[j].content = requests[j].content
                      /\ requests'[j].expires = requests[j].expires
  BY <1>1, <1>5, <1>9, <1>10
<1>13. ShapeInv'
  <2>1. inbox' \in [ids : SUBSET Ids, ttl : Nat]
    BY <1>3 DEF ShapeInv
  <2> QED
    BY <1>5, <1>6, <1>7, <1>8, <2>1 DEF ShapeInv
<1>14. CallInv'
  BY <1>8 DEF CallInv
<1>15. \A j \in Ids : \A h, z : Agrees(j, h, z)' <=> Agrees(j, h, z)
  BY <1>12 DEF Agrees
<1>16. BindingInv'
  <2>1. Live' = Live
    BY <1>12 DEF Live
  <2>2. ASSUME NEW j \in Ids, requests'[j] # None
        PROVE  /\ idem'[requests'[j].key] # None
               /\ idem'[requests'[j].key].id = j
               /\ idem'[requests'[j].key].digest = requests'[j].content
               /\ idem'[requests'[j].key].ttl = requests'[j].ttl
    <3>1. CASE j = i
      BY <1>2, <1>5, <1>6, <1>9, <1>10, <1>11, <3>1
    <3>2. CASE j # i
      <4>1. requests'[j] = requests[j] /\ requests[j] # None /\ requests[j].key \in Keys
        BY <1>10, <2>2, <3>2 DEF ShapeInv, RequestRecords
      <4>2. requests[j].key # k
        BY <1>2, <3>2, <4>1 DEF BindingInv
      <4> QED
        BY <1>11, <4>1, <4>2 DEF BindingInv
    <3> QED
      BY <3>1, <3>2
  <2>3. ASSUME NEW h \in Keys, idem'[h] # None
        PROVE  idem'[h].id \in used' /\ Agrees(idem[h].id, h, idem[h].digest)
               /\ idem'[h].id = idem[h].id /\ idem'[h].digest = idem[h].digest
               /\ idem[h].id \in Ids
    BY <1>2, <1>6, <1>8, <1>11, <2>3 DEF BindingInv, ShapeInv, KeyRecords
  <2>4. ASSUME NEW h \in Keys, idem'[h] # None, requests'[idem'[h].id] # None
        PROVE  /\ requests'[idem'[h].id].key = h
               /\ requests'[idem'[h].id].content = idem'[h].digest
    BY <1>12, <2>3, <2>4 DEF Agrees
  <2> QED
    BY <1>8, <2>1, <2>2, <2>3, <2>4 DEF BindingInv, Agrees
<1>17. AnswerInv'
  <2>1. \A z \in answers : z.id \in Ids
    BY DEF AnswerInv, ShapeInv
  <2>2. \A c \in Calls : call[c].step = "announce" => call[c].id \in Ids
    BY DEF CallInv, ShapeInv
  <2> QED
    BY <1>8, <1>12, <2>1, <2>2 DEF AnswerInv, Agrees
<1>18. InboxInv'
  <2>1. inbox'.ttl = inbox.ttl /\ inbox.ids \ {i} \subseteq inbox'.ids
    BY <1>3 DEF ShapeInv
  <2>2. ASSUME NEW j \in Ids, requests'[j] # None
        PROVE  /\ requests'[j].expires <= now' + Lifetime
               /\ (requests'[j].status = "awaiting" /\ now' < requests'[j].expires) =>
                    j \in inbox'.ids /\ requests'[j].expires < inbox'.ttl
    <3>1. requests'[j].expires <= now' + Lifetime
      BY <1>8, <1>12, <2>2 DEF InboxInv
    <3>2. CASE j = i
      BY <1>4, <1>5, <1>10, <3>1, <3>2
    <3>3. CASE j # i
      BY <1>8, <1>10, <2>1, <2>2, <3>1, <3>3 DEF InboxInv
    <3> QED
      BY <3>2, <3>3
  <2> QED
    BY <2>2 DEF InboxInv
<1> QED
  BY <1>13, <1>14, <1>16, <1>17, <1>18

-----------------------------------------------------------------------------
(* Request and key reach their TTL at the same tick; the inbox does not    *)
(* reach its own before the deadlines it lists.                            *)
LEMMA TickStep ==
  ASSUME CreationInv, Tick
  PROVE  CreationInv'
<1> USE DEF CreationInv
<1>1. now' = now + 1 /\ now \in Nat /\ UNCHANGED <<call, answers, used, known>>
  BY DEF Tick, ShapeInv
<1>2. \A i \in Ids : requests'[i] = IF requests[i] # None /\ requests[i].ttl > now + 1
                                     THEN requests[i] ELSE None
  BY DEF Tick, Live
<1>3. \A k \in Keys : idem'[k] = IF idem[k] # None /\ idem[k].ttl > now + 1
                                  THEN idem[k] ELSE None
  BY DEF Tick
<1>4. inbox' = IF inbox.ttl > now + 1 THEN inbox ELSE [ids |-> {}, ttl |-> 0]
  BY DEF Tick
<1>5. ShapeInv'
  <2>1. requests' \in [Ids -> RequestRecords \cup {None}]
    BY <1>2 DEF Tick, ShapeInv
  <2>2. idem' \in [Keys -> KeyRecords \cup {None}]
    BY <1>3 DEF Tick, ShapeInv
  <2> QED
    BY <1>1, <1>4, <2>1, <2>2 DEF ShapeInv
<1>6. CallInv'
  BY <1>1 DEF CallInv
<1>7. \A i \in Ids : requests'[i] # None => requests'[i] = requests[i]
  BY <1>2
<1>8. BindingInv'
  <2>1. Live' \subseteq Live
    BY <1>2 DEF Live
  <2>2. ASSUME NEW i \in Ids, requests'[i] # None
        PROVE  /\ idem'[requests'[i].key] # None
               /\ idem'[requests'[i].key].id = i
               /\ idem'[requests'[i].key].digest = requests'[i].content
               /\ idem'[requests'[i].key].ttl = requests'[i].ttl
    <3>1. requests'[i] = requests[i] /\ requests[i] # None /\ requests[i].ttl > now + 1
      BY <1>2, <2>2
    <3>2. requests[i].key \in Keys
      BY <3>1 DEF ShapeInv, RequestRecords
    <3> QED
      BY <1>3, <3>1, <3>2 DEF BindingInv
  <2>3. \A k \in Keys : idem'[k] # None => idem'[k] = idem[k] /\ idem[k] # None /\ idem[k].id \in Ids
    BY <1>3 DEF ShapeInv, KeyRecords
  <2> QED
    BY <1>1, <1>7, <2>1, <2>2, <2>3 DEF BindingInv, Agrees
<1>9. AnswerInv'
  <2>1. \A z \in answers : z.id \in Ids
    BY DEF AnswerInv, ShapeInv
  <2>2. \A c \in Calls : call[c].step = "announce" => call[c].id \in Ids
    BY DEF CallInv, ShapeInv
  <2> QED
    BY <1>1, <1>7, <2>1, <2>2 DEF AnswerInv, Agrees
<1>10. InboxInv'
  <2>1. ASSUME NEW i \in Ids, requests'[i] # None
        PROVE  /\ requests'[i].expires <= now' + Lifetime
               /\ (requests'[i].status = "awaiting" /\ now' < requests'[i].expires) =>
                    i \in inbox'.ids /\ requests'[i].expires < inbox'.ttl
    <3>1. requests'[i] = requests[i] /\ requests[i] # None /\ requests[i].expires \in Nat
      BY <1>7, <2>1 DEF ShapeInv, RequestRecords
    <3>2. inbox.ttl \in Nat
      BY DEF ShapeInv
    <3> QED
      BY <1>1, <1>4, <3>1, <3>2, RetentionOutlivesApproval DEF InboxInv
  <2> QED
    BY <2>1 DEF InboxInv
<1> QED
  BY <1>5, <1>6, <1>8, <1>9, <1>10

LEMMA CreationStep ==
  ASSUME CreationInv, [Next]_vars
  PROVE  CreationInv'
<1> USE DEF CreationInv
<1>1. ASSUME NEW c \in Calls, Step(c) \/ Interrupted(c)
             \/ \E key \in Keys, content \in Contents : createRequest(c, key, content)
      PROVE  CreationInv'
  BY <1>1, CallStep, ExecStep DEF Step
<1>2. CASE Reconcile
  <2>1. known' \in SUBSET Ids
    BY <1>2 DEF Reconcile, Pending, ShapeInv, Live
  <2>2. UNCHANGED <<now, requests, idem, inbox, call, answers, used>>
    BY <1>2 DEF Reconcile, keys
  <2>3. ShapeInv'
    BY <2>1, <2>2 DEF ShapeInv
  <2>4. CallInv' /\ BindingInv' /\ AnswerInv' /\ InboxInv'
    BY <2>2 DEF CallInv, BindingInv, AnswerInv, InboxInv, Live, Agrees
  <2> QED
    BY <2>3, <2>4
<1>3. CASE UNCHANGED vars
  BY <1>3 DEF vars, ShapeInv, CallInv, BindingInv, AnswerInv, InboxInv, Live, Agrees
<1> QED
  BY <1>1, <1>2, <1>3, TransitionStep, TickStep DEF Next

(* What the invariant says of creation.                                    *)
LEMMA CreationFollows == CreationInv => CreationSound
<1> SUFFICES ASSUME CreationInv PROVE CreationSound
  OBVIOUS
<1> USE DEF CreationInv
<1>1. TypeOK
  BY DEF TypeOK, ShapeInv, Live, RequestRecords, KeyRecords, CallStates, Steps
<1>2. KeyOutlivesRequest
  BY DEF KeyOutlivesRequest, BindingInv, Live
<1>3. RetriesAgree
  <2> SUFFICES ASSUME NEW z \in answers, NEW y \in answers, z.key = y.key,
                      z.id \in Live, y.id \in Live
               PROVE  z = y
    BY DEF RetriesAgree
  <2>1. /\ requests[z.id].key = z.key /\ requests[z.id].content = z.content
        /\ requests[y.id].key = y.key /\ requests[y.id].content = y.content
    BY DEF AnswerInv, Agrees, Live
  <2>2. z.id = y.id
    BY <2>1 DEF BindingInv, Live
  <2>3. z \in Answers /\ y \in Answers
    BY DEF ShapeInv
  <2> QED
    BY <2>1, <2>2, <2>3 DEF Answers
<1>4. AwaitingIsListed
  BY DEF AwaitingIsListed, InboxInv, Live
<1> QED
  BY <1>1, <1>2, <1>3, <1>4 DEF CreationSound

(***************************************************************************)
(* CreateRequest of collaboration/store.go, for any number of concurrent   *)
(* and interrupted retries and through the expiry of every key: while a    *)
(* request is kept its idempotency key is bound to it and to its content,  *)
(* every accepted retry names that one request, and a request that can     *)
(* still be decided is in its target's inbox.                              *)
(***************************************************************************)
THEOREM CreationIsSound == Spec => []CreationSound
<1>1. Init => CreationInv
  BY CreationInit
<1>2. CreationInv /\ [Next]_vars => CreationInv'
  BY CreationStep
<1>3. CreationInv => CreationSound
  BY CreationFollows
<1> QED
  BY <1>1, <1>2, <1>3, PTL DEF Spec

-----------------------------------------------------------------------------
(***************************************************************************)
(* Presence, for any set of agents and any number of listings in flight.   *)
(* The invariant records what a call has read: a heartbeat about to commit *)
(* watched a tombstone set without its agent, a listing past its second    *)
(* read knows every agent that was revoked when it began.                  *)
(***************************************************************************)

Beats == [step : {"idle", "watch", "exec"}, watched : SUBSET Agents]
Listings == [step : {"idle", "revoked", "each", "repair", "drop", "del", "answered"},
          ids : SUBSET Agents, revoked : SUBSET Agents, at : SUBSET Agents,
          result : SUBSET Agents]

(* The shape, and the credential and the tombstone change together.        *)
DirectoryShape ==
  /\ cards \subseteq Agents /\ agents \subseteq Agents /\ admitted \subseteq Agents
  /\ revoked = Agents \ admitted /\ evicted \subseteq revoked
  /\ beat \in [Agents -> Beats] /\ list \in [Listers -> Listings]
  /\ seen \in [Listers -> SUBSET Agents]

(* A heartbeat commits only over a tombstone set that spared its agent.    *)
BeatInv == \A a \in Agents : beat[a].step = "exec" => a \notin beat[a].watched

(* Tombstones are never removed, and a listing reads them second.          *)
ListInv ==
  \A l \in Listers :
    /\ seen[l] \subseteq revoked
    /\ list[l].step \notin {"idle", "revoked"} => seen[l] \subseteq list[l].revoked
    /\ list[l].result \cap list[l].revoked = {}
    /\ list[l].step \in {"idle", "revoked"} => list[l].result = {}

PresenceInv == DirectoryShape /\ BeatInv /\ Agency!EvictedStaysOut /\ ListInv

-----------------------------------------------------------------------------
LEMMA PresenceInit == Agency!Init => PresenceInv
BY DEF Agency!Init, PresenceInv, DirectoryShape, BeatInv, Agency!EvictedStaysOut, ListInv,
       Beats, Listings,
       Agency!NoBeat, Agency!NoList

(* The heartbeat of an agent.                                              *)
LEMMA HeartbeatStep ==
  ASSUME PresenceInv, NEW a \in Agents, Agency!Heartbeat(a)
  PROVE  PresenceInv'
<1> USE DEF PresenceInv, Beats, Agency!NoBeat, Agency!keys
<1>1. CASE Agency!HeartbeatArrives(a)
  <2>1. DirectoryShape'
    BY <1>1 DEF Agency!HeartbeatArrives, DirectoryShape
  <2>2. BeatInv' /\ Agency!EvictedStaysOut' /\ ListInv'
    BY <1>1 DEF Agency!HeartbeatArrives, DirectoryShape, BeatInv, Agency!EvictedStaysOut,
                ListInv
  <2> QED
    BY <2>1, <2>2
<1>2. CASE Agency!HeartbeatWatch(a)
  <2>1. DirectoryShape'
    BY <1>2 DEF Agency!HeartbeatWatch, DirectoryShape
  <2>2. BeatInv'
    BY <1>2 DEF Agency!HeartbeatWatch, DirectoryShape, BeatInv
  <2>3. Agency!EvictedStaysOut' /\ ListInv'
    BY <1>2 DEF Agency!HeartbeatWatch, Agency!EvictedStaysOut, ListInv
  <2> QED
    BY <2>1, <2>2, <2>3
<1>3. CASE Agency!HeartbeatExec(a)
  <2>1. DirectoryShape'
    BY <1>3 DEF Agency!HeartbeatExec, DirectoryShape
  <2>2. BeatInv' /\ ListInv'
    BY <1>3 DEF Agency!HeartbeatExec, DirectoryShape, BeatInv, ListInv
  <2>3. a \notin evicted
    BY <1>3 DEF Agency!HeartbeatExec, DirectoryShape, BeatInv
  <2>4. Agency!EvictedStaysOut'
    BY <1>3, <2>3 DEF Agency!HeartbeatExec, Agency!EvictedStaysOut
  <2> QED
    BY <2>1, <2>2, <2>4
<1>4. CASE Agency!HeartbeatRetry(a)
  <2>1. DirectoryShape'
    BY <1>4 DEF Agency!HeartbeatRetry, DirectoryShape
  <2>2. BeatInv'
    BY <1>4 DEF Agency!HeartbeatRetry, DirectoryShape, BeatInv
  <2>3. Agency!EvictedStaysOut' /\ ListInv'
    BY <1>4 DEF Agency!HeartbeatRetry, Agency!EvictedStaysOut, ListInv
  <2> QED
    BY <2>1, <2>2, <2>3
<1> QED
  BY <1>1, <1>2, <1>3, <1>4 DEF Agency!Heartbeat

(* Expiry, revocation and eviction.                                        *)
LEMMA DirectoryStep ==
  ASSUME PresenceInv, NEW a \in Agents,
         Agency!CardExpires(a) \/ Agency!RevokeAgent(a) \/ Agency!evictPresence(a)
  PROVE  PresenceInv'
<1> USE DEF PresenceInv
<1>1. DirectoryShape'
  BY DEF Agency!CardExpires, Agency!RevokeAgent, Agency!evictPresence, DirectoryShape
<1>2. BeatInv'
  BY DEF Agency!CardExpires, Agency!RevokeAgent, Agency!evictPresence, BeatInv
<1>3. Agency!EvictedStaysOut'
  BY DEF Agency!CardExpires, Agency!RevokeAgent, Agency!evictPresence,
         Agency!EvictedStaysOut
<1>4. ListInv'
  BY DEF Agency!CardExpires, Agency!RevokeAgent, Agency!evictPresence, ListInv
<1> QED
  BY <1>1, <1>2, <1>3, <1>4

(* A listing only removes from the directory, and lists what it read to be *)
(* neither revoked nor without a card.                                     *)
LEMMA ListingStep ==
  ASSUME PresenceInv, NEW l \in Listers, Agency!ListAgents(l)
  PROVE  PresenceInv'
<1> USE DEF PresenceInv, Agency!keys
<1>1. UNCHANGED <<revoked, admitted, evicted, beat>> /\ cards' \subseteq cards /\ agents' \subseteq agents
  BY DEF Agency!ListAgents, Agency!ListMembers, Agency!ListRevoked, Agency!ListRepair,
         Agency!ListDropMember,
         Agency!ListDropCard, Agency!ListAnswer, Agency!ListReturn, Agency!ListEach
<1>2. BeatInv' /\ Agency!EvictedStaysOut'
  BY <1>1 DEF BeatInv, Agency!EvictedStaysOut
<1>3. DirectoryShape' /\ ListInv'
  <2>0. list[l] \in Listings /\ seen[l] \subseteq Agents /\ revoked \subseteq Agents
    BY DEF DirectoryShape
  <2>1. CASE Agency!ListMembers(l)
    BY <1>1, <2>1 DEF Agency!ListMembers, DirectoryShape, ListInv, Listings, Agency!NoList
  <2>2. CASE Agency!ListRevoked(l)
    <3> DEFINE r == [list[l] EXCEPT !.step = "each", !.revoked = revoked]
    <3>1. list' = [list EXCEPT ![l] = r] /\ seen' = seen /\ list[l].step = "revoked"
      BY <2>2 DEF Agency!ListRevoked, DirectoryShape
    <3>2. r \in Listings /\ r.step = "each" /\ r.revoked = revoked /\ r.result = list[l].result
      BY <2>0 DEF Listings
    <3> HIDE DEF r
    <3>3. ASSUME NEW m \in Listers
          PROVE  list'[m] = IF m = l THEN r ELSE list[m]
      BY <3>1 DEF DirectoryShape
    <3>4. DirectoryShape'
      BY <1>1, <3>1, <3>2 DEF DirectoryShape
    <3>5. ListInv'
      BY <1>1, <3>1, <3>2, <3>3 DEF ListInv
    <3> QED
      BY <3>4, <3>5
  <2>3. CASE Agency!ListReturn(l)
    BY <1>1, <2>3 DEF Agency!ListReturn, DirectoryShape, ListInv, Listings, Agency!NoList
  <2>4. ASSUME NEW r \in Listings, list' = [list EXCEPT ![l] = r], seen' = seen,
               list[l].step \notin {"idle", "revoked"},
               r.step \notin {"idle", "revoked"},
               r.revoked = list[l].revoked, r.result \cap r.revoked = {}
        PROVE  DirectoryShape' /\ ListInv'
    <3>1. DirectoryShape'
      BY <1>1, <2>4 DEF DirectoryShape
    <3>2. ASSUME NEW m \in Listers
          PROVE  list'[m] = IF m = l THEN r ELSE list[m]
      BY <2>4 DEF DirectoryShape
    <3>3. ListInv'
      BY <1>1, <2>4, <3>2 DEF ListInv
    <3> QED
      BY <3>1, <3>3
  <2>5. CASE Agency!ListRepair(l) \/ Agency!ListDropCard(l)
    <3> DEFINE r == [list[l] EXCEPT !.step = "each", !.at = {}]
    <3>1. list' = [list EXCEPT ![l] = r] /\ seen' = seen
      BY <2>5 DEF Agency!ListRepair, Agency!ListDropCard, DirectoryShape
    <3>2. list[l].step \notin {"idle", "revoked"}
      BY <2>5 DEF Agency!ListRepair, Agency!ListDropCard
    <3>3. r \in Listings /\ r.step = "each" /\ r.revoked = list[l].revoked /\ r.result = list[l].result
      BY <2>0 DEF Listings
    <3> QED
      BY <2>4, <3>1, <3>2, <3>3 DEF ListInv
  <2>6. CASE Agency!ListDropMember(l)
    <3> DEFINE r == [list[l] EXCEPT !.step = "del"]
    <3>1. list' = [list EXCEPT ![l] = r] /\ seen' = seen
      BY <2>6 DEF Agency!ListDropMember, DirectoryShape
    <3>2. list[l].step = "drop"
      BY <2>6 DEF Agency!ListDropMember
    <3>3. r \in Listings /\ r.step = "del" /\ r.revoked = list[l].revoked /\ r.result = list[l].result
      BY <2>0 DEF Listings
    <3> QED
      BY <2>4, <3>1, <3>2, <3>3 DEF ListInv
  <2>7. CASE Agency!ListAnswer(l)
    <3> DEFINE r == [list[l] EXCEPT !.step = "answered"]
    <3>1. list' = [list EXCEPT ![l] = r] /\ seen' = seen
      BY <2>7 DEF Agency!ListAnswer, DirectoryShape
    <3>2. list[l].step = "each"
      BY <2>7 DEF Agency!ListAnswer
    <3>3. r \in Listings /\ r.step = "answered" /\ r.revoked = list[l].revoked /\ r.result = list[l].result
      BY <2>0 DEF Listings
    <3> QED
      BY <2>4, <3>1, <3>2, <3>3 DEF ListInv
  <2>8. ASSUME NEW a \in Agents, Agency!ListEach(l, a)
        PROVE  DirectoryShape' /\ ListInv'
    <3> DEFINE step == IF a \in list[l].revoked THEN "drop"
                       ELSE IF a \notin cards THEN "repair" ELSE "each"
               at == IF a \in list[l].revoked \/ a \notin cards THEN {a} ELSE {}
               result == IF a \in cards \ list[l].revoked
                           THEN list[l].result \cup {a} ELSE list[l].result
               r == [list[l] EXCEPT !.ids = @ \ {a}, !.step = step, !.at = at,
                                    !.result = result]
    <3>1. list' = [list EXCEPT ![l] = r] /\ seen' = seen /\ list[l].step = "each"
      BY <2>8 DEF Agency!ListEach, DirectoryShape
    <3>2. step \in {"drop", "repair", "each"} /\ at \subseteq Agents /\ result \subseteq Agents
      BY <2>0 DEF Listings
    <3>3. result \cap list[l].revoked = {}
      BY DEF ListInv
    <3> HIDE DEF step, at, result
    <3>4. /\ r \in Listings /\ r.step = step /\ r.revoked = list[l].revoked
          /\ r.result = result
      BY <2>0, <3>2 DEF Listings
    <3> HIDE DEF r
    <3> QED
      BY <2>4, <3>1, <3>2, <3>3, <3>4
  <2> QED
    BY <2>1, <2>2, <2>3, <2>5, <2>6, <2>7, <2>8 DEF Agency!ListAgents
<1> QED
  BY <1>2, <1>3

LEMMA PresenceStep ==
  ASSUME PresenceInv, [Agency!Next]_(Agency!vars)
  PROVE  PresenceInv'
<1>1. CASE UNCHANGED Agency!vars
  BY <1>1 DEF Agency!vars, PresenceInv, DirectoryShape, BeatInv, Agency!EvictedStaysOut,
              ListInv
<1> QED
  BY <1>1, HeartbeatStep, DirectoryStep, ListingStep DEF Agency!Next

(***************************************************************************)
(* The directory of collaboration/store.go, for any agents and any number  *)
(* of concurrent heartbeats, listings and evictions: a heartbeat that      *)
(* overlaps its agent's revocation cannot bring back a card or a member of *)
(* the set once evictPresence has committed, and a listing that began      *)
(* after a revocation does not name the agent.                             *)
(***************************************************************************)
THEOREM DirectoryIsSound == Agency!Spec => []DirectorySound
<1>1. Agency!Init => PresenceInv
  BY PresenceInit
<1>2. PresenceInv /\ [Agency!Next]_(Agency!vars) => PresenceInv'
  BY PresenceStep
<1>3. PresenceInv => DirectorySound
  BY DEF PresenceInv, DirectoryShape, ListInv, DirectorySound, Agency!DirectorySound, Agency!TypeOK,
         Agency!RevokedIsNotListed,
         Beats, Listings
<1> QED
  BY <1>1, <1>2, <1>3, PTL DEF Agency!Spec

-----------------------------------------------------------------------------
(***************************************************************************)
(* Controller, for any number of executions, conversations, lock objects   *)
(* and slots.  The inductive invariant says what a reference count is      *)
(* worth: it is the number of executions that point to the lock, and as    *)
(* long as one does the lock is the one its conversation maps to.          *)
(***************************************************************************)

Pointing(l) == {e \in Executions : lock[e] = l}
Slotted     == {e \in Executions : pc[e] \in {"run", "leave"}}

(* The shape of the per-execution state and of the stored values.          *)
ControllerShape ==
  /\ pc \in [Executions -> Control!Holding \cup {"idle", "wait", "unref"}]
  /\ conv \in [Executions -> Conversations \cup {None}]
  /\ lock \in [Executions -> Locks \cup {None}]
  /\ locks \in [Conversations -> Locks \cup {None}]
  /\ refs \in [Locks -> Nat] /\ gate \in [Locks -> BOOLEAN]
  /\ stored \in [Executions -> 0..MaxSession]
  /\ sessions \in [Conversations -> 0..MaxSession]
  /\ disk \in [Conversations -> 0..MaxSession]
  /\ sessionsUsed \in 0..MaxSession

(* A caller inside Execute points to the lock its conversation maps to.    *)
PointerInv ==
  /\ \A e \in Executions : pc[e] = "idle" => lock[e] = None
  /\ \A e \in Executions : pc[e] # "idle" =>
       /\ conv[e] \in Conversations /\ lock[e] \in Locks
       /\ locks[conv[e]] = lock[e]
  /\ \A c, d \in Conversations : locks[c] # None /\ locks[c] = locks[d] => c = d
  /\ \A c \in Conversations :
       locks[c] # None => \E e \in Executions : lock[e] = locks[c]

(* conversationLock.refs counts the executions that point to the lock.     *)
CountInv == \A l \in Locks : refs[l] = Cardinality(Pointing(l))

(* One execution is past the gate of a lock, and the gate is closed.       *)
GateInv ==
  /\ \A e \in Executions : pc[e] \in Control!Holding => ~gate[lock[e]]
  /\ \A a, b \in Executions :
       pc[a] \in Control!Holding /\ pc[b] \in Control!Holding /\ lock[a] = lock[b] => a = b

(* Controller.sem holds a token for every execution that took a slot.      *)
SlotInv == sem = Cardinality(Slotted) /\ sem <= MaxConcurrent

(* What a run resumes is what memory holds until the run returns.          *)
SessionInv ==
  /\ last = sessions
  /\ \A e \in Executions : pc[e] = "run" => stored[e] = sessions[conv[e]]

ControllerInv == ControllerShape /\ PointerInv /\ CountInv /\ GateInv /\ SlotInv /\ SessionInv
-----------------------------------------------------------------------------
(* The instance's operators on finite sets are those of FiniteSets.        *)
LEMMA SameFiniteSets ==
  \A S : /\ Control!IsFiniteSet(S) <=> IsFiniteSet(S)
         /\ Control!Cardinality(S) = Cardinality(S)
<1>1. \A S : Control!IsFiniteSet(S) <=> IsFiniteSet(S)
  BY DEF Control!IsFiniteSet, IsFiniteSet
<1>2. \A S : Control!Cardinality(S) = Cardinality(S)
  BY DEF Control!Cardinality, Cardinality
<1> QED
  BY <1>1, <1>2

(* Adding or removing one execution changes the size of a set by one.      *)
LEMMA SubsetOfExecutions ==
  ASSUME Control!ControllerConstants, NEW S \in SUBSET Executions
  PROVE  /\ IsFiniteSet(S) /\ Cardinality(S) \in Nat
         /\ Cardinality(S) <= Cardinality(Executions)
BY SameFiniteSets, FS_Subset, FS_CardinalityType DEF Control!ControllerConstants

LEMMA OneMore ==
  ASSUME Control!ControllerConstants, NEW S \in SUBSET Executions,
         NEW T, NEW e \in Executions, e \notin S, T = S \cup {e}
  PROVE  Cardinality(T) = Cardinality(S) + 1
BY FS_AddElement, SubsetOfExecutions

LEMMA OneLess ==
  ASSUME Control!ControllerConstants, NEW S \in SUBSET Executions,
         NEW T, NEW e \in S, T = S \ {e}
  PROVE  Cardinality(T) = Cardinality(S) - 1
BY FS_RemoveElement, SubsetOfExecutions

(* A lock counted once has one pointer; an execution's own is counted.     *)
LEMMA Counted ==
  ASSUME Control!ControllerConstants, CountInv, NEW e \in Executions, lock[e] \in Locks
  PROVE  /\ refs[lock[e]] # 0
         /\ refs[lock[e]] = 1 => \A f \in Executions : lock[f] = lock[e] => f = e
         /\ refs[lock[e]] # 1 => \E f \in Executions : lock[f] = lock[e] /\ f # e
<1> DEFINE P == Pointing(lock[e])
<1>1. P \in SUBSET Executions /\ e \in P
  BY DEF Pointing
<1>2. IsFiniteSet(P) /\ Cardinality(P) \in Nat
  BY <1>1, SubsetOfExecutions
<1>3. refs[lock[e]] = Cardinality(P)
  BY DEF CountInv
<1>4. refs[lock[e]] # 0
  BY <1>1, <1>2, <1>3, FS_EmptySet
<1>5. Cardinality(P) = 1 <=> \E z : P = {z}
  BY <1>2, FS_Singleton
<1>6. ASSUME refs[lock[e]] = 1, NEW f \in Executions, lock[f] = lock[e]
      PROVE  f = e
  <2>1. f \in P
    BY <1>6 DEF Pointing
  <2> QED
    BY <1>1, <1>3, <1>5, <1>6, <2>1
<1>7. ASSUME refs[lock[e]] # 1
      PROVE  \E f \in Executions : lock[f] = lock[e] /\ f # e
  <2>1. P # {e}
    BY <1>3, <1>5, <1>7
  <2>2. PICK f \in P : f # e
    BY <1>1, <2>1
  <2> QED
    BY <2>2 DEF Pointing
<1> QED
  BY <1>4, <1>6, <1>7

-----------------------------------------------------------------------------
(* Every step keeps the shapes: a runtime returns no session beyond the    *)
(* ones it was allowed to open.                                            *)
LEMMA ShapeStep ==
  ASSUME Control!ControllerConstants, ControllerShape, PointerInv, CountInv,
         [Control!Next]_(Control!vars)
  PROVE  ControllerShape'
<1> USE DEF Control!ControllerConstants, ControllerShape, Control!Goto, Control!lockVars,
            Control!fileVars, Control!Holding
<1>1. ASSUME NEW e \in Executions, NEW c \in Conversations, Control!LockConversation(e, c)
      PROVE  ControllerShape'
  BY <1>1 DEF Control!LockConversation, Control!Unreferenced
<1>2. ASSUME NEW e \in Executions, Control!CancelContext(e)
      PROVE  ControllerShape'
  BY <1>2 DEF Control!CancelContext
<1>3. ASSUME NEW e \in Executions,
             Control!WaitCancelled(e) \/ Control!CheckContext(e) \/ Control!SlotCancelled(e) \/ Control!RunFails(e)
      PROVE  ControllerShape'
  BY <1>3 DEF Control!WaitCancelled, Control!CheckContext, Control!SlotCancelled,
              Control!RunFails
<1>4. ASSUME NEW e \in Executions, Control!TakeGate(e) \/ Control!OpenGate(e)
      PROVE  ControllerShape'
  BY <1>4 DEF Control!TakeGate, Control!OpenGate
<1>5. ASSUME NEW e \in Executions, Control!TakeSlot(e)
      PROVE  ControllerShape'
  BY <1>5 DEF Control!TakeSlot, PointerInv
<1>6. ASSUME NEW e \in Executions, Control!ReleaseSlot(e)
      PROVE  ControllerShape'
  BY <1>6 DEF Control!ReleaseSlot
<1>7. ASSUME NEW e \in Executions, NEW session \in Control!Returned(e),
             NEW written \in BOOLEAN, NEW reported \in BOOLEAN,
             Control!RunReturns(e, session, written, reported)
      PROVE  ControllerShape'
  <2>1. session \in 0..MaxSession
    BY DEF Control!Returned
  <2>2. sessions' \in [Conversations -> 0..MaxSession]
    BY <1>7, <2>1 DEF Control!RunReturns, Control!Save
  <2>3. disk' \in [Conversations -> 0..MaxSession]
    BY <1>7, <2>2 DEF Control!RunReturns, Control!Save
  <2>4. sessionsUsed' \in 0..MaxSession
    BY <1>7, <2>1 DEF Control!RunReturns
  <2>5. pc' \in [Executions -> Control!Holding \cup {"idle", "wait", "unref"}]
    BY <1>7 DEF Control!RunReturns
  <2> QED
    BY <1>7, <2>2, <2>3, <2>4, <2>5 DEF Control!RunReturns
<1>8. ASSUME NEW e \in Executions, Control!releaseConversationRef(e)
      PROVE  ControllerShape'
  <2>1. lock[e] \in Locks
    BY <1>8 DEF Control!releaseConversationRef, PointerInv
  <2>2. refs[lock[e]] - 1 \in Nat
    BY <2>1, Counted
  <2> QED
    BY <1>8, <2>1, <2>2 DEF Control!releaseConversationRef
<1>9. CASE Control!Restart
  BY <1>9 DEF Control!Restart
<1>10. CASE UNCHANGED Control!vars
  BY <1>10 DEF Control!vars
<1> QED
  BY <1>1, <1>2, <1>3, <1>4, <1>5, <1>6, <1>7, <1>8, <1>9, <1>10 DEF Control!Next,
         Control!Step

-----------------------------------------------------------------------------
(* The heap gives out a lock object only when nothing points to it, and    *)
(* the map forgets a lock only when its last pointer goes.                 *)
LEMMA PointerStep ==
  ASSUME Control!ControllerConstants, ControllerShape, PointerInv, CountInv,
         [Control!Next]_(Control!vars)
  PROVE  PointerInv'
<1> USE DEF Control!ControllerConstants, ControllerShape, Control!Goto, Control!lockVars,
            Control!fileVars
<1>1. ASSUME NEW e \in Executions, NEW c \in Conversations, Control!LockConversation(e, c)
      PROVE  PointerInv'
  <2>1. PICK l \in IF locks[c] # None THEN {locks[c]} ELSE Control!Unreferenced :
               locks' = [locks EXCEPT ![c] = l] /\ lock' = [lock EXCEPT ![e] = l]
    BY <1>1 DEF Control!LockConversation
  <2>2. l \in Locks /\ pc[e] = "idle"
        /\ pc' = [pc EXCEPT ![e] = "wait"] /\ conv' = [conv EXCEPT ![e] = c]
    BY <1>1, <2>1 DEF Control!LockConversation, Control!Unreferenced
  <2>3. lock[e] = None
    BY <2>2 DEF PointerInv
  <2>4. CASE locks[c] # None
    <3>1. locks' = locks /\ l = locks[c]
      BY <2>1, <2>4
    <3> QED
      BY <2>1, <2>2, <2>3, <2>4, <3>1 DEF PointerInv
  <2>5. CASE locks[c] = None
    <3>1. /\ \A f \in Executions : lock[f] # l
          /\ \A d \in Conversations : locks[d] # l
      BY <2>1, <2>5 DEF Control!Unreferenced
    <3>2. \A f \in Executions : pc[f] # "idle" => conv[f] # c
      BY <2>5 DEF PointerInv
    <3>3. \A f \in Executions : pc'[f] = "idle" => lock'[f] = None
      BY <2>1, <2>2 DEF PointerInv
    <3>4. \A f \in Executions : pc'[f] # "idle" =>
            /\ conv'[f] \in Conversations /\ lock'[f] \in Locks
            /\ locks'[conv'[f]] = lock'[f]
      BY <2>1, <2>2, <3>2 DEF PointerInv
    <3>5. \A b, d \in Conversations : locks'[b] # None /\ locks'[b] = locks'[d] => b = d
      BY <2>1, <3>1 DEF PointerInv
    <3>6. \A d \in Conversations :
            locks'[d] # None => \E f \in Executions : lock'[f] = locks'[d]
      BY <2>1, <2>2, <2>3 DEF PointerInv
    <3> QED
      BY <3>3, <3>4, <3>5, <3>6 DEF PointerInv
  <2> QED
    BY <2>4, <2>5
<1>2. ASSUME NEW e \in Executions, Control!releaseConversationRef(e)
      PROVE  PointerInv'
  <2>1. /\ pc[e] = "unref" /\ pc' = [pc EXCEPT ![e] = "idle"]
        /\ lock' = [lock EXCEPT ![e] = None] /\ conv' = [conv EXCEPT ![e] = None]
    BY <1>2 DEF Control!releaseConversationRef
  <2>2. conv[e] \in Conversations /\ lock[e] \in Locks /\ locks[conv[e]] = lock[e]
    BY <2>1 DEF PointerInv
  <2>3. CASE refs[lock[e]] = 1
    <3>1. \A f \in Executions : lock[f] = lock[e] => f = e
      BY <2>2, <2>3, Counted
    <3>2. locks' = [locks EXCEPT ![conv[e]] = None]
      BY <1>2, <2>2, <2>3 DEF Control!releaseConversationRef
    <3>3. \A f \in Executions : f # e /\ pc[f] # "idle" => conv[f] # conv[e]
      BY <2>2, <3>1 DEF PointerInv
    <3>4. \A c \in Conversations : c # conv[e] /\ locks[c] # None => locks[c] # lock[e]
      BY <2>2 DEF PointerInv
    <3>5. \A f \in Executions : pc'[f] = "idle" => lock'[f] = None
      BY <2>1 DEF PointerInv
    <3>6. \A f \in Executions : pc'[f] # "idle" =>
            /\ conv'[f] \in Conversations /\ lock'[f] \in Locks
            /\ locks'[conv'[f]] = lock'[f]
      BY <2>1, <2>2, <3>2, <3>3 DEF PointerInv
    <3>7. \A b, d \in Conversations : locks'[b] # None /\ locks'[b] = locks'[d] => b = d
      BY <3>2 DEF PointerInv
    <3>8. \A d \in Conversations :
            locks'[d] # None => \E f \in Executions : lock'[f] = locks'[d]
      BY <2>1, <2>2, <3>2, <3>4 DEF PointerInv
    <3> QED
      BY <3>5, <3>6, <3>7, <3>8 DEF PointerInv
  <2>4. CASE refs[lock[e]] # 1
    <3>1. PICK f \in Executions : lock[f] = lock[e] /\ f # e
      BY <2>2, <2>4, Counted
    <3>2. locks' = locks
      BY <1>2, <2>4 DEF Control!releaseConversationRef
    <3>3. \A d \in Conversations :
            locks'[d] # None => \E g \in Executions : lock'[g] = locks'[d]
      BY <2>1, <3>1, <3>2 DEF PointerInv
    <3> QED
      BY <2>1, <3>2, <3>3 DEF PointerInv
  <2> QED
    BY <2>3, <2>4
<1>3. ASSUME NEW e \in Executions,
             \/ Control!WaitCancelled(e) \/ Control!CheckContext(e) \/ Control!SlotCancelled(e) \/ Control!RunFails(e)
             \/ Control!TakeGate(e) \/ Control!OpenGate(e) \/ Control!TakeSlot(e) \/ Control!ReleaseSlot(e)
             \/ \E session \in Control!Returned(e), written, reported \in BOOLEAN :
                  Control!RunReturns(e, session, written, reported)
      PROVE  PointerInv'
  <2>1. UNCHANGED <<conv, lock, locks>>
    BY <1>3 DEF Control!WaitCancelled, Control!CheckContext, Control!SlotCancelled,
                Control!RunFails, Control!TakeGate,
                Control!OpenGate, Control!TakeSlot, Control!ReleaseSlot, Control!RunReturns
  <2>2. \A f \in Executions : pc'[f] = "idle" <=> pc[f] = "idle"
    BY <1>3 DEF Control!WaitCancelled, Control!CheckContext, Control!SlotCancelled,
                Control!RunFails, Control!TakeGate,
                Control!OpenGate, Control!TakeSlot, Control!ReleaseSlot, Control!RunReturns
  <2> QED
    BY <2>1, <2>2 DEF PointerInv
<1>4. ASSUME NEW e \in Executions, Control!CancelContext(e)
      PROVE  PointerInv'
  BY <1>4 DEF Control!CancelContext, PointerInv
<1>5. CASE Control!Restart
  BY <1>5 DEF Control!Restart, PointerInv
<1>6. CASE UNCHANGED Control!vars
  BY <1>6 DEF Control!vars, PointerInv
<1> QED
  BY <1>1, <1>2, <1>3, <1>4, <1>5, <1>6 DEF Control!Next, Control!Step

-----------------------------------------------------------------------------
(* Whoever points to a lock is counted from the step that gives it the     *)
(* pointer, and a lock that leaves the map has no count left.              *)
LEMMA CountStep ==
  ASSUME Control!ControllerConstants, ControllerShape, PointerInv, CountInv,
         [Control!Next]_(Control!vars)
  PROVE  CountInv'
<1> USE DEF Control!ControllerConstants, ControllerShape, Control!Goto, Control!lockVars,
            Control!fileVars
<1>0. \A l \in Locks : Pointing(l) \in SUBSET Executions
  BY DEF Pointing
<1>1. ASSUME NEW e \in Executions, NEW c \in Conversations, Control!LockConversation(e, c)
      PROVE  CountInv'
  <2>1. PICK l \in IF locks[c] # None THEN {locks[c]} ELSE Control!Unreferenced :
          /\ lock' = [lock EXCEPT ![e] = l]
          /\ refs' = [refs EXCEPT ![l] = IF locks[c] = None THEN 1 ELSE @ + 1]
    BY <1>1 DEF Control!LockConversation
  <2>2. l \in Locks /\ lock[e] = None
    BY <1>1, <2>1 DEF Control!LockConversation, Control!Unreferenced, PointerInv
  <2>3. locks[c] = None => refs[l] = 0
    <3>1. ASSUME locks[c] = None
          PROVE  Pointing(l) = {}
      BY <2>1, <3>1 DEF Control!Unreferenced, Pointing
    <3> QED
      BY <2>2, <3>1, FS_EmptySet DEF CountInv
  <2>4. refs'[l] = refs[l] + 1
    BY <2>1, <2>2, <2>3
  <2>5. Pointing(l)' = Pointing(l) \cup {e} /\ e \notin Pointing(l)
    BY <2>1, <2>2 DEF Pointing
  <2>6. Cardinality(Pointing(l)') = Cardinality(Pointing(l)) + 1
    BY <1>0, <2>2, <2>5, OneMore
  <2>7. ASSUME NEW m \in Locks, m # l
        PROVE  Pointing(m)' = Pointing(m) /\ refs'[m] = refs[m]
    BY <2>1, <2>2, <2>7 DEF Pointing
  <2> QED
    BY <2>2, <2>4, <2>6, <2>7 DEF CountInv
<1>2. ASSUME NEW e \in Executions, Control!releaseConversationRef(e)
      PROVE  CountInv'
  <2>1. PICK l \in Locks : l = lock[e]
    BY <1>2 DEF Control!releaseConversationRef, PointerInv
  <2>2. refs' = [refs EXCEPT ![l] = @ - 1] /\ lock' = [lock EXCEPT ![e] = None]
    BY <1>2, <2>1 DEF Control!releaseConversationRef
  <2>3. Pointing(l)' = Pointing(l) \ {e} /\ e \in Pointing(l)
    BY <2>1, <2>2 DEF Pointing
  <2>4. Cardinality(Pointing(l)') = Cardinality(Pointing(l)) - 1
    BY <1>0, <2>1, <2>3, OneLess
  <2>5. ASSUME NEW m \in Locks, m # l
        PROVE  Pointing(m)' = Pointing(m) /\ refs'[m] = refs[m]
    BY <2>1, <2>2, <2>5 DEF Pointing
  <2> QED
    BY <2>1, <2>2, <2>4, <2>5 DEF CountInv
<1>3. CASE Control!Restart
  <2>1. \A l \in Locks : Pointing(l)' = {} /\ refs'[l] = 0
    BY <1>3 DEF Control!Restart, Pointing
  <2> QED
    BY <2>1, FS_EmptySet DEF CountInv
<1>4. CASE UNCHANGED <<lock, refs>>
  BY <1>4 DEF CountInv, Pointing
<1> QED
  BY <1>1, <1>2, <1>3, <1>4
  DEF Control!Next, Control!Step, Control!vars, Control!CancelContext, Control!WaitCancelled, Control!TakeGate, Control!CheckContext,
      Control!SlotCancelled, Control!TakeSlot, Control!RunFails, Control!RunReturns,
      Control!ReleaseSlot, Control!OpenGate

-----------------------------------------------------------------------------
(* The gate of a lock lets one execution through at a time: only its       *)
(* holder opens it, and a fresh lock has no holder.                        *)
LEMMA GateStep ==
  ASSUME Control!ControllerConstants, ControllerShape, PointerInv, GateInv,
         [Control!Next]_(Control!vars)
  PROVE  GateInv'
<1> USE DEF Control!ControllerConstants, ControllerShape, Control!Goto, Control!lockVars,
            Control!fileVars, Control!Holding
<1>1. ASSUME NEW e \in Executions, NEW c \in Conversations, Control!LockConversation(e, c)
      PROVE  GateInv'
  <2>1. PICK l \in IF locks[c] # None THEN {locks[c]} ELSE Control!Unreferenced :
          /\ lock' = [lock EXCEPT ![e] = l]
          /\ gate' = IF locks[c] = None THEN [gate EXCEPT ![l] = TRUE] ELSE gate
    BY <1>1 DEF Control!LockConversation
  <2>2. pc' = [pc EXCEPT ![e] = "wait"]
    BY <1>1 DEF Control!LockConversation
  <2>3. \A f \in Executions : pc'[f] \in Control!Holding =>
          pc[f] \in Control!Holding /\ lock'[f] = lock[f]
    BY <2>1, <2>2
  <2>4. \A f \in Executions : pc'[f] \in Control!Holding => ~gate'[lock'[f]]
    BY <2>1, <2>2, <2>3 DEF Control!Unreferenced, PointerInv, GateInv
  <2> QED
    BY <2>3, <2>4 DEF GateInv
<1>2. ASSUME NEW e \in Executions, Control!TakeGate(e)
      PROVE  GateInv'
  <2>1. /\ lock' = lock /\ lock[e] \in Locks /\ gate[lock[e]]
        /\ gate' = [gate EXCEPT ![lock[e]] = FALSE]
        /\ pc' = [pc EXCEPT ![e] = "gated"]
    BY <1>2 DEF Control!TakeGate, PointerInv
  <2>2. \A f \in Executions : pc[f] \in Control!Holding => lock[f] # lock[e]
    BY <2>1 DEF GateInv
  <2>3. \A f \in Executions : pc[f] \in Control!Holding => lock[f] \in Locks
    BY DEF PointerInv
  <2> QED
    BY <2>1, <2>2, <2>3 DEF GateInv
<1>3. ASSUME NEW e \in Executions, Control!OpenGate(e)
      PROVE  GateInv'
  <2>1. /\ lock' = lock /\ lock[e] \in Locks /\ pc[e] \in Control!Holding
        /\ gate' = [gate EXCEPT ![lock[e]] = TRUE]
        /\ pc' = [pc EXCEPT ![e] = "unref"]
    BY <1>3 DEF Control!OpenGate, PointerInv
  <2>2. \A f \in Executions : pc'[f] \in Control!Holding =>
          pc[f] \in Control!Holding /\ lock[f] # lock[e] /\ lock[f] \in Locks
    BY <2>1 DEF GateInv, PointerInv
  <2>3. \A f \in Executions : pc'[f] \in Control!Holding => gate'[lock'[f]] = gate[lock[f]]
    BY <2>1, <2>2
  <2> QED
    BY <2>1, <2>2, <2>3 DEF GateInv
<1>4. ASSUME NEW e \in Executions, Control!releaseConversationRef(e)
      PROVE  GateInv'
  <2>1. /\ gate' = gate /\ pc' = [pc EXCEPT ![e] = "idle"]
        /\ lock' = [lock EXCEPT ![e] = None]
    BY <1>4 DEF Control!releaseConversationRef
  <2>2. \A f \in Executions : pc'[f] \in Control!Holding =>
          pc[f] \in Control!Holding /\ lock'[f] = lock[f]
    BY <2>1
  <2> QED
    BY <2>1, <2>2 DEF GateInv
<1>5. CASE Control!Restart
  BY <1>5 DEF Control!Restart, GateInv
<1>6. CASE /\ UNCHANGED <<lock, gate>>
           /\ \A f \in Executions : pc'[f] \in Control!Holding => pc[f] \in Control!Holding
  BY <1>6 DEF GateInv
<1>7. ASSUME NEW e \in Executions,
             \/ Control!CancelContext(e) \/ Control!WaitCancelled(e) \/ Control!CheckContext(e) \/ Control!SlotCancelled(e)
             \/ Control!TakeSlot(e) \/ Control!RunFails(e) \/ Control!ReleaseSlot(e)
             \/ \E session \in Control!Returned(e), written, reported \in BOOLEAN :
                  Control!RunReturns(e, session, written, reported)
      PROVE  GateInv'
  <2>1. UNCHANGED <<lock, gate>>
    BY <1>7 DEF Control!CancelContext, Control!WaitCancelled, Control!CheckContext,
                Control!SlotCancelled, Control!TakeSlot,
                Control!RunFails, Control!ReleaseSlot, Control!RunReturns
  <2>2. \A f \in Executions : pc'[f] \in Control!Holding => pc[f] \in Control!Holding
    BY <1>7 DEF Control!CancelContext, Control!WaitCancelled, Control!CheckContext,
                Control!SlotCancelled, Control!TakeSlot,
                Control!RunFails, Control!ReleaseSlot, Control!RunReturns
  <2> QED
    BY <1>6, <2>1, <2>2
<1>8. CASE UNCHANGED Control!vars
  BY <1>6, <1>8 DEF Control!vars
<1> QED
  BY <1>1, <1>2, <1>3, <1>4, <1>5, <1>7, <1>8 DEF Control!Next, Control!Step

-----------------------------------------------------------------------------
(* A slot is taken and released by the execution it is counted for.        *)
LEMMA SlotStep ==
  ASSUME Control!ControllerConstants, ControllerShape, SlotInv,
         [Control!Next]_(Control!vars)
  PROVE  SlotInv'
<1> USE DEF Control!ControllerConstants, ControllerShape, Control!Goto, Control!lockVars,
            Control!fileVars
<1>0. /\ Slotted \in SUBSET Executions
      /\ Cardinality(Slotted) \in Nat
  BY SubsetOfExecutions DEF Slotted
<1>1. ASSUME NEW e \in Executions, Control!TakeSlot(e)
      PROVE  SlotInv'
  <2>1. Slotted' = Slotted \cup {e} /\ e \notin Slotted
    BY <1>1 DEF Control!TakeSlot, Slotted
  <2>2. Cardinality(Slotted') = Cardinality(Slotted) + 1
    BY <1>0, <2>1, OneMore
  <2> QED
    BY <1>0, <1>1, <2>2 DEF Control!TakeSlot, SlotInv
<1>2. ASSUME NEW e \in Executions, Control!ReleaseSlot(e)
      PROVE  SlotInv'
  <2>1. Slotted' = Slotted \ {e} /\ e \in Slotted
    BY <1>2 DEF Control!ReleaseSlot, Slotted
  <2>2. Cardinality(Slotted') = Cardinality(Slotted) - 1
    BY <1>0, <2>1, OneLess
  <2> QED
    BY <1>0, <1>2, <2>2 DEF Control!ReleaseSlot, SlotInv
<1>3. CASE Control!Restart
  <2>1. Slotted' = {} /\ sem' = 0
    BY <1>3 DEF Control!Restart, Slotted
  <2> QED
    BY <2>1, FS_EmptySet DEF SlotInv
<1>4. CASE sem' = sem /\ Slotted' = Slotted
  BY <1>4 DEF SlotInv
<1>5. ASSUME NEW e \in Executions,
             \/ Control!CancelContext(e) \/ Control!WaitCancelled(e) \/ Control!TakeGate(e) \/ Control!CheckContext(e)
             \/ Control!SlotCancelled(e) \/ Control!RunFails(e) \/ Control!OpenGate(e) \/ Control!releaseConversationRef(e)
             \/ \E c \in Conversations : Control!LockConversation(e, c)
             \/ \E session \in Control!Returned(e), written, reported \in BOOLEAN :
                  Control!RunReturns(e, session, written, reported)
      PROVE  sem' = sem /\ Slotted' = Slotted
  <2>1. sem' = sem
    BY <1>5 DEF Control!CancelContext, Control!WaitCancelled, Control!TakeGate,
                Control!CheckContext, Control!SlotCancelled,
                Control!RunFails, Control!OpenGate, Control!releaseConversationRef,
                Control!LockConversation, Control!RunReturns
  <2>2. \A f \in Executions : pc'[f] \in {"run", "leave"} <=> pc[f] \in {"run", "leave"}
    BY <1>5 DEF Control!CancelContext, Control!WaitCancelled, Control!TakeGate,
                Control!CheckContext, Control!SlotCancelled,
                Control!RunFails, Control!OpenGate, Control!releaseConversationRef,
                Control!LockConversation, Control!RunReturns
  <2> QED
    BY <2>1, <2>2 DEF Slotted
<1>6. CASE UNCHANGED Control!vars
  BY <1>4, <1>6 DEF Control!vars, Slotted
<1> QED
  BY <1>1, <1>2, <1>3, <1>4, <1>5, <1>6 DEF Control!Next, Control!Step

-----------------------------------------------------------------------------
(* The gate excludes two turns of one conversation.                        *)
LEMMA Excluded ==
  ASSUME PointerInv, GateInv
  PROVE  Control!OneRunPerConversation
BY DEF PointerInv, GateInv, Control!OneRunPerConversation, Control!Holding

(* So the session a turn resumes is not replaced under it.                 *)
LEMMA SessionStep ==
  ASSUME Control!ControllerConstants, ControllerShape, PointerInv, GateInv, SessionInv,
         [Control!Next]_(Control!vars)
  PROVE  SessionInv'
<1> USE DEF Control!ControllerConstants, ControllerShape, Control!Goto, Control!lockVars,
            Control!fileVars
<1>1. ASSUME NEW e \in Executions, NEW session \in Control!Returned(e),
             NEW written \in BOOLEAN, NEW reported \in BOOLEAN,
             Control!RunReturns(e, session, written, reported)
      PROVE  SessionInv'
  <2> DEFINE c == conv[e]
  <2>1. pc[e] = "run" /\ c \in Conversations /\ stored[e] = sessions[c]
    BY <1>1 DEF Control!RunReturns, PointerInv, SessionInv
  <2>2. sessions' = [sessions EXCEPT ![c] = session]
    <3>1. CASE session = 0 /\ stored[e] = 0
      BY <1>1, <2>1, <3>1 DEF Control!RunReturns
    <3>2. CASE ~(session = 0 /\ stored[e] = 0)
      BY <1>1, <3>2 DEF Control!RunReturns, Control!Save
    <3> QED
      BY <3>1, <3>2
  <2>3. last' = sessions'
    BY <1>1, <2>2 DEF Control!RunReturns, SessionInv
  <2>4. ASSUME NEW f \in Executions, pc'[f] = "run"
        PROVE  stored'[f] = sessions'[conv'[f]]
    <3>1. f # e /\ pc[f] = "run" /\ stored' = stored /\ conv' = conv
      BY <1>1, <2>4 DEF Control!RunReturns
    <3>2. conv[f] # c /\ conv[f] \in Conversations
      BY <2>1, <3>1, Excluded DEF Control!OneRunPerConversation, Control!Holding, PointerInv
    <3> QED
      BY <2>1, <2>2, <3>1, <3>2 DEF SessionInv
  <2> QED
    BY <2>3, <2>4 DEF SessionInv
<1>2. ASSUME NEW e \in Executions, Control!TakeSlot(e)
      PROVE  SessionInv'
  BY <1>2 DEF Control!TakeSlot, SessionInv
<1>3. ASSUME NEW e \in Executions, Control!ReleaseSlot(e)
      PROVE  SessionInv'
  BY <1>3 DEF Control!ReleaseSlot, SessionInv
<1>4. ASSUME NEW e \in Executions,
             Control!releaseConversationRef(e) \/ \E c \in Conversations : Control!LockConversation(e, c)
      PROVE  SessionInv'
  <2>1. UNCHANGED <<stored, sessions, last>>
    BY <1>4 DEF Control!releaseConversationRef, Control!LockConversation
  <2>2. \A f \in Executions : pc'[f] = "run" => pc[f] = "run" /\ conv'[f] = conv[f]
    BY <1>4 DEF Control!releaseConversationRef, Control!LockConversation
  <2> QED
    BY <2>1, <2>2 DEF SessionInv
<1>5. ASSUME NEW e \in Executions,
             \/ Control!CancelContext(e) \/ Control!WaitCancelled(e) \/ Control!TakeGate(e) \/ Control!CheckContext(e)
             \/ Control!SlotCancelled(e) \/ Control!RunFails(e) \/ Control!OpenGate(e)
      PROVE  SessionInv'
  <2>1. UNCHANGED <<stored, sessions, last, conv>>
    BY <1>5 DEF Control!CancelContext, Control!WaitCancelled, Control!TakeGate,
                Control!CheckContext, Control!SlotCancelled,
                Control!RunFails, Control!OpenGate
  <2>2. \A f \in Executions : pc'[f] = "run" => pc[f] = "run"
    BY <1>5 DEF Control!CancelContext, Control!WaitCancelled, Control!TakeGate,
                Control!CheckContext, Control!SlotCancelled,
                Control!RunFails, Control!OpenGate
  <2> QED
    BY <2>1, <2>2 DEF SessionInv
<1>6. CASE Control!Restart
  BY <1>6 DEF Control!Restart, SessionInv
<1>7. CASE UNCHANGED Control!vars
  BY <1>7 DEF Control!vars, SessionInv
<1> QED
  BY <1>1, <1>2, <1>3, <1>4, <1>5, <1>6, <1>7 DEF Control!Next, Control!Step

-----------------------------------------------------------------------------
LEMMA ControllerInit ==
  ASSUME Control!ControllerConstants, Control!Init
  PROVE  ControllerInv
<1> USE DEF Control!ControllerConstants, Control!Init
<1>1. ControllerShape
  BY DEF ControllerShape
<1>2. PointerInv /\ GateInv /\ SessionInv
  BY DEF PointerInv, GateInv, SessionInv, Control!Holding
<1>3. CountInv
  <2>1. \A l \in Locks : Pointing(l) = {}
    BY DEF Pointing
  <2> QED
    BY <2>1, FS_EmptySet DEF CountInv
<1>4. SlotInv
  <2>1. Slotted = {}
    BY DEF Slotted
  <2> QED
    BY <2>1, FS_EmptySet DEF SlotInv
<1> QED
  BY <1>1, <1>2, <1>3, <1>4 DEF ControllerInv

LEMMA ControllerStep ==
  ASSUME Control!ControllerConstants, ControllerInv, [Control!Next]_(Control!vars)
  PROVE  ControllerInv'
BY ShapeStep, PointerStep, CountStep, GateStep, SlotStep, SessionStep DEF ControllerInv

(* What the invariant says of the turns.                                   *)
LEMMA TurnsFollow ==
  ASSUME Control!ControllerConstants, ControllerInv
  PROVE  Control!TurnsSound
<1> USE DEF ControllerInv, Control!ControllerConstants
<1>1. Control!TypeOK
  <2>1. \A l \in Locks : refs[l] \in 0..Cardinality(Executions)
    <3> SUFFICES ASSUME NEW l \in Locks
                 PROVE  refs[l] \in 0..Cardinality(Executions)
      OBVIOUS
    <3>1. Pointing(l) \in SUBSET Executions
      BY DEF Pointing
    <3>2. /\ Cardinality(Pointing(l)) \in Nat
          /\ Cardinality(Pointing(l)) <= Cardinality(Executions)
          /\ Cardinality(Executions) \in Nat
      BY <3>1, SubsetOfExecutions, FS_CardinalityType
    <3> QED
      BY <3>2 DEF CountInv
  <2>2. refs \in [Locks -> 0..Cardinality(Executions)]
    BY <2>1 DEF ControllerShape
  <2> QED
    BY <2>2, SameFiniteSets DEF Control!TypeOK, ControllerShape, SlotInv, Slotted, SessionInv
<1>2. Control!OneRunPerConversation
  BY Excluded
<1>3. Control!ResumesLatest
  BY DEF Control!ResumesLatest, SessionInv
<1>4. Control!LocksAreReclaimed
  BY DEF Control!LocksAreReclaimed, PointerInv, ControllerShape
<1> QED
  BY <1>1, <1>2, <1>3, <1>4 DEF Control!TurnsSound

(***************************************************************************)
(* Controller.Execute, for any number of callers, conversations and slots, *)
(* through cancelled waits, failed session writes and restarts: no two     *)
(* turns of a conversation run at once although its lock is deleted and    *)
(* made again between them, each turn resumes the session the latest one   *)
(* left, no slot or reference is lost, and no unused lock stays in the map. *)
(***************************************************************************)
THEOREM TurnsAreSound == Control!Spec => []TurnsSound
<1>1. Control!Init => ControllerInv
  BY ControllerAssumption, ControllerInit
<1>2. ControllerInv /\ [Control!Next]_(Control!vars) => ControllerInv'
  BY ControllerAssumption, ControllerStep
<1>3. ControllerInv => TurnsSound
  BY ControllerAssumption, TurnsFollow DEF TurnsSound
<1> QED
  BY <1>1, <1>2, <1>3, PTL DEF Control!Spec
=============================================================================
