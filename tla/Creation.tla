------------------------------ MODULE Creation ------------------------------
(***************************************************************************)
(* CreateRequest of collaboration/store.go and the handler around it: the  *)
(* idempotency key, the target's and the requester's cards, the one        *)
(* transaction that stores request, key, inbox entry and conversation, the *)
(* announcement after it, and the retention of those keys while the        *)
(* request is transitioned.  The requester retries what was not answered.  *)
(***************************************************************************)
EXTENDS Integers, FiniteSets

CONSTANTS Calls,        \* create calls the requester has in flight
          Ids,            \* request identities randomID may return
          Keys,           \* the requester's idempotency keys
          Contents,       \* request contents, told apart by requestDigest
          Retention,      \* requestRetention in clock units
          Lifetime,       \* longest ExpiresInSeconds in clock units
          None,
          MaxTime, MaxFaults   \* bounds

ASSUME RetentionOutlivesApproval == Lifetime \in Nat /\ Retention \in Nat /\ Retention > Lifetime

VARIABLES now,
          requests,    \* id to [key, content, status, ttl, expires], None when absent
          idem,        \* key to its record [id, digest, ttl], None when absent
          inbox,       \* [ids, ttl]: the target's inbox set
          call,        \* per call: step, key, content and the new identity
          answers,     \* history: the answers [key, content, id] of accepted calls
          used,        \* history: identities that were ever stored
          known,       \* requests the target's receiver has learnt of
          faults

vars == <<now, requests, idem, inbox, call, answers, used, known, faults>>
keys == <<requests, idem, inbox>>

(* What Redis holds under a request's key and under an idempotency key.    *)
Status == {"awaiting", "accepted", "done"}
RequestRecords == [key : Keys, content : Contents, status : Status, ttl : Nat, expires : Nat]
KeyRecords     == [id : Ids, digest : Contents, ttl : Nat]

ASSUME AbsentIsNoRecord == None \notin RequestRecords /\ None \notin KeyRecords

NoCall == [step |-> "idle", key |-> None, content |-> None, id |-> None]

Init ==
  /\ now = 0 /\ faults = 0
  /\ requests = [i \in Ids |-> None] /\ idem = [k \in Keys |-> None]
  /\ inbox = [ids |-> {}, ttl |-> 0]
  /\ call = [c \in Calls |-> NoCall]
  /\ answers = {} /\ used = {} /\ known = {}

Live == {i \in Ids : requests[i] # None}

Goto(c, step) == call' = [call EXCEPT ![c].step = step]

Answer(c, i) ==
  /\ answers' = answers \cup {[key |-> call[c].key, content |-> call[c].content, id |-> i]}
  /\ call' = [call EXCEPT ![c] = NoCall]

Fail(c) == call' = [call EXCEPT ![c] = NoCall] /\ UNCHANGED answers

-----------------------------------------------------------------------------
createRequest(c, key, content) ==
  /\ call[c].step = "idle"
  /\ call' = [call EXCEPT ![c] = [NoCall EXCEPT !.step = "lookup", !.key = key,
                                        !.content = content]]
  /\ UNCHANGED <<now, keys, answers, used, known, faults>>

(***************************************************************************)
(* An existing key answers for the same content and refuses any other; a   *)
(* key whose request is gone is an error.                                  *)
(***************************************************************************)
Existing(c, record) ==
  IF record.digest = call[c].content /\ requests[record.id] # None
    THEN Answer(c, record.id) ELSE Fail(c)

Lookup(c) ==
  /\ call[c].step = "lookup"
  /\ IF idem[call[c].key] # None THEN Existing(c, idem[call[c].key])
     ELSE Goto(c, "agents") /\ UNCHANGED answers
  /\ UNCHANGED <<now, keys, used, known, faults>>

(* readAgent of the target and of the caller, outside any transaction: a   *)
(* card may be missing, revoked or not accepting (module Presence).        *)
ReadAgents(c) ==
  /\ call[c].step = "agents"
  /\ \/ Goto(c, "watch") /\ UNCHANGED answers
     \/ Fail(c)
  /\ UNCHANGED <<now, keys, used, known, faults>>

Watch(c) ==
  /\ call[c].step = "watch"
  /\ IF idem[call[c].key] # None THEN Existing(c, idem[call[c].key])
     ELSE \E i \in Ids \ (used \cup {call[d].id : d \in Calls}) :
            /\ call' = [call EXCEPT ![c].step = "exec", ![c].id = i]
            /\ UNCHANGED answers
  /\ UNCHANGED <<now, keys, used, known, faults>>

Stored(c) ==
  [key |-> call[c].key, content |-> call[c].content, status |-> "awaiting",
   ttl |-> now + Retention, expires |-> now + Lifetime]

Bound(c) ==
  [idem EXCEPT ![call[c].key] =
     [id |-> call[c].id, digest |-> call[c].content, ttl |-> now + Retention]]

Exec(c) ==
  LET i == call[c].id IN
  /\ call[c].step = "exec" /\ idem[call[c].key] = None
  /\ requests' = [requests EXCEPT ![i] = Stored(c)]
  /\ idem' = Bound(c) /\ used' = used \cup {i}
  /\ inbox' = [ids |-> inbox.ids \cup {i}, ttl |-> now + Retention]
  /\ Goto(c, "announce")
  /\ UNCHANGED <<now, answers, known, faults>>

(* Another creation touched the watched key: read it again.                *)
Retry(c) ==
  /\ call[c].step = "exec" /\ idem[call[c].key] # None
  /\ call' = [call EXCEPT ![c].step = "watch", ![c].id = None]
  /\ UNCHANGED <<now, keys, answers, used, known, faults>>

(* Only the call that created the request publishes it, to live streams.   *)
Announce(c, heard) ==
  /\ call[c].step = "announce"
  /\ known' = IF heard THEN known \cup {call[c].id} ELSE known
  /\ Answer(c, call[c].id)
  /\ UNCHANGED <<now, keys, used, faults>>

(* The caller's connection or the relay dies before the answer: what was   *)
(* committed stays, and no later call publishes it.                        *)
Interrupted(c) ==
  /\ call[c].step # "idle" /\ faults < MaxFaults
  /\ faults' = faults + 1
  /\ Fail(c)
  /\ UNCHANGED <<now, keys, used, known>>

-----------------------------------------------------------------------------
(* A transition of the lifecycle renews the request and its key together.  *)
NextStatus(s) == IF s = "awaiting" THEN {"accepted", "done"}
                 ELSE IF s = "accepted" THEN {"done"} ELSE {}

(* Mutant: the create key is left to age.                                  *)
TransitionKeyAges(i) ==
  /\ i \in Live
  /\ \E s \in NextStatus(requests[i].status) :
       /\ requests' = [requests EXCEPT ![i].status = s, ![i].ttl = now + Retention]
       /\ UNCHANGED idem
       /\ inbox' = IF s = "done" THEN [inbox EXCEPT !.ids = @ \ {i}] ELSE inbox
  /\ UNCHANGED <<now, call, answers, used, known, faults>>

Transition(i) ==
  /\ i \in Live
  /\ \E s \in NextStatus(requests[i].status) :
       /\ requests' = [requests EXCEPT ![i].status = s, ![i].ttl = now + Retention]
       /\ idem' = IF idem[requests[i].key] = None THEN idem
                  ELSE [idem EXCEPT ![requests[i].key].ttl = now + Retention]
       /\ inbox' = IF s = "done" THEN [inbox EXCEPT !.ids = @ \ {i}] ELSE inbox
  /\ UNCHANGED <<now, call, answers, used, known, faults>>

(* Time passes; Redis drops what has reached its TTL.                      *)
Tick ==
  /\ now < MaxTime /\ now' = now + 1
  /\ requests' = [i \in Ids |-> IF i \in Live /\ requests[i].ttl > now' THEN requests[i] ELSE None]
  /\ idem' = [k \in Keys |-> IF idem[k] # None /\ idem[k].ttl > now' THEN idem[k] ELSE None]
  /\ inbox' = IF inbox.ttl > now' THEN inbox ELSE [ids |-> {}, ttl |-> 0]
  /\ UNCHANGED <<call, answers, used, known, faults>>

Pending == {i \in inbox.ids \cap Live : requests[i].status = "awaiting" /\ now < requests[i].expires}

(* Mutant: the receiver relies on its event stream alone.                  *)
NoPolling == /\ Pending \subseteq known /\ UNCHANGED vars

(* The receiver's heartbeat loop reads the durable inbox.                  *)
Reconcile ==
  /\ ~(Pending \subseteq known)
  /\ known' = known \cup Pending
  /\ UNCHANGED <<now, keys, call, answers, used, faults>>

-----------------------------------------------------------------------------
Step(c) ==
  \/ Lookup(c) \/ ReadAgents(c) \/ Watch(c) \/ Exec(c) \/ Retry(c)
  \/ \E heard \in BOOLEAN : Announce(c, heard)

Next ==
  \/ \E c \in Calls :
       \/ \E key \in Keys, content \in Contents : createRequest(c, key, content)
       \/ Step(c) \/ Interrupted(c)
  \/ \E i \in Ids : Transition(i)
  \/ Tick \/ Reconcile

Spec == Init /\ [][Next]_vars

(* The receiver polls on a ticker and the server's handlers proceed.       *)
FairSpec == Spec /\ WF_vars(Reconcile) /\ \A c \in Calls : WF_vars(Step(c))

-----------------------------------------------------------------------------
(* The state's shape.                                                      *)
TypeOK ==
  /\ \A i \in Live : requests[i].content \in Contents /\ requests[i].status \in Status
  /\ \A k \in Keys : idem[k] # None => idem[k].id \in Ids /\ idem[k].digest \in Contents
  /\ inbox.ids \subseteq Ids /\ known \subseteq Ids
  /\ \A c \in Calls : call[c].step \in {"idle", "lookup", "agents", "watch", "exec", "announce"}

(***************************************************************************)
(* While a request is retained its create key is bound to it and to its    *)
(* content, so that an old ambiguous retry cannot create a second task.    *)
(***************************************************************************)
KeyOutlivesRequest ==
  \A i \in Live :
    LET record == idem[requests[i].key] IN
    record # None /\ record.id = i /\ record.digest = requests[i].content

(* All answers to one key name one request, while that request is kept.    *)
RetriesAgree ==
  \A x, y \in answers : (x.key = y.key /\ {x.id, y.id} \subseteq Live) => x = y

(***************************************************************************)
(* A request its target may still decide is in the target's inbox set,     *)
(* whose retention only creations renew.                                   *)
(***************************************************************************)
AwaitingIsListed ==
  \A i \in Live :
    (requests[i].status = "awaiting" /\ now < requests[i].expires) => i \in inbox.ids

(***************************************************************************)
(* The target learns of every created request it can still decide, also    *)
(* when the creating call dies between the transaction and the             *)
(* announcement and its retry finds the request already there.             *)
(***************************************************************************)
TargetLearns ==
  \A i \in Ids : i \in Pending ~> (i \in known \/ i \notin Pending)

(***************************************************************************)
(* CreateRequest stores one request per key and content for as long as the *)
(* request is kept, and keeps it in the inbox while it can be decided.     *)
(***************************************************************************)
CreationSound == TypeOK /\ KeyOutlivesRequest /\ RetriesAgree /\ AwaitingIsListed
=============================================================================
