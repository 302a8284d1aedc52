-------------------------------- MODULE Hub --------------------------------
(***************************************************************************)
(* The live notification layer of the relay (internal/collaboration/hub.go *)
(* and the events handler of handler.go): every connected agent has one or *)
(* more event streams, each fed by a bounded Go channel that publishers    *)
(* fill and that revocation, overflow and disconnection close.             *)
(*                                                                         *)
(* h.mu is a read-write lock.  Publish holds it for reading while it sends *)
(* to one channel after the other; everything else takes it for writing    *)
(* for the length of one action.                                           *)
(***************************************************************************)
EXTENDS Naturals, Sequences, FiniteSets

CONSTANTS
  Agents,
  Requests,       \* requests, each addressed to one agent
  Streams,        \* event streams; each is opened once
  Capacity,       \* size of a subscriber's channel: 32 in Subscribe
  Nobody          \* no agent

ASSUME HubConstants ==
  /\ Capacity \in Nat \ {0}
  /\ IsFiniteSet(Streams)
  /\ Nobody \notin Agents

VARIABLES
  target,         \* target[r]: the agent r was created for, or Nobody
  open,           \* requests the durable inboxes list
  credentialled,  \* agents whose credentials still authenticate
  revoked,        \* h.revoked
  subscribers,    \* h.subscribers: the streams whose channel is registered
  queue,          \* queue[s]: buffered events of s's channel
  closed,         \* streams whose channel is closed
  panicked,       \* a send on, or close of, a closed channel happened
  stream,         \* stream[s]: the events handler of s
  written,        \* written[s]: events written to s
  publish,        \* publish[e]: the Publish call of event e
  overtaken       \* history: requests whose cancellation began to be sent
                  \* before their announcement did

vars == <<target, open, credentialled, revoked, subscribers, queue, closed,
          panicked, stream, written, publish, overtaken>>

storeVars   == <<target, open, credentialled>>
channelVars == <<queue, closed, panicked>>

-----------------------------------------------------------------------------
(* An event: a notice of a new request, or of its cancellation. *)
PeerRequest(r)   == <<"peer_request", r>>
PeerCancelled(r) == <<"peer_cancelled", r>>
Events           == {"peer_request", "peer_cancelled"} \X Requests

(* Steps of the events handler and of Publish. *)
StreamSteps  == {"new", "subscribe", "check", "inbox", "loop", "return", "done"}
PublishSteps == {"none", "begin", "send", "drop", "done"}

PublishCalls == [pc : PublishSteps, todo : SUBSET Streams,
                 overflowed : SUBSET Streams]
Handlers     == [pc : StreamSteps, agent : Agents \cup {Nobody}]

NotPublished == [pc |-> "none", todo |-> {}, overflowed |-> {}]

(* The state's shape: registry, channels, streams and publications.        *)
TypeOK ==
  /\ target \in [Requests -> Agents \cup {Nobody}]
  /\ open \subseteq Requests
  /\ credentialled \subseteq Agents
  /\ revoked \subseteq Agents
  /\ subscribers \subseteq Streams
  /\ queue \in [Streams -> Seq(Events)]
  /\ \A s \in Streams : Len(queue[s]) <= Capacity
  /\ closed \subseteq Streams
  /\ panicked \in BOOLEAN
  /\ stream \in [Streams -> Handlers]
  /\ written \in [Streams -> SUBSET Events]
  /\ publish \in [Events -> PublishCalls]
  /\ overtaken \subseteq Requests

Init ==
  /\ target = [r \in Requests |-> Nobody]
  /\ open = {}
  /\ credentialled = Agents
  /\ revoked = {}
  /\ subscribers = {}
  /\ queue = [s \in Streams |-> <<>>]
  /\ closed = {}
  /\ panicked = FALSE
  /\ stream = [s \in Streams |-> [pc |-> "new", agent |-> Nobody]]
  /\ written = [s \in Streams |-> {}]
  /\ publish = [e \in Events |-> NotPublished]
  /\ overtaken = {}

(* h.mu can be taken for writing: no Publish is sending. *)
Unlocked == \A e \in Events : publish[e].pc # "send"

(* close(channel) panics on a closed channel. *)
Close(S) ==
  /\ closed' = closed \cup S
  /\ panicked' = (panicked \/ S \cap closed # {})

SubscribersOf(a) == {s \in subscribers : stream[s].agent = a}

-----------------------------------------------------------------------------
(***************************************************************************)
(* Requests.  A request is committed to the store, then published; its     *)
(* requester may cancel it as soon as it is committed: a retry of the      *)
(* creation with the same idempotency key is answered with the identity    *)
(* while the handler that created the request has yet to publish it.       *)
(***************************************************************************)
Begin(e) == publish' = [publish EXCEPT ![e].pc = "begin"]

CreateRequest(r, a) ==
  /\ target[r] = Nobody
  /\ target' = [target EXCEPT ![r] = a]
  /\ open' = open \cup {r}
  /\ Begin(PeerRequest(r))
  /\ UNCHANGED <<credentialled, revoked, subscribers, channelVars, stream,
                 written, overtaken>>

CancelRequest(r) ==
  /\ r \in open
  /\ open' = open \ {r}
  /\ Begin(PeerCancelled(r))
  /\ UNCHANGED <<target, credentialled, revoked, subscribers, channelVars,
                 stream, written, overtaken>>

-----------------------------------------------------------------------------
(***************************************************************************)
(* Publish.                                                                *)
(***************************************************************************)
RLock(e) ==
  /\ publish[e].pc = "begin"
  /\ publish' = [publish EXCEPT ![e] = [pc |-> "send", overflowed |-> {},
                                        todo |-> SubscribersOf(target[e[2]])]]
  /\ overtaken' = IF e = PeerCancelled(e[2]) /\ publish[PeerRequest(e[2])].pc = "begin"
                    THEN overtaken \cup {e[2]} ELSE overtaken
  /\ UNCHANGED <<storeVars, revoked, subscribers, channelVars, stream, written>>

(* Seeded defect: a full channel takes one event more. *)
SendToFull(e, s) ==
  /\ publish[e].pc = "send"
  /\ s \in publish[e].todo
  /\ queue' = [queue EXCEPT ![s] = Append(@, e)]
  /\ publish' = [publish EXCEPT ![e].todo = @ \ {s}]
  /\ panicked' = (panicked \/ s \in closed)
  /\ UNCHANGED <<storeVars, revoked, subscribers, closed, stream, written, overtaken>>

(* Send without waiting; a full channel is remembered for closing. *)
SendTo(e, s) ==
  /\ publish[e].pc = "send"
  /\ s \in publish[e].todo
  /\ \/ /\ Len(queue[s]) < Capacity
        /\ queue' = [queue EXCEPT ![s] = Append(@, e)]
        /\ publish' = [publish EXCEPT ![e].todo = @ \ {s}]
     \/ /\ Len(queue[s]) = Capacity
        /\ publish' = [publish EXCEPT ![e] =
                         [pc |-> "send", todo |-> @.todo \ {s},
                          overflowed |-> @.overflowed \cup {s}]]
        /\ UNCHANGED queue
  /\ panicked' = (panicked \/ s \in closed)
  /\ UNCHANGED <<storeVars, revoked, subscribers, closed, stream, written, overtaken>>

(* Seeded defect: full subscribers are skipped and stay registered. *)
RUnlockKeepingFull(e) ==
  /\ publish[e].pc = "send"
  /\ publish[e].todo = {}
  /\ publish' = [publish EXCEPT ![e].pc = "drop", ![e].overflowed = {}]
  /\ UNCHANGED <<storeVars, revoked, subscribers, channelVars, stream, written, overtaken>>

RUnlock(e) ==
  /\ publish[e].pc = "send"
  /\ publish[e].todo = {}
  /\ publish' = [publish EXCEPT ![e].pc = "drop"]
  /\ UNCHANGED <<storeVars, revoked, subscribers, channelVars, stream, written, overtaken>>

(* Seeded defect: close without looking whether it is still registered. *)
DetachUnchecked(S) ==
  /\ Unlocked
  /\ subscribers' = subscribers \ S
  /\ Close(S)

(* Deletes and closes the channels of S that are still registered: the     *)
(* common end of dropSubscriber and of the unsubscribe function.           *)
Detach(S) ==
  /\ Unlocked
  /\ subscribers' = subscribers \ S
  /\ Close(S \cap subscribers)

dropSubscriber(e, s) ==
  /\ publish[e].pc = "drop"
  /\ s \in publish[e].overflowed
  /\ Detach({s})
  /\ publish' = [publish EXCEPT ![e].overflowed = @ \ {s}]
  /\ UNCHANGED <<storeVars, revoked, queue, stream, written, overtaken>>

Published(e) ==
  /\ publish[e].pc = "drop"
  /\ publish[e].overflowed = {}
  /\ publish' = [publish EXCEPT ![e].pc = "done"]
  /\ UNCHANGED <<storeVars, revoked, subscribers, channelVars, stream, written, overtaken>>

-----------------------------------------------------------------------------
(***************************************************************************)
(* The events handler: subscribe first, then replay the durable inbox,     *)
(* then forward the channel until it is closed or the peer goes away.      *)
(***************************************************************************)
Goto(s, pc) == stream' = [stream EXCEPT ![s].pc = pc]

Authenticate(s, a) ==
  /\ stream[s].pc = "new"
  /\ a \in credentialled
  /\ stream' = [stream EXCEPT ![s] = [pc |-> "subscribe", agent |-> a]]
  /\ UNCHANGED <<storeVars, revoked, subscribers, channelVars, written, publish, overtaken>>

(* Seeded defect: the tombstones are not consulted. *)
SubscribeRevoked(s) ==
  /\ stream[s].pc = "subscribe"
  /\ Unlocked
  /\ subscribers' = subscribers \cup {s}
  /\ Goto(s, "check")
  /\ UNCHANGED <<storeVars, revoked, channelVars, written, publish, overtaken>>

Subscribe(s) ==
  /\ stream[s].pc = "subscribe"
  /\ Unlocked
  /\ \/ /\ stream[s].agent \in revoked
        /\ closed' = closed \cup {s}
        /\ UNCHANGED subscribers
     \/ /\ stream[s].agent \notin revoked
        /\ subscribers' = subscribers \cup {s}
        /\ UNCHANGED closed
  /\ Goto(s, "check")
  /\ UNCHANGED <<storeVars, revoked, queue, panicked, written, publish, overtaken>>

IsRevoked(s) ==
  /\ stream[s].pc = "check"
  /\ Goto(s, IF stream[s].agent \in revoked THEN "return" ELSE "inbox")
  /\ UNCHANGED <<storeVars, revoked, subscribers, channelVars, written, publish, overtaken>>

Replay(s) ==
  /\ stream[s].pc = "inbox"
  /\ stream[s].agent \in credentialled
  /\ written' = [written EXCEPT ![s] = @ \cup
                   {PeerRequest(r) : r \in {r \in open : target[r] = stream[s].agent}}]
  /\ Goto(s, "loop")
  /\ UNCHANGED <<storeVars, revoked, subscribers, channelVars, publish, overtaken>>

(* A closed channel still yields what it buffered. *)
Forward(s) ==
  /\ stream[s].pc = "loop"
  /\ queue[s] # <<>>
  /\ written' = [written EXCEPT ![s] = @ \cup {Head(queue[s])}]
  /\ queue' = [queue EXCEPT ![s] = Tail(@)]
  /\ UNCHANGED <<storeVars, revoked, subscribers, closed, panicked, stream,
                 publish, overtaken>>

SeesClosed(s) ==
  /\ stream[s].pc = "loop"
  /\ s \in closed
  /\ queue[s] = <<>>
  /\ Goto(s, "return")
  /\ UNCHANGED <<storeVars, revoked, subscribers, channelVars, written, publish, overtaken>>

(* Inbox refuses an agent in the store's set of revoked agents, which the  *)
(* removal of its credentials fills in the same transaction.               *)
ReplayRefused(s) ==
  /\ stream[s].pc = "inbox"
  /\ stream[s].agent \notin credentialled
  /\ Goto(s, "return")
  /\ UNCHANGED <<storeVars, revoked, subscribers, channelVars, written, publish, overtaken>>

(* The peer disconnects, or a write or the inbox read fails. *)
Disconnect(s) ==
  /\ stream[s].pc \in {"inbox", "loop"}
  /\ Goto(s, "return")
  /\ UNCHANGED <<storeVars, revoked, subscribers, channelVars, written, publish, overtaken>>

(* Seeded defect: the handler returns without unsubscribing. *)
UnsubscribeNothing(s) ==
  /\ stream[s].pc = "return"
  /\ Goto(s, "done")
  /\ UNCHANGED <<storeVars, revoked, subscribers, channelVars, written, publish, overtaken>>

Unsubscribe(s) ==
  /\ stream[s].pc = "return"
  /\ Detach({s})
  /\ Goto(s, "done")
  /\ UNCHANGED <<storeVars, revoked, queue, written, publish, overtaken>>

-----------------------------------------------------------------------------
(***************************************************************************)
(* Revocation: the credentials go first, then EvictRevokedAgents calls     *)
(* Hub.Revoke.                                                             *)
(***************************************************************************)
RevokeCredentials(a) ==
  /\ a \in credentialled
  /\ credentialled' = credentialled \ {a}
  /\ UNCHANGED <<target, open, revoked, subscribers, channelVars, stream,
                 written, publish, overtaken>>

(* Seeded defect: the channels are forgotten but not closed. *)
RevokeSilently(a) ==
  /\ a \notin credentialled /\ a \notin revoked
  /\ Unlocked
  /\ revoked' = revoked \cup {a}
  /\ subscribers' = subscribers \ SubscribersOf(a)
  /\ UNCHANGED <<storeVars, channelVars, stream, written, publish, overtaken>>

Revoke(a) ==
  /\ a \notin credentialled /\ a \notin revoked
  /\ Unlocked
  /\ revoked' = revoked \cup {a}
  /\ subscribers' = subscribers \ SubscribersOf(a)
  /\ Close(SubscribersOf(a))
  /\ UNCHANGED <<storeVars, queue, stream, written, publish, overtaken>>

-----------------------------------------------------------------------------
PublishStep(e) ==
  \/ RLock(e) \/ RUnlock(e) \/ Published(e)
  \/ \E s \in Streams : SendTo(e, s) \/ dropSubscriber(e, s)

StreamStep(s) ==
  \/ Subscribe(s) \/ IsRevoked(s) \/ Replay(s) \/ ReplayRefused(s)
  \/ Forward(s) \/ SeesClosed(s) \/ Unsubscribe(s)

Next ==
  \/ \E r \in Requests : CancelRequest(r) \/ \E a \in Agents : CreateRequest(r, a)
  \/ \E e \in Events : PublishStep(e)
  \/ \E s \in Streams : \/ StreamStep(s) \/ Disconnect(s)
                        \/ \E a \in Agents : Authenticate(s, a)
  \/ \E a \in Agents : RevokeCredentials(a) \/ Revoke(a)

Spec == Init /\ [][Next]_vars

(* Goroutines run; RWMutex lets a waiting writer in once the readers that  *)
(* hold it are gone, hence strong fairness for a stream, whose steps wait  *)
(* for it.  A write to a stream is assumed to end, with success or with an *)
(* error.                                                                  *)
Fairness ==
  /\ \A e \in Events : WF_vars(PublishStep(e))
  /\ \A s \in Streams : SF_vars(StreamStep(s))

FairSpec == Spec /\ Fairness

-----------------------------------------------------------------------------
(***************************************************************************)
(* Correctness.                                                            *)
(***************************************************************************)
(* No channel is closed twice or written to after it was closed, whichever *)
(* of overflow, revocation and unsubscription come first ("Publishers hold *)
(* RLock while sending, so closing under Lock cannot race").               *)
NoPanic == ~panicked

Holds(q, e) == \E i \in DOMAIN q : q[i] = e

Delivered(s, e) == e \in written[s] \/ Holds(queue[s], e)

(* A stream that stays open misses nothing: every open request of its      *)
(* agent whose publication ended, and the cancellation of every request it *)
(* announced, has been written or is buffered.  What does not fit closes   *)
(* the stream (Publish: "A full subscriber cannot safely drop a            *)
(* notification while keeping the stream alive").  The exception is a      *)
(* request cancelled so early that its cancellation was sent first: a      *)
(* stream that opens between the two gets the announcement alone.          *)
LiveStreamsMissNothing ==
  \A s \in Streams, r \in Requests :
    stream[s].pc = "loop" /\ s \notin closed /\ target[r] = stream[s].agent =>
      /\ r \in open /\ publish[PeerRequest(r)].pc = "done"
           => Delivered(s, PeerRequest(r))
      /\ publish[PeerCancelled(r)].pc = "done" /\ Delivered(s, PeerRequest(r))
           => Delivered(s, PeerCancelled(r)) \/ r \in overtaken

(* Once Revoke has run for an agent no stream of it is or will be          *)
(* registered, not even one that authenticated before the revocation.      *)
RevokedHaveNoSubscribers ==
  \A s \in subscribers : stream[s].agent \notin revoked

(* The registry never leaks: what is registered belongs to a handler that  *)
(* has not returned, and its channel is open.                              *)
RegistryIsLive ==
  \A s \in subscribers :
    s \notin closed /\ stream[s].pc \in {"check", "inbox", "loop", "return"}

(* The streams of a revoked agent come to an end. *)
RevokedStreamsEnd ==
  \A s \in Streams :
    (stream[s].agent \in revoked) ~> (stream[s].pc = "done")
=============================================================================
