----------------------------- MODULE HubProofs -----------------------------
(***************************************************************************)
(* Proofs about Hub, for any sets of agents, requests and streams and any  *)
(* channel capacity: the parts of HubInv are shown one after the other to  *)
(* survive every step, each from the parts it rests on.                    *)
(***************************************************************************)
EXTENDS HubInv, TLAPS

-----------------------------------------------------------------------------
(* Events. *)
LEMMA RequestEvent ==
  ASSUME NEW r \in Requests
  PROVE  /\ PeerRequest(r) \in Events /\ PeerRequest(r)[2] = r
         /\ PeerCancelled(r) \in Events /\ PeerCancelled(r)[2] = r
BY DEF Events, PeerRequest, PeerCancelled

(* Different requests, and different kinds of notice, are different events. *)
LEMMA EventsDiffer ==
  ASSUME NEW r, NEW q
  PROVE  /\ PeerRequest(r) # PeerCancelled(q)
         /\ PeerRequest(r) = PeerRequest(q) => r = q
         /\ PeerCancelled(r) = PeerCancelled(q) => r = q
BY DEF PeerRequest, PeerCancelled

(* Sending appends to the buffer, forwarding takes its head. *)
LEMMA AppendHolds ==
  ASSUME NEW q \in Seq(Events), NEW e \in Events, NEW f
  PROVE  /\ Append(q, e) \in Seq(Events) /\ Len(Append(q, e)) = Len(q) + 1
         /\ Holds(Append(q, e), f) <=> f = e \/ Holds(q, f)
<1>1. Append(q, e) \in Seq(Events) /\ Len(Append(q, e)) = Len(q) + 1
  OBVIOUS
<1>2. ASSUME NEW i \in DOMAIN Append(q, e)
      PROVE  Append(q, e)[i] = e \/ \E j \in DOMAIN q : q[j] = Append(q, e)[i]
  OBVIOUS
<1>3. ASSUME NEW i \in DOMAIN q
      PROVE  i \in DOMAIN Append(q, e) /\ Append(q, e)[i] = q[i]
  OBVIOUS
<1>4. Len(q) + 1 \in DOMAIN Append(q, e) /\ Append(q, e)[Len(q) + 1] = e
  OBVIOUS
<1> QED
  BY <1>1, <1>2, <1>3, <1>4 DEF Holds

(* A non-empty buffer holds its head and what its tail holds. *)
LEMMA TailHolds ==
  ASSUME NEW q \in Seq(Events), q # <<>>, NEW f
  PROVE  /\ Tail(q) \in Seq(Events) /\ Len(Tail(q)) <= Len(q)
         /\ Head(q) \in Events
         /\ Holds(q, f) <=> f = Head(q) \/ Holds(Tail(q), f)
<1>1. Tail(q) \in Seq(Events) /\ Len(Tail(q)) = Len(q) - 1 /\ Len(q) \in Nat \ {0}
  OBVIOUS
<1>2. Head(q) = q[1] /\ 1 \in DOMAIN q /\ q[1] \in Events
  OBVIOUS
<1>3. ASSUME NEW i \in DOMAIN Tail(q)
      PROVE  i + 1 \in DOMAIN q /\ q[i + 1] = Tail(q)[i]
  BY <1>1
<1>4. ASSUME NEW i \in DOMAIN q, i # 1
      PROVE  \E j \in DOMAIN Tail(q) : Tail(q)[j] = q[i]
  <2>0. i \in 1 .. Len(q)
    OBVIOUS
  <2>1. PICK j \in 1 .. Len(q) - 1 : j + 1 = i
    <3>1. i - 1 \in 1 .. Len(q) - 1 /\ (i - 1) + 1 = i
      BY <1>1, <1>4, <2>0
    <3> QED
      BY <3>1
  <2>2. j \in DOMAIN Tail(q)
    BY <1>1
  <2> QED
    BY <1>3, <2>1, <2>2
<1>5. ASSUME Holds(q, f)
      PROVE  f = Head(q) \/ Holds(Tail(q), f)
  BY <1>2, <1>4, <1>5 DEF Holds
<1>6. ASSUME f = Head(q) \/ Holds(Tail(q), f)
      PROVE  Holds(q, f)
  BY <1>2, <1>3, <1>6 DEF Holds
<1> QED
  BY <1>1, <1>2, <1>5, <1>6

-----------------------------------------------------------------------------
(***************************************************************************)
(* What the steps do to the Publish calls and to the handlers.             *)
(***************************************************************************)
(* RUnlock, the end of Publish, and its beginning: only pc changes. *)
LEMMA PublishMoves ==
  ASSUME TypeOK, NEW e \in Events, NEW step \in PublishSteps,
         publish' = [publish EXCEPT ![e].pc = step]
  PROVE  /\ publish' \in [Events -> PublishCalls]
         /\ \A f \in Events : f # e => publish'[f] = publish[f]
         /\ publish'[e].pc = step
         /\ publish'[e].todo = publish[e].todo
         /\ publish'[e].overflowed = publish[e].overflowed
<1>1. publish \in [Events -> PublishCalls] /\ publish[e] \in PublishCalls
  BY DEF TypeOK
<1>2. publish' = [publish EXCEPT ![e] = [publish[e] EXCEPT !.pc = step]]
  BY <1>1
<1>3. [publish[e] EXCEPT !.pc = step] \in PublishCalls
  BY <1>1 DEF PublishCalls
<1>4. publish'[e] = [publish[e] EXCEPT !.pc = step]
  BY <1>1, <1>2
<1> QED
  BY <1>1, <1>2, <1>3, <1>4 DEF PublishCalls

(* RLock: the agent's registered streams become the ones to serve. *)
LEMMA RLockTakes ==
  ASSUME TypeOK, NEW e \in Events, RLock(e)
  PROVE  /\ publish' \in [Events -> PublishCalls]
         /\ \A f \in Events : f # e => publish'[f] = publish[f]
         /\ publish'[e].pc = "send"
         /\ publish'[e].todo = SubscribersOf(target[e[2]])
         /\ publish'[e].overflowed = {}
<1>1. publish \in [Events -> PublishCalls] /\ SubscribersOf(target[e[2]]) \subseteq Streams
  BY DEF TypeOK, SubscribersOf
<1>2. publish' = [publish EXCEPT ![e] = [pc |-> "send", overflowed |-> {},
                                        todo |-> SubscribersOf(target[e[2]])]]
  BY DEF RLock
<1> QED
  BY <1>1, <1>2 DEF PublishCalls, PublishSteps

(* SendTo: one stream fewer to serve, or one more found full. *)
LEMMA SendMoves ==
  ASSUME TypeOK, NEW e \in Events, NEW s \in Streams, SendTo(e, s)
  PROVE  /\ publish' \in [Events -> PublishCalls]
         /\ \A f \in Events : f # e => publish'[f] = publish[f]
         /\ publish'[e].pc = "send"
         /\ publish'[e].todo = publish[e].todo \ {s}
         /\ \/ /\ Len(queue[s]) < Capacity
               /\ publish'[e].overflowed = publish[e].overflowed
            \/ /\ Len(queue[s]) = Capacity
               /\ publish'[e].overflowed = publish[e].overflowed \cup {s}
<1>1. /\ publish \in [Events -> PublishCalls]
      /\ publish[e] \in PublishCalls /\ publish[e].pc = "send"
  BY DEF SendTo, TypeOK
<1>2. CASE /\ Len(queue[s]) < Capacity
           /\ publish' = [publish EXCEPT ![e].todo = @ \ {s}]
  BY <1>1, <1>2 DEF PublishCalls, PublishSteps
<1>3. CASE /\ Len(queue[s]) = Capacity
           /\ publish' = [publish EXCEPT ![e] =
                            [pc |-> "send", todo |-> @.todo \ {s},
                             overflowed |-> @.overflowed \cup {s}]]
  BY <1>1, <1>3 DEF PublishCalls, PublishSteps
<1> QED
  BY <1>2, <1>3 DEF SendTo

(* dropSubscriber: one stream fewer to drop. *)
LEMMA DropMoves ==
  ASSUME TypeOK, NEW e \in Events, NEW s \in Streams, dropSubscriber(e, s)
  PROVE  /\ publish' \in [Events -> PublishCalls]
         /\ \A f \in Events : f # e => publish'[f] = publish[f]
         /\ publish'[e].pc = "drop"
         /\ publish'[e].overflowed = publish[e].overflowed \ {s}
<1>1. /\ publish \in [Events -> PublishCalls]
      /\ publish[e] \in PublishCalls /\ publish[e].pc = "drop"
  BY DEF dropSubscriber, TypeOK
<1>2. publish' = [publish EXCEPT ![e].overflowed = @ \ {s}]
  BY DEF dropSubscriber
<1> QED
  BY <1>1, <1>2 DEF PublishCalls, PublishSteps

(* An events handler moves on and keeps its agent. *)
LEMMA HandlerMoves ==
  ASSUME TypeOK, NEW s \in Streams, NEW step \in StreamSteps, Goto(s, step)
  PROVE  /\ stream' \in [Streams -> Handlers]
         /\ \A t \in Streams : t # s => stream'[t] = stream[t]
         /\ stream'[s].pc = step
         /\ \A t \in Streams : stream'[t].agent = stream[t].agent
<1>1. stream \in [Streams -> Handlers] /\ stream[s] \in Handlers
  BY DEF TypeOK
<1>2. stream' = [stream EXCEPT ![s] = [stream[s] EXCEPT !.pc = step]]
  BY <1>1 DEF Goto
<1>3. [stream[s] EXCEPT !.pc = step] \in Handlers
  BY <1>1 DEF Handlers
<1>4. stream'[s] = [stream[s] EXCEPT !.pc = step]
  BY <1>1, <1>2
<1> QED
  BY <1>1, <1>2, <1>3, <1>4 DEF Handlers

(* An events handler learns its agent. *)
LEMMA AuthenticateMoves ==
  ASSUME TypeOK, NEW s \in Streams, NEW a \in Agents, Authenticate(s, a)
  PROVE  /\ stream' \in [Streams -> Handlers]
         /\ \A t \in Streams : t # s => stream'[t] = stream[t]
         /\ stream'[s].pc = "subscribe" /\ stream'[s].agent = a
BY DEF TypeOK, Authenticate, Handlers, StreamSteps

-----------------------------------------------------------------------------
(***************************************************************************)
(* What the steps do to Delivered.                                         *)
(***************************************************************************)
(* A step that touches neither buffers nor streams delivers nothing. *)
LEMMA DeliveredSame ==
  ASSUME UNCHANGED <<queue, written>>, NEW s, NEW e
  PROVE  Delivered(s, e)' <=> Delivered(s, e)
BY DEF Delivered, Holds

(* SendTo delivers its event to its stream, if there is room. *)
LEMMA DeliveredBySend ==
  ASSUME TypeOK, NEW e \in Events, NEW s \in Streams, SendTo(e, s),
         NEW t \in Streams, NEW f
  PROVE  Delivered(t, f)' <=>
           \/ Delivered(t, f)
           \/ t = s /\ f = e /\ Len(queue[s]) < Capacity
<1>1. written' = written /\ queue \in [Streams -> Seq(Events)]
  BY DEF SendTo, TypeOK
<1>2. CASE queue' = queue /\ Len(queue[s]) = Capacity
  BY <1>1, <1>2, HubConstants DEF Delivered, Holds
<1>3. CASE queue' = [queue EXCEPT ![s] = Append(@, e)] /\ Len(queue[s]) < Capacity
  <2>1. queue'[t] = IF t = s THEN Append(queue[s], e) ELSE queue[t]
    BY <1>1, <1>3
  <2>2. CASE t = s
    <3>1. Holds(Append(queue[s], e), f) <=> f = e \/ Holds(queue[s], f)
      BY <1>1, AppendHolds
    <3> QED
      BY <1>1, <1>3, <2>1, <2>2, <3>1 DEF Delivered, Holds
  <2>3. CASE t # s
    BY <1>1, <2>1, <2>3 DEF Delivered, Holds
  <2> QED
    BY <2>2, <2>3
<1> QED
  BY <1>2, <1>3 DEF SendTo

(* Forwarding moves an event from the buffer to the stream. *)
LEMMA DeliveredByForward ==
  ASSUME TypeOK, NEW s \in Streams, Forward(s), NEW t \in Streams, NEW f
  PROVE  Delivered(t, f)' <=> Delivered(t, f)
<1>1. /\ queue \in [Streams -> Seq(Events)] /\ written \in [Streams -> SUBSET Events]
      /\ queue[s] # <<>>
  BY DEF Forward, TypeOK
<1>2. /\ queue'[t] = IF t = s THEN Tail(queue[s]) ELSE queue[t]
      /\ written'[t] = IF t = s THEN written[s] \cup {Head(queue[s])} ELSE written[t]
  BY <1>1 DEF Forward
<1>3. CASE t = s
  <2>1. Holds(queue[s], f) <=> f = Head(queue[s]) \/ Holds(Tail(queue[s]), f)
    BY <1>1, TailHolds
  <2> QED
    BY <1>2, <1>3, <2>1 DEF Delivered, Holds
<1>4. CASE t # s
  BY <1>2, <1>4 DEF Delivered, Holds
<1> QED
  BY <1>3, <1>4

(* The replay delivers the agent's open requests. *)
LEMMA DeliveredByReplay ==
  ASSUME TypeOK, NEW s \in Streams, Replay(s), NEW t \in Streams, NEW f
  PROVE  Delivered(t, f)' <=>
           \/ Delivered(t, f)
           \/ t = s /\ \E r \in open : target[r] = stream[s].agent /\ f = PeerRequest(r)
<1>1. queue' = queue /\ written \in [Streams -> SUBSET Events]
  BY DEF Replay, TypeOK, channelVars
<1>2. written'[t] = IF t = s THEN written[s] \cup
                 {PeerRequest(r) : r \in {r \in open : target[r] = stream[s].agent}}
               ELSE written[t]
  BY <1>1 DEF Replay
<1> QED
  BY <1>1, <1>2 DEF Delivered, Holds

-----------------------------------------------------------------------------
(* Every variable keeps its type, and no channel overfills. *)
LEMMA TypeStep == TypeOK /\ [Next]_vars => TypeOK'
<1> SUFFICES ASSUME TypeOK, [Next]_vars PROVE TypeOK'
  OBVIOUS
<1>1. ASSUME NEW r \in Requests, CancelRequest(r) PROVE TypeOK'
  <2>1. publish' \in [Events -> PublishCalls]
    BY <1>1, RequestEvent, PublishMoves, "begin" \in PublishSteps
       DEF CancelRequest, Begin, PublishSteps
  <2> QED
    BY <1>1, <2>1 DEF CancelRequest, TypeOK, channelVars
<1>2. ASSUME NEW r \in Requests, NEW a \in Agents, CreateRequest(r, a) PROVE TypeOK'
  <2>1. publish' \in [Events -> PublishCalls]
    BY <1>2, RequestEvent, PublishMoves, "begin" \in PublishSteps
       DEF CreateRequest, Begin, PublishSteps
  <2> QED
    BY <1>2, <2>1 DEF CreateRequest, TypeOK, channelVars
<1>3. ASSUME NEW e \in Events, RLock(e) PROVE TypeOK'
  <2>1. publish' \in [Events -> PublishCalls]
    BY <1>3, RLockTakes
  <2> QED
    BY <1>3, <2>1 DEF RLock, TypeOK, channelVars, storeVars, Events
<1>4. ASSUME NEW e \in Events, NEW s \in Streams, SendTo(e, s) PROVE TypeOK'
  <2>1. Append(queue[s], e) \in Seq(Events) /\ Len(Append(queue[s], e)) = Len(queue[s]) + 1
    BY AppendHolds DEF TypeOK
  <2>2. CASE queue' = [queue EXCEPT ![s] = Append(@, e)] /\ Len(queue[s]) < Capacity
    <3>1. /\ queue' \in [Streams -> Seq(Events)]
          /\ \A t \in Streams : queue'[t] = IF t = s THEN Append(queue[s], e) ELSE queue[t]
      BY <2>1, <2>2 DEF TypeOK
    <3>2. \A t \in Streams : Len(queue'[t]) <= Capacity
      BY <2>1, <2>2, <3>1, HubConstants DEF TypeOK
    <3> QED
      BY <1>4, <3>1, <3>2, SendMoves DEF SendTo, TypeOK, storeVars
  <2>3. CASE queue' = queue
    BY <1>4, <2>3, SendMoves DEF SendTo, TypeOK, storeVars
  <2> QED
    BY <1>4, <2>2, <2>3 DEF SendTo
<1>5. ASSUME NEW e \in Events, RUnlock(e) \/ Published(e) PROVE TypeOK'
  <2>1. publish' \in [Events -> PublishCalls]
    BY <1>5, PublishMoves DEF RUnlock, Published, PublishSteps
  <2> QED
    BY <1>5, <2>1 DEF RUnlock, Published, TypeOK, channelVars, storeVars
<1>6. ASSUME NEW e \in Events, NEW s \in Streams, dropSubscriber(e, s) PROVE TypeOK'
  <2>1. publish' \in [Events -> PublishCalls]
    BY <1>6, DropMoves
  <2> QED
    BY <1>6, <2>1 DEF dropSubscriber, Detach, Close, TypeOK, storeVars
<1>7. ASSUME NEW s \in Streams, NEW a \in Agents, Authenticate(s, a) PROVE TypeOK'
  <2>1. stream' \in [Streams -> Handlers]
    BY <1>7, AuthenticateMoves
  <2> QED
    BY <1>7, <2>1 DEF Authenticate, TypeOK, channelVars, storeVars
<1>8. ASSUME NEW s \in Streams, Subscribe(s) PROVE TypeOK'
  <2>1. stream' \in [Streams -> Handlers]
    BY <1>8, HandlerMoves DEF Subscribe, StreamSteps
  <2> QED
    BY <1>8, <2>1 DEF Subscribe, TypeOK, storeVars
<1>9. ASSUME NEW s \in Streams,
             IsRevoked(s) \/ SeesClosed(s) \/ ReplayRefused(s) \/ Disconnect(s)
      PROVE  TypeOK'
  <2>1. stream' \in [Streams -> Handlers]
    BY <1>9, HandlerMoves DEF IsRevoked, SeesClosed, ReplayRefused, Disconnect,
                              StreamSteps
  <2> QED
    BY <1>9, <2>1 DEF IsRevoked, SeesClosed, ReplayRefused, Disconnect, TypeOK,
                      channelVars, storeVars
<1>10. ASSUME NEW s \in Streams, Replay(s) PROVE TypeOK'
  <2>1. {PeerRequest(r) : r \in {r \in open : target[r] = stream[s].agent}}
          \subseteq Events
    BY RequestEvent DEF TypeOK
  <2>2. written' \in [Streams -> SUBSET Events]
    BY <1>10, <2>1 DEF Replay, TypeOK
  <2>3. stream' \in [Streams -> Handlers]
    BY <1>10, HandlerMoves DEF Replay, StreamSteps
  <2> QED
    BY <1>10, <2>2, <2>3 DEF Replay, TypeOK, channelVars, storeVars
<1>11. ASSUME NEW s \in Streams, Forward(s) PROVE TypeOK'
  <2>1. /\ Tail(queue[s]) \in Seq(Events) /\ Head(queue[s]) \in Events
        /\ Len(Tail(queue[s])) <= Len(queue[s])
        /\ Len(queue[s]) \in Nat /\ Len(Tail(queue[s])) \in Nat
    BY <1>11, TailHolds DEF Forward, TypeOK
  <2>2. /\ queue' \in [Streams -> Seq(Events)]
        /\ written' \in [Streams -> SUBSET Events]
        /\ \A t \in Streams : queue'[t] = IF t = s THEN Tail(queue[s]) ELSE queue[t]
    BY <1>11, <2>1 DEF Forward, TypeOK
  <2>3. \A t \in Streams : Len(queue'[t]) <= Capacity
    BY <2>1, <2>2, HubConstants DEF TypeOK
  <2> QED
    BY <1>11, <2>2, <2>3 DEF Forward, TypeOK, storeVars
<1>12. ASSUME NEW s \in Streams, Unsubscribe(s) PROVE TypeOK'
  <2>1. stream' \in [Streams -> Handlers]
    BY <1>12, HandlerMoves DEF Unsubscribe, StreamSteps
  <2> QED
    BY <1>12, <2>1 DEF Unsubscribe, Detach, Close, TypeOK, storeVars
<1>13. ASSUME NEW a \in Agents, RevokeCredentials(a) PROVE TypeOK'
  BY <1>13 DEF RevokeCredentials, TypeOK, channelVars
<1>14. ASSUME NEW a \in Agents, Revoke(a) PROVE TypeOK'
  BY <1>14 DEF Revoke, Close, TypeOK, storeVars, SubscribersOf
<1>15. CASE UNCHANGED vars
  BY <1>15 DEF vars, TypeOK
<1> QED
  BY <1>1, <1>2, <1>3, <1>4, <1>5, <1>6, <1>7, <1>8, <1>9, <1>10, <1>11, <1>12,
     <1>13, <1>14, <1>15 DEF Next, PublishStep, StreamStep
-----------------------------------------------------------------------------
(* The channels, their registry and their handlers go together. *)
LEMMA ChannelStep == TypeOK /\ ChannelInv /\ [Next]_vars => ChannelInv'
<1> SUFFICES ASSUME TypeOK, ChannelInv, [Next]_vars PROVE ChannelInv'
  OBVIOUS
<1> DEFINE Parts == /\ NoPanic' /\ RegistryIsLive' /\ RevokedHaveNoSubscribers'
                    /\ FreshChannels' /\ HandlersAttached'
<1>0. SUFFICES Parts /\ SendersHoldTheLock'
  BY DEF ChannelInv
<1>1. ASSUME NEW e \in Events, Begin(e),
             UNCHANGED <<revoked, subscribers, channelVars, stream, written>>
      PROVE  Parts /\ SendersHoldTheLock'
  <2>1. \A f \in Events : publish'[f].pc = "send" => publish'[f] = publish[f]
    BY <1>1, PublishMoves DEF Begin, PublishSteps
  <2>2. SendersHoldTheLock'
    BY <1>1, <2>1 DEF ChannelInv, SendersHoldTheLock
  <2> QED
    BY <1>1, <2>2 DEF ChannelInv, NoPanic, RegistryIsLive, RevokedHaveNoSubscribers,
                      FreshChannels, HandlersAttached, channelVars
<1>2. ASSUME NEW e \in Events, RLock(e) PROVE Parts /\ SendersHoldTheLock'
  <2>1. SendersHoldTheLock'
    BY <1>2, RLockTakes DEF RLock, ChannelInv, SendersHoldTheLock, SubscribersOf
  <2> QED
    BY <1>2, <2>1 DEF RLock, ChannelInv, NoPanic, RegistryIsLive, FreshChannels,
                      RevokedHaveNoSubscribers, HandlersAttached, channelVars
<1>3. ASSUME NEW e \in Events, NEW s \in Streams, SendTo(e, s)
      PROVE  Parts /\ SendersHoldTheLock'
  <2>1. SendersHoldTheLock'
    BY <1>3, SendMoves DEF SendTo, ChannelInv, SendersHoldTheLock
  <2>2. s \in subscribers
    BY <1>3 DEF SendTo, ChannelInv, SendersHoldTheLock
  <2>3. s \notin closed /\ stream[s].pc \notin {"new", "subscribe"}
    BY <2>2 DEF ChannelInv, RegistryIsLive
  <2>4. \A t \in Streams : t # s => queue'[t] = queue[t]
    BY <1>3 DEF SendTo, TypeOK
  <2>5. FreshChannels'
    BY <1>3, <2>3, <2>4 DEF SendTo, ChannelInv, FreshChannels
  <2>6. NoPanic'
    BY <1>3, <2>3 DEF SendTo, ChannelInv, NoPanic
  <2> QED
    BY <1>3, <2>1, <2>5, <2>6 DEF SendTo, ChannelInv, RegistryIsLive,
                      RevokedHaveNoSubscribers, HandlersAttached
<1>4. ASSUME NEW e \in Events, RUnlock(e) \/ Published(e)
      PROVE  Parts /\ SendersHoldTheLock'
  <2>1. \A f \in Events : publish'[f].pc = "send" => publish'[f] = publish[f]
    BY <1>4, PublishMoves DEF RUnlock, Published, PublishSteps
  <2>2. SendersHoldTheLock'
    BY <1>4, <2>1 DEF RUnlock, Published, ChannelInv, SendersHoldTheLock
  <2> QED
    BY <1>4, <2>2 DEF RUnlock, Published, ChannelInv, NoPanic, RegistryIsLive,
                      RevokedHaveNoSubscribers, FreshChannels, HandlersAttached,
                      channelVars
<1>5. ASSUME NEW e \in Events, NEW s \in Streams, dropSubscriber(e, s)
      PROVE  Parts /\ SendersHoldTheLock'
  <2>1. /\ Unlocked
        /\ subscribers' = subscribers \ {s}
        /\ closed' = closed \cup ({s} \cap subscribers)
        /\ panicked' = (panicked \/ ({s} \cap subscribers) \cap closed # {})
        /\ UNCHANGED <<revoked, queue, stream, written>>
    BY <1>5 DEF dropSubscriber, Detach, Close
  <2>2. SendersHoldTheLock'
    BY <1>5, <2>1, DropMoves DEF Unlocked, SendersHoldTheLock
  <2>3. NoPanic'
    BY <2>1 DEF ChannelInv, NoPanic, RegistryIsLive
  <2>4. RegistryIsLive' /\ RevokedHaveNoSubscribers'
    BY <2>1 DEF ChannelInv, RegistryIsLive, RevokedHaveNoSubscribers
  <2>5. FreshChannels' /\ HandlersAttached'
    BY <2>1 DEF ChannelInv, RegistryIsLive, FreshChannels, HandlersAttached
  <2> QED
    BY <2>2, <2>3, <2>4, <2>5
<1>6. ASSUME NEW s \in Streams, NEW a \in Agents, Authenticate(s, a)
      PROVE  Parts /\ SendersHoldTheLock'
  <2>1. /\ stream[s].pc = "new"
        /\ \A t \in Streams : t # s => stream'[t] = stream[t]
        /\ stream'[s].pc = "subscribe"
        /\ UNCHANGED <<revoked, subscribers, queue, closed, panicked, written, publish>>
    BY <1>6, AuthenticateMoves DEF Authenticate, channelVars
  <2>2. s \notin subscribers /\ subscribers \subseteq Streams
    BY <2>1 DEF ChannelInv, RegistryIsLive, TypeOK
  <2>3. RegistryIsLive' /\ RevokedHaveNoSubscribers'
    BY <2>1, <2>2 DEF ChannelInv, RegistryIsLive, RevokedHaveNoSubscribers
  <2>4. FreshChannels' /\ HandlersAttached'
    BY <2>1 DEF ChannelInv, FreshChannels, HandlersAttached
  <2> QED
    BY <2>1, <2>3, <2>4 DEF ChannelInv, NoPanic, SendersHoldTheLock
<1>7. ASSUME NEW s \in Streams, Subscribe(s) PROVE Parts /\ SendersHoldTheLock'
  <2>1. /\ stream[s].pc = "subscribe"
        /\ \A t \in Streams : t # s => stream'[t] = stream[t]
        /\ stream'[s].pc = "check"
        /\ \A t \in Streams : stream'[t].agent = stream[t].agent
        /\ UNCHANGED <<revoked, queue, panicked, written, publish>>
    BY <1>7, HandlerMoves DEF Subscribe, StreamSteps
  <2>2. \/ /\ closed' = closed \cup {s} /\ subscribers' = subscribers
        \/ /\ stream[s].agent \notin revoked
           /\ subscribers' = subscribers \cup {s} /\ closed' = closed
    BY <1>7 DEF Subscribe
  <2>3. s \notin subscribers /\ s \notin closed /\ subscribers \subseteq Streams
    BY <2>1 DEF ChannelInv, RegistryIsLive, FreshChannels, TypeOK
  <2>4. SendersHoldTheLock'
    BY <2>1, <2>2 DEF ChannelInv, SendersHoldTheLock
  <2>5. RegistryIsLive' /\ RevokedHaveNoSubscribers'
    BY <2>1, <2>2, <2>3 DEF ChannelInv, RegistryIsLive, RevokedHaveNoSubscribers
  <2>6. FreshChannels' /\ HandlersAttached'
    BY <2>1, <2>2 DEF ChannelInv, FreshChannels, HandlersAttached
  <2> QED
    BY <2>1, <2>4, <2>5, <2>6 DEF ChannelInv, NoPanic
<1>8. ASSUME NEW s \in Streams, NEW step \in {"inbox", "loop", "return"}, Goto(s, step),
             stream[s].pc \in {"check", "inbox", "loop"},
             \A t \in Streams : t # s => written'[t] = written[t],
             UNCHANGED <<revoked, subscribers, channelVars, publish>>
      PROVE  Parts /\ SendersHoldTheLock'
  <2>1. /\ \A t \in Streams : t # s => stream'[t] = stream[t]
        /\ stream'[s].pc = step
        /\ \A t \in Streams : stream'[t].agent = stream[t].agent
    BY <1>8, HandlerMoves DEF StreamSteps
  <2>2. RegistryIsLive' /\ RevokedHaveNoSubscribers'
    BY <1>8, <2>1 DEF ChannelInv, RegistryIsLive, RevokedHaveNoSubscribers,
                      channelVars, TypeOK
  <2>3. FreshChannels' /\ HandlersAttached'
    BY <1>8, <2>1 DEF ChannelInv, FreshChannels, HandlersAttached, channelVars
  <2> QED
    BY <1>8, <2>2, <2>3 DEF ChannelInv, NoPanic, SendersHoldTheLock, channelVars
<1>9. ASSUME NEW s \in Streams, Replay(s) PROVE Parts /\ SendersHoldTheLock'
  <2>1. \A t \in Streams : t # s => written'[t] = written[t]
    BY <1>9 DEF Replay, TypeOK
  <2> QED
    BY <1>8, <1>9, <2>1 DEF Replay
<1>10. ASSUME NEW s \in Streams,
              IsRevoked(s) \/ SeesClosed(s) \/ ReplayRefused(s) \/ Disconnect(s)
       PROVE  Parts /\ SendersHoldTheLock'
  BY <1>8, <1>10 DEF IsRevoked, SeesClosed, ReplayRefused, Disconnect
<1>11. ASSUME NEW s \in Streams, Forward(s) PROVE Parts /\ SendersHoldTheLock'
  <2>1. /\ \A t \in Streams : t # s => queue'[t] = queue[t] /\ written'[t] = written[t]
        /\ stream[s].pc = "loop"
        /\ UNCHANGED <<revoked, subscribers, closed, panicked, stream, publish>>
    BY <1>11 DEF Forward, TypeOK
  <2>2. FreshChannels'
    BY <2>1 DEF ChannelInv, FreshChannels
  <2> QED
    BY <2>1, <2>2 DEF ChannelInv, NoPanic, RegistryIsLive, RevokedHaveNoSubscribers,
                      SendersHoldTheLock, HandlersAttached
<1>12. ASSUME NEW s \in Streams, Unsubscribe(s) PROVE Parts /\ SendersHoldTheLock'
  <2>1. /\ Unlocked
        /\ stream[s].pc = "return"
        /\ subscribers' = subscribers \ {s}
        /\ closed' = closed \cup ({s} \cap subscribers)
        /\ panicked' = (panicked \/ ({s} \cap subscribers) \cap closed # {})
        /\ UNCHANGED <<revoked, queue, written, publish>>
    BY <1>12 DEF Unsubscribe, Detach, Close
  <2>2. /\ \A t \in Streams : t # s => stream'[t] = stream[t]
        /\ stream'[s].pc = "done"
        /\ \A t \in Streams : stream'[t].agent = stream[t].agent
    BY <1>12, HandlerMoves DEF Unsubscribe, StreamSteps
  <2>3. SendersHoldTheLock'
    BY <2>1 DEF Unlocked, SendersHoldTheLock
  <2>4. NoPanic'
    BY <2>1 DEF ChannelInv, NoPanic, RegistryIsLive
  <2>5. RegistryIsLive' /\ RevokedHaveNoSubscribers'
    BY <2>1, <2>2 DEF ChannelInv, RegistryIsLive, RevokedHaveNoSubscribers, TypeOK
  <2>6. FreshChannels' /\ HandlersAttached'
    BY <2>1, <2>2 DEF ChannelInv, RegistryIsLive, FreshChannels, HandlersAttached
  <2> QED
    BY <2>3, <2>4, <2>5, <2>6
<1>13. ASSUME NEW a \in Agents, RevokeCredentials(a)
       PROVE  Parts /\ SendersHoldTheLock'
  BY <1>13 DEF RevokeCredentials, ChannelInv, NoPanic, RegistryIsLive, FreshChannels,
               RevokedHaveNoSubscribers, SendersHoldTheLock, HandlersAttached,
               channelVars
<1>14. ASSUME NEW a \in Agents, Revoke(a) PROVE Parts /\ SendersHoldTheLock'
  <2>1. /\ Unlocked
        /\ revoked' = revoked \cup {a}
        /\ subscribers' = subscribers \ SubscribersOf(a)
        /\ closed' = closed \cup SubscribersOf(a)
        /\ panicked' = (panicked \/ SubscribersOf(a) \cap closed # {})
        /\ UNCHANGED <<queue, stream, written, publish>>
    BY <1>14 DEF Revoke, Close
  <2>2. SendersHoldTheLock'
    BY <2>1 DEF Unlocked, SendersHoldTheLock
  <2>3. NoPanic'
    BY <2>1 DEF ChannelInv, NoPanic, RegistryIsLive, SubscribersOf
  <2>4. RegistryIsLive' /\ RevokedHaveNoSubscribers'
    BY <2>1 DEF ChannelInv, RegistryIsLive, RevokedHaveNoSubscribers, SubscribersOf
  <2>5. FreshChannels' /\ HandlersAttached'
    BY <2>1 DEF ChannelInv, RegistryIsLive, FreshChannels, HandlersAttached,
                SubscribersOf
  <2> QED
    BY <2>2, <2>3, <2>4, <2>5
<1>15. CASE UNCHANGED vars
  BY <1>15 DEF vars, ChannelInv, NoPanic, RegistryIsLive, RevokedHaveNoSubscribers,
               SendersHoldTheLock, FreshChannels, HandlersAttached
<1>16. ASSUME NEW r \in Requests,
              CancelRequest(r) \/ \E a \in Agents : CreateRequest(r, a)
       PROVE  Parts /\ SendersHoldTheLock'
  BY <1>1, <1>16, RequestEvent DEF CancelRequest, CreateRequest
<1> QED
  BY <1>2, <1>3, <1>4, <1>5, <1>6, <1>7, <1>9, <1>10, <1>11, <1>12, <1>13, <1>14,
     <1>15, <1>16 DEF Next, PublishStep, StreamStep
-----------------------------------------------------------------------------
(* Creation, publication and cancellation of a request come in this order. *)
LEMMA OrderStep == TypeOK /\ RequestOrder /\ [Next]_vars => RequestOrder'
<1> SUFFICES ASSUME TypeOK, RequestOrder, [Next]_vars PROVE RequestOrder'
  OBVIOUS
<1>1. ASSUME NEW r \in Requests, CancelRequest(r) PROVE RequestOrder'
  <2>1. /\ \A f \in Events : f # PeerCancelled(r) => publish'[f] = publish[f]
        /\ publish'[PeerCancelled(r)].pc = "begin"
        /\ r \in open /\ open' = open \ {r} /\ UNCHANGED <<target, overtaken>>
    BY <1>1, RequestEvent, PublishMoves DEF CancelRequest, Begin, PublishSteps
  <2> QED
    BY <2>1, RequestEvent, EventsDiffer DEF RequestOrder, Waiting
<1>2. ASSUME NEW r \in Requests, NEW a \in Agents, CreateRequest(r, a)
      PROVE  RequestOrder'
  <2>1. /\ \A f \in Events : f # PeerRequest(r) => publish'[f] = publish[f]
        /\ publish'[PeerRequest(r)].pc = "begin"
        /\ target[r] = Nobody /\ target' = [target EXCEPT ![r] = a]
        /\ open' = open \cup {r} /\ overtaken' = overtaken
    BY <1>2, RequestEvent, PublishMoves DEF CreateRequest, Begin, PublishSteps
  <2>2. target'[r] # Nobody /\ \A q \in Requests : q # r => target'[q] = target[q]
    BY <2>1, HubConstants DEF TypeOK
  <2>3. publish[PeerRequest(r)].pc = "none" /\ publish[PeerCancelled(r)].pc = "none"
    BY <2>1 DEF RequestOrder
  <2> QED
    BY <2>1, <2>2, <2>3, RequestEvent, EventsDiffer DEF RequestOrder, Waiting
<1>3. ASSUME NEW e \in Events, ~Waiting(e), ~Waiting(e)',
             \A f \in Events : f # e => publish'[f] = publish[f],
             UNCHANGED <<target, open, overtaken>>
      PROVE  RequestOrder'
  BY <1>3, RequestEvent, EventsDiffer DEF RequestOrder, Waiting
<1>4. ASSUME NEW e \in Events, RLock(e) PROVE RequestOrder'
  <2>1. /\ \A f \in Events : f # e => publish'[f] = publish[f]
        /\ publish[e].pc = "begin" /\ publish'[e].pc = "send"
        /\ UNCHANGED <<target, open>>
        /\ overtaken' = IF e = PeerCancelled(e[2]) /\ publish[PeerRequest(e[2])].pc = "begin"
                          THEN overtaken \cup {e[2]} ELSE overtaken
    BY <1>4, RLockTakes DEF RLock, storeVars
  <2>2. ASSUME NEW r \in Requests, ~Waiting(PeerCancelled(r))', r \notin overtaken'
        PROVE  ~Waiting(PeerRequest(r))'
    <3>1. CASE e = PeerCancelled(r)
      BY <2>1, <2>2, <3>1, RequestEvent, EventsDiffer DEF RequestOrder, Waiting
    <3>2. CASE e # PeerCancelled(r)
      BY <2>1, <2>2, <3>2, RequestEvent, EventsDiffer DEF RequestOrder, Waiting
    <3> QED
      BY <3>1, <3>2
  <2> QED
    BY <2>1, <2>2, RequestEvent, EventsDiffer DEF RequestOrder
<1>5. ASSUME NEW e \in Events, NEW s \in Streams, SendTo(e, s) PROVE RequestOrder'
  BY <1>3, <1>5, SendMoves DEF SendTo, storeVars, Waiting
<1>6. ASSUME NEW e \in Events, RUnlock(e) \/ Published(e) PROVE RequestOrder'
  <2>1. /\ ~Waiting(e) /\ ~Waiting(e)'
        /\ \A f \in Events : f # e => publish'[f] = publish[f]
        /\ UNCHANGED <<target, open, overtaken>>
    BY <1>6, PublishMoves DEF RUnlock, Published, PublishSteps, storeVars, Waiting
  <2> QED
    BY <1>3, <2>1
<1>7. ASSUME NEW e \in Events, NEW s \in Streams, dropSubscriber(e, s)
      PROVE  RequestOrder'
  BY <1>3, <1>7, DropMoves DEF dropSubscriber, storeVars, Waiting
<1>8. CASE UNCHANGED <<target, open, publish, overtaken>>
  BY <1>8 DEF RequestOrder, Waiting
<1>9. ASSUME NEW s \in Streams, StreamStep(s) \/ Disconnect(s)
                                \/ \E a \in Agents : Authenticate(s, a)
      PROVE  UNCHANGED <<target, open, publish, overtaken>>
  BY <1>9 DEF StreamStep, Subscribe, IsRevoked, Replay, ReplayRefused, Forward,
              SeesClosed, Unsubscribe, Disconnect, Authenticate, storeVars
<1>10. ASSUME NEW a \in Agents, RevokeCredentials(a) \/ Revoke(a)
       PROVE  UNCHANGED <<target, open, publish, overtaken>>
  BY <1>10 DEF RevokeCredentials, Revoke, storeVars
<1> QED
  BY <1>1, <1>2, <1>4, <1>5, <1>6, <1>7, <1>8, <1>9, <1>10
     DEF Next, PublishStep, vars

-----------------------------------------------------------------------------
(* An event reaches every stream of its agent, or is still outstanding. *)
LEMMA ReachStep ==
  TypeOK /\ ChannelInv /\ RequestOrder /\ RequestsReach /\ CancellationsReach /\ [Next]_vars
    => RequestsReach' /\ CancellationsReach'
<1> SUFFICES ASSUME TypeOK, ChannelInv, RequestOrder, RequestsReach, CancellationsReach,
                    [Next]_vars
             PROVE  RequestsReach' /\ CancellationsReach'
  OBVIOUS
<1>0. subscribers \subseteq Streams /\ open \subseteq Requests
  BY DEF TypeOK
<1>1. ASSUME NEW r \in Requests, CancelRequest(r)
      PROVE  RequestsReach' /\ CancellationsReach'
  <2>1. /\ \A f \in Events : f # PeerCancelled(r) => publish'[f] = publish[f]
        /\ publish'[PeerCancelled(r)].pc = "begin"
        /\ open' = open \ {r}
        /\ UNCHANGED <<target, subscribers, stream, queue, written, overtaken>>
    BY <1>1, RequestEvent, PublishMoves DEF CancelRequest, Begin, PublishSteps,
                                            channelVars
  <2>2. \A t \in Streams, f \in Events : Delivered(t, f)' <=> Delivered(t, f)
    BY <2>1, DeliveredSame
  <2>3. /\ \A t \in Streams, f \in Events : Outstanding(f, t) /\ f # PeerCancelled(r)
                                            => Outstanding(f, t)'
        /\ \A t \in Streams : Outstanding(PeerCancelled(r), t)'
    BY <2>1 DEF Outstanding
  <2>4. \A t \in Streams, q \in Requests : Reaching(PeerRequest(q), t)' <=> Reaching(PeerRequest(q), t)
    BY <2>1, <2>2, RequestEvent, EventsDiffer DEF Reaching
  <2>5. RequestsReach'
    BY <1>0, <2>1, <2>2, <2>3, RequestEvent, EventsDiffer DEF RequestsReach
  <2>6. CancellationsReach'
    BY <1>0, <2>1, <2>2, <2>3, <2>4, RequestEvent, EventsDiffer DEF CancellationsReach
  <2> QED
    BY <2>5, <2>6
<1>2. ASSUME NEW r \in Requests, NEW a \in Agents, CreateRequest(r, a)
      PROVE  RequestsReach' /\ CancellationsReach'
  <2>1. /\ \A f \in Events : f # PeerRequest(r) => publish'[f] = publish[f]
        /\ publish'[PeerRequest(r)].pc = "begin"
        /\ target[r] = Nobody /\ target' = [target EXCEPT ![r] = a]
        /\ open' = open \cup {r}
        /\ UNCHANGED <<subscribers, stream, queue, written, overtaken>>
    BY <1>2, RequestEvent, PublishMoves DEF CreateRequest, Begin, PublishSteps,
                                            channelVars
  <2>2. \A t \in Streams, f \in Events : Delivered(t, f)' <=> Delivered(t, f)
    BY <2>1, DeliveredSame
  <2>3. /\ \A t \in Streams, f \in Events : Outstanding(f, t) /\ f # PeerRequest(r)
                                            => Outstanding(f, t)'
        /\ \A t \in Streams : Outstanding(PeerRequest(r), t)'
    BY <2>1 DEF Outstanding
  <2>4. publish'[PeerCancelled(r)].pc = "none"
    BY <2>1, RequestEvent, EventsDiffer DEF RequestOrder
  <2>5. \A q \in Requests : q # r => target'[q] = target[q]
    BY <2>1 DEF TypeOK
  <2>6. RequestsReach'
    BY <1>0, <2>1, <2>2, <2>3, <2>5, RequestEvent, EventsDiffer DEF RequestsReach
  <2>7. \A t \in Streams, q \in Requests :
          q # r => (Reaching(PeerRequest(q), t)' <=> Reaching(PeerRequest(q), t))
    BY <2>1, <2>2, RequestEvent, EventsDiffer DEF Reaching
  <2>8. CancellationsReach'
    BY <1>0, <2>1, <2>2, <2>3, <2>4, <2>5, <2>7, RequestEvent, EventsDiffer
       DEF CancellationsReach
  <2> QED
    BY <2>6, <2>8
<1>3. ASSUME NEW e \in Events, RLock(e) PROVE RequestsReach' /\ CancellationsReach'
  <2>1. /\ \A f \in Events : f # e => publish'[f] = publish[f]
        /\ publish[e].pc = "begin" /\ publish'[e].pc = "send"
        /\ publish'[e].todo = SubscribersOf(target[e[2]])
        /\ UNCHANGED <<target, open, subscribers, stream, queue, written>>
        /\ overtaken \subseteq overtaken'
    BY <1>3, RLockTakes DEF RLock, storeVars, channelVars
  <2>2. \A t \in Streams, f \in Events : Delivered(t, f)' <=> Delivered(t, f)
    BY <2>1, DeliveredSame
  <2>3. ASSUME NEW t \in subscribers, NEW f \in Events,
               target[f[2]] = stream[t].agent, Outstanding(f, t)
        PROVE  Outstanding(f, t)'
    BY <2>1, <2>3 DEF Outstanding, SubscribersOf
  <2>4. RequestsReach'
    BY <1>0, <2>1, <2>2, <2>3, RequestEvent DEF RequestsReach
  <2>5. \A f \in Events : publish'[f].pc # "none" => publish[f].pc # "none"
    BY <2>1
  <2>6. ASSUME NEW t \in subscribers', NEW r \in Requests \ overtaken',
               target'[r] = stream'[t].agent,
               Reaching(PeerRequest(r), t)', publish'[PeerCancelled(r)].pc # "none"
        PROVE  Delivered(t, PeerCancelled(r))' \/ Outstanding(PeerCancelled(r), t)'
    <3>1. CASE Reaching(PeerRequest(r), t)
      BY <1>0, <2>1, <2>2, <2>3, <2>5, <2>6, <3>1, RequestEvent DEF CancellationsReach
    <3>2. CASE ~Reaching(PeerRequest(r), t)
      <4>1. e = PeerRequest(r)
        BY <1>0, <2>1, <2>2, <2>6, <3>2, RequestEvent DEF Reaching
      <4>2. publish[PeerCancelled(r)].pc = "begin"
        BY <2>1, <2>5, <2>6, <4>1, RequestEvent DEF RequestOrder, Waiting
      <4> QED
        BY <2>1, <4>1, <4>2, RequestEvent, EventsDiffer DEF Outstanding
    <3> QED
      BY <3>1, <3>2
  <2>7. CancellationsReach'
    BY <2>6 DEF CancellationsReach
  <2> QED
    BY <2>4, <2>7
<1>4. ASSUME NEW e \in Events, NEW s \in Streams, SendTo(e, s)
      PROVE  RequestsReach' /\ CancellationsReach'
  <2>1. /\ \A f \in Events : f # e => publish'[f] = publish[f]
        /\ publish[e].pc = "send" /\ publish'[e].pc = "send" /\ s \in publish[e].todo
        /\ publish'[e].todo = publish[e].todo \ {s}
        /\ \/ Len(queue[s]) < Capacity /\ publish'[e].overflowed = publish[e].overflowed
           \/ publish'[e].overflowed = publish[e].overflowed \cup {s}
        /\ UNCHANGED <<target, open, subscribers, stream, overtaken>>
    BY <1>4, SendMoves DEF SendTo, storeVars
  <2>2. \A t \in Streams, f \in Events :
          Delivered(t, f)' <=> \/ Delivered(t, f)
                               \/ t = s /\ f = e /\ Len(queue[s]) < Capacity
    BY <1>4, DeliveredBySend
  <2>3. ASSUME NEW t \in Streams, NEW f \in Events, Outstanding(f, t)
        PROVE  Outstanding(f, t)' \/ Delivered(t, f)'
    BY <2>1, <2>2, <2>3 DEF Outstanding
  <2>4. RequestsReach'
    BY <1>0, <2>1, <2>2, <2>3, RequestEvent DEF RequestsReach
  <2>5. \A t \in Streams, f \in Events : Reaching(f, t)' => Reaching(f, t)
    BY <2>1, <2>2 DEF Reaching
  <2>6. \A f \in Events : publish'[f].pc # "none" => publish[f].pc # "none"
    BY <2>1
  <2>7. CancellationsReach'
    BY <1>0, <2>1, <2>2, <2>3, <2>5, <2>6, RequestEvent DEF CancellationsReach
  <2> QED
    BY <2>4, <2>7
<1>5. ASSUME NEW e \in Events, RUnlock(e) \/ Published(e)
      PROVE  RequestsReach' /\ CancellationsReach'
  <2>1. /\ \A f \in Events : f # e => publish'[f] = publish[f]
        /\ \/ /\ publish[e].pc = "send" /\ publish[e].todo = {}
              /\ publish'[e].pc = "drop"
           \/ /\ publish[e].pc = "drop" /\ publish[e].overflowed = {}
              /\ publish'[e].pc = "done"
        /\ publish'[e].overflowed = publish[e].overflowed
        /\ UNCHANGED <<target, open, subscribers, stream, queue, written, overtaken>>
    BY <1>5, PublishMoves DEF RUnlock, Published, PublishSteps, storeVars, channelVars
  <2>2. \A t \in Streams, f \in Events : Delivered(t, f)' <=> Delivered(t, f)
    BY <2>1, DeliveredSame
  <2>3. \A t \in Streams, f \in Events : Outstanding(f, t) => Outstanding(f, t)'
    BY <2>1 DEF Outstanding
  <2>4. \A f \in Events : publish'[f].pc # "none" => publish[f].pc # "none"
    BY <2>1
  <2>5. \A t \in Streams, f \in Events : Reaching(f, t)' => Reaching(f, t)
    BY <2>1, <2>2 DEF Reaching
  <2> QED
    BY <1>0, <2>1, <2>2, <2>3, <2>4, <2>5, RequestEvent DEF RequestsReach, CancellationsReach
<1>6. ASSUME NEW e \in Events, NEW s \in Streams, dropSubscriber(e, s)
      PROVE  RequestsReach' /\ CancellationsReach'
  <2>1. /\ \A f \in Events : f # e => publish'[f] = publish[f]
        /\ publish[e].pc = "drop" /\ publish'[e].pc = "drop"
        /\ publish'[e].overflowed = publish[e].overflowed \ {s}
        /\ subscribers' = subscribers \ {s}
        /\ UNCHANGED <<target, open, stream, queue, written, overtaken>>
    BY <1>6, DropMoves DEF dropSubscriber, Detach, storeVars
  <2>2. \A t \in Streams, f \in Events : Delivered(t, f)' <=> Delivered(t, f)
    BY <2>1, DeliveredSame
  <2>3. \A t \in Streams, f \in Events : t # s /\ Outstanding(f, t) => Outstanding(f, t)'
    BY <2>1 DEF Outstanding
  <2>4. \A f \in Events : publish'[f].pc # "none" => publish[f].pc # "none"
    BY <2>1
  <2>5. \A t \in Streams, f \in Events : Reaching(f, t)' => Reaching(f, t)
    BY <2>1, <2>2 DEF Reaching
  <2> QED
    BY <1>0, <2>1, <2>2, <2>3, <2>4, <2>5, RequestEvent DEF RequestsReach, CancellationsReach
<1>7. ASSUME subscribers' \subseteq subscribers,
             \A t \in subscribers' : /\ stream'[t].agent = stream[t].agent
                                     /\ stream'[t].pc = "loop" => stream[t].pc = "loop",
             \A t \in Streams, f \in Events : Delivered(t, f)' <=> Delivered(t, f),
             UNCHANGED <<target, open, publish, overtaken>>
      PROVE  RequestsReach' /\ CancellationsReach'
  <2>1. \A t \in Streams, f \in Events : /\ Outstanding(f, t)' <=> Outstanding(f, t)
                                         /\ Reaching(f, t)' <=> Reaching(f, t)
    BY <1>7 DEF Outstanding, Reaching
  <2> QED
    BY <1>0, <1>7, <2>1, RequestEvent DEF RequestsReach, CancellationsReach
<1>8. ASSUME NEW s \in Streams, NEW a \in Agents, Authenticate(s, a)
      PROVE  RequestsReach' /\ CancellationsReach'
  <2>1. /\ stream[s].pc = "new"
        /\ \A t \in Streams : t # s => stream'[t] = stream[t]
        /\ UNCHANGED <<target, open, publish, subscribers, queue, written, overtaken>>
    BY <1>8, AuthenticateMoves DEF Authenticate, channelVars, storeVars
  <2>2. s \notin subscribers
    BY <2>1 DEF ChannelInv, RegistryIsLive
  <2>3. \A t \in Streams, f \in Events : Delivered(t, f)' <=> Delivered(t, f)
    BY <2>1, DeliveredSame
  <2> QED
    BY <1>0, <1>7, <2>1, <2>2, <2>3
<1>9. ASSUME NEW s \in Streams, Subscribe(s) PROVE RequestsReach' /\ CancellationsReach'
  <2>1. /\ stream[s].pc = "subscribe" /\ stream'[s].pc = "check"
        /\ \A t \in Streams : t # s => stream'[t] = stream[t]
        /\ subscribers' \subseteq subscribers \cup {s}
        /\ UNCHANGED <<target, open, publish, queue, written, overtaken>>
    BY <1>9, HandlerMoves DEF Subscribe, StreamSteps, storeVars
  <2>2. \A f \in Events : ~Delivered(s, f)
    BY <2>1 DEF ChannelInv, FreshChannels, Delivered, Holds
  <2>3. \A t \in Streams, f \in Events : Delivered(t, f)' <=> Delivered(t, f)
    BY <2>1, DeliveredSame
  <2>4. \A t \in Streams, f \in Events : /\ Outstanding(f, t)' <=> Outstanding(f, t)
                                         /\ Reaching(f, t)' <=> Reaching(f, t)
    BY <2>1, <2>3 DEF Outstanding, Reaching
  <2>5. \A f \in Events : ~Reaching(f, s)
    BY <2>1, <2>2 DEF ChannelInv, RegistryIsLive, SendersHoldTheLock, Reaching
  <2> QED
    BY <1>0, <2>1, <2>3, <2>4, <2>5, RequestEvent DEF RequestsReach, CancellationsReach
<1>10. ASSUME NEW s \in Streams,
              IsRevoked(s) \/ SeesClosed(s) \/ ReplayRefused(s) \/ Disconnect(s)
       PROVE  RequestsReach' /\ CancellationsReach'
  <2>1. /\ \A t \in Streams : t # s => stream'[t] = stream[t]
        /\ stream'[s].pc # "loop"
        /\ \A t \in Streams : stream'[t].agent = stream[t].agent
        /\ UNCHANGED <<target, open, publish, subscribers, queue, written, overtaken>>
    BY <1>10, HandlerMoves DEF IsRevoked, SeesClosed, ReplayRefused, Disconnect,
                               StreamSteps, storeVars, channelVars
  <2>2. \A t \in Streams, f \in Events : Delivered(t, f)' <=> Delivered(t, f)
    BY <2>1, DeliveredSame
  <2> QED
    BY <1>0, <1>7, <2>1, <2>2
<1>11. ASSUME NEW s \in Streams, Replay(s) PROVE RequestsReach' /\ CancellationsReach'
  <2>1. /\ \A t \in Streams : t # s => stream'[t] = stream[t]
        /\ \A t \in Streams : stream'[t].agent = stream[t].agent
        /\ UNCHANGED <<target, open, publish, subscribers, overtaken>>
    BY <1>11, HandlerMoves DEF Replay, StreamSteps, storeVars
  <2>2. \A t \in Streams, f \in Events :
          Delivered(t, f)' <=>
            \/ Delivered(t, f)
            \/ t = s /\ \E r \in open : target[r] = stream[s].agent /\ f = PeerRequest(r)
    BY <1>11, DeliveredByReplay
  <2>3. \A t \in Streams, f \in Events : Outstanding(f, t)' <=> Outstanding(f, t)
    BY <2>1 DEF Outstanding
  <2>4. RequestsReach'
    BY <1>0, <2>1, <2>2, <2>3, RequestEvent DEF RequestsReach
  <2>5. ASSUME NEW t \in Streams, NEW r \in Requests, Reaching(PeerRequest(r), t)',
               publish[PeerCancelled(r)].pc # "none"
        PROVE  Reaching(PeerRequest(r), t)
    BY <1>0, <2>1, <2>2, <2>5, RequestEvent, EventsDiffer DEF RequestOrder, Reaching
  <2>6. CancellationsReach'
    BY <1>0, <2>1, <2>2, <2>3, <2>5, RequestEvent DEF CancellationsReach
  <2> QED
    BY <2>4, <2>6
<1>12. ASSUME NEW s \in Streams, Forward(s) PROVE RequestsReach' /\ CancellationsReach'
  <2>1. \A t \in Streams, f \in Events : Delivered(t, f)' <=> Delivered(t, f)
    BY <1>12, DeliveredByForward
  <2> QED
    BY <1>0, <1>7, <1>12, <2>1 DEF Forward, storeVars
<1>13. ASSUME NEW s \in Streams, Unsubscribe(s)
       PROVE  RequestsReach' /\ CancellationsReach'
  <2>1. /\ \A t \in Streams : t # s => stream'[t] = stream[t]
        /\ stream'[s].pc = "done"
        /\ \A t \in Streams : stream'[t].agent = stream[t].agent
        /\ subscribers' = subscribers \ {s}
        /\ UNCHANGED <<target, open, publish, queue, written, overtaken>>
    BY <1>13, HandlerMoves DEF Unsubscribe, Detach, StreamSteps, storeVars
  <2>2. \A t \in Streams, f \in Events : Delivered(t, f)' <=> Delivered(t, f)
    BY <2>1, DeliveredSame
  <2> QED
    BY <1>0, <1>7, <2>1, <2>2
<1>14. ASSUME NEW a \in Agents, RevokeCredentials(a) \/ Revoke(a)
       PROVE  RequestsReach' /\ CancellationsReach'
  <2>1. /\ subscribers' \subseteq subscribers
        /\ UNCHANGED <<target, open, publish, stream, queue, written, overtaken>>
    BY <1>14 DEF RevokeCredentials, Revoke, storeVars, channelVars
  <2>2. \A t \in Streams, f \in Events : Delivered(t, f)' <=> Delivered(t, f)
    BY <2>1, DeliveredSame
  <2> QED
    BY <1>7, <2>1, <2>2
<1>15. CASE UNCHANGED vars
  <2>1. \A t \in Streams, f \in Events : Delivered(t, f)' <=> Delivered(t, f)
    BY <1>15, DeliveredSame DEF vars
  <2> QED
    BY <1>7, <1>15, <2>1 DEF vars
<1> QED
  BY <1>1, <1>2, <1>3, <1>4, <1>5, <1>6, <1>8, <1>9, <1>10, <1>11, <1>12, <1>13,
     <1>14, <1>15 DEF Next, PublishStep, StreamStep

-----------------------------------------------------------------------------
(* The empty hub of NewHub satisfies the invariant. *)
LEMMA InitEstablishes == Init => HubInv
<1> SUFFICES ASSUME Init PROVE HubInv
  OBVIOUS
<1>1. TypeOK
  <2>1. NotPublished \in PublishCalls
    BY DEF NotPublished, PublishCalls, PublishSteps
  <2>2. [pc |-> "new", agent |-> Nobody] \in Handlers
    BY DEF Handlers, StreamSteps
  <2>3. <<>> \in Seq(Events) /\ Len(<<>>) <= Capacity
    BY HubConstants
  <2> QED
    BY <2>1, <2>2, <2>3 DEF Init, TypeOK
<1>2. ChannelInv
  BY DEF Init, ChannelInv, NoPanic, RegistryIsLive, RevokedHaveNoSubscribers,
         SendersHoldTheLock, FreshChannels, HandlersAttached, NotPublished
<1>3. RequestOrder
  BY RequestEvent DEF Init, RequestOrder, Waiting, NotPublished
<1>4. RequestsReach /\ CancellationsReach
  BY DEF Init, RequestsReach, CancellationsReach
<1> QED
  BY <1>1, <1>2, <1>3, <1>4 DEF HubInv

(* HubInv holds in every reachable state: the channels, their registry,    *)
(* their handlers and the Publish calls in progress always agree.          *)
THEOREM HubInvariant == Spec => []HubInv
<1>1. HubInv /\ [Next]_vars => HubInv'
  BY TypeStep, ChannelStep, OrderStep, ReachStep DEF HubInv
<1> QED
  BY <1>1, InitEstablishes, PTL DEF Spec

(* Every variable keeps its type; a channel never exceeds its capacity     *)
(* (Subscribe's make(chan event, 32)).                                     *)
THEOREM HubTypeCorrect == Spec => []TypeOK
<1>1. HubInv => TypeOK
  BY DEF HubInv
<1> QED
  BY <1>1, HubInvariant, PTL

(* No channel is closed twice or written to after it was closed (Publish,  *)
(* dropSubscriber, Revoke and the unsubscribe function of hub.go).         *)
THEOREM ChannelsAreNotMisused == Spec => []NoPanic
<1>1. HubInv => NoPanic
  BY DEF HubInv, ChannelInv
<1> QED
  BY <1>1, HubInvariant, PTL

(* A stream that stays open misses no request and no cancellation, for any *)
(* channel capacity (Publish and the events handler), except the           *)
(* cancellation of a request whose announcement it overtook.               *)
THEOREM OpenStreamsMissNothing == Spec => []LiveStreamsMissNothing
<1>1. ASSUME HubInv PROVE LiveStreamsMissNothing
  <2> SUFFICES ASSUME NEW s \in Streams, NEW r \in Requests,
                      stream[s].pc = "loop", s \notin closed,
                      target[r] = stream[s].agent
               PROVE  /\ r \in open /\ publish[PeerRequest(r)].pc = "done"
                           => Delivered(s, PeerRequest(r))
                      /\ publish[PeerCancelled(r)].pc = "done" /\ Delivered(s, PeerRequest(r))
                           => Delivered(s, PeerCancelled(r)) \/ r \in overtaken
    BY DEF LiveStreamsMissNothing
  <2>1. s \in subscribers
    BY <1>1 DEF HubInv, ChannelInv, HandlersAttached
  <2>2. \A e : publish[e].pc = "done" => ~Outstanding(e, s)
    BY DEF Outstanding
  <2> QED
    BY <1>1, <2>1, <2>2 DEF HubInv, RequestsReach, CancellationsReach, Reaching
<1> QED
  BY <1>1, HubInvariant, PTL

(* After Hub.Revoke no stream of the agent is registered, or will be.      *)
THEOREM RevocationSticks == Spec => []RevokedHaveNoSubscribers
<1>1. HubInv => RevokedHaveNoSubscribers
  BY DEF HubInv, ChannelInv
<1> QED
  BY <1>1, HubInvariant, PTL

(* The registry holds only open channels of handlers that have not         *)
(* returned (Subscribe and its unsubscribe function).                      *)
THEOREM RegistryDoesNotLeak == Spec => []RegistryIsLive
<1>1. HubInv => RegistryIsLive
  BY DEF HubInv, ChannelInv
<1> QED
  BY <1>1, HubInvariant, PTL
=============================================================================
