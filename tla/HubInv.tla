------------------------------- MODULE HubInv -------------------------------
(***************************************************************************)
(* The inductive invariant of Hub: why no channel is misused and no open   *)
(* stream misses an event.                                                 *)
(***************************************************************************)
EXTENDS Hub

(* A Publish that holds the read lock sends only to registered channels,   *)
(* since nobody can take the write lock to close one.                      *)
SendersHoldTheLock ==
  \A e \in Events : publish[e].pc = "send" => publish[e].todo \subseteq subscribers

(* A handler that has not subscribed owns a fresh channel. *)
FreshChannels ==
  \A s \in Streams : stream[s].pc \in {"new", "subscribe"} =>
    /\ s \notin closed
    /\ queue[s] = <<>>
    /\ written[s] = {}

(* A handler at work is registered, or its channel is closed. *)
HandlersAttached ==
  \A s \in Streams : stream[s].pc \in {"check", "inbox", "loop"} =>
    s \in subscribers \cup closed

(* The channels, their registry and their handlers agree. *)
ChannelInv ==
  /\ NoPanic
  /\ RegistryIsLive
  /\ RevokedHaveNoSubscribers
  /\ SendersHoldTheLock
  /\ FreshChannels
  /\ HandlersAttached

(* How far a publication is: not yet sending. *)
Waiting(e) == publish[e].pc \in {"none", "begin"}

(* A request is created, then perhaps cancelled; its announcement begins   *)
(* to be sent before its cancellation does unless it was overtaken.        *)
RequestOrder ==
  \A r \in Requests :
    /\ target[r] = Nobody => publish[PeerRequest(r)].pc = "none"
    /\ r \in open => publish[PeerRequest(r)].pc # "none"
    /\ r \in open => publish[PeerCancelled(r)].pc = "none"
    /\ publish[PeerCancelled(r)].pc # "none" => publish[PeerRequest(r)].pc # "none"
    /\ ~Waiting(PeerCancelled(r)) /\ r \notin overtaken => ~Waiting(PeerRequest(r))

(* Publish of e has yet to reach stream s, or has found it full. *)
Outstanding(e, s) ==
  \/ publish[e].pc = "begin"
  \/ publish[e].pc = "send" /\ s \in publish[e].todo
  \/ publish[e].pc \in {"send", "drop"} /\ s \in publish[e].overflowed

(* An open request has reached every forwarding stream of its agent, or    *)
(* its Publish still has to deal with that stream.                         *)
RequestsReach ==
  \A s \in subscribers, r \in open :
    stream[s].pc = "loop" /\ target[r] = stream[s].agent =>
      Delivered(s, PeerRequest(r)) \/ Outstanding(PeerRequest(r), s)

(* A cancellation follows its request to every stream the request reached  *)
(* or is about to reach.                                                   *)
Reaching(e, s) == Delivered(s, e) \/ (publish[e].pc = "send" /\ s \in publish[e].todo)

CancellationsReach ==
  \A s \in subscribers, r \in Requests \ overtaken :
    /\ target[r] = stream[s].agent
    /\ Reaching(PeerRequest(r), s)
    /\ publish[PeerCancelled(r)].pc # "none"
    => Delivered(s, PeerCancelled(r)) \/ Outstanding(PeerCancelled(r), s)

HubInv ==
  /\ TypeOK
  /\ ChannelInv
  /\ RequestOrder
  /\ RequestsReach
  /\ CancellationsReach
=============================================================================
