------------------------------ MODULE Presence ------------------------------
(***************************************************************************)
(* The agent directory of collaboration/store.go and its eviction: cards   *)
(* that live for one TTL, the set of known agents beside them, and the     *)
(* tombstones of revoked agents.  A heartbeat and a revocation meet in a   *)
(* WATCH of the tombstone set; a listing reads and repairs key by key.     *)
(***************************************************************************)
EXTENDS Integers, FiniteSets

CONSTANTS Agents, Listers

VARIABLES cards,      \* agents whose card key exists
          agents,     \* the set behind agentsKey
          revoked,    \* the set behind revokedAgentsKey
          admitted,   \* agents whose credential still authenticates
          evicted,    \* agents whose eviction has committed
          beat,       \* per agent: its heartbeat in flight, with the watched set
          list,       \* per lister: its ListAgents call in flight
          seen        \* history: agents revoked when the listing began

vars == <<cards, agents, revoked, admitted, evicted, beat, list, seen>>
keys == <<cards, agents, revoked>>

NoBeat == [step |-> "idle", watched |-> {}]
NoList == [step |-> "idle", ids |-> {}, revoked |-> {}, at |-> {}, result |-> {}]

Init ==
  /\ cards = {} /\ agents = {} /\ revoked = {} /\ evicted = {}
  /\ admitted = Agents
  /\ beat = [a \in Agents |-> NoBeat]
  /\ list = [l \in Listers |-> NoList]
  /\ seen = [l \in Listers |-> {}]

-----------------------------------------------------------------------------
(* The handler authenticates once; Heartbeat then watches and reads.       *)
HeartbeatArrives(a) ==
  /\ a \in admitted /\ beat[a].step = "idle"
  /\ beat' = [beat EXCEPT ![a].step = "watch"]
  /\ UNCHANGED <<keys, admitted, evicted, list, seen>>

HeartbeatWatch(a) ==
  /\ beat[a].step = "watch"
  /\ beat' = [beat EXCEPT ![a] = IF a \in revoked THEN NoBeat
                                 ELSE [step |-> "exec", watched |-> revoked]]
  /\ UNCHANGED <<keys, admitted, evicted, list, seen>>

(* Mutant: the tombstones are read but not watched.                        *)
ExecUnwatched(a) ==
  /\ beat[a].step = "exec"
  /\ cards' = cards \cup {a} /\ agents' = agents \cup {a}
  /\ beat' = [beat EXCEPT ![a] = NoBeat]
  /\ UNCHANGED <<revoked, admitted, evicted, list, seen>>

HeartbeatExec(a) ==
  /\ beat[a].step = "exec" /\ revoked = beat[a].watched
  /\ cards' = cards \cup {a} /\ agents' = agents \cup {a}
  /\ beat' = [beat EXCEPT ![a] = NoBeat]
  /\ UNCHANGED <<revoked, admitted, evicted, list, seen>>

(* A failed transaction reads again; after five attempts the call fails.   *)
HeartbeatRetry(a) ==
  /\ beat[a].step = "exec" /\ revoked # beat[a].watched
  /\ \E next \in {NoBeat, [step |-> "watch", watched |-> {}]} :
       beat' = [beat EXCEPT ![a] = next]
  /\ UNCHANGED <<keys, admitted, evicted, list, seen>>

(* agentTTL passes without a heartbeat; the set keeps the identity.        *)
CardExpires(a) ==
  /\ a \in cards
  /\ cards' = cards \ {a}
  /\ UNCHANGED <<agents, revoked, admitted, evicted, beat, list, seen>>

-----------------------------------------------------------------------------
(* RevokeDevice and RevokeMember commit credential and tombstone together. *)
RevokeAgent(a) ==
  /\ a \in admitted
  /\ admitted' = admitted \ {a} /\ revoked' = revoked \cup {a}
  /\ UNCHANGED <<cards, agents, evicted, beat, list, seen>>

(* evictPresence, later and in a transaction of its own.                   *)
evictPresence(a) ==
  /\ a \in revoked \ evicted
  /\ revoked' = revoked \cup {a}
  /\ agents' = agents \ {a} /\ cards' = cards \ {a}
  /\ evicted' = evicted \cup {a}
  /\ UNCHANGED <<admitted, beat, list, seen>>

-----------------------------------------------------------------------------
ListMembers(l) ==
  /\ list[l].step = "idle"
  /\ list' = [list EXCEPT ![l] = [NoList EXCEPT !.step = "revoked", !.ids = agents]]
  /\ seen' = [seen EXCEPT ![l] = revoked]
  /\ UNCHANGED <<keys, admitted, evicted, beat>>

ListRevoked(l) ==
  /\ list[l].step = "revoked"
  /\ list' = [list EXCEPT ![l].step = "each", ![l].revoked = revoked]
  /\ UNCHANGED <<keys, admitted, evicted, beat, seen>>

(* One identity: revoked, without a card, or listed.                       *)
ListEach(l, a) ==
  /\ list[l].step = "each" /\ a \in list[l].ids
  /\ list' = [list EXCEPT
       ![l].ids = @ \ {a},
       ![l].step = IF a \in list[l].revoked THEN "drop"
                   ELSE IF a \notin cards THEN "repair" ELSE "each",
       ![l].at = IF a \in list[l].revoked \/ a \notin cards THEN {a} ELSE {},
       ![l].result = IF a \in cards \ list[l].revoked THEN @ \cup {a} ELSE @]
  /\ UNCHANGED <<keys, admitted, evicted, beat, seen>>

(* SRem of an identity whose card had expired when it was read.            *)
ListRepair(l) ==
  /\ list[l].step = "repair"
  /\ agents' = agents \ list[l].at
  /\ list' = [list EXCEPT ![l].step = "each", ![l].at = {}]
  /\ UNCHANGED <<cards, revoked, admitted, evicted, beat, seen>>

(* SRem, then Del, of a revoked identity.                                  *)
ListDropMember(l) ==
  /\ list[l].step = "drop"
  /\ agents' = agents \ list[l].at
  /\ list' = [list EXCEPT ![l].step = "del"]
  /\ UNCHANGED <<cards, revoked, admitted, evicted, beat, seen>>

ListDropCard(l) ==
  /\ list[l].step = "del"
  /\ cards' = cards \ list[l].at
  /\ list' = [list EXCEPT ![l].step = "each", ![l].at = {}]
  /\ UNCHANGED <<agents, revoked, admitted, evicted, beat, seen>>

ListAnswer(l) ==
  /\ list[l].step = "each" /\ list[l].ids = {}
  /\ list' = [list EXCEPT ![l].step = "answered"]
  /\ UNCHANGED <<keys, admitted, evicted, beat, seen>>

ListReturn(l) ==
  /\ list[l].step = "answered"
  /\ list' = [list EXCEPT ![l] = NoList]
  /\ seen' = [seen EXCEPT ![l] = {}]
  /\ UNCHANGED <<keys, admitted, evicted, beat>>

-----------------------------------------------------------------------------
Heartbeat(a) ==
  HeartbeatArrives(a) \/ HeartbeatWatch(a) \/ HeartbeatExec(a) \/ HeartbeatRetry(a)

ListAgents(l) ==
  \/ ListMembers(l) \/ ListRevoked(l) \/ ListRepair(l)
  \/ ListDropMember(l) \/ ListDropCard(l) \/ ListAnswer(l) \/ ListReturn(l)
  \/ \E a \in Agents : ListEach(l, a)

Next ==
  \/ \E a \in Agents : Heartbeat(a) \/ CardExpires(a) \/ RevokeAgent(a) \/ evictPresence(a)
  \/ \E l \in Listers : ListAgents(l)

Spec == Init /\ [][Next]_vars

(* Devices heartbeat on a ticker, and the server's handlers proceed.       *)
FairSpec == Spec /\ \A a \in Agents : WF_vars(Heartbeat(a))

-----------------------------------------------------------------------------
(* The state's shape; an agent is revoked exactly when not admitted.       *)
TypeOK ==
  /\ cards \subseteq Agents /\ agents \subseteq Agents
  /\ revoked = Agents \ admitted /\ evicted \subseteq revoked
  /\ \A a \in Agents : beat[a].step \in {"idle", "watch", "exec"} /\ beat[a].watched \subseteq Agents
  /\ \A l \in Listers : list[l].ids \cup list[l].result \cup list[l].at \subseteq Agents

(***************************************************************************)
(* A heartbeat that was admitted before the revocation cannot bring the    *)
(* agent back once evictPresence has run, whatever it had read by then.    *)
(***************************************************************************)
EvictedStaysOut == evicted \cap (cards \cup agents) = {}

(***************************************************************************)
(* A listing that began after an agent's revocation does not name it, even *)
(* before its presence is evicted.                                         *)
(***************************************************************************)
RevokedIsNotListed ==
  \A l \in Listers : list[l].step = "answered" => list[l].result \cap seen[l] = {}

(***************************************************************************)
(* A listing that removes an agent on the word of an expired card can race *)
(* the agent's next heartbeat and leave a card outside the set; a live     *)
(* device does not stay invisible.                                         *)
(***************************************************************************)
LiveAgentReturns ==
  \A a \in Agents :
    (a \in cards /\ a \notin agents) ~> (a \in agents \/ a \notin cards \/ a \in revoked)

(***************************************************************************)
(* The agent directory over racing heartbeats, listings and evictions: who *)
(* was evicted stays out, who was revoked is not listed.                   *)
(***************************************************************************)
DirectorySound == TypeOK /\ EvictedStaysOut /\ RevokedIsNotListed
=============================================================================
