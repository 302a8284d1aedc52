------------------------------ MODULE MCStores ------------------------------
(***************************************************************************)
(* The state that concurrent calls share, for TLC: creation of requests,   *)
(* as concurrent retries under one key ("retries") and as several requests *)
(* to one inbox ("inbox"), presence, and the receiver's controller with    *)
(* its locks and sessions.  The components share no state, so each         *)
(* behaviour is one of its `subject`, with the others at rest.             *)
(***************************************************************************)
EXTENDS Creation

CONSTANTS p2, i1, i2, k1, x,     \* a call, the identities, a key, a content
          Agents, Listers,
          Executions, Conversations, Locks, MaxConcurrent, MaxSession

VARIABLES subject,
          cards, agents, revoked, admitted, evicted, beat, list, seen,
          pc, conv, lock, cancelled, locks, refs, gate, sem, stored,
          sessions, disk, last, sessionsUsed

Agency  == INSTANCE Presence
Control == INSTANCE Controller

ASSUME ControllerAssumption == Control!ControllerConstants

creationVars == <<now, requests, idem, inbox, call, answers, used, known>>
presenceVars == <<cards, agents, revoked, admitted, evicted, beat, list, seen>>
controlVars  == <<pc, conv, lock, cancelled, locks, refs, gate, sem, stored,
                  sessions, disk, last, sessionsUsed>>
suiteVars == <<subject, creationVars, presenceVars, controlVars, faults>>

SuiteInit ==
  /\ subject \in {"retries", "inbox", "presence", "controller"}
  /\ Init /\ Agency!Init /\ Control!Init

(***************************************************************************)
(* Identities, keys and contents are interchangeable: i2 is drawn only     *)
(* when i1 is taken, another key or content comes only after the first.    *)
(***************************************************************************)
InOrder ==
  \A c \in Calls :
    /\ call'[c].id = i2 /\ call[c].id # i2 =>
         i1 \in used \/ \E d \in Calls : call[d].id = i1
    /\ call[c] = NoCall /\ call'[c].key \notin {k1, None} => used # {}
    /\ call[c] = NoCall /\ call'[c].content \notin {x, None} =>
         used # {} \/ \E d \in Calls : call[d].content = x

(* What the requester does in each subject.                                *)
Within ==
  /\ subject = "retries" => now' <= Retention /\ \A c \in Calls : call'[c].key \in {k1, None}
  /\ subject = "inbox" => call'[p2] = NoCall /\ \A c \in Calls : call'[c].content \in {x, None}

SuiteNext ==
  /\ UNCHANGED subject
  /\ \/ /\ subject \in {"retries", "inbox"} /\ Next
        /\ InOrder /\ Within
        /\ UNCHANGED <<presenceVars, controlVars>>
     \/ /\ subject = "presence" /\ Agency!Next
        /\ UNCHANGED <<creationVars, controlVars, faults>>
     \/ /\ subject = "controller" /\ Control!Next
        /\ UNCHANGED <<creationVars, presenceVars>>

(* The fairness of each component, in the behaviours it is the subject of. *)
Creates  == subject \in {"retries", "inbox"}
Lists    == subject = "presence"
Executes == subject = "controller"

SuiteFairness ==
  /\ WF_creationVars(Creates /\ Reconcile)
  /\ \A c \in Calls : WF_creationVars(Creates /\ Step(c))
  /\ \A a \in Agents : WF_presenceVars(Lists /\ Agency!Heartbeat(a))
  /\ \A e \in Executions : SF_controlVars(Executes /\ Control!Step(e))

SuiteSpec == SuiteInit /\ [][SuiteNext]_suiteVars /\ SuiteFairness

-----------------------------------------------------------------------------
(* Who was evicted stays out of the directory, who was revoked is not      *)
(* listed (Presence).                                                      *)
DirectorySound == Agency!DirectorySound

(* Turns of a conversation exclude each other, resume the latest session   *)
(* and leave no lock (Controller).                                         *)
TurnsSound == Control!TurnsSound

(***************************************************************************)
(* heartbeatLoop repairs what was lost: the recipient learns of a request  *)
(* whose announcement was lost, and an agent that a listing removed by     *)
(* mistake is listed again.                                                *)
(***************************************************************************)
LossesAreRepaired == TargetLearns /\ Agency!LiveAgentReturns

(* Every call of Execute returns.                                          *)
EveryCallEnds == Control!EveryCallEnds
=============================================================================
