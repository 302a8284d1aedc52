----------------------------- MODULE Controller -----------------------------
(***************************************************************************)
(* receiver/controller.go and receiver/session_store.go: executions that   *)
(* take a reference-counted lock of their conversation, then one of        *)
(* MaxConcurrent slots, resume the conversation's private session and      *)
(* store the session the runtime returns.  A lock is an object: the map    *)
(* may forget it while executions still hold a pointer to it.              *)
(***************************************************************************)
EXTENDS Integers, FiniteSets

CONSTANTS Executions,     \* goroutines that call Execute, any number of times
          Conversations,
          Locks,          \* conversationLock objects the heap may hold
          MaxConcurrent,  \* capacity of Controller.sem
          MaxSession,     \* bound: sessions the runtime ever starts
          MaxFaults,      \* bound: failed writes and restarts
          None

(***************************************************************************)
(* None is the nil lock, and a receiver runs finitely many goroutines: the *)
(* assumptions of the proofs in StoresProofs.                              *)
(***************************************************************************)
ControllerConstants ==
  /\ IsFiniteSet(Executions) /\ None \notin Locks
  /\ MaxConcurrent \in Nat /\ MaxSession \in Nat

VARIABLES pc, conv, lock,   \* per execution: where it is, and its arguments
          cancelled,        \* executions whose context is done
          locks,            \* Controller.locks: conversation to lock or None
          refs, gate,       \* conversationLock.refs, and whether the gate is open
          sem,              \* slots taken
          stored,           \* per execution: the session it resumes, 0 for none
          sessions, disk,   \* FileSessionStore: memory and file
          last,             \* history: the session of the latest completed run
          sessionsUsed, faults

vars == <<pc, conv, lock, cancelled, locks, refs, gate, sem, stored,
          sessions, disk, last, sessionsUsed, faults>>
lockVars == <<locks, refs, gate>>
fileVars == <<sessions, disk, last, sessionsUsed, faults>>

Init ==
  /\ pc = [e \in Executions |-> "idle"]
  /\ conv = [e \in Executions |-> None] /\ lock = [e \in Executions |-> None]
  /\ cancelled = {}
  /\ locks = [c \in Conversations |-> None]
  /\ refs = [l \in Locks |-> 0] /\ gate = [l \in Locks |-> FALSE]
  /\ sem = 0
  /\ stored = [e \in Executions |-> 0]
  /\ sessions = [c \in Conversations |-> 0] /\ disk = sessions /\ last = sessions
  /\ sessionsUsed = 0 /\ faults = 0

Goto(e, step) == pc' = [pc EXCEPT ![e] = step]

(* Locks no execution and no map entry points to: what the heap can reuse. *)
Unreferenced == Locks \ ({lock[e] : e \in Executions} \cup {locks[c] : c \in Conversations})

-----------------------------------------------------------------------------
(* Mutant: a caller is counted only once it holds the gate.                *)
LockUncounted(e, c) ==
  /\ pc[e] = "idle"
  /\ IF locks[c] # None
       THEN lock' = [lock EXCEPT ![e] = locks[c]] /\ UNCHANGED lockVars
       ELSE \E l \in Unreferenced :
              /\ locks' = [locks EXCEPT ![c] = l]
              /\ lock' = [lock EXCEPT ![e] = l]
              /\ gate' = [gate EXCEPT ![l] = TRUE]
              /\ refs' = [refs EXCEPT ![l] = 1]
  /\ conv' = [conv EXCEPT ![e] = c]
  /\ cancelled' = cancelled \ {e}
  /\ Goto(e, "wait")
  /\ UNCHANGED <<sem, stored, fileVars>>

(***************************************************************************)
(* lockConversation under locksMu: find or create the lock, count myself.  *)
(***************************************************************************)
LockConversation(e, c) ==
  /\ pc[e] = "idle"
  /\ \E l \in IF locks[c] # None THEN {locks[c]} ELSE Unreferenced :
       /\ locks' = [locks EXCEPT ![c] = l]
       /\ lock' = [lock EXCEPT ![e] = l]
       /\ gate' = IF locks[c] = None THEN [gate EXCEPT ![l] = TRUE] ELSE gate
       /\ refs' = [refs EXCEPT ![l] = IF locks[c] = None THEN 1 ELSE @ + 1]
  /\ conv' = [conv EXCEPT ![e] = c]
  /\ cancelled' = cancelled \ {e}
  /\ Goto(e, "wait")
  /\ UNCHANGED <<sem, stored, fileVars>>

(* The caller's context ends: timeout, cancellation or shutdown.           *)
CancelContext(e) ==
  /\ pc[e] # "idle" /\ e \notin cancelled
  /\ cancelled' = cancelled \cup {e}
  /\ UNCHANGED <<pc, conv, lock, lockVars, sem, stored, fileVars>>

(* The select of a waiting caller may take either ready case.              *)
WaitCancelled(e) ==
  /\ pc[e] = "wait" /\ e \in cancelled
  /\ Goto(e, "unref")
  /\ UNCHANGED <<conv, lock, cancelled, lockVars, sem, stored, fileVars>>

TakeGate(e) ==
  /\ pc[e] = "wait" /\ gate[lock[e]]
  /\ gate' = [gate EXCEPT ![lock[e]] = FALSE]
  /\ Goto(e, "gated")
  /\ UNCHANGED <<conv, lock, cancelled, locks, refs, sem, stored, fileVars>>

(* Mutant: a caller cancelled at the gate forgets to open it again.        *)
GateKept(e) ==
  /\ pc[e] = "gated"
  /\ Goto(e, IF e \in cancelled THEN "unref" ELSE "slot")
  /\ UNCHANGED <<conv, lock, cancelled, lockVars, sem, stored, fileVars>>

(* After the gate the context is checked again.                            *)
CheckContext(e) ==
  /\ pc[e] = "gated"
  /\ Goto(e, IF e \in cancelled THEN "open" ELSE "slot")
  /\ UNCHANGED <<conv, lock, cancelled, lockVars, sem, stored, fileVars>>

-----------------------------------------------------------------------------
SlotCancelled(e) ==
  /\ pc[e] = "slot" /\ e \in cancelled
  /\ Goto(e, "open")
  /\ UNCHANGED <<conv, lock, cancelled, lockVars, sem, stored, fileVars>>

(* A slot, then the local session: the request's own is ignored.           *)
TakeSlot(e) ==
  /\ pc[e] = "slot" /\ sem < MaxConcurrent
  /\ sem' = sem + 1
  /\ stored' = [stored EXCEPT ![e] = sessions[conv[e]]]
  /\ Goto(e, "run")
  /\ UNCHANGED <<conv, lock, cancelled, lockVars, fileVars>>

RunFails(e) ==
  /\ pc[e] = "run"
  /\ Goto(e, "leave")
  /\ UNCHANGED <<conv, lock, cancelled, lockVars, sem, stored, fileVars>>

(***************************************************************************)
(* The runtime returns a session or none.  Put and Delete change memory    *)
(* before the file and keep the change when the write fails; the file then *)
(* holds either content.                                                   *)
(***************************************************************************)
Save(c, session, written, reported) ==
  /\ sessions' = [sessions EXCEPT ![c] = session]
  /\ disk' = IF written THEN sessions' ELSE disk
  /\ IF reported THEN written /\ UNCHANGED faults
     ELSE faults < MaxFaults /\ faults' = faults + 1

RunReturns(e, session, written, reported) ==
  LET c == conv[e] IN
  /\ pc[e] = "run"
  /\ IF session = 0 /\ stored[e] = 0
       THEN written /\ reported /\ UNCHANGED <<sessions, disk, faults>>
       ELSE Save(c, session, written, reported)
  /\ last' = [last EXCEPT ![c] = session]
  /\ sessionsUsed' = IF session > sessionsUsed THEN session ELSE sessionsUsed
  /\ Goto(e, "leave")
  /\ UNCHANGED <<conv, lock, cancelled, lockVars, sem, stored>>

(* A runtime resumes the session it was given, or opens a new one.         *)
Returned(e) == {0, stored[e]} \cup (IF sessionsUsed < MaxSession THEN {sessionsUsed + 1} ELSE {})

(* The deferred calls run in reverse: the slot, the gate, the reference.   *)
ReleaseSlot(e) ==
  /\ pc[e] = "leave"
  /\ sem' = sem - 1
  /\ stored' = [stored EXCEPT ![e] = 0]
  /\ Goto(e, "open")
  /\ UNCHANGED <<conv, lock, cancelled, lockVars, fileVars>>

OpenGate(e) ==
  /\ pc[e] = "open"
  /\ gate' = [gate EXCEPT ![lock[e]] = TRUE]
  /\ Goto(e, "unref")
  /\ UNCHANGED <<conv, lock, cancelled, locks, refs, sem, stored, fileVars>>

releaseConversationRef(e) ==
  LET l == lock[e] IN
  /\ pc[e] = "unref"
  /\ refs' = [refs EXCEPT ![l] = @ - 1]
  /\ locks' = IF refs[l] = 1 /\ locks[conv[e]] = l
                THEN [locks EXCEPT ![conv[e]] = None] ELSE locks
  /\ lock' = [lock EXCEPT ![e] = None] /\ conv' = [conv EXCEPT ![e] = None]
  /\ Goto(e, "idle")
  /\ UNCHANGED <<cancelled, gate, sem, stored, fileVars>>

(* The receiver dies and starts again: only the session file survives.     *)
Restart ==
  /\ faults < MaxFaults /\ faults' = faults + 1
  /\ pc' = [e \in Executions |-> "idle"]
  /\ conv' = [e \in Executions |-> None] /\ lock' = [e \in Executions |-> None]
  /\ cancelled' = {}
  /\ locks' = [c \in Conversations |-> None]
  /\ refs' = [l \in Locks |-> 0] /\ gate' = [l \in Locks |-> FALSE]
  /\ sem' = 0 /\ stored' = [e \in Executions |-> 0]
  /\ sessions' = disk /\ last' = disk
  /\ UNCHANGED <<disk, sessionsUsed>>

-----------------------------------------------------------------------------
Step(e) ==
  \/ WaitCancelled(e) \/ TakeGate(e) \/ CheckContext(e)
  \/ SlotCancelled(e) \/ TakeSlot(e) \/ RunFails(e)
  \/ \E session \in Returned(e), written, reported \in BOOLEAN :
       RunReturns(e, session, written, reported)
  \/ ReleaseSlot(e) \/ OpenGate(e) \/ releaseConversationRef(e)

Next ==
  \/ \E e \in Executions :
       \/ \E c \in Conversations : LockConversation(e, c)
       \/ CancelContext(e)
       \/ Step(e)
  \/ Restart

Spec == Init /\ [][Next]_vars

(***************************************************************************)
(* Goroutines make progress, every run ends (its context has a deadline),  *)
(* and a channel serves its waiters in order, which is more than the       *)
(* strong fairness asked for a caller that waits for the gate or a slot.   *)
(***************************************************************************)
FairSpec == Spec /\ \A e \in Executions : SF_vars(Step(e))

-----------------------------------------------------------------------------
Holding == {"gated", "slot", "run", "leave", "open"}

(* The state's shape, and the slot count is the number of runs.            *)
TypeOK ==
  /\ pc \in [Executions -> Holding \cup {"idle", "wait", "unref"}]
  /\ locks \in [Conversations -> Locks \cup {None}]
  /\ refs \in [Locks -> 0..Cardinality(Executions)] /\ gate \in [Locks -> BOOLEAN]
  /\ sem = Cardinality({e \in Executions : pc[e] \in {"run", "leave"}})
  /\ sem <= MaxConcurrent
  /\ {sessions, disk, last} \subseteq [Conversations -> 0..MaxSession]

(***************************************************************************)
(* Two turns of one conversation never run at once, although the lock that *)
(* keeps them apart is deleted and created again between them.             *)
(***************************************************************************)
OneRunPerConversation ==
  \A a, b \in Executions :
    (a # b /\ pc[a] \in Holding /\ pc[b] \in Holding) => conv[a] # conv[b]

(***************************************************************************)
(* A turn resumes what the latest completed turn of its conversation left, *)
(* also when storing that session reported an error.                       *)
(***************************************************************************)
ResumesLatest ==
  \A e \in Executions : pc[e] = "run" => stored[e] = last[conv[e]]

(* releaseConversationRef leaves no lock behind that nobody uses.          *)
LocksAreReclaimed ==
  \A c \in Conversations :
    locks[c] # None => \E e \in Executions : conv[e] = c /\ lock[e] = locks[c]

(***************************************************************************)
(* Whoever waits for a conversation or a slot gets its turn or its         *)
(* cancellation: no gate stays closed after its holder has gone.           *)
(***************************************************************************)
EveryCallEnds == \A e \in Executions : pc[e] # "idle" ~> pc[e] = "idle"

(***************************************************************************)
(* Execute takes the turns of a conversation one after the other, each from *)
(* the session the one before left, and keeps no lock nobody uses.         *)
(***************************************************************************)
TurnsSound == TypeOK /\ OneRunPerConversation /\ ResumesLatest /\ LocksAreReclaimed
=============================================================================
