--------------------------- MODULE ReceiverProofs ---------------------------
(***************************************************************************)
(* Proofs about Receiver, for any finite set of requests and any number of *)
(* crashes, lost calls and prepared decisions.  The invariant says, of     *)
(* every place that may be acted on later (a call on its way, an answer, a *)
(* goroutine, an execution, the journal), what the relay must by then have *)
(* recorded; and what the relay records of a request only grows.           *)
(***************************************************************************)
EXTENDS Receiver, FiniteSetTheorems, SequenceTheorems, TLAPS

Open    == {Awaiting, Accepted, Running}
IDs     == 1..MaxIDs
Results == {Completed, Failed} \X Bodies

RelayRecords ==
  [status : Status, requester : {"peer"}, target : {"me"}, expiresAt : {1},
   decisionID : IDs \cup {None}, decision : Decisions \cup {None}, claim : IDs \cup {None},
   digest : (IDs \X ResultStates \X Bodies) \cup {None}, resultFiles : {{}}]

Calls ==
  [op : {"decide", "markRunning", "submit"}, agent : {"me"}, req : Requests, id : IDs,
   choice : Decisions \cup ResultStates \cup {None}, body : Bodies \cup {None}]

Messages == [call : Calls, to : Callers, live : BOOLEAN]

Events == {"peer_request", "peer_cancelled"} \X Requests \X Status

HasRequest == {"recover", "commit", "sendDeny", "deny", "decide", "replay", "unpend", "unjournal"}
HasOp      == {"commit", "sendDeny", "deny", "decide", "replay"}
Asking     == {"deny", "decide"}

ThreadStates ==
  [pc : HasRequest \cup {"idle", "broken", "inbox", "replace", "next"},
   req : Requests \cup {None}, status : Status \cup {None}, op : mutationRecord \cup {None},
   snap : SUBSET (Requests \X Open), seen : (SUBSET Requests) \cup {None}, left : SUBSET Requests]

ExecStates ==
  [pc : {"none", "load", "fetch", "marking", "start", "runtime", "submit", "submitting"},
   op : mutationRecord \cup {None}, cancelled : BOOLEAN]

RelayType  == relay \in [Requests -> RelayRecords] /\ now \in 0..MaxTime
NetType    == net \subseteq Messages /\ stream \in Seq(Events)
DiskType   == /\ journal \in [Requests -> mutationRecord \cup {None}]
              /\ pending \in [Requests -> Status \cup {None}]
DaemonType == /\ daemon \in {"down", "starting", "up", "failed"}
              /\ authority \in Authorities /\ lock \in Threads \cup {None}
ThreadType == thread \in [Threads -> ThreadStates]
ExecType   == exec \in [Requests -> ExecStates]
ReplyType  == reply \in [Callers -> Status \cup {None, Error}]
BoundType  == /\ issued \in 0..MaxIDs /\ faults \in 0..MaxFaults /\ crashes \in 0..MaxCrashes
              /\ runs \in [Requests -> Nat] /\ outcome \in [Requests -> Results \cup {None}]

ShapeInv ==
  /\ RelayType /\ NetType /\ DiskType /\ DaemonType
  /\ ThreadType /\ ExecType /\ ReplyType /\ BoundType

(* The relay has this decision for r.                                      *)
Decided(r, id, decision) == relay[r].decisionID = id /\ relay[r].decision = decision

(* The relay's record: a claim is of the request's one decision, an Allow, *)
(* and a result is what the run produced.                                  *)
RelayOK(r) ==
  /\ relay[r].status \in {Absent, Awaiting} => relay[r].decisionID = None
  /\ relay[r].status \in {Absent, Awaiting, Accepted} => relay[r].claim = None
  /\ relay[r].claim # None => Decided(r, relay[r].claim, Allow)
  /\ relay[r].decisionID # None => relay[r].decisionID <= issued
  /\ relay[r].digest # None =>
       /\ outcome[r] # None /\ relay[r].status = outcome[r][1]
       /\ <<relay[r].digest[2], relay[r].digest[3]>> = outcome[r]

(* A call on its way, whoever still waits for it.                          *)
CallOK(c) ==
  /\ c.id <= issued
  /\ c.op = "decide" => c.choice \in Decisions
  /\ c.op = "markRunning" => Decided(c.req, c.id, Allow)
  /\ c.op = "submit" => outcome[c.req] # None /\ outcome[c.req] = <<c.choice, c.body>>

(* A call that is waited for is the one its caller made.                   *)
LiveOK(m) ==
  m.live =>
    /\ reply[m.to] = None
    /\ m.to \in Threads =>
         \/ /\ thread[m.to].pc \in Asking
            /\ m.call = DecideCall(thread[m.to].req, thread[m.to].op)
         \/ /\ thread[m.to].pc = "replay"
            /\ m.call = ResultCall(thread[m.to].req, thread[m.to].op)
    /\ m.to \in Requests =>
         \/ exec[m.to].pc = "marking" /\ m.call = RunningCall(m.to, exec[m.to].op)
         \/ exec[m.to].pc = "submitting" /\ m.call = ResultCall(m.to, exec[m.to].op)

(* A final status that was seen somewhere is the relay's for good.         *)
EventOK(e) ==
  /\ e[1] = "peer_request" => e[3] \in Open
  /\ e[1] = "peer_cancelled" => Terminal(relay[e[2]].status)

(* An operation some goroutine works on for r.                             *)
OpOK(r, op) ==
  /\ op \in mutationRecord /\ op.id <= issued
  /\ op.phase = ResultPrepared => outcome[r] # None /\ op.result = outcome[r]

ThreadOK(t) ==
  LET th == thread[t]
      r  == th.req
  IN
  /\ th.pc \in HasRequest => r \in Requests
  /\ th.pc = "recover" => th.status \in Status /\ (Terminal(th.status) => Terminal(relay[r].status))
  /\ th.pc \in HasOp => OpOK(r, th.op)
  /\ th.pc = "replay" => th.op.phase = ResultPrepared
  /\ th.pc \in Asking /\ reply[t] \in Status => Decided(r, th.op.id, th.op.decision)
  /\ th.pc \in Asking \cup {"replay"} /\ Terminal(reply[t]) => Terminal(relay[r].status)
  /\ th.pc \in {"unpend", "unjournal"} => Terminal(relay[r].status)
  /\ th.pc = "replace" => /\ th.seen \subseteq Requests
                          /\ \A q \in th.seen : \E n \in th.snap : n[1] = q

ExecOK(r) ==
  LET e == exec[r]
  IN
  /\ e.pc \notin {"none", "load"} =>
       OpOK(r, e.op) /\ e.op.decision = Allow /\ Decided(r, e.op.id, Allow)
  /\ e.pc \in {"fetch", "marking", "start", "runtime"} => e.op.auth = authority
  /\ e.pc \in {"start", "runtime"} => relay[r].claim = e.op.id /\ outcome[r] = None
  /\ e.pc = "start" => runs[r] = 0
  /\ e.pc \in {"submit", "submitting"} => e.op.phase = ResultPrepared
  /\ e.pc = "marking" /\ reply[r] = Running => relay[r].claim = e.op.id
  /\ e.pc = "submitting" /\ Terminal(reply[r]) => Terminal(relay[r].status)

(* A runtime was started for r, is about to be, or has produced a result.  *)
Begun(r) == runs[r] > 0 \/ outcome[r] # None \/ exec[r].pc \in {"start", "runtime"}

(* The record of the claim that was begun says so, and stays until the     *)
(* relay's status is final.                                                *)
JournalOK(r) ==
  LET op == journal[r]
  IN
  /\ op # None => OpOK(r, op)
  /\ op # None /\ op.phase # DecisionPrepared => op.decision = Allow /\ Decided(r, op.id, Allow)
  /\ op # None /\ op.phase \in {RuntimeStarted, ResultPrepared} => relay[r].claim = op.id
  /\ Begun(r) =>
       /\ relay[r].claim # None
       /\ ~Terminal(relay[r].status) => op # None /\ op.id = relay[r].claim
       /\ op # None /\ op.id = relay[r].claim => op.phase \in {RuntimeStarted, ResultPrepared}
  /\ outcome[r] # None /\ op # None /\ op.id = relay[r].claim => op.phase = ResultPrepared
  /\ runs[r] <= 1

RelayInv   == \A r \in Requests : RelayOK(r)
ExecInv    == \A r \in Requests : ExecOK(r)
JournalInv == \A r \in Requests : JournalOK(r)
NetInv     == \A m \in net : CallOK(m.call)
LiveInv    == \A m \in net : LiveOK(m)
StreamInv  == \A i \in 1..Len(stream) : EventOK(stream[i])
ThreadInv  == \A t \in Threads : ThreadOK(t)

(* A process that is down has no goroutines.                               *)
DownInv ==
  daemon = "down" => /\ \A t \in Threads : thread[t].pc = "idle"
                     /\ \A r \in Requests : exec[r].pc = "none"

ReceiverInv ==
  /\ ShapeInv
  /\ RelayInv /\ ExecInv /\ JournalInv /\ NetInv /\ LiveInv /\ StreamInv /\ ThreadInv
  /\ DownInv
-----------------------------------------------------------------------------
(* What every step leaves standing: the relay's decision, claim and final  *)
(* status, the outcome, and the identities drawn.                          *)
Advances ==
  /\ issued <= issued'
  /\ \A r \in Requests :
       /\ relay[r].decisionID # None => /\ relay'[r].decisionID = relay[r].decisionID
                                        /\ relay'[r].decision = relay[r].decision
       /\ relay[r].claim # None => relay'[r].claim = relay[r].claim
       /\ Terminal(relay[r].status) => Terminal(relay'[r].status)
       /\ outcome[r] # None => outcome'[r] = outcome[r]

LEMMA SameAdvances ==
  ASSUME ShapeInv, ShapeInv', UNCHANGED <<relay, outcome>>, issued <= issued'
  PROVE  Advances
BY DEF Advances

LEMMA NoneIsNone ==
  /\ None \notin Requests /\ None \notin Authorities /\ None \notin Bodies /\ None \notin Nat
  /\ None \notin Status /\ None \notin mutationRecord /\ None \notin ResultStates \X Bodies
BY ReceiverConstants, ReceiverValues

LEMMA OpFields ==
  ASSUME NEW op \in mutationRecord
  PROVE  /\ op.id \in IDs /\ op.decision \in Decisions /\ op.auth \in Authorities \cup {None}
         /\ op.phase \in {DecisionPrepared, ClaimPrepared, RuntimeStarted, ResultPrepared}
         /\ op.result \in (ResultStates \X Bodies) \cup {None}
BY DEF mutationRecord, IDs

LEMMA IDsAreNat == IDs \subseteq Nat /\ None \notin IDs
BY ReceiverConstants DEF IDs

LEMMA RelayKeeps ==
  ASSUME ShapeInv, ShapeInv', Advances, NEW r \in Requests, RelayOK(r), relay'[r] = relay[r]
  PROVE  RelayOK(r)'
<1>1. relay[r].decisionID # None => relay[r].decisionID \in Nat
  BY IDsAreNat DEF ShapeInv, RelayType, RelayRecords
<1>2. issued \in Nat /\ issued' \in Nat /\ issued <= issued'
  BY ReceiverConstants DEF ShapeInv, BoundType, Advances
<1> QED
  BY <1>1, <1>2 DEF Advances, RelayOK, Decided

LEMMA CallKeeps ==
  ASSUME ShapeInv, ShapeInv', Advances, NEW c \in Calls, CallOK(c)
  PROVE  CallOK(c)'
<1>1. c.id \in Nat /\ c.id # None /\ c.req \in Requests
  BY IDsAreNat DEF Calls
<1>2. issued \in Nat /\ issued' \in Nat /\ issued <= issued'
  BY ReceiverConstants DEF ShapeInv, BoundType, Advances
<1> QED
  BY <1>1, <1>2 DEF Advances, CallOK, Decided

LEMMA EventKeeps ==
  ASSUME Advances, NEW e \in Events, EventOK(e)
  PROVE  EventOK(e)'
<1>1. e[2] \in Requests
  BY DEF Events
<1> QED
  BY <1>1 DEF EventOK, Advances

LEMMA StreamKeeps ==
  ASSUME ShapeInv, Advances, StreamInv, UNCHANGED stream
  PROVE  StreamInv'
<1> SUFFICES ASSUME NEW i \in 1..Len(stream)
             PROVE  EventOK(stream[i])'
  BY DEF StreamInv
<1>1. PICK e \in Events : e = stream[i]
  BY DEF ShapeInv, NetType
<1>2. EventOK(e)'
  BY <1>1, EventKeeps DEF StreamInv
<1> QED
  BY <1>1, <1>2 DEF EventOK

LEMMA OpKeeps ==
  ASSUME ShapeInv, ShapeInv', Advances, NEW r \in Requests, NEW op, OpOK(r, op)
  PROVE  OpOK(r, op)'
<1>1. op \in mutationRecord /\ op.id \in Nat
  BY OpFields, IDsAreNat DEF OpOK
<1>2. issued \in Nat /\ issued' \in Nat /\ issued <= issued'
  BY ReceiverConstants DEF ShapeInv, BoundType, Advances
<1> QED
  BY <1>1, <1>2 DEF Advances, OpOK

LEMMA ErrorIsNoStatus == None \notin Status /\ Error \notin Status
BY NoneIsNone DEF Error, Status, TerminalStatus, Absent, Awaiting, Accepted, Running,
                  Completed, Failed, Cancelled, Expired, Rejected

(* A goroutine that does not move, and what its answer must mean.          *)
LEMMA ThreadAnswered ==
  ASSUME ShapeInv, ShapeInv', Advances, NEW t \in Threads, ThreadOK(t),
         thread'[t] = thread[t],
         thread[t].pc \in Asking /\ reply'[t] \in Status =>
           /\ relay'[thread[t].req].decisionID = thread[t].op.id
           /\ relay'[thread[t].req].decision = thread[t].op.decision,
         thread[t].pc \in Asking \cup {"replay"} /\ Terminal(reply'[t]) =>
           Terminal(relay'[thread[t].req].status)
  PROVE  ThreadOK(t)'
<1>1. PICK th \in ThreadStates : th = thread[t] /\ th = thread'[t]
  BY DEF ShapeInv, ThreadType
<1>2. th.pc \in HasOp => OpOK(th.req, th.op)'
  <2>1. th.pc \in HasOp => th.req \in Requests /\ OpOK(th.req, th.op)
    BY <1>1 DEF ThreadOK, HasOp, HasRequest
  <2> QED
    BY <2>1, OpKeeps
<1>3. th.pc \in HasRequest => th.req \in Requests
  BY <1>1 DEF ThreadOK
<1>4. /\ th.pc = "recover" /\ Terminal(th.status) => Terminal(relay'[th.req].status)
      /\ th.pc \in {"unpend", "unjournal"} => Terminal(relay'[th.req].status)
  BY <1>1, <1>3 DEF ThreadOK, Advances, HasRequest
<1> QED
  BY <1>1, <1>2, <1>3, <1>4 DEF ThreadOK, OpOK, Decided

(* Its answer may arrive as an error.                                      *)
LEMMA ThreadKeeps ==
  ASSUME ShapeInv, ShapeInv', Advances, NEW t \in Threads, ThreadOK(t),
         thread'[t] = thread[t], reply'[t] \in {reply[t], None, Error}
  PROVE  ThreadOK(t)'
<1>1. reply'[t] \in Status => reply'[t] = reply[t]
  BY ErrorIsNoStatus
<1>2. Terminal(reply'[t]) => reply'[t] \in Status
  BY DEF Terminal, Status
<1>3. thread[t].pc \in HasRequest => thread[t].req \in Requests
  BY DEF ThreadOK
<1>4. thread[t].pc \in Asking => thread[t].op.id # None
  BY OpFields, IDsAreNat DEF ThreadOK, OpOK, Asking, HasOp
<1>5. thread[t].pc \in Asking /\ reply'[t] \in Status =>
        /\ relay'[thread[t].req].decisionID = thread[t].op.id
        /\ relay'[thread[t].req].decision = thread[t].op.decision
  BY <1>1, <1>3, <1>4 DEF ThreadOK, Decided, Advances, HasRequest, Asking
<1>6. thread[t].pc \in Asking \cup {"replay"} /\ Terminal(reply'[t]) =>
        Terminal(relay'[thread[t].req].status)
  BY <1>1, <1>2, <1>3 DEF ThreadOK, Advances, HasRequest, Asking
<1> QED
  BY <1>5, <1>6, ThreadAnswered

(* An execution that does not move, cancelled or not.                      *)
LEMMA ExecAnswered ==
  ASSUME ShapeInv, ShapeInv', Advances, NEW r \in Requests, ExecOK(r),
         exec'[r].pc = exec[r].pc, exec'[r].op = exec[r].op, authority' = authority,
         runs'[r] = runs[r], outcome'[r] = outcome[r],
         exec[r].pc = "marking" /\ reply'[r] = Running => relay'[r].claim = exec[r].op.id,
         exec[r].pc = "submitting" /\ Terminal(reply'[r]) => Terminal(relay'[r].status)
  PROVE  ExecOK(r)'
<1>1. PICK e \in ExecStates : e = exec[r]
  BY DEF ShapeInv, ExecType
<1>2. exec'[r].pc = e.pc /\ exec'[r].op = e.op
  BY <1>1
<1>3. e.pc \notin {"none", "load"} =>
        OpOK(r, e.op)' /\ e.op.decision = Allow /\ Decided(r, e.op.id, Allow)'
  <2>1. e.pc \notin {"none", "load"} =>
          OpOK(r, e.op) /\ e.op.decision = Allow /\ Decided(r, e.op.id, Allow)
    BY <1>1 DEF ExecOK
  <2>2. e.pc \notin {"none", "load"} => e.op.id # None
    BY <2>1, OpFields, IDsAreNat DEF OpOK
  <2> QED
    BY <2>1, <2>2, OpKeeps DEF Decided, Advances
<1>4. e.pc \in {"start", "runtime"} => relay'[r].claim = e.op.id /\ outcome'[r] = None
  <2>1. e.pc \in {"start", "runtime"} => e.op.id # None
    BY <1>3, OpFields, IDsAreNat DEF OpOK
  <2> QED
    BY <1>1, <2>1 DEF ExecOK, Advances
<1> QED
  BY <1>1, <1>2, <1>3, <1>4 DEF ExecOK, OpOK, Decided

LEMMA ExecKeeps ==
  ASSUME ShapeInv, ShapeInv', Advances, NEW r \in Requests, ExecOK(r),
         exec'[r].pc = exec[r].pc, exec'[r].op = exec[r].op,
         reply'[r] \in {reply[r], None, Error}, authority' = authority,
         runs'[r] = runs[r], outcome'[r] = outcome[r]
  PROVE  ExecOK(r)'
<1>1. reply'[r] \in Status => reply'[r] = reply[r]
  BY ErrorIsNoStatus
<1>2. Running \in Status /\ (Terminal(reply'[r]) => reply'[r] \in Status)
  BY DEF Status, Terminal
<1>3. exec[r].pc = "marking" => exec[r].op.id # None
  BY OpFields, IDsAreNat DEF ExecOK, OpOK
<1>4. exec[r].pc = "marking" /\ reply'[r] = Running => relay'[r].claim = exec[r].op.id
  BY <1>1, <1>2, <1>3 DEF ExecOK, Advances
<1>5. exec[r].pc = "submitting" /\ Terminal(reply'[r]) => Terminal(relay'[r].status)
  BY <1>1, <1>2 DEF ExecOK, Advances
<1> QED
  BY <1>4, <1>5, ExecAnswered

(* A journal record that stays, while no run is begun.                     *)
LEMMA JournalKeeps ==
  ASSUME ShapeInv, ShapeInv', Advances, NEW r \in Requests, JournalOK(r),
         journal'[r] = journal[r], runs'[r] = runs[r], outcome'[r] = outcome[r],
         Begun(r)' => Begun(r)
  PROVE  JournalOK(r)'
<1>1. PICK op \in mutationRecord \cup {None} : op = journal[r] /\ op = journal'[r]
  BY DEF ShapeInv, DiskType
<1>2. op # None => OpOK(r, op)' /\ op.id # None
  BY <1>1, OpKeeps, OpFields, IDsAreNat DEF JournalOK
<1>3. op # None /\ op.phase # DecisionPrepared => op.decision = Allow /\ Decided(r, op.id, Allow)'
  BY <1>1, <1>2 DEF JournalOK, Decided, Advances
<1>4. op # None /\ op.phase \in {RuntimeStarted, ResultPrepared} => relay'[r].claim = op.id
  BY <1>1, <1>2 DEF JournalOK, Advances
<1>5. Begun(r)' =>
        /\ relay'[r].claim # None /\ relay'[r].claim = relay[r].claim
        /\ ~Terminal(relay'[r].status) => op # None /\ op.id = relay'[r].claim
        /\ op # None /\ op.id = relay'[r].claim => op.phase \in {RuntimeStarted, ResultPrepared}
  BY <1>1 DEF JournalOK, Advances
<1>6. outcome'[r] # None => Begun(r)'
  BY DEF Begun
<1>7. outcome'[r] # None /\ op # None /\ op.id = relay'[r].claim => op.phase = ResultPrepared
  BY <1>1, <1>5, <1>6 DEF JournalOK
<1>8. runs'[r] <= 1
  BY DEF JournalOK
<1> QED
  BY <1>1, <1>2, <1>3, <1>4, <1>5, <1>7, <1>8 DEF JournalOK, OpOK

(* A record goes when the relay's status is final or nothing was begun.    *)
LEMMA JournalDrops ==
  ASSUME ShapeInv, ShapeInv', Advances, NEW r \in Requests, JournalOK(r),
         journal'[r] = None, runs'[r] = runs[r], outcome'[r] = outcome[r],
         Begun(r)' => Begun(r), Terminal(relay[r].status) \/ ~Begun(r)
  PROVE  JournalOK(r)'
BY DEF JournalOK, Advances

LEMMA LiveKeeps ==
  ASSUME NEW m, LiveOK(m), reply'[m.to] = reply[m.to],
         m.to \in Threads => thread'[m.to] = thread[m.to],
         m.to \in Requests => exec'[m.to].pc = exec[m.to].pc /\ exec'[m.to].op = exec[m.to].op
  PROVE  LiveOK(m)'
BY DEF LiveOK, DecideCall, ResultCall, RunningCall

(* A step of goroutine t that waits for no answer, or has its answer.      *)
LEMMA ThreadMoves ==
  ASSUME ReceiverInv, ShapeInv', Advances, NEW t \in Threads,
         thread[t].pc \notin Asking \cup {"replay"} \/ reply[t] # None,
         \A u \in Threads \ {t} : thread'[u] = thread[u], ThreadOK(t)',
         \A p \in Callers \ {t} : reply'[p] = reply[p],
         \A m \in net' \ net : CallOK(m.call)' /\ LiveOK(m)',
         \A q \in Requests : \/ exec'[q].pc = exec[q].pc /\ exec'[q].op = exec[q].op
                             \/ exec[q].pc = "none" /\ exec'[q].pc = "load",
         UNCHANGED <<authority, runs, outcome>>, daemon' # "down",
         RelayInv', StreamInv', JournalInv'
  PROVE  ReceiverInv'
<1> USE DEF ReceiverInv
<1>1. \A r \in Requests : r # t /\ r \in Callers
  BY ReceiverValues DEF Callers
<1>2. ThreadInv'
  <2> SUFFICES ASSUME NEW u \in Threads, u # t
               PROVE  ThreadOK(u)'
    BY DEF ThreadInv
  <2>1. reply'[u] = reply[u]
    BY DEF Callers
  <2> QED
    BY <2>1, ThreadKeeps DEF ThreadInv
<1>3. ExecInv'
  <2> SUFFICES ASSUME NEW q \in Requests
               PROVE  ExecOK(q)'
    BY DEF ExecInv
  <2>1. CASE exec'[q].pc = exec[q].pc /\ exec'[q].op = exec[q].op
    BY <1>1, <2>1, ExecKeeps DEF ExecInv
  <2>2. CASE exec'[q].pc = "load"
    BY <2>2 DEF ExecOK
  <2> QED
    BY <2>1, <2>2
<1>4. NetInv'
  <2> SUFFICES ASSUME NEW m \in net', m \in net
               PROVE  CallOK(m.call)'
    BY DEF NetInv
  <2>1. PICK c \in Calls : c = m.call
    BY DEF ShapeInv, NetType, Messages
  <2>2. CallOK(c)'
    BY <2>1, CallKeeps DEF NetInv
  <2> QED
    BY <2>1, <2>2
<1>5. LiveInv'
  <2> SUFFICES ASSUME NEW m \in net', m \in net, m.live
               PROVE  LiveOK(m)'
    BY DEF LiveInv, LiveOK
  <2>1. m.to \in Callers /\ LiveOK(m)
    BY DEF ShapeInv, NetType, Messages, LiveInv
  <2>2. m.to # t
    BY <2>1 DEF LiveOK
  <2>3. reply'[m.to] = reply[m.to] /\ (m.to \in Threads => thread'[m.to] = thread[m.to])
    BY <2>1, <2>2
  <2>4. m.to \in Requests => exec'[m.to].pc = exec[m.to].pc /\ exec'[m.to].op = exec[m.to].op
    BY <2>1 DEF LiveOK
  <2> QED
    BY <2>1, <2>3, <2>4, LiveKeeps
<1>6. DownInv'
  BY DEF DownInv
<1> QED
  BY <1>2, <1>3, <1>4, <1>5, <1>6

(* A step of the execution of r.                                           *)
LEMMA ExecMoves ==
  ASSUME ReceiverInv, ShapeInv', NEW r \in Requests, exec[r].pc # "none",
         \/ exec[r].pc \notin {"marking", "submitting"} \/ reply[r] # None
         \/ \A m \in net' : m.to = r => ~m.live,
         \A q \in Requests \ {r} : exec'[q] = exec[q], ExecOK(r)',
         \A p \in Callers \ {r} : reply'[p] = reply[p],
         \A m \in net' \ net : CallOK(m.call)' /\ LiveOK(m)',
         UNCHANGED <<relay, stream, thread, daemon, authority, issued>>,
         \A q \in Requests \ {r} : /\ journal'[q] = journal[q] /\ runs'[q] = runs[q]
                                   /\ outcome'[q] = outcome[q],
         outcome[r] # None => outcome'[r] = outcome[r],
         JournalOK(r)'
  PROVE  ReceiverInv'
<1> USE DEF ReceiverInv
<1>0. Advances
  BY ReceiverConstants DEF Advances, ShapeInv, BoundType
<1>1. \A t \in Threads : r # t /\ t \in Callers
  BY ReceiverValues DEF Callers
<1>2. ThreadInv'
  BY <1>0, <1>1, ThreadKeeps DEF ThreadInv
<1>3. ExecInv'
  <2> SUFFICES ASSUME NEW q \in Requests, q # r
               PROVE  ExecOK(q)'
    BY DEF ExecInv
  <2>1. reply'[q] = reply[q]
    BY DEF Callers
  <2> QED
    BY <1>0, <2>1, ExecKeeps DEF ExecInv
<1>4. NetInv'
  <2> SUFFICES ASSUME NEW m \in net', m \in net
               PROVE  CallOK(m.call)'
    BY DEF NetInv
  <2>1. PICK c \in Calls : c = m.call
    BY DEF ShapeInv, NetType, Messages
  <2>2. CallOK(c)'
    BY <1>0, <2>1, CallKeeps DEF NetInv
  <2> QED
    BY <2>1, <2>2
<1>5. LiveInv'
  <2> SUFFICES ASSUME NEW m \in net', m \in net, m.live
               PROVE  LiveOK(m)'
    BY DEF LiveInv, LiveOK
  <2>1. m.to \in Callers /\ LiveOK(m)
    BY DEF ShapeInv, NetType, Messages, LiveInv
  <2>2. m.to # r
    BY <2>1 DEF LiveOK
  <2> QED
    BY <2>1, <2>2, LiveKeeps
<1>6. RelayInv'
  BY <1>0, RelayKeeps DEF RelayInv
<1>7. StreamInv'
  BY <1>0, StreamKeeps
<1>8. JournalInv'
  <2> SUFFICES ASSUME NEW q \in Requests, q # r
               PROVE  JournalOK(q)'
    BY DEF JournalInv
  <2>1. Begun(q)' => Begun(q)
    BY DEF Begun
  <2> QED
    BY <1>0, <2>1, JournalKeeps DEF JournalInv
<1>9. DownInv'
  BY DEF DownInv
<1> QED
  BY <1>2, <1>3, <1>4, <1>5, <1>6, <1>7, <1>8, <1>9

-----------------------------------------------------------------------------
(* The steps of an execution.                                              *)
LEMMA ExecShape ==
  ASSUME ShapeInv, NEW r \in Requests, NEW e \in ExecStates, exec' = [exec EXCEPT ![r] = e]
  PROVE  /\ ExecType' /\ exec'[r] = e
         /\ \A q \in Requests \ {r} : exec'[q] = exec[q]
BY DEF ShapeInv, ExecType

LEMMA NoExecState == NoExec \in ExecStates /\ NoExec.pc = "none"
BY DEF NoExec, ExecStates

LEMMA EndMoves ==
  ASSUME ReceiverInv, NEW r \in Requests, End(r), exec[r].pc # "none",
         \/ exec[r].pc \notin {"marking", "submitting"} \/ reply[r] # None
         \/ \A m \in net' : m.to = r => ~m.live,
         reply' = reply \/ reply' = [reply EXCEPT ![r] = None],
         \/ net' = net
         \/ net' = {IF m.to = r THEN [m EXCEPT !.live = FALSE] ELSE m : m \in net},
         UNCHANGED <<relay, now, stream, thread, daemon, lock, authority, issued, crashes, runs, outcome>>,
         faults' \in 0..MaxFaults,
         pending' = pending \/ pending' = [pending EXCEPT ![r] = None],
         \/ journal' = journal
         \/ Terminal(relay[r].status) /\ journal' = [journal EXCEPT ![r] = None]
  PROVE  ReceiverInv'
<1> USE DEF ReceiverInv
<1>1. /\ ExecType' /\ exec'[r] = NoExec /\ NoExec.pc = "none"
      /\ \A q \in Requests \ {r} : exec'[q] = exec[q]
  BY NoExecState, ExecShape DEF End
<1>2. \A m \in net' : m \in Messages
  <2> SUFFICES ASSUME NEW m \in net', m \notin net
               PROVE  m \in Messages
    BY DEF ShapeInv, NetType
  <2>1. PICK n \in net : m = [n EXCEPT !.live = FALSE]
    OBVIOUS
  <2>2. n \in Messages
    BY DEF ShapeInv, NetType
  <2> QED
    BY <2>1, <2>2 DEF Messages
<1>3. ShapeInv'
  <2>1. NetType'
    BY <1>2 DEF ShapeInv, NetType
  <2>2. DiskType'
    BY DEF ShapeInv, DiskType
  <2>3. ReplyType'
    BY DEF ShapeInv, ReplyType
  <2> QED
    BY <1>1, <2>1, <2>2, <2>3 DEF ShapeInv, RelayType, DaemonType, ThreadType, BoundType
<1>4. \A m \in net' \ net : CallOK(m.call)' /\ LiveOK(m)'
  <2> SUFFICES ASSUME NEW m \in net' \ net
               PROVE  CallOK(m.call)' /\ LiveOK(m)'
    OBVIOUS
  <2>1. PICK n \in net : m = [n EXCEPT !.live = FALSE]
    OBVIOUS
  <2>2. n \in Messages /\ CallOK(n.call)
    BY DEF ShapeInv, NetType, NetInv
  <2>3. m.call = n.call /\ m.live = FALSE
    BY <2>1, <2>2 DEF Messages
  <2> QED
    BY <2>2, <2>3 DEF CallOK, LiveOK, Decided
<1>5. Begun(r)' => Begun(r)
  BY <1>1 DEF Begun
<1>6. Advances
  BY <1>3, ReceiverConstants, SameAdvances DEF ShapeInv, BoundType
<1>7. JournalOK(r)'
  <2>1. CASE journal'[r] = journal[r]
    BY <1>3, <1>5, <1>6, <2>1, JournalKeeps DEF JournalInv
  <2>2. CASE Terminal(relay[r].status) /\ journal'[r] = None
    BY <1>3, <1>5, <1>6, <2>2, JournalDrops DEF JournalInv
  <2> QED
    BY <2>1, <2>2 DEF ShapeInv, DiskType
<1>8. ExecOK(r)'
  BY <1>1 DEF ExecOK
<1>9. \A p \in Callers \ {r} : reply'[p] = reply[p]
  BY DEF ShapeInv, ReplyType
<1>10. \A q \in Requests \ {r} : journal'[q] = journal[q]
  BY DEF ShapeInv, DiskType
<1> QED
  BY <1>1, <1>3, <1>4, <1>7, <1>8, <1>9, <1>10, ExecMoves

LEMMA FaultsInBound == ShapeInv => faults \in 0..MaxFaults
BY DEF ShapeInv, BoundType

(* Load reads the journal without the lock.                                *)
LEMMA LoadStep ==
  ASSUME ReceiverInv, NEW r \in Requests, Load(r)
  PROVE  ReceiverInv'
<1> USE DEF ReceiverInv
<1>0. UNCHANGED <<relayVars, diskVars, daemon, authority, lock, thread, reply, historyVars>>
      /\ exec[r].pc = "load"
  BY DEF Load, At
<1>1. CASE End(r)
  BY <1>0, <1>1, EndMoves, FaultsInBound DEF relayVars, diskVars, historyVars
<1>2. ASSUME NEW pc \in {"fetch", "submit"},
             exec' = [exec EXCEPT ![r].pc = pc, ![r].op = journal[r]],
             journal[r] # None,
             pc = "fetch" => journal[r].phase = ClaimPrepared /\ ~Stale(r, journal[r]),
             pc = "submit" => journal[r].phase = ResultPrepared
      PROVE  ReceiverInv'
  <2>1. PICK op \in mutationRecord : op = journal[r] /\ OpOK(r, op)
    BY <1>2 DEF ShapeInv, DiskType, JournalInv, JournalOK
  <2> DEFINE e == [exec[r] EXCEPT !.pc = pc, !.op = op]
  <2>2. e \in ExecStates /\ e.pc = pc /\ e.op = op
    BY DEF ShapeInv, ExecType, ExecStates
  <2>3. exec' = [exec EXCEPT ![r] = e]
    BY <1>2, <2>1 DEF ShapeInv, ExecType
  <2> HIDE DEF e
  <2>4. ExecType' /\ exec'[r] = e /\ \A q \in Requests \ {r} : exec'[q] = exec[q]
    BY <2>2, <2>3, ExecShape
  <2>5. ShapeInv'
    BY <1>0, <2>4 DEF ShapeInv, RelayType, NetType, DiskType, DaemonType, ThreadType, ReplyType,
                      BoundType, relayVars, diskVars, historyVars
  <2>6. op.decision = Allow /\ Decided(r, op.id, Allow)
    BY <1>2, <2>1 DEF JournalInv, JournalOK, DecisionPrepared, ClaimPrepared, ResultPrepared
  <2>7. ExecOK(r)'
    <3>1. pc = "fetch" => op.auth = authority
      BY <1>2, <2>1 DEF Stale
    <3> QED
      BY <1>0, <1>2, <2>1, <2>2, <2>4, <2>6, <3>1
         DEF ExecOK, OpOK, Decided, relayVars, historyVars
  <2>8. Advances
    BY <1>0, <2>5, SameAdvances, ReceiverConstants DEF ShapeInv, BoundType, relayVars, historyVars
  <2>9. JournalOK(r)'
    <3>1. Begun(r)' => Begun(r)
      BY <1>0, <2>2, <2>4 DEF Begun, historyVars
    <3> QED
      BY <1>0, <2>5, <2>8, <3>1, JournalKeeps DEF JournalInv, diskVars, historyVars
  <2> QED
    BY <1>0, <2>4, <2>5, <2>7, <2>9, ExecMoves DEF relayVars, diskVars, historyVars
<1> QED
  BY <1>1, <1>2 DEF Load

(* The calls of the daemon.                                                *)
LEMMA DecideCallOK ==
  ASSUME NEW r \in Requests, NEW op, OpOK(r, op)
  PROVE  DecideCall(r, op) \in Calls /\ CallOK(DecideCall(r, op))
BY OpFields DEF OpOK, CallOK, DecideCall, MkCall, Calls

LEMMA RunningCallOK ==
  ASSUME NEW r \in Requests, NEW op, OpOK(r, op), Decided(r, op.id, Allow)
  PROVE  RunningCall(r, op) \in Calls /\ CallOK(RunningCall(r, op))
BY OpFields DEF OpOK, CallOK, RunningCall, MkCall, Calls

LEMMA ResultCallOK ==
  ASSUME ShapeInv, NEW r \in Requests, NEW op, OpOK(r, op), op.phase = ResultPrepared
  PROVE  ResultCall(r, op) \in Calls /\ CallOK(ResultCall(r, op))
<1>1. op \in mutationRecord /\ op.id \in IDs /\ op.id <= issued
  BY OpFields DEF OpOK
<1>2. op.result = outcome[r] /\ outcome[r] # None /\ op.result \in Results
  BY DEF OpOK, ShapeInv, BoundType
<1>3. /\ op.result[1] \in ResultStates /\ op.result[2] \in Bodies
      /\ op.result = <<op.result[1], op.result[2]>>
  BY <1>2 DEF Results, ResultStates
<1> QED
  BY <1>1, <1>2, <1>3 DEF CallOK, ResultCall, MkCall, Calls

LEMMA SendShape ==
  ASSUME ShapeInv, NEW p \in Callers, NEW c \in Calls, Send(p, c), UNCHANGED stream
  PROVE  /\ NetType' /\ ReplyType' /\ reply'[p] = None
         /\ \A q \in Callers \ {p} : reply'[q] = reply[q]
         /\ \A m \in net' \ net : m.call = c /\ m.to = p /\ m.live
<1> DEFINE new == [call |-> c, to |-> p, live |-> TRUE]
<1>1. new \in Messages /\ new.call = c /\ new.to = p /\ new.live
  BY DEF Messages
<1>2. net' = net \cup {new} /\ reply' = [reply EXCEPT ![p] = None]
  BY DEF Send
<1> HIDE DEF new
<1>3. NetType' /\ \A m \in net' \ net : m = new
  BY <1>1, <1>2 DEF ShapeInv, NetType
<1>4. /\ ReplyType' /\ reply'[p] = None
      /\ \A q \in Callers \ {p} : reply'[q] = reply[q]
  BY <1>2 DEF ShapeInv, ReplyType
<1> QED
  BY <1>1, <1>3, <1>4

(* The call that an execution in this state makes.                         *)
LEMMA ExecAsks ==
  ASSUME ReceiverInv, NEW r \in Requests, NEW pc \in {"marking", "submitting"}, NEW c \in Calls,
         exec[r].pc = IF pc = "marking" THEN "fetch" ELSE "submit",
         exec' = [exec EXCEPT ![r].pc = pc],
         c = IF pc = "marking" THEN RunningCall(r, exec[r].op) ELSE ResultCall(r, exec[r].op),
         CallOK(c), Send(r, c),
         UNCHANGED <<relay, now, stream, diskVars, daemon, authority, lock, thread, historyVars>>
  PROVE  ReceiverInv'
<1> USE DEF ReceiverInv
<1> DEFINE e == [exec[r] EXCEPT !.pc = pc]
<1>1. e \in ExecStates /\ e.pc = pc /\ e.op = exec[r].op
  BY DEF ShapeInv, ExecType, ExecStates
<1>2. exec' = [exec EXCEPT ![r] = e]
  BY DEF ShapeInv, ExecType
<1> HIDE DEF e
<1>3. ExecType' /\ exec'[r] = e /\ \A q \in Requests \ {r} : exec'[q] = exec[q]
  BY <1>1, <1>2, ExecShape
<1>4. /\ NetType' /\ ReplyType' /\ reply'[r] = None
      /\ \A q \in Callers \ {r} : reply'[q] = reply[q]
      /\ \A m \in net' \ net : m.call = c /\ m.to = r /\ m.live
  BY SendShape DEF Callers
<1>5. ShapeInv'
  BY <1>3, <1>4 DEF ShapeInv, RelayType, DiskType, DaemonType, ThreadType, BoundType, diskVars,
                    historyVars
<1>6. Advances
  BY <1>5, SameAdvances, ReceiverConstants DEF ShapeInv, BoundType, historyVars
<1>7. JournalOK(r)'
  <2>1. Begun(r)' => Begun(r)
    BY <1>1, <1>3 DEF Begun, historyVars
  <2> QED
    BY <1>5, <1>6, <2>1, JournalKeeps DEF JournalInv, diskVars, historyVars
<1>8. ExecOK(r)'
  <2>1. ExecOK(r)
    BY DEF ExecInv
  <2>2. ~(Terminal(reply'[r]) \/ reply'[r] = Running)
    BY <1>4, ErrorIsNoStatus DEF Terminal, Status
  <2> QED
    BY <1>1, <1>3, <2>1, <2>2 DEF ExecOK, OpOK, Decided, historyVars
<1>9. \A m \in net' \ net : CallOK(m.call)' /\ LiveOK(m)'
  <2> SUFFICES ASSUME NEW m \in net' \ net
               PROVE  CallOK(m.call)' /\ LiveOK(m)'
    OBVIOUS
  <2>1. m.call = c /\ m.to = r /\ m.live
    BY <1>4
  <2>2. r \notin Threads
    BY ReceiverValues
  <2>3. CallOK(c)'
    BY <1>5, <1>6, CallKeeps
  <2>4. LiveOK(m)'
    BY <1>1, <1>3, <1>4, <2>1, <2>2 DEF LiveOK, RunningCall, ResultCall
  <2> QED
    BY <2>1, <2>3, <2>4
<1> QED
  BY <1>3, <1>4, <1>5, <1>7, <1>8, <1>9, ExecMoves DEF diskVars, historyVars

LEMMA FetchStep ==
  ASSUME ReceiverInv, NEW r \in Requests, Fetch(r)
  PROVE  ReceiverInv'
<1> USE DEF ReceiverInv
<1>1. CASE End(r)
  <2>1. faults' \in 0..MaxFaults /\ UNCHANGED <<net, reply>>
    <3>1. NoExec.pc # "marking" /\ faults \in 0..MaxFaults /\ MaxFaults \in Nat
      BY NoExecState, FaultsInBound, ReceiverConstants
    <3>2. exec'[r].pc # "marking"
      BY <1>1, <3>1 DEF End, ShapeInv, ExecType
    <3>3. exec' # [exec EXCEPT ![r].pc = "marking"]
      BY <3>2 DEF ShapeInv, ExecType, ExecStates
    <3>4. UNCHANGED <<net, reply>> /\ (faults' = faults \/ (faults < MaxFaults /\ faults' = faults + 1))
      BY <3>3 DEF Fetch
    <3> QED
      BY <3>1, <3>4
  <2> QED
    BY <1>1, <2>1, EndMoves DEF Fetch, At, diskVars
<1>2. CASE /\ exec' = [exec EXCEPT ![r].pc = "marking"]
           /\ Send(r, RunningCall(r, exec[r].op)) /\ UNCHANGED faults
  <2>1. exec[r].pc = "fetch" /\ OpOK(r, exec[r].op) /\ Decided(r, exec[r].op.id, Allow)
    BY DEF Fetch, At, ExecInv, ExecOK
  <2>2. RunningCall(r, exec[r].op) \in Calls /\ CallOK(RunningCall(r, exec[r].op))
    BY <2>1, RunningCallOK
  <2> QED
    BY <1>2, <2>1, <2>2, ExecAsks DEF Fetch, historyVars
<1> QED
  BY <1>1, <1>2 DEF Fetch

LEMMA SubmitPreparedStep ==
  ASSUME ReceiverInv, NEW r \in Requests, SubmitPrepared(r)
  PROVE  ReceiverInv'
<1> USE DEF ReceiverInv
<1>1. exec[r].pc = "submit" /\ OpOK(r, exec[r].op) /\ exec[r].op.phase = ResultPrepared
  BY DEF SubmitPrepared, At, ExecInv, ExecOK
<1>2. ResultCall(r, exec[r].op) \in Calls /\ CallOK(ResultCall(r, exec[r].op))
  BY <1>1, ResultCallOK
<1> QED
  BY <1>1, <1>2, ExecAsks DEF SubmitPrepared

(* The boundary is crossed for the claim the relay has, once.              *)
LEMMA BoundaryStep ==
  ASSUME ReceiverInv, NEW r \in Requests, Boundary(r)
  PROVE  ReceiverInv'
<1> USE DEF ReceiverInv
<1>0. /\ exec[r].pc = "marking" /\ reply[r] # None /\ reply' = [reply EXCEPT ![r] = None]
      /\ UNCHANGED <<relayVars, daemon, authority, lock, thread, historyVars>>
  BY DEF Boundary, At
<1>1. CASE End(r) /\ UNCHANGED diskVars
  BY <1>0, <1>1, EndMoves, FaultsInBound DEF relayVars, diskVars, historyVars
<1>2. CASE /\ reply[r] = Running /\ MayStart(r, exec[r].op)
           /\ exec' = [exec EXCEPT ![r].pc = "start"]
           /\ journal' = [journal EXCEPT ![r].phase = RuntimeStarted]
           /\ pending' = [pending EXCEPT ![r] = IF @ = None THEN None ELSE Running]
  <2>1. PICK op \in mutationRecord : op = journal[r]
    BY <1>2 DEF MayStart, ShapeInv, DiskType
  <2>2. op.id = exec[r].op.id /\ op.phase = ClaimPrepared /\ op.id # None /\ op # None
    BY <1>2, <2>1, OpFields, IDsAreNat, NoneIsNone DEF MayStart
  <2>3. relay[r].claim = op.id
    BY <1>0, <1>2, <2>2 DEF ExecInv, ExecOK
  <2>4. ~Begun(r) /\ OpOK(r, op) /\ op.decision = Allow /\ Decided(r, op.id, Allow)
    BY <2>1, <2>2, <2>3 DEF JournalInv, JournalOK, ClaimPrepared, RuntimeStarted, ResultPrepared,
                            DecisionPrepared
  <2> DEFINE e == [exec[r] EXCEPT !.pc = "start"]
             new == [op EXCEPT !.phase = RuntimeStarted]
  <2>5. e \in ExecStates /\ e.pc = "start" /\ e.op = exec[r].op
    BY DEF ShapeInv, ExecType, ExecStates
  <2>6. exec' = [exec EXCEPT ![r] = e]
    BY <1>2 DEF ShapeInv, ExecType
  <2>7. /\ new \in mutationRecord /\ new # None /\ new.id = op.id /\ new.decision = op.decision
        /\ new.phase = RuntimeStarted
    BY NoneIsNone DEF mutationRecord
  <2>8. journal' = [journal EXCEPT ![r] = new]
    BY <1>2, <2>1 DEF ShapeInv, DiskType
  <2> HIDE DEF e, new
  <2>9. ExecType' /\ exec'[r] = e /\ \A q \in Requests \ {r} : exec'[q] = exec[q]
    BY <2>5, <2>6, ExecShape
  <2>10. /\ journal' \in [Requests -> mutationRecord \cup {None}] /\ journal'[r] = new
         /\ \A q \in Requests \ {r} : journal'[q] = journal[q]
    BY <2>7, <2>8 DEF ShapeInv, DiskType
  <2>11. ShapeInv'
    <3>1. pending' \in [Requests -> Status \cup {None}]
      BY <1>2 DEF ShapeInv, DiskType, Status
    <3>2. ReplyType'
      BY <1>0 DEF ShapeInv, ReplyType
    <3> QED
      BY <1>0, <2>9, <2>10, <3>1, <3>2 DEF ShapeInv, RelayType, NetType, DiskType, DaemonType,
                                           ThreadType, BoundType, relayVars, historyVars
  <2>12. runs[r] = 0 /\ outcome[r] = None
    BY <2>4 DEF Begun, ShapeInv, BoundType
  <2>13. ExecOK(r)'
    <3>1. /\ OpOK(r, exec[r].op) /\ exec[r].op.decision = Allow /\ Decided(r, exec[r].op.id, Allow)
          /\ exec[r].op.auth = authority
      BY <1>0 DEF ExecInv, ExecOK
    <3> QED
      BY <1>0, <2>2, <2>3, <2>5, <2>9, <2>12, <3>1
         DEF ExecOK, OpOK, Decided, relayVars, historyVars
  <2>14. JournalOK(r)'
    <3>1. OpOK(r, new)'
      BY <1>0, <2>4, <2>7
         DEF OpOK, historyVars, RuntimeStarted, ResultPrepared
    <3>2. UNCHANGED <<relay, outcome, runs>>
      BY <1>0 DEF relayVars, historyVars
    <3> QED
      BY <2>2, <2>3, <2>4, <2>7, <2>10, <2>12, <3>1, <3>2
         DEF JournalOK, OpOK, Decided, RuntimeStarted, DecisionPrepared, ResultPrepared
  <2>15. \A p \in Callers \ {r} : reply'[p] = reply[p]
    BY <1>0 DEF ShapeInv, ReplyType
  <2> QED
    BY <1>0, <2>9, <2>10, <2>11, <2>13, <2>14, <2>15, ExecMoves DEF relayVars, historyVars
<1> QED
  BY <1>1, <1>2 DEF Boundary

LEMMA StartRuntimeStep ==
  ASSUME ReceiverInv, NEW r \in Requests, StartRuntime(r)
  PROVE  ReceiverInv'
<1> USE DEF ReceiverInv
<1>0. /\ exec[r].pc = "start" /\ exec' = [exec EXCEPT ![r].pc = "runtime"]
      /\ runs' = [runs EXCEPT ![r] = @ + 1]
      /\ UNCHANGED <<relay, now, net, stream, journal, pending, daemon, authority, lock, thread,
                     reply, issued, faults, crashes, outcome>>
  BY DEF StartRuntime, At, relayVars, diskVars
<1>1. runs[r] = 0 /\ Begun(r)
  BY <1>0 DEF ExecInv, ExecOK, Begun
<1> DEFINE e == [exec[r] EXCEPT !.pc = "runtime"]
<1>2. e \in ExecStates /\ e.pc = "runtime" /\ e.op = exec[r].op
  BY DEF ShapeInv, ExecType, ExecStates
<1>3. exec' = [exec EXCEPT ![r] = e]
  BY <1>0 DEF ShapeInv, ExecType
<1> HIDE DEF e
<1>4. ExecType' /\ exec'[r] = e /\ \A q \in Requests \ {r} : exec'[q] = exec[q]
  BY <1>2, <1>3, ExecShape
<1>5. /\ runs' \in [Requests -> Nat] /\ runs'[r] = 1
      /\ \A q \in Requests \ {r} : runs'[q] = runs[q]
  BY <1>0, <1>1 DEF ShapeInv, BoundType
<1>6. ShapeInv'
  BY <1>0, <1>4, <1>5 DEF ShapeInv, RelayType, NetType, DiskType, DaemonType, ThreadType, ReplyType,
                          BoundType
<1>7. ExecOK(r)'
  BY <1>0, <1>2, <1>4 DEF ExecInv, ExecOK, OpOK, Decided
<1>8. JournalOK(r)'
  BY <1>0, <1>1, <1>5 DEF JournalInv, JournalOK, OpOK, Decided
<1> QED
  BY <1>0, <1>4, <1>5, <1>6, <1>7, <1>8, ExecMoves

LEMMA PrepareResultStep ==
  ASSUME ReceiverInv, NEW r \in Requests, NEW state \in {Completed, Failed}, NEW body \in Bodies,
         PrepareResult(r, state, body)
  PROVE  ReceiverInv'
<1> USE DEF ReceiverInv
<1>0. /\ exec[r].pc \in {"start", "runtime"}
      /\ UNCHANGED <<relay, now, net, stream, pending, daemon, authority, lock, thread, reply,
                     issued, faults, crashes, runs>>
  BY DEF PrepareResult, At, relayVars
<1>1. CASE End(r) /\ UNCHANGED <<journal, outcome>>
  BY <1>0, <1>1, EndMoves, FaultsInBound
<1>2. CASE /\ journal[r] # None /\ journal[r].id = exec[r].op.id
           /\ journal[r].phase = RuntimeStarted
           /\ journal' = [journal EXCEPT ![r].phase = ResultPrepared, ![r].result = <<state, body>>]
           /\ exec' = [exec EXCEPT ![r].pc = "submit", ![r].op = journal'[r]]
           /\ outcome' = [outcome EXCEPT ![r] = <<state, body>>]
  <2>1. PICK op \in mutationRecord : op = journal[r]
    BY <1>2 DEF ShapeInv, DiskType
  <2>2. /\ OpOK(r, op) /\ op.decision = Allow /\ Decided(r, op.id, Allow) /\ relay[r].claim = op.id
        /\ outcome[r] = None /\ runs[r] <= 1 /\ relay[r].claim # None
    <3>1. JournalOK(r) /\ ExecOK(r) /\ op # None /\ op.id # None
      BY <2>1, NoneIsNone, OpFields, IDsAreNat DEF JournalInv, ExecInv
    <3> QED
      BY <1>0, <1>2, <2>1, <3>1 DEF JournalOK, ExecOK, RuntimeStarted, DecisionPrepared
  <2> DEFINE new == [op EXCEPT !.phase = ResultPrepared, !.result = <<state, body>>]
             e == [exec[r] EXCEPT !.pc = "submit", !.op = new]
             res == <<state, body>>
  <2>3. res \in Results /\ res # None /\ res \in ResultStates \X Bodies
    BY NoneIsNone DEF Results, ResultStates
  <2>4. /\ new \in mutationRecord /\ new # None /\ new.id = op.id /\ new.decision = op.decision
        /\ new.phase = ResultPrepared /\ new.result = res
    BY <2>3, NoneIsNone DEF mutationRecord
  <2>5. journal' = [journal EXCEPT ![r] = new]
    BY <1>2, <2>1 DEF ShapeInv, DiskType
  <2> HIDE DEF new, res
  <2>6. /\ journal' \in [Requests -> mutationRecord \cup {None}] /\ journal'[r] = new
        /\ \A q \in Requests \ {r} : journal'[q] = journal[q]
    BY <2>4, <2>5 DEF ShapeInv, DiskType
  <2>7. e \in ExecStates /\ e.pc = "submit" /\ e.op = new
    BY <2>4 DEF ShapeInv, ExecType, ExecStates
  <2>8. exec' = [exec EXCEPT ![r] = e]
    BY <1>2, <2>6 DEF ShapeInv, ExecType
  <2> HIDE DEF e
  <2>9. ExecType' /\ exec'[r] = e /\ \A q \in Requests \ {r} : exec'[q] = exec[q]
    BY <2>7, <2>8, ExecShape
  <2>10. /\ outcome' \in [Requests -> Results \cup {None}] /\ outcome'[r] = res
         /\ \A q \in Requests \ {r} : outcome'[q] = outcome[q]
    BY <1>2, <2>3 DEF ShapeInv, BoundType, res
  <2>11. ShapeInv'
    BY <1>0, <2>6, <2>9, <2>10 DEF ShapeInv, RelayType, NetType, DiskType, DaemonType, ThreadType,
                                   ReplyType, BoundType
  <2>12. OpOK(r, new)'
    BY <1>0, <2>2, <2>3, <2>4, <2>10 DEF OpOK
  <2>13. ExecOK(r)'
    BY <1>0, <2>2, <2>4, <2>7, <2>9, <2>12 DEF ExecOK, OpOK, Decided
  <2>14. JournalOK(r)'
    BY <1>0, <2>2, <2>4, <2>6, <2>12 DEF JournalOK, OpOK, Decided
  <2> QED
    BY <1>0, <2>2, <2>6, <2>9, <2>10, <2>11, <2>13, <2>14, ExecMoves
<1> QED
  BY <1>1, <1>2 DEF PrepareResult

LEMMA SubmittedStep ==
  ASSUME ReceiverInv, NEW r \in Requests, Submitted(r)
  PROVE  ReceiverInv'
<1> USE DEF ReceiverInv
<1>1. /\ exec[r].pc = "submitting" /\ reply[r] # None
      /\ reply' = [reply EXCEPT ![r] = None] /\ End(r)
      /\ UNCHANGED <<relayVars, daemon, authority, lock, thread, historyVars>>
  BY DEF Submitted, At
<1>2. CASE reply[r] = exec[r].op.result[1] /\ Forget(r)
  <2>1. Terminal(reply[r])
    <3>1. exec[r].op.result = outcome[r] /\ outcome[r] # None
      BY <1>1 DEF ExecInv, ExecOK, OpOK
    <3>2. outcome[r] \in Results
      BY <3>1 DEF ShapeInv, BoundType
    <3> QED
      BY <1>2, <3>1, <3>2 DEF Results, Terminal, TerminalStatus
  <2>2. Terminal(relay[r].status)
    BY <1>1, <2>1 DEF ExecInv, ExecOK
  <2> QED
    BY <1>1, <1>2, <2>2, EndMoves, FaultsInBound DEF Forget, relayVars, historyVars
<1>3. CASE UNCHANGED diskVars
  BY <1>1, <1>3, EndMoves, FaultsInBound DEF relayVars, diskVars, historyVars
<1> QED
  BY <1>2, <1>3 DEF Submitted

LEMMA AbandonStep ==
  ASSUME ReceiverInv, NEW r \in Requests, Abandon(r)
  PROVE  ReceiverInv'
<1> USE DEF ReceiverInv
<1>1. \A m \in net' : m.to = r => ~m.live
  <2> SUFFICES ASSUME NEW m \in net', m.to = r
               PROVE  ~m.live
    OBVIOUS
  <2>1. PICK n \in net : m = IF n.to = r THEN [n EXCEPT !.live = FALSE] ELSE n
    BY DEF Abandon
  <2>2. n \in Messages
    BY DEF ShapeInv, NetType
  <2> QED
    BY <2>1, <2>2 DEF Messages
<1> QED
  BY <1>1, EndMoves, FaultsInBound DEF Abandon, diskVars, historyVars

LEMMA ExecStepInv ==
  ASSUME ReceiverInv, NEW r \in Requests, ExecStep(r)
  PROVE  ReceiverInv'
BY LoadStep, FetchStep, BoundaryStep, StartRuntimeStep, SubmitPreparedStep, SubmittedStep,
   AbandonStep, PrepareResultStep DEF ExecStep

-----------------------------------------------------------------------------
(* The steps of the relay and the network.                                 *)
LEMMA RelayMoves ==
  ASSUME ReceiverInv, ShapeInv', Advances,
         \A t \in Threads : reply'[t] \in {reply[t], None, Error} \/ ThreadOK(t)',
         \A r \in Requests : reply'[r] \in {reply[r], None, Error} \/ ExecOK(r)',
         \A m \in net' : \/ m \in net /\ (m.live => reply'[m.to] = reply[m.to])
                         \/ CallOK(m.call)' /\ LiveOK(m)',
         RelayInv', StreamInv',
         UNCHANGED <<journal, daemon, authority, thread, exec, runs, outcome>>
  PROVE  ReceiverInv'
<1> USE DEF ReceiverInv
<1>1. ThreadInv'
  BY ThreadKeeps DEF ThreadInv
<1>2. ExecInv'
  BY ExecKeeps DEF ExecInv
<1>3. JournalInv'
  <2> SUFFICES ASSUME NEW q \in Requests
               PROVE  JournalOK(q)'
    BY DEF JournalInv
  <2>1. Begun(q)' => Begun(q)
    BY DEF Begun
  <2> QED
    BY <2>1, JournalKeeps DEF JournalInv
<1>4. ASSUME NEW m \in net', m \in net, m.live => reply'[m.to] = reply[m.to]
      PROVE  CallOK(m.call)' /\ LiveOK(m)'
  <2>1. PICK c \in Calls : c = m.call
    BY <1>4 DEF ShapeInv, NetType, Messages
  <2>2. CallOK(c)'
    BY <1>4, <2>1, CallKeeps DEF NetInv
  <2>3. LiveOK(m)
    BY <1>4 DEF LiveInv
  <2>4. LiveOK(m)'
    <3>1. CASE m.live
      BY <1>4, <2>3, <3>1, LiveKeeps
    <3>2. CASE ~m.live
      BY <3>2 DEF LiveOK
    <3> QED
      BY <3>1, <3>2
  <2> QED
    BY <2>1, <2>2, <2>4
<1>5. NetInv' /\ LiveInv'
  BY <1>4 DEF NetInv, LiveInv
<1>6. DownInv'
  BY DEF DownInv
<1> QED
  BY <1>1, <1>2, <1>3, <1>5, <1>6

(* While the relay's status is open, it has no result.                     *)
LEMMA NoDigest ==
  ASSUME ShapeInv, NEW r \in Requests, RelayOK(r), relay[r].status \notin {Completed, Failed}
  PROVE  relay[r].digest = None
<1>1. outcome[r] # None => outcome[r][1] \in {Completed, Failed}
  BY DEF ShapeInv, BoundType, Results
<1> QED
  BY <1>1 DEF RelayOK

LEMMA EmitStream ==
  ASSUME ReceiverInv, Advances, NEW e \in Events, EventOK(e)', Emit(e)
  PROVE  stream' \in Seq(Events) /\ StreamInv'
<1> USE DEF ReceiverInv
<1>1. stream \in Seq(Events)
  BY DEF ShapeInv, NetType
<1>2. CASE stream' = stream
  BY <1>1, <1>2, StreamKeeps
<1>3. CASE stream' = Append(stream, e)
  <2>1. /\ stream' \in Seq(Events) /\ Len(stream') = Len(stream) + 1 /\ Len(stream) \in Nat
        /\ \A i \in 1..Len(stream) : stream'[i] = stream[i]
        /\ stream'[Len(stream) + 1] = e
    BY <1>1, <1>3
  <2> SUFFICES ASSUME NEW i \in 1..Len(stream')
               PROVE  EventOK(stream[i])'
    BY <2>1 DEF StreamInv
  <2>2. CASE i \in 1..Len(stream)
    <3>1. PICK f \in Events : f = stream[i]
      BY <1>1, <2>2
    <3>2. EventOK(f)'
      BY <2>2, <3>1, EventKeeps DEF StreamInv
    <3> QED
      BY <2>1, <2>2, <3>1, <3>2 DEF EventOK
  <2>3. CASE i = Len(stream) + 1
    BY <2>1, <2>3 DEF EventOK
  <2> QED
    BY <2>1, <2>2, <2>3
<1> QED
  BY <1>2, <1>3 DEF Emit

(* Create and Cancel change the status of r and announce it.               *)
LEMMA StatusMoves ==
  ASSUME ReceiverInv, NEW r \in Requests, NEW st \in {Awaiting, Cancelled}, NEW e \in Events,
         relay' = [relay EXCEPT ![r].status = st], Emit(e),
         st = Awaiting => relay[r].status = Absent /\ e = <<"peer_request", r, Awaiting>>,
         st = Cancelled => relay[r].status \in Open /\ e = <<"peer_cancelled", r, Cancelled>>,
         UNCHANGED <<now, net, diskVars, processVars, historyVars>>
  PROVE  ReceiverInv'
<1> USE DEF ReceiverInv
<1> DEFINE s == [relay[r] EXCEPT !.status = st]
<1>1. /\ s \in RelayRecords /\ s.status = st /\ s.decisionID = relay[r].decisionID
      /\ s.decision = relay[r].decision /\ s.claim = relay[r].claim /\ s.digest = relay[r].digest
  BY DEF ShapeInv, RelayType, RelayRecords, Status, TerminalStatus
<1>2. relay' = [relay EXCEPT ![r] = s]
  BY DEF ShapeInv, RelayType
<1> HIDE DEF s
<1>3. /\ relay' \in [Requests -> RelayRecords] /\ relay'[r] = s
      /\ \A q \in Requests \ {r} : relay'[q] = relay[q]
  BY <1>1, <1>2 DEF ShapeInv, RelayType
<1>4. ~Terminal(relay[r].status)
  BY DEF Terminal, TerminalStatus, Open, Absent, Awaiting, Accepted, Running, Completed, Failed,
         Cancelled, Expired, Rejected
<1>5. Advances
  BY <1>1, <1>3, <1>4, ReceiverConstants DEF Advances, ShapeInv, BoundType, historyVars
<1>6. EventOK(e)'
  BY <1>1, <1>3 DEF EventOK, Open, Terminal, TerminalStatus, Awaiting, Cancelled
<1>7. stream' \in Seq(Events) /\ StreamInv'
  BY <1>5, <1>6, EmitStream
<1>8. ShapeInv'
  BY <1>3, <1>7 DEF ShapeInv, RelayType, NetType, DiskType, DaemonType, ThreadType, ExecType, ReplyType,
                    BoundType, diskVars, processVars, historyVars
<1>9. RelayInv'
  <2> SUFFICES ASSUME NEW q \in Requests
               PROVE  RelayOK(q)'
    BY DEF RelayInv
  <2>1. CASE q # r
    BY <1>3, <1>5, <1>8, <2>1, RelayKeeps DEF RelayInv
  <2>2. CASE q = r
    <3>1. relay[r].digest = None
      BY <1>4, NoDigest DEF RelayInv, Terminal, TerminalStatus
    <3>2. RelayOK(r)
      BY DEF RelayInv
    <3> QED
      BY <1>1, <1>3, <2>2, <3>1, <3>2
         DEF RelayOK, Decided, historyVars, Awaiting, Cancelled, Absent, Accepted
  <2> QED
    BY <2>1, <2>2
<1> QED
  BY <1>5, <1>7, <1>8, <1>9, RelayMoves DEF diskVars, processVars, historyVars

LEMMA CreateStep ==
  ASSUME ReceiverInv, NEW r \in Requests, Create(r)
  PROVE  ReceiverInv'
<1>1. <<"peer_request", r, Awaiting>> \in Events
  BY DEF Events, Status
<1> QED
  BY <1>1, StatusMoves DEF Create, Awaiting, Cancelled

LEMMA CancelStep ==
  ASSUME ReceiverInv, NEW r \in Requests, Cancel(r)
  PROVE  ReceiverInv'
<1>1. <<"peer_cancelled", r, Cancelled>> \in Events
  BY DEF Events, Status, TerminalStatus
<1> QED
  BY <1>1, StatusMoves DEF Cancel, Awaiting, Cancelled, Open

LEMMA DeadlineStep ==
  ASSUME ReceiverInv, Deadline
  PROVE  ReceiverInv'
<1> USE DEF ReceiverInv
<1>1. ShapeInv'
  BY ReceiverConstants DEF Deadline, ShapeInv, RelayType, NetType, DiskType, DaemonType, ThreadType,
         ExecType, ReplyType, BoundType, diskVars, processVars, historyVars
<1>2. Advances
  BY <1>1, SameAdvances, ReceiverConstants DEF Deadline, ShapeInv, BoundType, historyVars
<1>3. RelayInv' /\ StreamInv'
  BY <1>1, <1>2, RelayKeeps, StreamKeeps DEF Deadline, RelayInv
<1> QED
  BY <1>1, <1>2, <1>3, RelayMoves DEF Deadline, diskVars, processVars, historyVars

(* What the relay makes of a call that it does not refuse.                 *)
LEMMA ServedDecide ==
  ASSUME ShapeInv, NEW c \in Calls, CallOK(c), RelayOK(c.req), c.op = "decide",
         ~DecideRefused(relay[c.req], c)
  PROVE  LET s  == relay[c.req]
             to == DecideTo(s, c, now, {})
         IN  /\ to \in RelayRecords
             /\ to.decisionID = c.id /\ to.decision = c.choice
             /\ s.decisionID # None => to = s
             /\ s.decisionID = None =>
                  /\ s.status = Awaiting /\ to.status \in {Accepted, Rejected, Expired}
                  /\ to.claim = s.claim /\ to.digest = s.digest
<1>1. relay[c.req] \in RelayRecords /\ c.id \in IDs /\ c.choice \in Decisions
  BY DEF ShapeInv, RelayType, Calls, CallOK
<1> QED
  BY <1>1 DEF DecideRefused, DecideTo, DecidedStatus, RelayRecords, Status, TerminalStatus

LEMMA ServedRunning ==
  ASSUME ShapeInv, NEW c \in Calls, CallOK(c), RelayOK(c.req), c.op = "markRunning",
         ~MarkRunningRefused(relay[c.req], c)
  PROVE  LET s  == relay[c.req]
             to == MarkRunningTo(s, c)
         IN  /\ to \in RelayRecords
             /\ to.claim = c.id /\ to.status = Running
             /\ s.status # Accepted => to = s
             /\ s.status = Accepted =>
                  /\ to.decisionID = s.decisionID /\ to.decision = s.decision
                  /\ to.digest = s.digest
<1>1. relay[c.req] \in RelayRecords /\ c.id \in IDs
  BY DEF ShapeInv, RelayType, Calls
<1> QED
  BY <1>1 DEF MarkRunningRefused, MarkRunningTo, RelayRecords, Status, executionClaimMatches,
              Accepted, Running

LEMMA ServedSubmit ==
  ASSUME ShapeInv, NEW c \in Calls, CallOK(c), RelayOK(c.req), c.op = "submit",
         ~SubmitResultRefused(relay[c.req], c)
  PROVE  LET s  == relay[c.req]
             to == SubmitResultTo(s, c, {})
         IN  /\ to \in RelayRecords
             /\ Terminal(s.status) => to = s
             /\ ~Terminal(s.status) =>
                  /\ to.decisionID = s.decisionID /\ to.decision = s.decision /\ to.claim = s.claim
                  /\ s.status = Running /\ to.status = outcome[c.req][1] /\ Terminal(to.status)
                  /\ to.status \in ResultStates /\ outcome[c.req] # None
                  /\ <<to.digest[2], to.digest[3]>> = outcome[c.req]
<1>1. relay[c.req] \in RelayRecords /\ c.id \in IDs /\ c.req \in Requests
  BY DEF ShapeInv, RelayType, Calls
<1>2. outcome[c.req] # None /\ outcome[c.req] = <<c.choice, c.body>> /\ outcome[c.req] \in Results
  BY <1>1 DEF CallOK, ShapeInv, BoundType
<1>3. c.choice \in {Completed, Failed} /\ c.body \in Bodies
  BY <1>2 DEF Results
<1>4. c.choice \in ResultStates /\ c.choice \in Status /\ Terminal(c.choice)
  BY <1>3 DEF ResultStates, Status, Terminal, TerminalStatus
<1>5. digestResult(c) \in IDs \X ResultStates \X Bodies
  BY <1>1, <1>3, <1>4 DEF digestResult
<1>6. digestResult(c)[2] = c.choice /\ digestResult(c)[3] = c.body
  BY DEF digestResult
<1> HIDE DEF digestResult
<1>7. CASE Terminal(relay[c.req].status)
  BY <1>1, <1>7 DEF SubmitResultTo
<1>8. CASE ~Terminal(relay[c.req].status)
  <2> DEFINE s == relay[c.req]
             to == [s EXCEPT !.status = c.choice, !.digest = digestResult(c), !.resultFiles = {}]
  <2>1. to \in RelayRecords
    BY <1>1, <1>4, <1>5 DEF RelayRecords
  <2>2. /\ to.decisionID = s.decisionID /\ to.decision = s.decision /\ to.claim = s.claim
        /\ to.status = c.choice /\ to.digest = digestResult(c)
    BY <1>1 DEF RelayRecords
  <2>3. SubmitResultTo(s, c, {}) = to /\ s.status = Running
    BY <1>8 DEF SubmitResultTo, SubmitResultRefused
  <2> HIDE DEF to
  <2> QED
    BY <1>2, <1>4, <1>6, <1>8, <2>1, <2>2, <2>3
<1> QED
  BY <1>7, <1>8

LEMMA Statuses ==
  /\ ~Terminal(Absent) /\ ~Terminal(Awaiting) /\ ~Terminal(Accepted) /\ ~Terminal(Running)
  /\ \A st \in ResultStates \cup {Rejected, Expired} :
       Terminal(st) /\ st \notin {Absent, Awaiting, Accepted, Running}
  /\ Absent # Awaiting /\ Awaiting # Accepted /\ Accepted # Running /\ Awaiting # Running
  /\ Absent # Accepted /\ Absent # Running
BY DEF Terminal, TerminalStatus, ResultStates, Absent, Awaiting, Accepted, Running, Completed,
       Failed, Cancelled, Expired, Rejected

(* The relay serves a call: its record advances, and says what the answer  *)
(* will be taken to mean.                                                  *)
LEMMA Served ==
  ASSUME ReceiverInv, NEW c \in Calls, CallOK(c), ~Refused(relay[c.req], c, now)
  PROVE  LET r  == c.req
             s  == relay[r]
             to == To(s, c, now, {}, {})
         IN  /\ to \in RelayRecords
             /\ s.decisionID # None => to.decisionID = s.decisionID /\ to.decision = s.decision
             /\ s.claim # None => to.claim = s.claim
             /\ Terminal(s.status) => Terminal(to.status)
             /\ to.status \in {Absent, Awaiting} => to.decisionID = None
             /\ to.status \in {Absent, Awaiting, Accepted} => to.claim = None
             /\ to.claim # None => to.decisionID = to.claim /\ to.decision = Allow
             /\ to.decisionID # None => to.decisionID <= issued
             /\ to.digest # None => /\ outcome[r] # None /\ to.status = outcome[r][1]
                                    /\ <<to.digest[2], to.digest[3]>> = outcome[r]
             /\ c.op = "decide" => to.decisionID = c.id /\ to.decision = c.choice
             /\ c.op = "markRunning" /\ to.status = Running => to.claim = c.id
<1> USE DEF ReceiverInv
<1>0. c.req \in Requests /\ RelayOK(c.req) /\ c.id \in IDs /\ c.id # None /\ c.id <= issued
  BY IDsAreNat DEF Calls, RelayInv, CallOK
<1>1. CASE c.op = "decide"
  <2> DEFINE s  == relay[c.req]
             to == DecideTo(s, c, now, {})
  <2>1. ~DecideRefused(s, c) /\ To(s, c, now, {}, {}) = to
    BY <1>1 DEF Refused, To
  <2>2. /\ to \in RelayRecords
        /\ to.decisionID = c.id /\ to.decision = c.choice
        /\ s.decisionID # None => to = s
        /\ s.decisionID = None =>
             /\ s.status = Awaiting /\ to.status \in {Accepted, Rejected, Expired}
             /\ to.claim = s.claim /\ to.digest = s.digest
    BY <1>0, <1>1, <2>1, ServedDecide
  <2> HIDE DEF to
  <2>3. CASE s.decisionID # None
    BY <1>0, <1>1, <2>1, <2>2, <2>3 DEF RelayOK, Decided
  <2>4. CASE s.decisionID = None
    <3>1. s.claim = None /\ s.digest = None
      <4>1. s.status \notin {Completed, Failed}
        BY <2>2, <2>4, Statuses DEF ResultStates
      <4> QED
        BY <1>0, <2>2, <2>4, <4>1, NoDigest DEF RelayOK
    <3> QED
      BY <1>0, <1>1, <2>1, <2>2, <2>4, <3>1, Statuses
  <2> QED
    BY <2>3, <2>4
<1>2. CASE c.op = "markRunning"
  <2> DEFINE s  == relay[c.req]
             to == MarkRunningTo(s, c)
  <2>1. ~MarkRunningRefused(s, c) /\ To(s, c, now, {}, {}) = to
    BY <1>2 DEF Refused, To
  <2>2. /\ to \in RelayRecords
        /\ to.claim = c.id /\ to.status = Running
        /\ s.status # Accepted => to = s
        /\ s.status = Accepted => /\ to.decisionID = s.decisionID /\ to.decision = s.decision
                                  /\ to.digest = s.digest
    BY <1>0, <1>2, <2>1, ServedRunning
  <2> HIDE DEF to
  <2>3. CASE s.status # Accepted
    BY <1>0, <1>2, <2>1, <2>2, <2>3 DEF RelayOK, Decided
  <2>4. CASE s.status = Accepted
    <3>1. s.claim = None /\ s.digest = None
      <4>1. s.status \notin {Completed, Failed}
        BY <2>4, Statuses DEF ResultStates
      <4> QED
        BY <1>0, <2>4, <4>1, NoDigest DEF RelayOK
    <3>2. s.decisionID = c.id /\ s.decision = Allow
      BY <1>2 DEF CallOK, Decided
    <3> QED
      BY <1>0, <1>2, <2>1, <2>2, <2>4, <3>1, <3>2, Statuses
  <2> QED
    BY <2>3, <2>4
<1>3. CASE c.op = "submit"
  <2> DEFINE s  == relay[c.req]
             to == SubmitResultTo(s, c, {})
  <2>1. ~SubmitResultRefused(s, c) /\ To(s, c, now, {}, {}) = to
    BY <1>3 DEF Refused, To
  <2>2. /\ to \in RelayRecords
        /\ Terminal(s.status) => to = s
        /\ ~Terminal(s.status) =>
             /\ to.decisionID = s.decisionID /\ to.decision = s.decision /\ to.claim = s.claim
             /\ s.status = Running /\ to.status = outcome[c.req][1] /\ Terminal(to.status)
             /\ to.status \in ResultStates /\ outcome[c.req] # None
             /\ <<to.digest[2], to.digest[3]>> = outcome[c.req]
    BY <1>0, <1>3, <2>1, ServedSubmit
  <2> HIDE DEF to
  <2>3. CASE Terminal(s.status)
    BY <1>0, <1>3, <2>1, <2>2, <2>3 DEF RelayOK, Decided
  <2>4. CASE ~Terminal(s.status)
    <3>1. to.status \notin {Absent, Awaiting, Accepted, Running}
      BY <2>2, <2>4, Statuses
    <3> QED
      BY <1>0, <1>3, <2>1, <2>2, <2>4, <3>1 DEF RelayOK, Decided
  <2> QED
    BY <2>3, <2>4
<1> QED
  BY <1>1, <1>2, <1>3 DEF Calls

LEMMA ServeStep ==
  ASSUME ReceiverInv, NEW m \in net, Serve(m)
  PROVE  ReceiverInv'
<1> USE DEF ReceiverInv
<1>1. PICK c \in Calls : c = m.call /\ m.to \in Callers /\ CallOK(c) /\ LiveOK(m)
  BY DEF ShapeInv, NetType, Messages, NetInv, LiveInv
<1> DEFINE r == c.req
           to == To(relay[r], c, now, {}, {})
           refused == Refused(relay[r], c, now)
<1>2. /\ net' = net \ {m}
      /\ relay' = IF refused THEN relay ELSE [relay EXCEPT ![r] = to]
      /\ reply' = IF ~m.live THEN reply
                  ELSE [reply EXCEPT ![m.to] = IF refused THEN Error ELSE to.status]
      /\ UNCHANGED <<now, stream, diskVars, daemon, authority, lock, thread, exec, historyVars>>
  BY <1>1 DEF Serve
<1>3. r \in Requests
  BY DEF Calls
<1>4. ~refused =>
        /\ to \in RelayRecords
        /\ relay[r].decisionID # None =>
             to.decisionID = relay[r].decisionID /\ to.decision = relay[r].decision
        /\ relay[r].claim # None => to.claim = relay[r].claim
        /\ Terminal(relay[r].status) => Terminal(to.status)
        /\ to.status \in {Absent, Awaiting} => to.decisionID = None
        /\ to.status \in {Absent, Awaiting, Accepted} => to.claim = None
        /\ to.claim # None => to.decisionID = to.claim /\ to.decision = Allow
        /\ to.decisionID # None => to.decisionID <= issued
        /\ to.digest # None => /\ outcome[r] # None /\ to.status = outcome[r][1]
                               /\ <<to.digest[2], to.digest[3]>> = outcome[r]
        /\ c.op = "decide" => to.decisionID = c.id /\ to.decision = c.choice
        /\ c.op = "markRunning" /\ to.status = Running => to.claim = c.id
  BY <1>1, Served
<1> HIDE DEF to, refused
<1>5. /\ relay' \in [Requests -> RelayRecords]
      /\ \A q \in Requests \ {r} : relay'[q] = relay[q]
      /\ relay'[r] = IF refused THEN relay[r] ELSE to
  BY <1>2, <1>3, <1>4 DEF ShapeInv, RelayType
<1>6. Advances
  BY <1>2, <1>4, <1>5, ReceiverConstants DEF Advances, ShapeInv, BoundType, historyVars
<1>7. to.status \in Status \/ refused
  BY <1>4 DEF RelayRecords
<1>8. ShapeInv'
  <2>1. NetType'
    BY <1>2 DEF ShapeInv, NetType
  <2>2. ReplyType'
    BY <1>1, <1>2, <1>7 DEF ShapeInv, ReplyType
  <2> QED
    BY <1>2, <1>5, <2>1, <2>2 DEF ShapeInv, RelayType, DiskType, DaemonType, ThreadType, ExecType,
                                  BoundType, diskVars, historyVars
<1>9. RelayInv'
  <2> SUFFICES ASSUME NEW q \in Requests
               PROVE  RelayOK(q)'
    BY DEF RelayInv
  <2>1. CASE relay'[q] = relay[q]
    BY <1>6, <1>8, <2>1, RelayKeeps DEF RelayInv
  <2>2. CASE q = r /\ ~refused
    BY <1>2, <1>4, <1>5, <2>2 DEF RelayOK, Decided, historyVars
  <2> QED
    BY <1>5, <2>1, <2>2
<1>10. StreamInv'
  BY <1>2, <1>6, StreamKeeps
<1>11. /\ \A p \in Callers : p # m.to \/ ~m.live => reply'[p] = reply[p]
       /\ m.live => reply'[m.to] = IF refused THEN Error ELSE to.status
  BY <1>1, <1>2 DEF ShapeInv, ReplyType
<1>12. ASSUME NEW t \in Threads
       PROVE  reply'[t] \in {reply[t], None, Error} \/ ThreadOK(t)'
  <2> SUFFICES ASSUME m.live, t = m.to, ~refused
               PROVE  ThreadOK(t)'
    BY <1>11 DEF Callers
  <2>1. \/ thread[t].pc \in Asking /\ c = DecideCall(thread[t].req, thread[t].op)
        \/ thread[t].pc = "replay" /\ c = ResultCall(thread[t].req, thread[t].op)
    BY <1>1 DEF LiveOK
  <2>2. c.req = thread[t].req
    BY <2>1 DEF DecideCall, ResultCall, MkCall
  <2>3. thread[t].pc \in Asking =>
          c.op = "decide" /\ c.id = thread[t].op.id /\ c.choice = thread[t].op.decision
    BY <2>1 DEF DecideCall, ResultCall, MkCall, Asking
  <2>4. reply'[t] = to.status /\ relay'[thread[t].req] = to
    BY <1>5, <1>11, <2>2
  <2> QED
    BY <1>2, <1>4, <1>6, <1>8, <2>3, <2>4, ThreadAnswered DEF ThreadInv
<1>13. ASSUME NEW q \in Requests
       PROVE  reply'[q] \in {reply[q], None, Error} \/ ExecOK(q)'
  <2> SUFFICES ASSUME m.live, q = m.to, ~refused
               PROVE  ExecOK(q)'
    BY <1>11 DEF Callers
  <2>1. \/ exec[q].pc = "marking" /\ c = RunningCall(q, exec[q].op)
        \/ exec[q].pc = "submitting" /\ c = ResultCall(q, exec[q].op)
    BY <1>1 DEF LiveOK
  <2>2. c.req = q
    BY <2>1 DEF RunningCall, ResultCall, MkCall
  <2>3. exec[q].pc = "marking" => c.op = "markRunning" /\ c.id = exec[q].op.id
    BY <2>1 DEF RunningCall, MkCall
  <2>4. reply'[q] = to.status /\ relay'[q] = to
    BY <1>5, <1>11, <2>2
  <2> QED
    BY <1>2, <1>4, <1>6, <1>8, <2>3, <2>4, ExecAnswered DEF ExecInv, historyVars
<1>14. ASSUME NEW n \in net', n.live
       PROVE  n \in net /\ reply'[n.to] = reply[n.to]
  <2>1. n \in net /\ n # m /\ n \in Messages /\ m \in Messages /\ LiveOK(n)
    BY <1>2 DEF ShapeInv, NetType, LiveInv
  <2>2. n.to = m.to /\ m.live => n.call = m.call
    BY <1>1, <1>14, <2>1, ReceiverValues DEF LiveOK, Callers, Asking
  <2>3. n.to # m.to \/ ~m.live
    BY <1>14, <2>1, <2>2 DEF Messages
  <2> QED
    BY <1>11, <2>1, <2>3 DEF Messages
<1>15. \A n \in net' : n \in net
  BY <1>2
<1> QED
  BY <1>2, <1>6, <1>8, <1>9, <1>10, <1>12, <1>13, <1>14, <1>15, RelayMoves DEF diskVars, historyVars

LEMMA LoseStep ==
  ASSUME ReceiverInv, NEW m \in net, Lose(m)
  PROVE  ReceiverInv'
<1> USE DEF ReceiverInv
<1> DEFINE dead == [m EXCEPT !.live = FALSE]
<1>1. m \in Messages /\ CallOK(m.call) /\ LiveOK(m)
  BY DEF ShapeInv, NetType, NetInv, LiveInv
<1>2. dead \in Messages /\ dead.call = m.call /\ ~dead.live
  BY <1>1 DEF Messages
<1> HIDE DEF dead
<1>3. /\ m.live /\ faults' = faults + 1 /\ faults < MaxFaults
      /\ \A n \in net' : n \in net \ {m} \/ n = dead
      /\ reply' = [reply EXCEPT ![m.to] = Error]
      /\ UNCHANGED <<relay, now, stream, diskVars, daemon, authority, lock, thread,
                     exec, issued, crashes, runs, outcome>>
  BY DEF Lose, dead
<1>4. ShapeInv'
  <2>1. NetType'
    BY <1>2, <1>3 DEF ShapeInv, NetType
  <2>2. ReplyType'
    BY <1>3 DEF ShapeInv, ReplyType
  <2> QED
    BY <1>3, <2>1, <2>2, ReceiverConstants
       DEF ShapeInv, RelayType, DiskType, DaemonType, ThreadType, ExecType, BoundType, diskVars
<1>5. Advances
  BY <1>3, <1>4, SameAdvances, ReceiverConstants DEF ShapeInv, BoundType
<1>6. RelayInv' /\ StreamInv'
  BY <1>3, <1>4, <1>5, RelayKeeps, StreamKeeps DEF RelayInv
<1>7. \A p \in Callers : reply'[p] = reply[p] \/ (p = m.to /\ reply'[p] = Error)
  BY <1>3 DEF ShapeInv, ReplyType
<1>8. ASSUME NEW n \in net'
      PROVE  \/ n \in net /\ (n.live => reply'[n.to] = reply[n.to])
             \/ CallOK(n.call)' /\ LiveOK(n)'
  <2>1. CASE n = dead
    <3>1. PICK c \in Calls : c = m.call
      BY <1>1 DEF Messages
    <3>2. CallOK(c)'
      BY <1>1, <1>4, <1>5, <3>1, CallKeeps
    <3> QED
      BY <1>2, <2>1, <3>1, <3>2 DEF LiveOK
  <2>2. CASE n \in net \ {m}
    <3>1. n \in Messages /\ LiveOK(n)
      BY <2>2 DEF ShapeInv, NetType, LiveInv
    <3>2. n.live /\ n.to = m.to => n.call = m.call
      BY <1>1, <1>3, <3>1, ReceiverValues DEF LiveOK, Callers, Asking, Messages
    <3>3. n.live => n.to # m.to
      BY <1>1, <1>3, <2>2, <3>1, <3>2 DEF Messages
    <3> QED
      BY <1>7, <2>2, <3>1, <3>3 DEF Messages
  <2> QED
    BY <1>3, <2>1, <2>2
<1> QED
  BY <1>3, <1>4, <1>5, <1>6, <1>7, <1>8, RelayMoves DEF Callers, diskVars

-----------------------------------------------------------------------------
(* The end of the process and its restart.                                 *)
LEMMA IdleState == Idle \in ThreadStates /\ Idle.pc = "idle"
BY DEF Idle, ThreadStates

LEMMA LoseMemoryInv ==
  ASSUME ReceiverInv, LoseMemory, crashes' \in 0..MaxCrashes
  PROVE  ReceiverInv'
<1> USE DEF ReceiverInv
<1>0. /\ daemon' = "down" /\ lock' = None /\ stream' = <<>>
      /\ UNCHANGED <<relay, now, journal, pending, authority, issued, faults, runs, outcome>>
  BY DEF LoseMemory, diskVars
<1>1. \A m \in net' : m \in Messages /\ ~m.live /\ \E n \in net : m.call = n.call
  <2> SUFFICES ASSUME NEW m \in net'
               PROVE  m \in Messages /\ ~m.live /\ \E n \in net : m.call = n.call
    OBVIOUS
  <2>1. PICK n \in net : m = [n EXCEPT !.live = FALSE]
    BY DEF LoseMemory
  <2>2. n \in Messages
    BY DEF ShapeInv, NetType
  <2>3. m \in Messages /\ ~m.live /\ m.call = n.call
    BY <2>1, <2>2 DEF Messages
  <2> QED
    BY <2>3
<1>2. thread' \in [Threads -> ThreadStates] /\ \A t \in Threads : thread'[t].pc = "idle"
  BY IdleState DEF LoseMemory
<1>3. exec' \in [Requests -> ExecStates] /\ \A r \in Requests : exec'[r].pc = "none"
  BY NoExecState DEF LoseMemory
<1>4. ShapeInv'
  <2>1. ReplyType'
    BY DEF LoseMemory, ReplyType
  <2>2. stream' \in Seq(Events)
    BY <1>0
  <2> QED
    BY <1>0, <1>1, <1>2, <1>3, <2>1, <2>2 DEF ShapeInv, RelayType, NetType, DiskType, DaemonType,
                                              ThreadType, ExecType, BoundType
<1>5. Advances
  BY <1>0, <1>4, SameAdvances, ReceiverConstants DEF ShapeInv, BoundType
<1>6. RelayInv'
  BY <1>0, <1>4, <1>5, RelayKeeps DEF RelayInv
<1>7. ExecInv' /\ ThreadInv' /\ DownInv' /\ LiveInv' /\ StreamInv'
  <2>1. ExecInv'
    BY <1>3 DEF ExecInv, ExecOK
  <2>2. ThreadInv'
    BY <1>2 DEF ThreadInv, ThreadOK, HasRequest, HasOp, Asking
  <2>3. DownInv' /\ LiveInv'
    BY <1>1, <1>2, <1>3 DEF DownInv, LiveInv, LiveOK
  <2>4. StreamInv'
    BY <1>0 DEF StreamInv
  <2> QED
    BY <2>1, <2>2, <2>3, <2>4
<1>8. NetInv'
  <2> SUFFICES ASSUME NEW m \in net'
               PROVE  CallOK(m.call)'
    BY DEF NetInv
  <2>1. PICK c \in Calls : c = m.call /\ CallOK(c)
    BY <1>1 DEF Messages, NetInv
  <2> QED
    BY <1>4, <1>5, <2>1, CallKeeps
<1>9. JournalInv'
  <2> SUFFICES ASSUME NEW q \in Requests
               PROVE  JournalOK(q)'
    BY DEF JournalInv
  <2>1. Begun(q)' => Begun(q)
    BY <1>0, <1>3 DEF Begun
  <2> QED
    BY <1>0, <1>4, <1>5, <2>1, JournalKeeps DEF JournalInv
<1> QED
  BY <1>4, <1>6, <1>7, <1>8, <1>9

LEMMA CrashStep ==
  ASSUME ReceiverInv, Crash \/ Exit
  PROVE  ReceiverInv'
<1>1. crashes \in 0..MaxCrashes
  BY DEF ReceiverInv, ShapeInv, BoundType
<1>2. crashes' \in 0..MaxCrashes /\ LoseMemory
  BY <1>1, ReceiverConstants DEF Crash, Exit
<1> QED
  BY <1>2, LoseMemoryInv

LEMMA RestartStep ==
  ASSUME ReceiverInv, Restart
  PROVE  ReceiverInv'
<1> USE DEF ReceiverInv
<1>0. /\ daemon = "down" /\ daemon' = "starting" /\ authority' \in Authorities
      /\ thread' = [thread EXCEPT !["reconcile"].pc = "inbox"]
      /\ UNCHANGED <<relay, now, net, stream, journal, pending, lock, exec, reply, issued, faults,
                     crashes, runs, outcome>>
  BY DEF Restart, relayVars, diskVars, historyVars
<1>1. "reconcile" \in Threads
  BY DEF Threads
<1>2. /\ \A t \in Threads : thread[t].pc = "idle"
      /\ \A r \in Requests : exec[r].pc = "none"
  BY <1>0 DEF DownInv
<1>3. /\ thread' \in [Threads -> ThreadStates]
      /\ \A t \in Threads : thread'[t].pc \in {"idle", "inbox"}
  BY <1>0, <1>1, <1>2 DEF ShapeInv, ThreadType, ThreadStates
<1>4. ShapeInv'
  BY <1>0, <1>3 DEF ShapeInv, RelayType, NetType, DiskType, DaemonType, ThreadType, ExecType, ReplyType,
                    BoundType
<1>5. Advances
  BY <1>0, <1>4, SameAdvances, ReceiverConstants DEF ShapeInv, BoundType
<1>6. RelayInv' /\ StreamInv'
  BY <1>0, <1>4, <1>5, RelayKeeps, StreamKeeps DEF RelayInv
<1>7. ThreadInv'
  BY <1>3 DEF ThreadInv, ThreadOK, HasRequest, HasOp, Asking
<1>8. ExecInv'
  BY <1>0, <1>2 DEF ExecInv, ExecOK
<1>9. ASSUME NEW m \in net
      PROVE  CallOK(m.call)' /\ LiveOK(m)'
  <2>1. ~m.live
    BY <1>2 DEF LiveInv, LiveOK, ShapeInv, NetType, Messages, Callers, Asking
  <2>2. PICK c \in Calls : c = m.call /\ CallOK(c)
    BY DEF ShapeInv, NetType, Messages, NetInv
  <2> QED
    BY <1>4, <1>5, <2>1, <2>2, CallKeeps DEF LiveOK
<1>10. NetInv' /\ LiveInv'
  BY <1>0, <1>9 DEF NetInv, LiveInv
<1>11. JournalInv'
  <2> SUFFICES ASSUME NEW q \in Requests
               PROVE  JournalOK(q)'
    BY DEF JournalInv
  <2>1. Begun(q)' => Begun(q)
    BY <1>0 DEF Begun
  <2> QED
    BY <1>0, <1>4, <1>5, <2>1, JournalKeeps DEF JournalInv
<1>12. DownInv'
  BY <1>0 DEF DownInv
<1> QED
  BY <1>4, <1>6, <1>7, <1>8, <1>10, <1>11, <1>12

-----------------------------------------------------------------------------
(* The steps of the goroutines.                                            *)
LEMMA ThreadShape ==
  ASSUME ShapeInv, NEW t \in Threads, NEW th \in ThreadStates, thread' = [thread EXCEPT ![t] = th]
  PROVE  /\ ThreadType' /\ thread'[t] = th
         /\ \A u \in Threads \ {t} : thread'[u] = thread[u]
BY DEF ShapeInv, ThreadType

(* What a goroutine may do to the executions: start one, cancel one.       *)
Shifts ==
  /\ ExecType'
  /\ \A q \in Requests : \/ exec'[q].pc = exec[q].pc /\ exec'[q].op = exec[q].op
                         \/ exec[q].pc = "none" /\ exec'[q].pc = "load"

LEMMA ExecShifts ==
  ASSUME ShapeInv, NEW r \in Requests, UNCHANGED exec \/ startExecution(r) \/ cancelExecution(r)
  PROVE  Shifts
<1>0. exec \in [Requests -> ExecStates]
  BY DEF ShapeInv, ExecType
<1>1. CASE UNCHANGED exec
  BY <1>0, <1>1 DEF Shifts, ExecType
<1>2. CASE startExecution(r)
  <2> DEFINE e == [NoExec EXCEPT !.pc = "load"]
  <2>1. e \in ExecStates /\ e.pc = "load"
    BY DEF NoExec, ExecStates
  <2>2. exec' = [exec EXCEPT ![r] = IF exec[r].pc # "none" THEN exec[r] ELSE e]
    BY <1>2 DEF startExecution
  <2> HIDE DEF e
  <2> QED
    BY <1>0, <2>1, <2>2 DEF Shifts, ExecType
<1>3. CASE cancelExecution(r)
  <2> DEFINE e == [exec[r] EXCEPT !.cancelled = exec[r].pc # "none"]
  <2>1. e \in ExecStates /\ e.pc = exec[r].pc /\ e.op = exec[r].op
    BY <1>0 DEF ExecStates
  <2>2. exec' = [exec EXCEPT ![r] = e]
    BY <1>0, <1>3 DEF cancelExecution
  <2> HIDE DEF e
  <2> QED
    BY <1>0, <2>1, <2>2 DEF Shifts, ExecType
<1> QED
  BY <1>1, <1>2, <1>3

(* A step of goroutine t that leaves the relay alone.                      *)
LEMMA ThreadActs ==
  ASSUME ReceiverInv, NEW t \in Threads,
         thread[t].pc \notin Asking \cup {"replay"} \/ reply[t] # None,
         ThreadType', \A u \in Threads \ {t} : thread'[u] = thread[u], ThreadOK(t)',
         ReplyType', \A p \in Callers \ {t} : reply'[p] = reply[p],
         net' \subseteq Messages, \A m \in net' \ net : CallOK(m.call)' /\ LiveOK(m)',
         stream' \in Seq(Events), StreamInv',
         Shifts,
         daemon' \in {"starting", "up", "failed"}, lock' \in Threads \cup {None},
         issued' \in 0..MaxIDs, issued <= issued', faults' \in 0..MaxFaults,
         DiskType',
         \A q \in Requests :
           \/ journal'[q] = journal[q]
           \/ journal'[q] = None /\ (Terminal(relay[q].status) \/ ~Begun(q))
           \/ JournalOK(q)',
         UNCHANGED <<relay, now, authority, crashes, runs, outcome>>
  PROVE  ReceiverInv'
<1> USE DEF ReceiverInv
<1>1. ShapeInv'
  BY DEF ShapeInv, RelayType, NetType, DaemonType, BoundType, Shifts
<1>2. Advances
  BY <1>1, SameAdvances
<1>3. RelayInv'
  BY <1>1, <1>2, RelayKeeps DEF RelayInv
<1>4. JournalInv'
  <2> SUFFICES ASSUME NEW q \in Requests
               PROVE  JournalOK(q)'
    BY DEF JournalInv
  <2>1. Begun(q)' => Begun(q)
    BY DEF Begun, Shifts
  <2>2. JournalOK(q)
    BY DEF JournalInv
  <2>3. CASE journal'[q] = journal[q]
    BY <1>1, <1>2, <2>1, <2>2, <2>3, JournalKeeps
  <2>4. CASE journal'[q] = None /\ (Terminal(relay[q].status) \/ ~Begun(q))
    BY <1>1, <1>2, <2>1, <2>2, <2>4, JournalDrops
  <2> QED
    BY <2>3, <2>4
<1> QED
  BY <1>1, <1>2, <1>3, <1>4, ThreadMoves DEF Shifts

LEMMA SameStream ==
  ASSUME ReceiverInv, UNCHANGED <<relay, stream>>
  PROVE  stream' \in Seq(Events) /\ StreamInv'
BY DEF ReceiverInv, ShapeInv, NetType, StreamInv, EventOK

(* A goroutine ends its section, whatever it did to the disk before.       *)
LEMMA Resumed ==
  ASSUME ReceiverInv, NEW t \in Threads, NEW ok \in BOOLEAN, Resume(t, ok),
         thread[t].pc # "idle" \/ daemon # "down"
  PROVE  /\ ThreadType' /\ \A u \in Threads \ {t} : thread'[u] = thread[u]
         /\ ThreadOK(t)'
         /\ daemon' \in {"starting", "up", "failed"} /\ lock' \in Threads \cup {None}
<1> USE DEF ReceiverInv
<1> DEFINE th == IF t = "reconcile" /\ ok
                   THEN [thread[t] EXCEPT !.pc = "next", !.op = None, !.req = None, !.status = None]
                 ELSE IF t = "events" /\ ~ok THEN [Idle EXCEPT !.pc = "broken"] ELSE Idle
<1>1. th \in ThreadStates /\ th.pc \in {"next", "broken", "idle"}
  <2>1. thread[t] \in ThreadStates
    BY DEF ShapeInv, ThreadType
  <2>2. [thread[t] EXCEPT !.pc = "next", !.op = None, !.req = None, !.status = None] \in ThreadStates
    BY <2>1 DEF ThreadStates
  <2>3. [thread[t] EXCEPT !.pc = "next", !.op = None, !.req = None, !.status = None].pc = "next"
    BY <2>1 DEF ThreadStates
  <2>4. [Idle EXCEPT !.pc = "broken"] \in ThreadStates /\ [Idle EXCEPT !.pc = "broken"].pc = "broken"
    BY DEF Idle, ThreadStates
  <2> QED
    BY <2>2, <2>3, <2>4, IdleState
<1>2. thread' = [thread EXCEPT ![t] = th]
  BY DEF Resume
<1> HIDE DEF th
<1>3. ThreadType' /\ thread'[t] = th /\ \A u \in Threads \ {t} : thread'[u] = thread[u]
  BY <1>1, <1>2, ThreadShape
<1>4. ThreadOK(t)'
  BY <1>1, <1>3 DEF ThreadOK, HasRequest, HasOp, Asking
<1>5. daemon' \in {"starting", "up", "failed"} /\ lock' \in Threads \cup {None}
  BY DEF Resume, ShapeInv, DaemonType, DownInv
<1> QED
  BY <1>3, <1>4, <1>5

(* A goroutine makes a call and waits.                                     *)
LEMMA Asks ==
  ASSUME ReceiverInv, NEW t \in Threads, NEW r \in Requests, NEW op,
         NEW step \in {"deny", "decide", "replay"}, NEW c,
         thread[t].req = r, thread[t].pc # "idle",
         thread[t].pc \notin Asking \cup {"replay"} \/ reply[t] # None,
         OpOK(r, op), step = "replay" => op.phase = ResultPrepared,
         c = IF step = "replay" THEN ResultCall(r, op) ELSE DecideCall(r, op),
         thread' = [thread EXCEPT ![t].pc = step, ![t].op = op],
         Send(t, c), lock' \in Threads \cup {None}, Shifts,
         UNCHANGED <<relay, now, stream, journal, pending, daemon, authority, issued, faults, crashes,
                     runs, outcome>>
  PROVE  ReceiverInv'
<1> USE DEF ReceiverInv
<1>1. c \in Calls /\ CallOK(c)
  BY DecideCallOK, ResultCallOK
<1>2. op \in mutationRecord
  BY DEF OpOK
<1> DEFINE th == [thread[t] EXCEPT !.pc = step, !.op = op]
<1>3. th \in ThreadStates /\ th.pc = step /\ th.op = op /\ th.req = r
  BY <1>2 DEF ShapeInv, ThreadType, ThreadStates, HasRequest
<1>4. thread' = [thread EXCEPT ![t] = th]
  BY DEF ShapeInv, ThreadType
<1> HIDE DEF th
<1>5. ThreadType' /\ thread'[t] = th /\ \A u \in Threads \ {t} : thread'[u] = thread[u]
  BY <1>3, <1>4, ThreadShape
<1>6. /\ NetType' /\ ReplyType' /\ reply'[t] = None
      /\ \A q \in Callers \ {t} : reply'[q] = reply[q]
      /\ \A m \in net' \ net : m.call = c /\ m.to = t /\ m.live
  BY <1>1, SendShape DEF Callers
<1>7. ThreadOK(t)'
  <2>1. reply'[t] \notin Status /\ ~Terminal(reply'[t])
    BY <1>6, ErrorIsNoStatus DEF Terminal, Status
  <2>2. OpOK(r, op)'
    BY DEF OpOK
  <2>3. step \in HasRequest /\ step \in HasOp /\ step \notin {"recover", "unpend", "unjournal", "replace"}
    BY DEF HasRequest, HasOp
  <2> QED
    BY <1>3, <1>5, <2>1, <2>2, <2>3 DEF ThreadOK, OpOK
<1>8. \A m \in net' \ net : CallOK(m.call)' /\ LiveOK(m)'
  <2> SUFFICES ASSUME NEW m \in net' \ net
               PROVE  CallOK(m.call)' /\ LiveOK(m)'
    OBVIOUS
  <2>1. m.call = c /\ m.to = t /\ m.live
    BY <1>6
  <2>2. CallOK(c)'
    BY <1>1 DEF CallOK, Decided
  <2>3. t \notin Requests
    BY ReceiverValues
  <2>4. LiveOK(m)'
    BY <1>3, <1>5, <1>6, <2>1, <2>3 DEF LiveOK, ResultCall, DecideCall, Asking
  <2> QED
    BY <2>1, <2>2, <2>4
<1>9. daemon' \in {"starting", "up", "failed"}
  BY DEF ShapeInv, DaemonType, DownInv
<1>10. issued' \in 0..MaxIDs /\ issued <= issued' /\ faults' \in 0..MaxFaults
  BY ReceiverConstants DEF ShapeInv, BoundType
<1>11. DiskType' /\ net' \subseteq Messages
  BY <1>6 DEF ShapeInv, DiskType, NetType
<1> QED
  BY <1>5, <1>6, <1>7, <1>8, <1>9, <1>10, <1>11, SameStream, ThreadActs

(* A goroutine is done with a request, having forgotten nothing that is    *)
(* still needed.                                                           *)
LEMMA Ends ==
  ASSUME ReceiverInv, NEW t \in Threads, NEW ok \in BOOLEAN, Resume(t, ok),
         thread[t].pc # "idle" \/ daemon # "down",
         thread[t].pc \notin Asking \cup {"replay"} \/ reply[t] # None,
         reply' = reply \/ reply' = [reply EXCEPT ![t] = None],
         Shifts, DiskType',
         \A q \in Requests :
           \/ journal'[q] = journal[q]
           \/ journal'[q] = None /\ (Terminal(relay[q].status) \/ ~Begun(q))
           \/ JournalOK(q)',
         UNCHANGED <<relay, now, net, stream, authority, issued, crashes, runs, outcome>>,
         faults' \in 0..MaxFaults
  PROVE  ReceiverInv'
<1> USE DEF ReceiverInv
<1>1. /\ ThreadType' /\ \A u \in Threads \ {t} : thread'[u] = thread[u]
      /\ ThreadOK(t)'
      /\ daemon' \in {"starting", "up", "failed"} /\ lock' \in Threads \cup {None}
  BY Resumed
<1>2. ReplyType' /\ \A p \in Callers \ {t} : reply'[p] = reply[p]
  BY DEF ShapeInv, ReplyType, Callers
<1>3. net' \subseteq Messages /\ net' \ net = {}
  BY DEF ShapeInv, NetType
<1>4. issued' \in 0..MaxIDs /\ issued <= issued'
  BY ReceiverConstants DEF ShapeInv, BoundType
<1> QED
  BY <1>1, <1>2, <1>3, <1>4, SameStream, ThreadActs

LEMMA Forgets ==
  ASSUME ReceiverInv, NEW r \in Requests, Terminal(relay[r].status), Forget(r)
  PROVE  /\ DiskType'
         /\ \A q \in Requests : \/ journal'[q] = journal[q]
                                \/ journal'[q] = None /\ Terminal(relay[q].status)
BY DEF Forget, ReceiverInv, ShapeInv, DiskType

(* The user's choice is journaled under a new identity, or is the one the  *)
(* journal has.                                                            *)
LEMMA PrepareStep ==
  ASSUME ReceiverInv, NEW r \in Requests, NEW decision \in Decisions,
         NEW step \in {"commit", "sendDeny"},
         UserFree, prepareDecision(r, decision, step), lock' = "user",
         UNCHANGED <<relayVars, pending, daemon, authority, exec, reply, faults, crashes, runs, outcome>>
  PROVE  ReceiverInv'
<1> USE DEF ReceiverInv
<1>0. /\ thread["user"].pc = "idle" /\ "user" \in Threads /\ daemon' \in {"starting", "up"}
      /\ UNCHANGED <<relay, now, net, stream, pending, daemon, authority, exec, reply, faults, crashes,
                     runs, outcome>>
  BY DEF UserFree, Alive, Threads, relayVars
<1>1. ASSUME NEW op \in mutationRecord, OpOK(r, op)',
             thread' = [thread EXCEPT !["user"].pc = step, !["user"].req = r, !["user"].op = op],
             issued' \in 0..MaxIDs, issued <= issued', DiskType',
             \A q \in Requests : journal'[q] = journal[q] \/ JournalOK(q)'
      PROVE  ReceiverInv'
  <2> DEFINE th == [thread["user"] EXCEPT !.pc = step, !.req = r, !.op = op]
  <2>1. th \in ThreadStates /\ th.pc = step /\ th.op = op /\ th.req = r
    BY <1>0 DEF ShapeInv, ThreadType, ThreadStates, HasRequest
  <2>2. thread' = [thread EXCEPT !["user"] = th]
    BY <1>0, <1>1 DEF ShapeInv, ThreadType
  <2> HIDE DEF th
  <2>3. ThreadType' /\ thread'["user"] = th /\ \A u \in Threads \ {"user"} : thread'[u] = thread[u]
    BY <1>0, <2>1, <2>2, ThreadShape
  <2>4. ThreadOK("user")'
    BY <1>1, <2>1, <2>3 DEF ThreadOK, OpOK, HasRequest, HasOp, Asking
  <2>5. Shifts /\ ReplyType' /\ net' \subseteq Messages /\ faults' \in 0..MaxFaults
    BY <1>0, ExecShifts, FaultsInBound DEF ShapeInv, ReplyType, NetType
  <2> QED
    BY <1>0, <1>1, <2>3, <2>4, <2>5, SameStream, ThreadActs DEF Asking
<1>2. CASE /\ journal[r] = None /\ issued < MaxIDs /\ issued' = issued + 1
           /\ journal' = [journal EXCEPT ![r] = Prepared(r, decision)]
           /\ thread' = [thread EXCEPT !["user"].pc = step, !["user"].req = r,
                                       !["user"].op = Prepared(r, decision)]
  <2>1. issued \in 0..MaxIDs /\ issued' \in IDs
    BY <1>2, ReceiverConstants DEF ShapeInv, BoundType, IDs
  <2>2. PICK op \in mutationRecord :
          op = Prepared(r, decision) /\ op.id = issued' /\ op.phase = DecisionPrepared
    <3>1. PICK auth \in Authorities \cup {None} : auth = IF decision = Allow THEN authority ELSE None
      BY DEF ShapeInv, DaemonType
    <3>2. Prepared(r, decision) = [id |-> issued', decision |-> decision, auth |-> auth,
                                   phase |-> DecisionPrepared, result |-> None]
      BY <1>2, <3>1 DEF Prepared
    <3> QED
      BY <2>1, <3>2 DEF mutationRecord, IDs
  <2>3. OpOK(r, op)'
    BY <2>1, <2>2, ReceiverConstants DEF OpOK, IDs, DecisionPrepared, ResultPrepared
  <2>4. /\ DiskType' /\ journal'[r] = op
        /\ \A q \in Requests \ {r} : journal'[q] = journal[q]
    BY <1>0, <1>2, <2>2 DEF ShapeInv, DiskType
  <2>5. relay[r].claim # None => relay[r].claim # op.id
    <3>1. relay[r].claim # None => relay[r].claim \in Nat /\ relay[r].claim <= issued
      BY IDsAreNat DEF RelayInv, RelayOK, Decided, ShapeInv, RelayType, RelayRecords
    <3> QED
      BY <1>2, <2>1, <2>2, <3>1 DEF IDs
  <2>6. Begun(r) => Terminal(relay[r].status) /\ relay[r].claim # None
    BY <1>2 DEF JournalInv, JournalOK
  <2>7. Begun(r)' => Begun(r)
    BY <1>0 DEF Begun
  <2>8. outcome[r] # None => Begun(r)
    BY DEF Begun
  <2>9. JournalOK(r)'
    <3>1. runs[r] <= 1
      BY DEF JournalInv, JournalOK
    <3> QED
      BY <1>0, <2>2, <2>3, <2>4, <2>5, <2>6, <2>7, <2>8, <3>1
         DEF JournalOK, OpOK, DecisionPrepared, ResultPrepared, RuntimeStarted
  <2>10. issued' \in 0..MaxIDs /\ issued <= issued'
    BY <1>2, <2>1 DEF IDs
  <2> QED
    BY <1>1, <1>2, <2>2, <2>3, <2>4, <2>9, <2>10
<1>3. CASE /\ journal[r] # None /\ UNCHANGED <<issued, journal>>
           /\ thread' = [thread EXCEPT !["user"].pc = step, !["user"].req = r,
                                       !["user"].op = journal[r]]
  <2>1. PICK op \in mutationRecord : op = journal[r] /\ OpOK(r, op)
    BY <1>3 DEF ShapeInv, DiskType, JournalInv, JournalOK
  <2>2. OpOK(r, op)'
    BY <1>0, <1>3, <2>1 DEF OpOK
  <2>3. issued' \in 0..MaxIDs /\ issued <= issued' /\ DiskType'
    BY <1>0, <1>3, ReceiverConstants DEF ShapeInv, BoundType, DiskType
  <2> QED
    BY <1>1, <1>3, <2>1, <2>2, <2>3
<1> QED
  BY <1>2, <1>3 DEF prepareDecision

LEMMA ChoiceSteps ==
  ASSUME ReceiverInv, NEW r \in Requests, AllowOnce(r) \/ UserDeny(r)
  PROVE  ReceiverInv'
BY PrepareStep DEF AllowOnce, UserDeny, Decisions

LEMMA AllowAcceptedStep ==
  ASSUME ReceiverInv, NEW r \in Requests, AllowAccepted(r)
  PROVE  ReceiverInv'
<1> USE DEF ReceiverInv
<1>0. /\ thread["user"].pc = "idle" /\ "user" \in Threads /\ daemon' \in {"starting", "up"}
      /\ lock' = "user"
      /\ thread' = [thread EXCEPT !["user"].pc = "recover", !["user"].req = r,
                                  !["user"].status = pending[r]]
      /\ UNCHANGED <<relay, now, net, stream, journal, pending, daemon, authority, exec, reply, issued,
                     faults, crashes, runs, outcome>>
  BY DEF AllowAccepted, UserFree, Alive, Threads, relayVars, diskVars, historyVars
<1>1. PICK st \in Status : st = pending[r] /\ ~Terminal(st)
  BY Statuses DEF AllowAccepted, Status
<1> DEFINE th == [thread["user"] EXCEPT !.pc = "recover", !.req = r, !.status = st]
<1>2. th \in ThreadStates /\ th.pc = "recover" /\ th.status = st /\ th.req = r
  BY <1>0 DEF ShapeInv, ThreadType, ThreadStates, HasRequest
<1>3. thread' = [thread EXCEPT !["user"] = th]
  BY <1>0, <1>1 DEF ShapeInv, ThreadType
<1> HIDE DEF th
<1>4. ThreadType' /\ thread'["user"] = th /\ \A u \in Threads \ {"user"} : thread'[u] = thread[u]
  BY <1>0, <1>2, <1>3, ThreadShape
<1>5. ThreadOK("user")'
  BY <1>1, <1>2, <1>4 DEF ThreadOK, HasRequest, HasOp, Asking
<1>6. Shifts /\ ReplyType' /\ net' \subseteq Messages /\ DiskType' /\ faults' \in 0..MaxFaults
      /\ issued' \in 0..MaxIDs /\ issued <= issued'
  BY <1>0, ExecShifts, FaultsInBound, ReceiverConstants
     DEF ShapeInv, ReplyType, NetType, DiskType, BoundType
<1> QED
  BY <1>0, <1>4, <1>5, <1>6, SameStream, ThreadActs DEF Asking

LEMMA SameDisk ==
  ASSUME ReceiverInv, UNCHANGED diskVars
  PROVE  DiskType' /\ \A q \in Requests : journal'[q] = journal[q]
BY DEF ReceiverInv, ShapeInv, DiskType, diskVars

LEMMA SameExec ==
  ASSUME ReceiverInv, UNCHANGED exec
  PROVE  Shifts
BY DEF ReceiverInv, ShapeInv, ExecType, Shifts

LEMMA UserCommitStep ==
  ASSUME ReceiverInv, commitAllowOnce \/ sendDeny
  PROVE  ReceiverInv'
<1> USE DEF ReceiverInv
<1> DEFINE r == thread["user"].req
           op == thread["user"].op
<1>1. /\ "user" \in Threads /\ thread["user"].pc \in {"commit", "sendDeny"}
      /\ UNCHANGED <<relay, now, stream, diskVars, authority, exec, historyVars>>
  BY DEF commitAllowOnce, sendDeny, Threads
<1>2. r \in Requests /\ OpOK(r, op)
  BY <1>1 DEF ThreadInv, ThreadOK, HasRequest, HasOp
<1>3. Shifts /\ DiskType' /\ \A q \in Requests : journal'[q] = journal[q]
  BY <1>1, SameDisk, SameExec
<1>4. CASE Resume("user", FALSE) /\ UNCHANGED <<net, reply>>
  BY <1>1, <1>3, <1>4, Ends, FaultsInBound DEF Asking, historyVars
<1>5. ASSUME NEW step \in {"decide", "deny"}, Ask("user", op, step, DecideCall(r, op))
      PROVE  ReceiverInv'
  <2>1. lock' \in Threads \cup {None} /\ Send("user", DecideCall(r, op))
        /\ thread' = [thread EXCEPT !["user"].pc = step, !["user"].op = op] /\ UNCHANGED daemon
    BY <1>1, <1>5 DEF Ask
  <2> HIDE DEF r, op
  <2> QED
    BY <1>1, <1>2, <1>3, <2>1, Asks DEF Asking, diskVars, historyVars, r
<1> QED
  BY <1>4, <1>5 DEF commitAllowOnce, sendDeny

(* An answer that is a final status is the relay's.                        *)
LEMMA DenyReplyStep ==
  ASSUME ReceiverInv, DenyReply
  PROVE  ReceiverInv'
<1> USE DEF ReceiverInv
<1> DEFINE r == thread["user"].req
<1>1. /\ "user" \in Threads /\ thread["user"].pc = "deny" /\ reply["user"] # None
      /\ reply' = [reply EXCEPT !["user"] = None]
      /\ UNCHANGED <<relayVars, authority, exec, historyVars>>
  BY DEF DenyReply, Threads
<1>2. r \in Requests /\ (Terminal(reply["user"]) => Terminal(relay[r].status))
  BY <1>1 DEF ThreadInv, ThreadOK, HasRequest, Asking
<1>3. Shifts
  BY <1>1, SameExec
<1>4. CASE /\ reply["user"] \in {Rejected, Expired, Cancelled}
           /\ Forget(r) /\ Resume("user", TRUE)
  <2>1. Terminal(relay[r].status)
    BY <1>2, <1>4 DEF Terminal, TerminalStatus
  <2>2. /\ DiskType'
        /\ \A q \in Requests : \/ journal'[q] = journal[q]
                               \/ journal'[q] = None /\ Terminal(relay[q].status)
    BY <1>2, <1>4, <2>1, Forgets
  <2> QED
    BY <1>1, <1>3, <1>4, <2>2, Ends, FaultsInBound DEF relayVars, historyVars
<1>5. CASE Resume("user", FALSE) /\ UNCHANGED diskVars
  BY <1>1, <1>3, <1>5, SameDisk, Ends, FaultsInBound DEF relayVars, historyVars
<1> QED
  BY <1>4, <1>5 DEF DenyReply

(* A record whose decision is only prepared can go: nothing was begun      *)
(* under it that the relay still has open.                                 *)
LEMMA PreparedCanGo ==
  ASSUME ReceiverInv, NEW r \in Requests, journal[r] # None, journal[r].phase = DecisionPrepared
  PROVE  /\ Terminal(relay[r].status) \/ ~Begun(r)
         /\ Begun(r) => journal[r].id # relay[r].claim
BY DEF ReceiverInv, JournalInv, JournalOK, DecisionPrepared, RuntimeStarted, ResultPrepared

LEMMA Recovering ==
  ASSUME ReceiverInv, NEW t \in Threads, AtRecover(t)
  PROVE  /\ thread[t].pc = "recover" /\ thread[t].req \in Requests
         /\ Terminal(thread[t].status) => Terminal(relay[thread[t].req].status)
         /\ journal[thread[t].req] # None => OpOK(thread[t].req, journal[thread[t].req])
BY DEF ReceiverInv, AtRecover, ThreadInv, ThreadOK, HasRequest, JournalInv, JournalOK

(* The ways recovery ends, other than by forgetting the request.           *)
LEMMA RecoverEnds ==
  ASSUME ReceiverInv, NEW t \in Threads, AtRecover(t), NEW ok \in BOOLEAN, Resume(t, ok),
         UNCHANGED <<net, reply, diskVars>>, Shifts,
         UNCHANGED <<relay, now, stream, authority, historyVars>>
  PROVE  ReceiverInv'
<1>1. thread[t].pc = "recover"
  BY Recovering
<1> QED
  BY <1>1, SameDisk, Ends, FaultsInBound DEF ReceiverInv, Asking, historyVars

LEMMA RecoverAsks ==
  ASSUME ReceiverInv, NEW t \in Threads, AtRecover(t), NEW step \in {"decide", "replay"},
         journal[thread[t].req] # None,
         Ask(t, journal[thread[t].req], step,
             IF step = "replay" THEN ResultCall(thread[t].req, journal[thread[t].req])
                                ELSE DecideCall(thread[t].req, journal[thread[t].req])),
         step = "replay" => journal[thread[t].req].phase = ResultPrepared,
         Shifts, UNCHANGED diskVars, UNCHANGED <<relay, now, stream, authority, historyVars>>
  PROVE  ReceiverInv'
<1>1. PICK r \in Requests : r = thread[t].req /\ thread[t].pc = "recover"
  BY Recovering
<1>2. PICK op : op = journal[r] /\ OpOK(r, op)
  BY <1>1, Recovering
<1>3. PICK c : c = IF step = "replay" THEN ResultCall(r, op) ELSE DecideCall(r, op)
  OBVIOUS
<1>4. Ask(t, op, step, c)
  BY <1>1, <1>2, <1>3
<1>5. /\ lock' \in Threads \cup {None} /\ Send(t, c) /\ UNCHANGED daemon
      /\ thread' = [thread EXCEPT ![t].pc = step, ![t].op = op]
  BY <1>4 DEF Ask
<1> QED
  BY <1>1, <1>2, <1>3, <1>5, Asks DEF Asking, diskVars, historyVars

LEMMA RecoverAwaitingStep ==
  ASSUME ReceiverInv, NEW t \in Threads, RecoverAwaiting(t)
  PROVE  ReceiverInv'
<1> DEFINE r == thread[t].req
           op == journal[r]
<1>1. AtRecover(t) /\ UNCHANGED <<relay, now, stream, authority, historyVars>>
  BY DEF RecoverAwaiting
<1>2. r \in Requests /\ thread[t].pc = "recover"
  BY <1>1, Recovering
<1>3. ASSUME NEW ok \in BOOLEAN, Quiet(t, ok)
      PROVE  ReceiverInv'
  BY <1>1, <1>3, SameExec, RecoverEnds DEF Quiet
<1>4. CASE /\ op # None /\ op.phase = DecisionPrepared
           /\ journal' = [journal EXCEPT ![r] = None] /\ Resume(t, TRUE)
           /\ UNCHANGED <<net, reply, exec, pending>>
  <2>1. Terminal(relay[r].status) \/ ~Begun(r)
    BY <1>2, <1>4, PreparedCanGo
  <2>2. /\ DiskType'
        /\ \A q \in Requests : \/ journal'[q] = journal[q]
                               \/ journal'[q] = None /\ (Terminal(relay[q].status) \/ ~Begun(q))
    BY <1>2, <1>4, <2>1 DEF ReceiverInv, ShapeInv, DiskType
  <2> QED
    BY <1>1, <1>2, <1>4, <2>2, SameExec, Ends, FaultsInBound DEF ReceiverInv, Asking, historyVars
<1>5. CASE /\ op # None /\ Ask(t, op, "decide", DecideCall(r, op)) /\ UNCHANGED <<exec, diskVars>>
  BY <1>1, <1>5, SameExec, RecoverAsks
<1> QED
  BY <1>3, <1>4, <1>5 DEF RecoverAwaiting

LEMMA RecoverCommittedStep ==
  ASSUME ReceiverInv, NEW t \in Threads, RecoverCommitted(t)
  PROVE  ReceiverInv'
<1> DEFINE r == thread[t].req
           op == journal[r]
<1>1. AtRecover(t) /\ UNCHANGED <<relay, now, stream, authority, historyVars>>
  BY DEF RecoverCommitted
<1>2. r \in Requests
  BY <1>1, Recovering
<1>3. ASSUME NEW ok \in BOOLEAN, Quiet(t, ok)
      PROVE  ReceiverInv'
  BY <1>1, <1>3, SameExec, RecoverEnds DEF Quiet
<1>4. CASE startExecution(r) /\ Resume(t, TRUE) /\ UNCHANGED <<net, reply, diskVars>>
  <2>1. Shifts
    BY <1>2, <1>4, ExecShifts DEF ReceiverInv
  <2> QED
    BY <1>1, <1>4, <2>1, RecoverEnds
<1>5. CASE op # None /\ Ask(t, op, "decide", DecideCall(r, op)) /\ UNCHANGED <<exec, diskVars>>
  BY <1>1, <1>5, SameExec, RecoverAsks
<1> QED
  BY <1>3, <1>4, <1>5 DEF RecoverCommitted

LEMMA RecoverTerminalStep ==
  ASSUME ReceiverInv, NEW t \in Threads, RecoverTerminal(t)
  PROVE  ReceiverInv'
<1> DEFINE r == thread[t].req
           op == journal[r]
<1>1. /\ AtRecover(t) /\ UNCHANGED <<relay, now, stream, authority, historyVars>>
      /\ Terminal(thread[t].status) /\ cancelExecution(r)
  BY DEF RecoverTerminal
<1>2. r \in Requests /\ thread[t].pc = "recover" /\ Terminal(relay[r].status)
  BY <1>1, Recovering
<1>3. Shifts
  BY <1>1, <1>2, ExecShifts DEF ReceiverInv
<1>4. CASE /\ Replays(op, thread[t].status) /\ Ask(t, op, "replay", ResultCall(r, op))
           /\ UNCHANGED diskVars
  <2>1. op # None /\ op.phase = ResultPrepared
    BY <1>4 DEF Replays
  <2> QED
    BY <1>1, <1>3, <1>4, <2>1, RecoverAsks
<1>5. CASE Forget(r) /\ Resume(t, TRUE) /\ UNCHANGED <<net, reply>>
  <2>1. /\ DiskType'
        /\ \A q \in Requests : \/ journal'[q] = journal[q]
                               \/ journal'[q] = None /\ Terminal(relay[q].status)
    BY <1>2, <1>5, Forgets
  <2> QED
    BY <1>1, <1>2, <1>3, <1>5, <2>1, Ends, FaultsInBound DEF ReceiverInv, Asking, historyVars
<1> QED
  BY <1>4, <1>5 DEF RecoverTerminal

(* The relay has accepted: the journal record of that decision moves on.   *)
LEMMA DecisionAcceptedStep ==
  ASSUME ReceiverInv, NEW t \in Threads, thread[t].pc = "decide", reply[t] # None,
         DecisionAccepted(t), reply' = [reply EXCEPT ![t] = None],
         UNCHANGED <<relay, now, stream, authority, historyVars>>
  PROVE  ReceiverInv'
<1> USE DEF ReceiverInv
<1>0. PICK r, op, phase : r = thread[t].req /\ op = thread[t].op /\ phase = PhaseOnAccept(journal[r])
  OBVIOUS
<1>1. /\ r \in Requests /\ OpOK(r, op)
      /\ reply[t] \in Status => Decided(r, op.id, op.decision)
  BY <1>0 DEF ThreadInv, ThreadOK, HasRequest, HasOp, Asking
<1>2. Decided(r, op.id, op.decision)
  BY <1>1 DEF DecisionAccepted, Status
<1>3. CASE Resume(t, FALSE) /\ UNCHANGED <<diskVars, exec>> /\ UNCHANGED net
  BY <1>3, SameDisk, SameExec, Ends, FaultsInBound DEF historyVars
<1>4. CASE /\ Confirms(r, op) /\ journal' = [journal EXCEPT ![r].phase = phase]
           /\ pending' = [pending EXCEPT ![r] = reply[t]]
           /\ (UNCHANGED exec \/ startExecution(r)) /\ Resume(t, TRUE) /\ UNCHANGED net
           /\ reply[t] \in {Accepted, Running}
  <2>1. Shifts
    BY <1>1, <1>4, ExecShifts
  <2>2. PICK old \in mutationRecord :
          old = journal[r] /\ old.id = op.id /\ old.decision = Allow /\ op.decision = Allow /\ OpOK(r, old)
    BY <1>1, <1>4 DEF Confirms, ShapeInv, DiskType, JournalInv, JournalOK
  <2>3. pending' \in [Requests -> Status \cup {None}]
    BY <1>1, <1>4 DEF ShapeInv, DiskType, Status
  <2>4. CASE old.phase # DecisionPrepared
    <3>1. [old EXCEPT !.phase = phase] = old
      BY <1>0, <2>2, <2>4 DEF PhaseOnAccept, mutationRecord
    <3>2. journal' = journal
      BY <1>1, <1>4, <2>2, <3>1 DEF ShapeInv, DiskType
    <3>3. DiskType' /\ \A q \in Requests : journal'[q] = journal[q]
      BY <2>3, <3>2 DEF ShapeInv, DiskType
    <3> QED
      BY <1>4, <2>1, <3>3, Ends, FaultsInBound DEF historyVars
  <2>5. CASE old.phase = DecisionPrepared
    <3> DEFINE new == [old EXCEPT !.phase = ClaimPrepared]
    <3>1. /\ new \in mutationRecord /\ new.id = old.id
          /\ new.decision = old.decision /\ new.phase = ClaimPrepared
      BY DEF mutationRecord
    <3>2. journal' = [journal EXCEPT ![r] = new]
      BY <1>0, <1>1, <1>4, <2>2, <2>5, <3>1 DEF PhaseOnAccept, ShapeInv, DiskType
    <3> HIDE DEF new
    <3>3. /\ DiskType' /\ journal'[r] = new
          /\ \A q \in Requests \ {r} : journal'[q] = journal[q]
      BY <1>1, <2>3, <3>1, <3>2 DEF ShapeInv, DiskType
    <3>4. Begun(r) => relay[r].claim # None /\ Terminal(relay[r].status) /\ old.id # relay[r].claim
      <4>1. r \in Requests /\ journal[r] # None /\ journal[r].phase = DecisionPrepared
        BY <1>1, <2>2, <2>5, NoneIsNone
      <4>2. Begun(r) => Terminal(relay[r].status) /\ journal[r].id # relay[r].claim
        BY <4>1, PreparedCanGo
      <4>3. Begun(r) => relay[r].claim # None
        BY <4>1 DEF JournalInv, JournalOK
      <4> QED
        BY <2>2, <4>2, <4>3
    <3>5. (Begun(r)' => Begun(r)) /\ (outcome[r] # None => Begun(r))
      BY <1>1, <2>1 DEF Begun, Shifts, historyVars
    <3>6. JournalOK(r)'
      <4>1. runs[r] <= 1
        BY <1>1 DEF JournalInv, JournalOK
      <4>2. OpOK(r, new)'
        BY <2>2, <3>1 DEF OpOK, historyVars, ClaimPrepared, ResultPrepared
      <4> QED
        BY <1>2, <2>2, <3>1, <3>3, <3>4, <3>5, <4>1, <4>2
           DEF JournalOK, OpOK, Decided, historyVars, ClaimPrepared, ResultPrepared, RuntimeStarted
    <3>7. \A q \in Requests : journal'[q] = journal[q] \/ JournalOK(q)'
      BY <3>3, <3>6
    <3> QED
      BY <1>4, <2>1, <3>3, <3>7, Ends, FaultsInBound DEF historyVars
  <2> QED
    BY <2>4, <2>5
<1> QED
  BY <1>0, <1>3, <1>4 DEF DecisionAccepted

LEMMA DecisionTerminalStep ==
  ASSUME ReceiverInv, NEW t \in Threads, thread[t].pc = "decide", reply[t] # None,
         DecisionTerminal(t), reply' = [reply EXCEPT ![t] = None],
         UNCHANGED <<relay, now, stream, authority, historyVars>>
  PROVE  ReceiverInv'
<1> USE DEF ReceiverInv
<1>1. PICK r \in Requests : r = thread[t].req
  BY DEF ThreadInv, ThreadOK, HasRequest
<1>2. PICK op : op = thread[t].op /\ OpOK(r, op)
  BY <1>1 DEF ThreadInv, ThreadOK, HasOp
<1>3. Terminal(relay[r].status)
  <2>1. Terminal(reply[t])
    BY DEF DecisionTerminal, Terminal, TerminalStatus
  <2> QED
    BY <1>1, <2>1 DEF ThreadInv, ThreadOK, Asking
<1>4. Shifts
  BY <1>1, ExecShifts DEF DecisionTerminal
<1>5. CASE /\ Replays(op, reply[t]) /\ thread' = [thread EXCEPT ![t].pc = "replay"]
           /\ net' = net \cup {[call |-> ResultCall(r, op), to |-> t, live |-> TRUE]}
           /\ UNCHANGED <<lock, daemon, diskVars>>
  <2>1. thread' = [thread EXCEPT ![t].pc = "replay", ![t].op = op]
    <3>1. thread[t] \in ThreadStates
      BY DEF ShapeInv, ThreadType
    <3>2. [thread[t] EXCEPT !.pc = "replay"] = [thread[t] EXCEPT !.pc = "replay", !.op = op]
      BY <1>2, <3>1 DEF ThreadStates
    <3> QED
      BY <1>5, <3>2 DEF ShapeInv, ThreadType
  <2>2. PICK c : c = ResultCall(r, op)
    OBVIOUS
  <2>3. Send(t, c) /\ lock' \in Threads \cup {None}
    BY <1>5, <2>2 DEF Send, ShapeInv, DaemonType
  <2>4. op.phase = ResultPrepared
    BY <1>5 DEF Replays
  <2> QED
    BY <1>1, <1>2, <1>4, <1>5, <2>1, <2>2, <2>3, <2>4, Asks DEF diskVars, historyVars
<1>6. CASE Forget(r) /\ Resume(t, TRUE) /\ UNCHANGED net
  <2>1. /\ DiskType'
        /\ \A q \in Requests : \/ journal'[q] = journal[q]
                               \/ journal'[q] = None /\ Terminal(relay[q].status)
    BY <1>3, <1>6, Forgets
  <2> QED
    BY <1>4, <1>6, <2>1, Ends, FaultsInBound DEF historyVars
<1> QED
  BY <1>1, <1>2, <1>5, <1>6 DEF DecisionTerminal

LEMMA HandleDecisionStep ==
  ASSUME ReceiverInv, NEW t \in Threads, HandleDecision(t)
  PROVE  ReceiverInv'
<1>1. CASE DecisionFailed(t)
  BY <1>1, SameDisk, SameExec, Ends, FaultsInBound
     DEF DecisionFailed, HandleDecision, ReceiverInv, historyVars
<1> QED
  BY <1>1, DecisionAcceptedStep, DecisionTerminalStep DEF HandleDecision

LEMMA ReplayReplyStep ==
  ASSUME ReceiverInv, NEW t \in Threads, ReplayReply(t)
  PROVE  ReceiverInv'
<1> USE DEF ReceiverInv
<1> DEFINE r == thread[t].req
           same == reply[t] = thread[t].op.result[1]
<1>1. /\ thread[t].pc = "replay" /\ reply[t] # None /\ Resume(t, same)
      /\ reply' = [reply EXCEPT ![t] = None]
      /\ UNCHANGED <<relay, now, net, stream, authority, exec, historyVars>>
  BY DEF ReplayReply
<1>2. /\ r \in Requests /\ thread[t].op.result = outcome[r] /\ outcome[r] # None
      /\ Terminal(reply[t]) => Terminal(relay[r].status)
  BY <1>1 DEF ThreadInv, ThreadOK, OpOK, HasRequest, HasOp
<1>3. outcome[r] \in Results
  BY <1>2 DEF ShapeInv, BoundType
<1>4. same => Terminal(relay[r].status)
  BY <1>2, <1>3 DEF Results, Terminal, TerminalStatus
<1>5. /\ DiskType'
      /\ \A q \in Requests : \/ journal'[q] = journal[q]
                             \/ journal'[q] = None /\ Terminal(relay[q].status)
  BY <1>2, <1>4, Forgets, SameDisk DEF ReplayReply
<1> QED
  BY <1>1, <1>5, SameExec, Ends, FaultsInBound DEF historyVars

-----------------------------------------------------------------------------
(* The sweep of overdue requests changes statuses only, from awaiting to   *)
(* expired.                                                                *)
LEMMA SweptRecords ==
  ASSUME ReceiverInv, NEW r \in Requests
  PROVE  /\ Swept[r] \in RelayRecords
         /\ \/ Swept[r] = relay[r]
            \/ /\ relay[r].status = Awaiting /\ Swept[r].status = Expired
               /\ Swept[r].decisionID = relay[r].decisionID /\ Swept[r].decision = relay[r].decision
               /\ Swept[r].claim = relay[r].claim /\ Swept[r].digest = relay[r].digest
<1>1. relay[r] \in RelayRecords
  BY DEF ReceiverInv, ShapeInv, RelayType
<1> DEFINE s == [relay[r] EXCEPT !.status = Expired]
<1>2. /\ s \in RelayRecords /\ s.status = Expired /\ s.decisionID = relay[r].decisionID
      /\ s.decision = relay[r].decision /\ s.claim = relay[r].claim /\ s.digest = relay[r].digest
  BY <1>1 DEF RelayRecords, Status, TerminalStatus
<1>3. \/ Swept[r] = relay[r]
      \/ relay[r].status = Awaiting /\ Swept[r] = s
  BY DEF Swept, ExpireRefused
<1> HIDE DEF s
<1> QED
  BY <1>1, <1>2, <1>3

LEMMA SweptInv ==
  ASSUME ReceiverInv, relay' = Swept, UNCHANGED <<now, issued, outcome>>
  PROVE  RelayType' /\ Advances /\ RelayInv'
<1> USE DEF ReceiverInv
<1>1. relay' \in [Requests -> RelayRecords]
  <2>1. Swept = [r \in Requests |-> Swept[r]]
    BY DEF Swept
  <2> QED
    BY <2>1, SweptRecords
<1>2. ASSUME NEW r \in Requests
      PROVE  \/ relay'[r] = relay[r]
             \/ /\ relay[r].status = Awaiting /\ relay'[r].status = Expired
                /\ relay'[r].decisionID = relay[r].decisionID
                /\ relay'[r].decision = relay[r].decision
                /\ relay'[r].claim = relay[r].claim /\ relay'[r].digest = relay[r].digest
  BY SweptRecords
<1>3. RelayType'
  BY <1>1 DEF ShapeInv, RelayType
<1>4. issued <= issued'
  BY ReceiverConstants DEF ShapeInv, BoundType
<1>5. Advances
  BY <1>2, <1>4, Statuses DEF Advances
<1>6. RelayInv'
  <2> SUFFICES ASSUME NEW r \in Requests
               PROVE  RelayOK(r)'
    BY DEF RelayInv
  <2>1. RelayOK(r)
    BY DEF RelayInv
  <2>2. CASE relay'[r] = relay[r]
    BY <2>1, <2>2 DEF RelayOK, Decided
  <2>3. CASE relay[r].status = Awaiting
    <3>1. relay[r].digest = None
      BY <2>1, <2>3, NoDigest, Statuses DEF ResultStates
    <3> QED
      BY <1>2, <2>1, <2>3, <3>1, Statuses DEF RelayOK, Decided
  <2> QED
    BY <1>2, <2>2, <2>3
<1> QED
  BY <1>3, <1>5, <1>6

(* The stream that opens with the inbox: an event for every request the    *)
(* relay still has open.                                                   *)
LEMMA InboxStream ==
  ASSUME ReceiverInv, relay' = Swept, stream' = InboxEvents
  PROVE  stream' \in Seq(Events) /\ StreamInv'
<1> DEFINE E == {<<"peer_request", r, Swept[r].status>> : r \in Listed}
           n == Cardinality(Listed)
           Covers(q) == \A r \in Listed : \E i \in DOMAIN q : q[i][2] = r
<1>1. Listed \subseteq Requests /\ \A r \in Listed : Swept[r].status \in Open
  BY DEF Listed, Open
<1>2. n \in Nat /\ ExistsBijection(1..n, Listed)
  <2>1. IsFiniteSet(Listed)
    BY <1>1, ReceiverValues, FS_Subset
  <2> QED
    BY <2>1, FS_CardinalityType
<1>3. PICK f \in [1..n -> Listed] : \A r \in Listed : \E i \in 1..n : f[i] = r
  BY <1>2 DEF ExistsBijection, Bijection, Surjection
<1>4. \E q \in [1..n -> E] : Covers(q)
  <2> DEFINE g == [i \in 1..n |-> <<"peer_request", f[i], Swept[f[i]].status>>]
  <2>1. g \in [1..n -> E]
    BY <1>3
  <2>2. Covers(g)
    <3> SUFFICES ASSUME NEW r \in Listed
                 PROVE  \E i \in DOMAIN g : g[i][2] = r
      OBVIOUS
    <3>1. PICK i \in 1..n : f[i] = r
      BY <1>3
    <3>2. i \in DOMAIN g /\ g[i][2] = r
      BY <3>1
    <3> QED
      BY <3>2
  <2> QED
    BY <2>1, <2>2
<1>5. InboxEvents = CHOOSE q \in [1..n -> E] : Covers(q)
  BY DEF InboxEvents
<1>6. stream' \in [1..n -> E]
  BY <1>4, <1>5
<1>7. E \subseteq Events /\ \A e \in E : e[1] = "peer_request" /\ e[3] \in Open
  <2>1. Open \subseteq Status
    BY DEF Open, Status
  <2> QED
    BY <1>1, <2>1 DEF Events
<1> HIDE DEF E, n
<1>8. stream' \in Seq(Events) /\ Len(stream') = n
  BY <1>2, <1>6, <1>7
<1>9. StreamInv'
  <2> SUFFICES ASSUME NEW i \in 1..n
               PROVE  EventOK(stream[i])'
    BY <1>8 DEF StreamInv
  <2>1. stream'[i] \in E
    BY <1>6
  <2> QED
    BY <1>7, <2>1 DEF EventOK
<1> QED
  BY <1>8, <1>9

(* A goroutine's step at which the relay may sweep, and which leaves the   *)
(* journal alone.                                                          *)
LEMMA SweepActs ==
  ASSUME ReceiverInv, NEW t \in Threads, thread[t].pc \notin Asking \cup {"replay"},
         relay' = Swept, stream' = stream \/ stream' = InboxEvents,
         ThreadType', \A u \in Threads \ {t} : thread'[u] = thread[u], ThreadOK(t)',
         daemon' \in {"starting", "up", "failed"}, faults' \in 0..MaxFaults,
         UNCHANGED <<now, net, diskVars, authority, lock, exec, reply, issued, crashes, runs, outcome>>
  PROVE  ReceiverInv'
<1> USE DEF ReceiverInv
<1>1. RelayType' /\ Advances /\ RelayInv'
  BY SweptInv
<1>2. stream' \in Seq(Events) /\ StreamInv'
  BY <1>1, InboxStream, StreamKeeps DEF ShapeInv, NetType
<1>3. ShapeInv'
  BY <1>1, <1>2 DEF ShapeInv, NetType, DiskType, DaemonType, ExecType, ReplyType, BoundType, diskVars
<1>4. JournalInv'
  <2>1. \A r \in Requests : Begun(r)' => Begun(r)
    BY DEF Begun
  <2> QED
    BY <1>1, <1>3, <2>1, JournalKeeps DEF JournalInv, diskVars
<1> QED
  BY <1>1, <1>2, <1>3, <1>4, ThreadMoves

(* A goroutine's step that leaves the relay and the journal alone.         *)
LEMMA LocalActs ==
  ASSUME ReceiverInv, NEW t \in Threads, thread[t].pc \notin Asking \cup {"replay"},
         thread[t].pc # "idle" \/ daemon # "down",
         ThreadType', \A u \in Threads \ {t} : thread'[u] = thread[u], ThreadOK(t)', DiskType',
         \A q \in Requests :
           \/ journal'[q] = journal[q]
           \/ journal'[q] = None /\ (Terminal(relay[q].status) \/ ~Begun(q)),
         stream' \in Seq(Events), StreamInv', Shifts,
         UNCHANGED <<relay, now, net, daemon, authority, lock, reply, historyVars>>
  PROVE  ReceiverInv'
<1> USE DEF ReceiverInv
<1>1. ReplyType' /\ net' \subseteq Messages /\ faults' \in 0..MaxFaults
      /\ issued' \in 0..MaxIDs /\ issued <= issued' /\ lock' \in Threads \cup {None}
  BY FaultsInBound, ReceiverConstants
     DEF ShapeInv, ReplyType, NetType, BoundType, DaemonType, historyVars
<1>2. daemon' \in {"starting", "up", "failed"}
  BY DEF ShapeInv, DaemonType, DownInv
<1> QED
  BY <1>1, <1>2, ThreadActs DEF historyVars

-----------------------------------------------------------------------------
(* The steps of reconcile.                                                 *)
LEMMA ReconcileFailsStep ==
  ASSUME ReceiverInv, ReconcileFails, thread["reconcile"].pc \notin Asking \cup {"replay"},
         thread["reconcile"].pc # "idle" \/ daemon # "down"
  PROVE  ReceiverInv'
<1>1. "reconcile" \in Threads /\ faults' \in 0..MaxFaults
  BY FaultsInBound, ReceiverConstants DEF ReconcileFails, Threads, ReceiverInv
<1> QED
  BY <1>1, SameDisk, SameExec, Ends DEF ReconcileFails, relayVars

LEMMA InboxStep ==
  ASSUME ReceiverInv, Inbox
  PROVE  ReceiverInv'
<1> USE DEF ReceiverInv
<1>1. /\ "reconcile" \in Threads /\ thread["reconcile"].pc \notin Asking \cup {"replay"}
      /\ thread["reconcile"].pc # "idle" \/ daemon # "down"
  BY DEF Inbox, Threads, Asking
<1> DEFINE snap == {<<r, Swept[r].status>> : r \in Listed}
           th == [Idle EXCEPT !.pc = "replace", !.seen = Listed, !.snap = snap]
<1>2. CASE /\ relay' = Swept /\ thread' = [thread EXCEPT !["reconcile"] = th]
           /\ UNCHANGED <<now, net, stream, diskVars, daemon, authority, lock, exec, reply, historyVars>>
  <2>1. Listed \subseteq Requests /\ \A r \in Listed : Swept[r].status \in Open
    BY DEF Listed, Open
  <2>2. /\ snap \subseteq Requests \X Open
        /\ \A q \in Listed : \E m \in snap : m[1] = q
    <3>1. snap \subseteq Requests \X Open
      BY <2>1
    <3>2. \A q \in Listed : <<q, Swept[q].status>> \in snap /\ <<q, Swept[q].status>>[1] = q
      OBVIOUS
    <3> QED
      BY <3>1, <3>2
  <2> HIDE DEF snap
  <2>3. th \in ThreadStates /\ th.pc = "replace" /\ th.seen = Listed /\ th.snap = snap
    BY <2>1, <2>2 DEF Idle, ThreadStates
  <2> HIDE DEF th
  <2>4. /\ ThreadType' /\ thread'["reconcile"] = th
        /\ \A u \in Threads \ {"reconcile"} : thread'[u] = thread[u]
    BY <1>1, <1>2, <2>3, ThreadShape
  <2>5. ThreadOK("reconcile")'
    BY <2>1, <2>2, <2>3, <2>4 DEF ThreadOK, HasRequest, HasOp, Asking
  <2>6. daemon' \in {"starting", "up", "failed"}
    BY <1>1, <1>2 DEF ShapeInv, DaemonType, DownInv
  <2> QED
    BY <1>1, <1>2, <2>4, <2>5, <2>6, SweepActs, FaultsInBound DEF historyVars
<1>3. CASE ReconcileFails
  BY <1>1, <1>3, ReconcileFailsStep
<1> QED
  BY <1>2, <1>3 DEF Inbox

LEMMA ReplaceStep ==
  ASSUME ReceiverInv, Replace
  PROVE  ReceiverInv'
<1> USE DEF ReceiverInv
<1>1. /\ "reconcile" \in Threads /\ thread["reconcile"].pc = "replace"
      /\ thread["reconcile"].pc \notin Asking \cup {"replay"}
  BY DEF Replace, Threads, Asking
<1>2. PICK me \in ThreadStates : me = thread["reconcile"]
  BY <1>1 DEF ShapeInv, ThreadType
<1>3. \A q \in me.seen : \E n \in me.snap : n[1] = q
  BY <1>1, <1>2 DEF ThreadInv, ThreadOK
<1> DEFINE Notice(r) == CHOOSE n \in me.snap : n[1] = r
<1>4. DiskType' /\ journal' = journal
  <2>1. \A r \in me.seen : Notice(r) \in me.snap
    BY <1>3
  <2>2. me.snap \subseteq Requests \X Open /\ Open \subseteq Status
    BY DEF ThreadStates, Open, Status
  <2>3. pending' = [r \in Requests |-> IF r \in me.seen THEN Notice(r)[2] ELSE None]
    BY <1>2 DEF Replace
  <2>4. \A r \in me.seen : Notice(r)[2] \in Status
    BY <2>1, <2>2
  <2> HIDE DEF Notice
  <2>5. pending' \in [Requests -> Status \cup {None}]
    BY <2>3, <2>4
  <2> QED
    BY <2>5 DEF Replace, ShapeInv, DiskType
<1> DEFINE th == [me EXCEPT !.pc = "next"]
<1>5. th \in ThreadStates /\ th.pc = "next"
  BY DEF ThreadStates
<1>6. thread' = [thread EXCEPT !["reconcile"] = th]
  BY <1>1, <1>2 DEF Replace, ShapeInv, ThreadType
<1> HIDE DEF th
<1>7. /\ ThreadType' /\ thread'["reconcile"] = th
      /\ \A u \in Threads \ {"reconcile"} : thread'[u] = thread[u]
  BY <1>1, <1>5, <1>6, ThreadShape
<1>8. ThreadOK("reconcile")'
  BY <1>5, <1>7 DEF ThreadOK, HasRequest, HasOp, Asking
<1> QED
  BY <1>1, <1>4, <1>7, <1>8, SameStream, SameExec, LocalActs DEF Replace, relayVars

(* The other steps of the loop change the goroutine's own state only.      *)
LEMMA LoopMoves ==
  ASSUME ReceiverInv, thread["reconcile"].pc = "next", NEW th \in ThreadStates,
         thread' = [thread EXCEPT !["reconcile"] = th],
         th.pc \in {"next", "recover"},
         th.pc = "recover" =>
           /\ th.req \in Requests /\ th.status \in Status
           /\ Terminal(th.status) => Terminal(relay[th.req].status),
         UNCHANGED <<relayVars, diskVars, daemon, authority, lock, exec, reply, historyVars>>
  PROVE  ReceiverInv'
<1>1. "reconcile" \in Threads /\ thread["reconcile"].pc \notin Asking \cup {"replay"}
  BY DEF Threads, Asking
<1>2. /\ ThreadType' /\ thread'["reconcile"] = th
      /\ \A u \in Threads \ {"reconcile"} : thread'[u] = thread[u]
  BY <1>1, ThreadShape DEF ReceiverInv
<1>3. ThreadOK("reconcile")'
  BY <1>2 DEF ThreadOK, HasRequest, HasOp, Asking, relayVars
<1> QED
  BY <1>1, <1>2, <1>3, SameStream, SameExec, SameDisk, LocalActs DEF relayVars

LEMMA NextNoticeStep ==
  ASSUME ReceiverInv, NextNotice
  PROVE  ReceiverInv'
<1>1. PICK me \in ThreadStates : me = thread["reconcile"] /\ me.pc = "next"
  BY DEF NextNotice, ReceiverInv, ShapeInv, ThreadType, Threads
<1>2. PICK n \in thread["reconcile"].snap :
        thread' = [thread EXCEPT !["reconcile"] =
                     [thread["reconcile"] EXCEPT !.pc = "recover", !.req = n[1], !.status = n[2],
                                                 !.snap = @ \ {n}]]
  BY DEF NextNotice
<1>3. n[1] \in Requests /\ n[2] \in Status /\ ~Terminal(n[2])
  <2>1. n \in Requests \X Open
    BY <1>1, <1>2 DEF ThreadStates
  <2> QED
    BY <2>1, Statuses DEF Open, Status
<1> DEFINE th == [me EXCEPT !.pc = "recover", !.req = n[1], !.status = n[2], !.snap = @ \ {n}]
<1>4. th \in ThreadStates /\ th.pc = "recover" /\ th.req = n[1] /\ th.status = n[2]
  BY <1>3 DEF ThreadStates, HasRequest
<1>5. thread' = [thread EXCEPT !["reconcile"] = th]
  BY <1>1, <1>2
<1> HIDE DEF th
<1> QED
  BY <1>1, <1>3, <1>4, <1>5, LoopMoves DEF NextNotice

LEMMA ListOperationsStep ==
  ASSUME ReceiverInv, ListOperations
  PROVE  ReceiverInv'
<1>1. PICK me \in ThreadStates : me = thread["reconcile"] /\ me.pc = "next"
  BY DEF ListOperations, ReceiverInv, ShapeInv, ThreadType, Threads
<1> DEFINE left == {r \in Requests \ me.seen : journal[r] # None}
           th == [me EXCEPT !.seen = None, !.left = left]
<1>2. th \in ThreadStates /\ th.pc = "next"
  <2>1. left \in SUBSET Requests
    OBVIOUS
  <2> HIDE DEF left
  <2> QED
    BY <1>1, <2>1 DEF ThreadStates
<1>3. thread' = [thread EXCEPT !["reconcile"] = th]
  BY <1>1 DEF ListOperations, ReceiverInv, ShapeInv, ThreadType, Threads
<1> HIDE DEF th
<1> QED
  BY <1>1, <1>2, <1>3, LoopMoves DEF ListOperations

LEMMA NextOperationStep ==
  ASSUME ReceiverInv, NextOperation
  PROVE  ReceiverInv'
<1>1. PICK me \in ThreadStates : me = thread["reconcile"] /\ me.pc = "next"
  BY DEF NextOperation, ReceiverInv, ShapeInv, ThreadType, Threads
<1>2. CASE ReconcileFails
  BY <1>1, <1>2, ReconcileFailsStep DEF Asking
<1>3. ASSUME NEW r \in thread["reconcile"].left,
             thread' = [thread EXCEPT !["reconcile"] =
                          [thread["reconcile"] EXCEPT !.pc = "recover", !.req = r,
                                                      !.status = relay[r].status, !.left = @ \ {r}]],
             UNCHANGED <<relayVars, diskVars, daemon, authority, lock, exec, reply, historyVars>>
      PROVE  ReceiverInv'
  <2>1. r \in Requests
    BY <1>1 DEF ThreadStates
  <2>2. PICK st \in Status : st = relay[r].status
    BY <2>1 DEF ReceiverInv, ShapeInv, RelayType, RelayRecords
  <2> DEFINE th == [me EXCEPT !.pc = "recover", !.req = r, !.status = st, !.left = @ \ {r}]
  <2>3. th \in ThreadStates /\ th.pc = "recover" /\ th.req = r /\ th.status = st
    BY <2>1 DEF ThreadStates, HasRequest
  <2>4. thread' = [thread EXCEPT !["reconcile"] = th]
    BY <1>1, <1>3, <2>2
  <2> HIDE DEF th
  <2> QED
    BY <1>1, <1>3, <2>1, <2>2, <2>3, <2>4, LoopMoves
<1> QED
  BY <1>2, <1>3 DEF NextOperation

LEMMA ReconciledStep ==
  ASSUME ReceiverInv, Reconciled
  PROVE  ReceiverInv'
<1> USE DEF ReceiverInv
<1>1. /\ "reconcile" \in Threads /\ thread["reconcile"].pc = "next" /\ daemon' = "up"
      /\ thread["reconcile"].pc \notin Asking \cup {"replay"}
      /\ thread' = [thread EXCEPT !["reconcile"] = Idle]
      /\ UNCHANGED <<now, net, diskVars, authority, lock, exec, reply, historyVars>>
  BY DEF Reconciled, Threads, Asking
<1>2. /\ ThreadType' /\ thread'["reconcile"] = Idle
      /\ \A u \in Threads \ {"reconcile"} : thread'[u] = thread[u]
  BY <1>1, IdleState, ThreadShape
<1>3. ThreadOK("reconcile")'
  BY <1>2, IdleState DEF ThreadOK, HasRequest, HasOp, Asking
<1>4. CASE daemon = "up" /\ UNCHANGED <<relay, stream>>
  BY <1>1, <1>2, <1>3, <1>4, SameStream, SameExec, SameDisk, LocalActs
<1>5. CASE relay' = Swept /\ stream' = InboxEvents
  BY <1>1, <1>2, <1>3, <1>5, SweepActs, FaultsInBound DEF historyVars
<1> QED
  BY <1>4, <1>5 DEF Reconciled

LEMMA ReconcileStepInv ==
  ASSUME ReceiverInv, ReconcileStep
  PROVE  ReceiverInv'
BY InboxStep, ReplaceStep, NextNoticeStep, ListOperationsStep, NextOperationStep, ReconciledStep
   DEF ReconcileStep

-----------------------------------------------------------------------------
(* The steps of the event stream.                                          *)
LEMMA EventTaken ==
  ASSUME ReceiverInv, NEW kind, AtEvent(kind), stream' = Tail(stream), UNCHANGED relay
  PROVE  /\ Head(stream) \in Events /\ Head(stream)[1] = kind /\ EventOK(Head(stream))
         /\ stream' \in Seq(Events) /\ StreamInv'
         /\ "events" \in Threads /\ thread["events"].pc = "idle" /\ daemon # "down"
<1> USE DEF ReceiverInv
<1>1. stream \in Seq(Events) /\ stream # <<>>
  BY DEF AtEvent, ShapeInv, NetType
<1>2. /\ Head(stream) \in Events /\ Head(stream) = stream[1] /\ Len(stream) \in Nat /\ Len(stream) > 0
      /\ Tail(stream) \in Seq(Events) /\ Len(Tail(stream)) = Len(stream) - 1
      /\ \A i \in 1..Len(Tail(stream)) : Tail(stream)[i] = stream[i + 1]
  BY <1>1
<1>3. EventOK(Head(stream))
  BY <1>2 DEF StreamInv
<1>4. StreamInv'
  <2> SUFFICES ASSUME NEW i \in 1..Len(stream')
               PROVE  EventOK(stream[i])'
    BY DEF StreamInv
  <2>1. i + 1 \in 1..Len(stream) /\ stream'[i] = stream[i + 1]
    BY <1>2
  <2> QED
    BY <2>1 DEF StreamInv, EventOK
<1> QED
  BY <1>2, <1>3, <1>4 DEF AtEvent, Alive, Threads

LEMMA PeerRequestStep ==
  ASSUME ReceiverInv, PeerRequest
  PROVE  ReceiverInv'
<1> USE DEF ReceiverInv
<1>0. PICK r, st : r = Head(stream)[2] /\ st = Head(stream)[3]
  OBVIOUS
<1>1. /\ AtEvent("peer_request") /\ stream' = Tail(stream) /\ pending' = [pending EXCEPT ![r] = st]
      /\ thread' = IF st = Awaiting THEN thread
                   ELSE [thread EXCEPT !["events"] = [Idle EXCEPT !.pc = "recover", !.req = r, !.status = st]]
      /\ UNCHANGED <<relay, now, net, journal, daemon, authority, lock, exec, reply, historyVars>>
  BY <1>0 DEF PeerRequest
<1>2. /\ "events" \in Threads /\ thread["events"].pc = "idle" /\ daemon # "down"
      /\ stream' \in Seq(Events) /\ StreamInv'
      /\ r \in Requests /\ st \in Status /\ st \in Open
  BY <1>0, <1>1, EventTaken DEF Events, EventOK
<1>3. DiskType' /\ \A q \in Requests : journal'[q] = journal[q]
  BY <1>1, <1>2 DEF ShapeInv, DiskType
<1> DEFINE new == [Idle EXCEPT !.pc = "recover", !.req = r, !.status = st]
<1>4. new \in ThreadStates /\ new.pc = "recover" /\ new.req = r /\ new.status = st
  BY <1>2 DEF Idle, ThreadStates, HasRequest
<1>5. PICK th \in ThreadStates : /\ thread' = [thread EXCEPT !["events"] = th]
                                 /\ th.pc = "idle" \/ th = new
  <2>1. thread["events"] \in ThreadStates /\ thread = [thread EXCEPT !["events"] = thread["events"]]
    BY <1>2 DEF ShapeInv, ThreadType
  <2> HIDE DEF new
  <2> QED
    BY <1>1, <1>2, <1>4, <2>1 DEF new
<1> HIDE DEF new
<1>6. ThreadType' /\ thread'["events"] = th /\ \A u \in Threads \ {"events"} : thread'[u] = thread[u]
  BY <1>2, <1>5, ThreadShape
<1>7. ThreadOK("events")'
  <2>1. ~Terminal(st)
    BY <1>2, Statuses DEF Open
  <2> QED
    BY <1>2, <1>4, <1>5, <1>6, <2>1 DEF ThreadOK, HasRequest, HasOp, Asking
<1> QED
  BY <1>1, <1>2, <1>3, <1>6, <1>7, SameExec, LocalActs DEF Asking

LEMMA PeerCancelledStep ==
  ASSUME ReceiverInv, PeerCancelled
  PROVE  ReceiverInv'
<1> USE DEF ReceiverInv
<1>0. PICK r : r = Head(stream)[2]
  OBVIOUS
<1>1. /\ AtEvent("peer_cancelled") /\ stream' = Tail(stream) /\ cancelExecution(r)
      /\ thread' = [thread EXCEPT !["events"].pc = "unpend", !["events"].req = r]
      /\ UNCHANGED <<relay, now, net, diskVars, daemon, authority, lock, reply, historyVars>>
  BY <1>0 DEF PeerCancelled
<1>2. /\ "events" \in Threads /\ thread["events"].pc = "idle" /\ daemon # "down"
      /\ stream' \in Seq(Events) /\ StreamInv' /\ r \in Requests /\ Terminal(relay[r].status)
  BY <1>0, <1>1, EventTaken DEF Events, EventOK
<1>3. Shifts
  BY <1>1, <1>2, ExecShifts
<1> DEFINE th == [thread["events"] EXCEPT !.pc = "unpend", !.req = r]
<1>4. th \in ThreadStates /\ th.pc = "unpend" /\ th.req = r
  BY <1>2 DEF ShapeInv, ThreadType, ThreadStates, HasRequest
<1>5. thread' = [thread EXCEPT !["events"] = th]
  BY <1>1, <1>2 DEF ShapeInv, ThreadType
<1> HIDE DEF th
<1>6. ThreadType' /\ thread'["events"] = th /\ \A u \in Threads \ {"events"} : thread'[u] = thread[u]
  BY <1>2, <1>4, <1>5, ThreadShape
<1>7. ThreadOK("events")'
  BY <1>1, <1>2, <1>4, <1>6 DEF ThreadOK, HasRequest, HasOp, Asking
<1> QED
  BY <1>1, <1>2, <1>3, <1>6, <1>7, SameDisk, LocalActs DEF Asking

LEMMA RemovePendingStep ==
  ASSUME ReceiverInv, RemovePending
  PROVE  ReceiverInv'
<1> USE DEF ReceiverInv
<1>1. /\ "events" \in Threads /\ thread["events"].pc = "unpend"
      /\ UNCHANGED <<relay, now, net, stream, journal, daemon, authority, lock, exec, reply, historyVars>>
  BY DEF RemovePending, Threads, relayVars
<1>2. PICK r \in Requests : r = thread["events"].req /\ Terminal(relay[r].status)
  BY <1>1 DEF ThreadInv, ThreadOK, HasRequest
<1>3. DiskType' /\ \A q \in Requests : journal'[q] = journal[q]
  BY <1>1, <1>2 DEF RemovePending, ShapeInv, DiskType
<1> DEFINE th == [thread["events"] EXCEPT !.pc = "unjournal"]
<1>4. th \in ThreadStates /\ th.pc = "unjournal" /\ th.req = r
  BY <1>1, <1>2 DEF ShapeInv, ThreadType, ThreadStates, HasRequest
<1>5. thread' = [thread EXCEPT !["events"] = th]
  BY <1>1 DEF RemovePending, ShapeInv, ThreadType
<1> HIDE DEF th
<1>6. ThreadType' /\ thread'["events"] = th /\ \A u \in Threads \ {"events"} : thread'[u] = thread[u]
  BY <1>1, <1>4, <1>5, ThreadShape
<1>7. ThreadOK("events")'
  BY <1>1, <1>2, <1>4, <1>6 DEF ThreadOK, HasRequest, HasOp, Asking
<1> QED
  BY <1>1, <1>3, <1>6, <1>7, SameStream, SameExec, LocalActs DEF Asking

(* peer_cancelled removes the record without the lock: by then the relay's *)
(* status is final, so nothing that is still needed is lost.               *)
LEMMA RemoveJournalStep ==
  ASSUME ReceiverInv, RemoveJournal
  PROVE  ReceiverInv'
<1> USE DEF ReceiverInv
<1>1. /\ "events" \in Threads /\ thread["events"].pc = "unjournal"
      /\ thread' = [thread EXCEPT !["events"] = Idle]
      /\ UNCHANGED <<relay, now, net, stream, pending, daemon, authority, lock, exec, reply, historyVars>>
  BY DEF RemoveJournal, Threads, relayVars
<1>2. PICK r \in Requests : r = thread["events"].req /\ Terminal(relay[r].status)
  BY <1>1 DEF ThreadInv, ThreadOK, HasRequest
<1>3. /\ DiskType'
      /\ \A q \in Requests : \/ journal'[q] = journal[q]
                             \/ journal'[q] = None /\ Terminal(relay[q].status)
  BY <1>1, <1>2 DEF RemoveJournal, ShapeInv, DiskType
<1>4. ThreadType' /\ thread'["events"] = Idle /\ \A u \in Threads \ {"events"} : thread'[u] = thread[u]
  BY <1>1, IdleState, ThreadShape
<1>5. ThreadOK("events")'
  BY <1>4, IdleState DEF ThreadOK, HasRequest, HasOp, Asking
<1> QED
  BY <1>1, <1>3, <1>4, <1>5, SameStream, SameExec, LocalActs DEF Asking

LEMMA ReconnectStep ==
  ASSUME ReceiverInv, Reconnect
  PROVE  ReceiverInv'
<1> USE DEF ReceiverInv
<1>1. /\ "events" \in Threads /\ thread["events"].pc \notin Asking \cup {"replay"} /\ daemon = "up"
      /\ thread' = [thread EXCEPT !["events"] = Idle] /\ relay' = Swept /\ stream' = InboxEvents
      /\ UNCHANGED <<now, net, diskVars, daemon, authority, lock, exec, reply, issued, crashes, runs,
                     outcome>>
  BY DEF Reconnect, Threads, Asking
<1>2. faults' \in 0..MaxFaults
  BY FaultsInBound, ReceiverConstants DEF Reconnect
<1>3. ThreadType' /\ thread'["events"] = Idle /\ \A u \in Threads \ {"events"} : thread'[u] = thread[u]
  BY <1>1, IdleState, ThreadShape
<1>4. ThreadOK("events")'
  BY <1>3, IdleState DEF ThreadOK, HasRequest, HasOp, Asking
<1> QED
  BY <1>1, <1>2, <1>3, <1>4, SweepActs

LEMMA EventStepInv ==
  ASSUME ReceiverInv, EventStep
  PROVE  ReceiverInv'
BY PeerRequestStep, PeerCancelledStep, RemovePendingStep, RemoveJournalStep DEF EventStep

-----------------------------------------------------------------------------
LEMMA InitInv == Init => ReceiverInv
<1> SUFFICES ASSUME Init
             PROVE  ReceiverInv
  OBVIOUS
<1>1. NoRequest \in RelayRecords
  BY DEF NoRequest, RelayRecords, Status
<1>2. RelayType
  BY <1>1, ReceiverConstants DEF Init, RelayType
<1>3. NetType /\ DiskType /\ DaemonType
  BY DEF Init, NetType, DiskType, DaemonType
<1>4. ThreadType /\ ExecType /\ ReplyType
  BY IdleState, NoExecState DEF Init, ThreadType, ExecType, ReplyType
<1>5. BoundType
  BY ReceiverConstants DEF Init, BoundType
<1>6. ASSUME NEW r \in Requests
      PROVE  RelayOK(r) /\ ExecOK(r) /\ JournalOK(r)
  <2>1. /\ relay[r] = NoRequest /\ exec[r] = NoExec /\ journal[r] = None /\ runs[r] = 0
        /\ outcome[r] = None
    BY DEF Init
  <2>2. RelayOK(r)
    BY <2>1 DEF RelayOK, NoRequest
  <2>3. ExecOK(r)
    BY <2>1, NoExecState DEF ExecOK
  <2>4. ~Begun(r)
    BY <2>1, NoExecState DEF Begun
  <2>5. JournalOK(r)
    BY <2>1, <2>4 DEF JournalOK
  <2> QED
    BY <2>2, <2>3, <2>5
<1>7. ASSUME NEW t \in Threads
      PROVE  ThreadOK(t)
  <2>1. thread[t] = Idle
    BY DEF Init
  <2> QED
    BY <2>1, IdleState DEF ThreadOK, HasRequest, HasOp, Asking
<1>8. NetInv /\ LiveInv /\ StreamInv /\ DownInv
  BY DEF Init, NetInv, LiveInv, StreamInv, DownInv
<1> QED
  BY <1>2, <1>3, <1>4, <1>5, <1>6, <1>7, <1>8
     DEF ReceiverInv, ShapeInv, RelayInv, ExecInv, JournalInv, ThreadInv

LEMMA StutterInv ==
  ASSUME ReceiverInv, UNCHANGED vars
  PROVE  ReceiverInv'
<1>1. UNCHANGED <<relay, now, net, stream, journal, pending, daemon, authority, lock, thread, exec,
                  reply, issued, faults, crashes, runs, outcome>>
  BY DEF vars, relayVars, diskVars, processVars, historyVars
<1>2. ShapeInv'
  BY <1>1 DEF ReceiverInv, ShapeInv, RelayType, NetType, DiskType, DaemonType, ThreadType, ExecType,
              ReplyType, BoundType
<1>3. Advances
  BY <1>1, <1>2, SameAdvances, ReceiverConstants DEF ReceiverInv, ShapeInv, BoundType
<1>4. RelayInv'
  BY <1>1, <1>2, <1>3, RelayKeeps DEF RelayInv, ReceiverInv
<1>5. StreamInv'
  BY <1>1, <1>2, <1>3, StreamKeeps DEF ReceiverInv
<1> QED
  BY <1>1, <1>2, <1>3, <1>4, <1>5, RelayMoves

LEMMA NextInv ==
  ASSUME ReceiverInv, Next
  PROVE  ReceiverInv'
<1>1. CASE \E r \in Requests : Create(r) \/ Cancel(r)
  BY <1>1, CreateStep, CancelStep
<1>2. CASE Deadline
  BY <1>2, DeadlineStep
<1>3. CASE \E m \in net : Serve(m) \/ Lose(m)
  BY <1>3, ServeStep, LoseStep
<1>4. CASE Crash \/ Exit \/ Restart \/ Reconnect
  BY <1>4, CrashStep, RestartStep, ReconnectStep
<1>5. CASE \E r \in Requests : AllowOnce(r) \/ AllowAccepted(r) \/ UserDeny(r)
  BY <1>5, ChoiceSteps, AllowAcceptedStep
<1>6. CASE UserStep
  BY <1>6, UserCommitStep, DenyReplyStep DEF UserStep
<1>7. CASE ReconcileStep \/ EventStep
  BY <1>7, ReconcileStepInv, EventStepInv
<1>8. CASE \E t \in Threads : Recover(t) \/ Call(t)
  BY <1>8, RecoverAwaitingStep, RecoverCommittedStep, RecoverTerminalStep, HandleDecisionStep,
     ReplayReplyStep DEF Recover, Call
<1>9. CASE \E r \in Requests : ExecStep(r)
  BY <1>9, ExecStepInv
<1> QED
  BY <1>1, <1>2, <1>3, <1>4, <1>5, <1>6, <1>7, <1>8, <1>9 DEF Next

(* The invariant holds throughout: whatever is still on its way, in a       *)
(* goroutine or on disk agrees with what the relay has recorded.           *)
THEOREM ReceiverIsInvariant == Spec => []ReceiverInv
<1>1. ReceiverInv /\ [Next]_vars => ReceiverInv'
  BY NextInv, StutterInv
<1> QED
  BY <1>1, InitInv, PTL DEF Spec

(* The runtime is started at most once for a request, over any number of   *)
(* crashes, restarts, lost calls and retries, and while the relay has the  *)
(* request open the journal still says that it was started (execute's      *)
(* runtime_started boundary).                                              *)
THEOREM RuntimeStartsOnce == Spec => []StartsOnce
<1>1. ReceiverInv => StartsOnce
  <2> SUFFICES ASSUME ReceiverInv
               PROVE  StartsOnce
    OBVIOUS
  <2> USE DEF ReceiverInv
  <2>1. TypeOK
    <3>1. \A r \in Requests : /\ relay[r].status \in Status
                              /\ journal[r] \in mutationRecord \cup {None}
                              /\ pending[r] \in Status \cup {None}
                              /\ exec[r].op \in mutationRecord \cup {None}
                              /\ runs[r] \in Nat
      BY DEF ShapeInv, RelayType, RelayRecords, DiskType, ExecType, ExecStates, BoundType
    <3>2. \A t \in Threads : thread[t].op \in mutationRecord \cup {None}
      BY DEF ShapeInv, ThreadType, ThreadStates
    <3> QED
      BY <3>1, <3>2 DEF TypeOK, ShapeInv, RelayType, DaemonType, ReplyType, BoundType
  <2>2. AtMostOnce
    BY DEF AtMostOnce, JournalInv, JournalOK
  <2>3. StartsAreRemembered
    BY DEF StartsAreRemembered, JournalInv, JournalOK, Begun
  <2> QED
    BY <2>1, <2>2, <2>3 DEF StartsOnce
<1> QED
  BY <1>1, ReceiverIsInvariant, PTL

(* The runtime runs only for an operation that was allowed under the       *)
(* authority now active, and that the relay has recorded as the request's  *)
(* decision and as its execution claim.                                    *)
THEOREM RunsWereApproved == Spec => []RunsAreApproved
<1>1. ReceiverInv => RunsAreApproved
  BY DEF ReceiverInv, ExecInv, ExecOK, RunsAreApproved, Decided
<1> QED
  BY <1>1, ReceiverIsInvariant, PTL

(* The relay's result is what the one run produced, and until the relay's  *)
(* status is final the journal keeps it, whatever crashed or was cancelled *)
(* in between (prepareAndSubmitResult, replayPreparedResult).              *)
THEOREM ResultsAreSound == Spec => []ResultsSound
<1>1. ReceiverInv => ResultsSound
  <2> SUFFICES ASSUME ReceiverInv
               PROVE  ResultsSound
    OBVIOUS
  <2>1. ResultIsTheRuns
    BY DEF ReceiverInv, RelayInv, RelayOK, ResultIsTheRuns
  <2>2. ResultsAreKept
    <3> SUFFICES ASSUME NEW r \in Requests, outcome[r] # None, ~Terminal(relay[r].status)
                 PROVE  /\ journal[r] # None
                        /\ journal[r].phase = ResultPrepared
                        /\ journal[r].result = outcome[r]
      BY DEF ResultsAreKept
    <3>1. journal[r] # None /\ journal[r].phase = ResultPrepared
      BY DEF ReceiverInv, JournalInv, JournalOK, Begun
    <3>2. OpOK(r, journal[r])
      BY <3>1 DEF ReceiverInv, JournalInv, JournalOK
    <3> QED
      BY <3>1, <3>2 DEF OpOK
  <2> QED
    BY <2>1, <2>2 DEF ResultsSound
<1> QED
  BY <1>1, ReceiverIsInvariant, PTL
=============================================================================
