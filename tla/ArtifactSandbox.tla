--------------------------- MODULE ArtifactSandbox ---------------------------
(***************************************************************************)
(* The files of one execution: artifact/manager.go makes a request's       *)
(* private directory, downloads the approved attachments into it, and      *)
(* collects what the runtime left in the return directory, while processes *)
(* the runtime started may still write there.  receiver/service.go redacts *)
(* the answer, journals the result and submits it; the relay checks it     *)
(* again with limits of its own, and refuses it once the requester has     *)
(* cancelled.                                                              *)
(***************************************************************************)
EXTENDS Integers, FiniteSets, FiniteSetsExt

CONSTANTS Attachments,      \* the approved attachments
          Names,            \* names a returned file may have
          Refused,          \* names the deliverable policies refuse
          Key,              \* Key[n]: n in lower case
          Inodes,           \* file objects
          Regular,          \* those that are regular, not links or executables
          Contents,         \* file contents,
          Size, Secret,     \* their sizes, and those that look like a credential
          Textual,          \* the <<name, content>> whose media type is a textual one
          Answers,          \* final texts, as [bytes, redacted]: sizes of the two forms
          MaxAttachments, MaxAttachmentBytes, MaxRequestPayloadBytes,
          MaxFinalTextBytes, MaxAnswerBytes, MaxBody,
          None,
          MaxChanges, MaxFaults   \* bounds

VARIABLES step,         \* where execute is
          fetched,      \* attachments already written
          sandbox,      \* whether the request directory exists
          deferred,     \* execute has deferred the Cleanup of its sandbox
          leftover,     \* a removal failed or the receiver died
          record,       \* the journal holds the operation
          lost,         \* history: the run ended with no result to journal, or none journaled
          entries,      \* the return directory: name to inode or None
          content,      \* per inode
          replaced,     \* another directory stands at the return path
          todo, name, before, payload,   \* CollectResults: its loop and one turn of it
          files,        \* the deliverables so far: a set of [name, inode, content]
          answer,
          result,       \* the journaled result, None before result_prepared
          relay,        \* the end of the request that the relay recorded, or None
          changes, faults

dirVars == <<entries, content, replaced, changes>>
loopVars == <<todo, name, before, payload, files>>
outVars == <<answer, result, relay, record, lost>>
vars == <<step, fetched, sandbox, deferred, leftover, dirVars, loopVars, outVars, faults>>

Init ==
  /\ step = "started" /\ fetched = {} /\ sandbox = FALSE /\ deferred = FALSE
  /\ leftover = FALSE
  /\ entries = [n \in Names |-> None] /\ replaced = FALSE
  /\ content \in [Inodes -> Contents]
  /\ todo = {} /\ name = None /\ before = None /\ payload = None /\ files = {}
  /\ answer \in Answers /\ result = None /\ relay = None /\ record = TRUE /\ lost = FALSE
  /\ changes = 0 /\ faults = 0

Goto(s) == step' = s
Works == UNCHANGED faults
Fails == faults < MaxFaults /\ faults' = faults + 1

Total(fs) == MapThenSumSet(LAMBDA f : Size[f.content], fs)

(* What the relay makes of a request its requester cancels.                *)
Cancelled == [state |-> "cancelled", answer |-> 0, files |-> {}]

-----------------------------------------------------------------------------
(* Materialize: a private directory of the request's own.                  *)
createRequestDirectory ==
  /\ step = "started"
  /\ \/ Works /\ sandbox' = TRUE /\ Goto("fetch")
     \/ Fails /\ UNCHANGED sandbox /\ Goto("failed")
  /\ UNCHANGED <<fetched, deferred, leftover, dirVars, loopVars, outVars>>

(***************************************************************************)
(* Each attachment is fetched, verified and written, or all is removed: an *)
(* error of that Cleanup is ignored.  The relay gives none away after a    *)
(* cancellation.                                                           *)
(***************************************************************************)
Materialize(a) ==
  /\ step = "fetch" /\ a \in Attachments \ fetched
  /\ \/ /\ relay = None /\ Works
        /\ fetched' = fetched \cup {a} /\ UNCHANGED <<step, sandbox, leftover>>
     \/ /\ Fails \/ (relay = Cancelled /\ Works)
        /\ Goto("failed") /\ UNCHANGED fetched
        /\ \/ sandbox' = FALSE /\ UNCHANGED leftover
           \/ leftover' = TRUE /\ UNCHANGED sandbox
  /\ UNCHANGED <<deferred, dirVars, loopVars, outVars>>

RunRuntime ==
  /\ step = "fetch" /\ fetched = Attachments
  /\ Goto("running") /\ deferred' = TRUE
  /\ UNCHANGED <<fetched, sandbox, leftover, dirVars, loopVars, outVars, faults>>

(***************************************************************************)
(* An answer past the local limit is the runtime's failure.  Files are     *)
(* collected only under a policy that lets the runtime write.              *)
(***************************************************************************)
RuntimeReturns ==
  /\ step = "running"
  /\ \/ /\ Works
        /\ IF answer.bytes <= MaxFinalTextBytes THEN step' \in {"collect", "collected"}
                                               ELSE Goto("failed")
     \/ Fails /\ Goto("failed")
  /\ UNCHANGED <<fetched, sandbox, deferred, leftover, dirVars, loopVars, outVars>>

(* Stopped by its requester or its own machine, it submits nothing.        *)
RuntimeCancelled ==
  /\ step = "running"
  /\ Fails \/ (relay = Cancelled /\ Works)
  /\ Goto("cleanup") /\ lost' = TRUE
  /\ UNCHANGED <<fetched, sandbox, deferred, leftover, dirVars, loopVars, answer, result, relay,
                 record>>

-----------------------------------------------------------------------------
(***************************************************************************)
(* The runtime, and what it left running, changes the return directory: a  *)
(* file is created, moved over, removed or rewritten in place.             *)
(***************************************************************************)
Writing == /\ sandbox /\ step \notin {"started", "fetch"}
           /\ changes < MaxChanges /\ changes' = changes + 1

Link(n, i) ==
  /\ Writing
  /\ entries[n] # i /\ (i # None => \A m \in Names : entries[m] # i)
  /\ entries' = [entries EXCEPT ![n] = i]
  /\ UNCHANGED <<step, fetched, sandbox, deferred, leftover, content, replaced, loopVars, outVars, faults>>

Rewrite(i, c) ==
  /\ Writing
  /\ content[i] # c
  /\ content' = [content EXCEPT ![i] = c]
  /\ UNCHANGED <<step, fetched, sandbox, deferred, leftover, entries, replaced, loopVars, outVars, faults>>

ReplaceDirectory ==
  /\ Writing
  /\ ~replaced /\ replaced' = TRUE
  /\ UNCHANGED <<step, fetched, sandbox, deferred, leftover, entries, content, loopVars, outVars, faults>>

-----------------------------------------------------------------------------
(* CollectResults: the pinned directory is opened and listed.              *)
openOwnedReturnRoot ==
  /\ step = "collect"
  /\ Goto(IF replaced THEN "failed" ELSE "list")
  /\ UNCHANGED <<fetched, sandbox, deferred, leftover, dirVars, loopVars, outVars, faults>>

ReadDir ==
  /\ step = "list"
  /\ todo' = {n \in Names : entries[n] # None}
  /\ Goto(IF Cardinality(todo') > MaxAttachments THEN "failed" ELSE "next")
  /\ UNCHANGED <<fetched, sandbox, deferred, leftover, dirVars, name, before, payload, files,
                 outVars, faults>>

(* One name: Lstat and the policies on it.                                 *)
Inspect(n) ==
  /\ step = "next" /\ n \in todo
  /\ name' = n /\ before' = entries[n]
  /\ Goto(IF /\ n \notin Refused /\ entries[n] \in Regular
             /\ Size[content[entries[n]]] <= MaxAttachmentBytes
            THEN "open" ELSE "failed")
  /\ UNCHANGED <<fetched, sandbox, deferred, leftover, dirVars, todo, payload, files, outVars, faults>>

(* Mutant: whatever the name stands for now is opened and read.            *)
ReadAny ==
  /\ step = "open"
  /\ IF entries[name] = None THEN Goto("failed") /\ UNCHANGED payload
     ELSE payload' = [inode |-> entries[name], content |-> content[entries[name]]]
          /\ Goto("recheck")
  /\ UNCHANGED <<fetched, sandbox, deferred, leftover, dirVars, todo, name, before, files, outVars, faults>>

(* The opened file must be the inspected one; its bytes are read.          *)
Read ==
  /\ step = "open"
  /\ IF entries[name] # before THEN Goto("failed") /\ UNCHANGED payload
     ELSE payload' = [inode |-> before, content |-> content[before]]
          /\ Goto("recheck")
  /\ UNCHANGED <<fetched, sandbox, deferred, leftover, dirVars, todo, name, before, files, outVars, faults>>

(* Its size, the total, and a scan for credentials of what is text.        *)
Deliverable(f) ==
  /\ Size[f.content] <= MaxAttachmentBytes
  /\ Total(files \cup {f}) <= MaxRequestPayloadBytes
  /\ <<f.name, f.content>> \in Textual => f.content \notin Secret

Recheck ==
  LET f == [name |-> name, inode |-> payload.inode, content |-> payload.content] IN
  /\ step = "recheck"
  /\ IF entries[name] = before /\ Deliverable(f)
       THEN files' = files \cup {f} /\ todo' = todo \ {name} /\ Goto("next")
       ELSE Goto("failed") /\ UNCHANGED <<files, todo>>
  /\ name' = None /\ before' = None /\ payload' = None
  /\ UNCHANGED <<fetched, sandbox, deferred, leftover, dirVars, outVars, faults>>

validateOwnedReturnRoot ==
  /\ step = "next" /\ todo = {}
  /\ Goto(IF replaced THEN "failed" ELSE "collected")
  /\ UNCHANGED <<fetched, sandbox, deferred, leftover, dirVars, loopVars, outVars, faults>>

-----------------------------------------------------------------------------
(* The result: redacted, journaled, then submitted.                        *)
Completed == [state |-> "completed", answer |-> answer.redacted,
              files |-> {[name |-> f.name, content |-> f.content] : f \in files}]
Failed == [state |-> "failed", answer |-> 0, files |-> {}]

prepareAndSubmitResult ==
  /\ step \in {"collected", "failed"}
  /\ \/ /\ record /\ Works
        /\ result' = (IF step = "collected" THEN Completed ELSE Failed)
        /\ Goto("submit") /\ UNCHANGED lost
     \/ /\ Fails \/ (~record /\ Works)
        /\ Goto("cleanup") /\ lost' = TRUE /\ UNCHANGED result
  /\ UNCHANGED <<fetched, sandbox, deferred, leftover, dirVars, loopVars, answer, relay, record>>

(***************************************************************************)
(* What the relay makes of it: the body's limit, with base64 files and an  *)
(* answer whose every byte may be escaped to six, SubmitResult's limits,   *)
(* and prepareArtifacts on the files.                                      *)
(***************************************************************************)
Base64(bytes) == 4 * ((bytes + 2) \div 3)

Encoded(fs) == MapThenSumSet(LAMBDA f : 4096 + Base64(Size[f.content]), fs)
decodeJSON(r) == 6 * r.answer + Encoded(r.files) <= MaxBody

prepareArtifacts(fs) ==
  /\ \A f \in fs : f.name \notin Refused /\ Size[f.content] <= MaxAttachmentBytes
  /\ \A f, g \in fs : Key[f.name] = Key[g.name] => f = g
  /\ Total(fs) <= MaxRequestPayloadBytes

Acceptable(r) ==
  /\ decodeJSON(r)
  /\ r.answer <= MaxAnswerBytes /\ Cardinality(r.files) <= MaxAttachments
  /\ prepareArtifacts(r.files)

(* It records a running request's result, and confirms an exact replay.    *)
SubmitResult(r) == Acceptable(r) /\ relay \in {None, r}

(* Mutant: a submission without an answer is taken for a success.          *)
ReplayForgets ==
  \/ /\ Works /\ SubmitResult(result)
     /\ relay' = result /\ result' = None /\ record' = FALSE
  \/ /\ Fails
     /\ UNCHANGED relay /\ result' = None /\ record' = FALSE
  \/ /\ ~SubmitResult(result) /\ Works
     /\ UNCHANGED <<relay, result, record>>

(***************************************************************************)
(* The call succeeds and the record goes; or it is refused, it or its      *)
(* answer is lost, or the record cannot be removed, and the record stays.  *)
(***************************************************************************)
replayPreparedResult ==
  \/ /\ Works /\ SubmitResult(result)
     /\ relay' = result /\ result' = None /\ record' = FALSE
  \/ /\ Fails
     /\ relay' \in {relay} \cup (IF SubmitResult(result) THEN {result} ELSE {})
     /\ UNCHANGED <<result, record>>
  \/ /\ ~SubmitResult(result) /\ Works
     /\ UNCHANGED <<relay, result, record>>

(* A record discarded meanwhile is of a request cancelled, and refused.    *)
Submit ==
  /\ step = "submit"
  /\ IF result # None THEN replayPreparedResult
                      ELSE Works /\ UNCHANGED <<relay, result, record>>
  /\ Goto("cleanup")
  /\ UNCHANGED <<fetched, sandbox, deferred, leftover, dirVars, loopVars, answer, lost>>

(* The deferred Cleanup; a removal may fail, or meet a file just written.  *)
Cleanup ==
  /\ step = "cleanup"
  /\ \/ Works /\ sandbox' = (sandbox /\ ~deferred) /\ UNCHANGED leftover
     \/ deferred /\ Fails /\ leftover' = TRUE /\ UNCHANGED sandbox
  /\ Goto("ended")
  /\ UNCHANGED <<fetched, deferred, dirVars, loopVars, outVars>>

(* Reconciliation replays a prepared result, now and after a restart ...   *)
Reconcile ==
  /\ step = "ended" /\ result # None
  /\ replayPreparedResult
  /\ UNCHANGED <<step, fetched, sandbox, deferred, leftover, dirVars, loopVars, answer, lost>>

(* ... and discards the operation of a request that has ended otherwise.   *)
Discard ==
  /\ relay = Cancelled /\ record
  /\ record' = FALSE /\ result' = None
  /\ UNCHANGED <<step, fetched, sandbox, deferred, leftover, dirVars, loopVars, answer, relay,
                 lost, faults>>

(* The requester cancels.                                                  *)
Cancel ==
  /\ relay = None /\ relay' = Cancelled
  /\ UNCHANGED <<step, fetched, sandbox, deferred, leftover, dirVars, loopVars, answer, result,
                 record, lost, faults>>

(* The receiver dies: the directory stays, a started run is not repeated.  *)
Crash ==
  /\ step # "ended" /\ Fails
  /\ step' = "ended" /\ leftover' = TRUE
  /\ lost' = (lost \/ step \notin {"submit", "cleanup"})
  /\ todo' = {} /\ name' = None /\ before' = None /\ payload' = None /\ files' = {}
  /\ UNCHANGED <<fetched, sandbox, deferred, dirVars, answer, result, relay, record>>

-----------------------------------------------------------------------------
Execute ==
  \/ createRequestDirectory \/ (\E a \in Attachments : Materialize(a))
  \/ RunRuntime \/ RuntimeReturns
  \/ openOwnedReturnRoot \/ ReadDir \/ (\E n \in Names : Inspect(n))
  \/ Read \/ Recheck \/ validateOwnedReturnRoot
  \/ prepareAndSubmitResult \/ Submit \/ Cleanup

Next ==
  \/ Execute \/ RuntimeCancelled \/ Reconcile \/ Discard \/ Cancel \/ Crash
  \/ \E n \in Names, i \in Inodes \cup {None} : Link(n, i)
  \/ \E i \in Regular, c \in Contents : Rewrite(i, c)
  \/ ReplaceDirectory

Spec == Init /\ [][Next]_vars

(* The execution proceeds and heartbeats keep reconciling.                 *)
Fairness == WF_vars(Execute) /\ WF_vars(Reconcile)
FairSpec == Spec /\ Fairness

-----------------------------------------------------------------------------
(* The state's shape.                                                      *)
TypeOK ==
  /\ step \in {"started", "fetch", "running", "collect", "list", "next", "open", "recheck",
               "collected", "failed", "submit", "cleanup", "ended"}
  /\ fetched \subseteq Attachments /\ todo \subseteq Names
  /\ entries \in [Names -> Inodes \cup {None}] /\ content \in [Inodes -> Contents]
  /\ step \in {"open", "recheck"} => name \in todo /\ before \in Regular
  /\ (step = "recheck") = (payload # None)
  /\ step = "submit" => result # None \/ ~record
  /\ record \in BOOLEAN /\ (result # None => record)

(***************************************************************************)
(* CollectResults, against writers that swap, remove and rewrite files     *)
(* between its checks: what it delivers was read from a regular file, is   *)
(* under no refused name, looks like no credential where its media type is *)
(* a textual one, and keeps the limits.                                    *)
(***************************************************************************)
DeliverablesAreSound ==
  /\ \A f \in files : /\ f.inode \in Regular /\ f.name \notin Refused
                      /\ <<f.name, f.content>> \in Textual => f.content \notin Secret
  /\ Cardinality(files) <= MaxAttachments /\ Total(files) <= MaxRequestPayloadBytes

(***************************************************************************)
(* The relay repeats the receiver's checks on a result that is journaled   *)
(* already: whatever the files became while they were collected, the relay *)
(* can record it, unless redaction made the answer longer than the relay   *)
(* takes or two names differ only in case, which only the relay checks.    *)
(***************************************************************************)
OnlyRelayRefuses(r) ==
  \/ r.answer > MaxAnswerBytes
  \/ \E f, g \in r.files : f.name # g.name /\ Key[f.name] = Key[g.name]

PreparedIsAcceptable == result # None => Acceptable(result) \/ OnlyRelayRefuses(result)

(***************************************************************************)
(* An execution that ends, however it ends, removes its directory with the *)
(* requester's attachments, unless the receiver died or a removal failed.  *)
(***************************************************************************)
NoSandboxLeft == (step = "ended" /\ sandbox) => leftover

(***************************************************************************)
(* An execution past the at-most-once boundary always has an end at the    *)
(* relay, a result or a failure, over failing fetches, files and calls, a  *)
(* lost answer and a crash after the journal has the result; or the        *)
(* requester cancelled.  The code admits three exceptions: it died, was    *)
(* stopped or could not write the journal before that (`lost`), or only    *)
(* the relay refuses the result, which is then replayed in vain.  The      *)
(* device stays enrolled and the relay retains the request.                *)
(***************************************************************************)
Answered == relay # None \/ lost \/ (result # None /\ OnlyRelayRefuses(result))

ExecutionsAreAnswered == (step = "started") ~> Answered

(***************************************************************************)
(* What execute collects while the runtime's processes change the files is *)
(* sound and acceptable to the relay, and its directory goes.              *)
(***************************************************************************)
ResultSound == TypeOK /\ DeliverablesAreSound /\ PreparedIsAcceptable /\ NoSandboxLeft
=============================================================================
