----------------------------- MODULE MCExecution -----------------------------
(***************************************************************************)
(* What one execution does on the recipient's machine, for TLC: the run of *)
(* a child process, for what it prints ("output") and for what it may do   *)
(* ("policy"), and the files around it ("sandbox").  Runtime and sandbox   *)
(* share no state, so each behaviour is one of its `subject`.              *)
(***************************************************************************)
EXTENDS RuntimeRun, TLC

-----------------------------------------------------------------------------
(* The runtime's lines, policies and policy requests.                      *)
CONSTANTS yes, long, s1

Line(type, text, session, failed) ==
  [type |-> type, text |-> text, session |-> session, failed |-> failed]

(* The lines that matter to the sessions a run leaves ...                  *)
SessionLines == {Line("session", None, s1, FALSE), Line("result", yes, None, FALSE),
                 Line("text", yes, None, FALSE)}

(* ... and to what it returns.                                             *)
OutputLines == SessionLines \cup
  {Line("text", long, None, FALSE), Line("result", None, None, TRUE),
   Line("error", None, None, TRUE), Line("error", None, None, FALSE),
   Line("foreign", None, None, FALSE), Line("long", None, None, FALSE),
   Line("notice", None, None, FALSE)}

Guarded == [mode |-> "guarded_write", allow |-> Permissions]
NoMCPs == [mode |-> "custom", allow |-> Permissions \ {"mcps"}]
Careful == [mode |-> "read_only", allow |-> {"network", "mcps"}]
SomeLocals == {Guarded, NoMCPs, Careful}

Ask(mode, denied, wanted) ==
  [mode |-> mode, allow |-> [p \in Permissions |-> IF p \in denied THEN "no"
                                                    ELSE IF p \in wanted THEN "yes" ELSE "unset"]]
SomeRequests == {EmptyRequest, Ask("", {"mcps"}, {"writes", "shell"}),
                 Ask("read_only", {}, {"mcps", "network"})}

-----------------------------------------------------------------------------
(***************************************************************************)
(* The sandbox's files.  Sizes are the code's own: two contents of one MiB *)
(* fit together, one of two MiB only alone.  Two names differ only in      *)
(* case, one is of no textual type, and redaction may make the longest     *)
(* answer one byte longer.                                                 *)
(***************************************************************************)
CONSTANTS Attachments, Names, Refused, Key, Inodes, Regular, Contents, Size, Secret, Textual,
          Answers, MaxAttachments, MaxAttachmentBytes, MaxRequestPayloadBytes, MaxFinalTextBytes,
          MaxAnswerBytes, MaxBody, MaxChanges,
          half, full, secret, report, REPORT, photo

LowerCase == [n \in Names |-> IF n = REPORT THEN report ELSE n]
Sizes == half :> 1048576 @@ full :> 2097152 @@ secret :> 64
TextFiles == (Names \ {photo}) \X Contents
LongestAnswers ==
  {[bytes |-> MaxFinalTextBytes, redacted |-> MaxFinalTextBytes + longer] : longer \in {0, 1}}

VARIABLES subject, step, fetched, sandbox, deferred, leftover, entries, content,
          replaced, todo, name, before, payload, files, text, staged, relay, record, lost, changes

Sandbox == INSTANCE ArtifactSandbox WITH answer <- text, result <- staged

(***************************************************************************)
(* The code's limits: the relay's body has room for an answer of which     *)
(* every byte is escaped to six, each file's description and its base64    *)
(* form.                                                                   *)
(***************************************************************************)
ASSUME SandboxLimits ==
  /\ IsFiniteSet(Names) /\ Size \in [Contents -> Nat]
  /\ \A a \in Answers : a.bytes \in Nat /\ a.redacted \in Nat
  /\ {MaxAttachments, MaxAttachmentBytes, MaxRequestPayloadBytes, MaxAnswerBytes, MaxBody}
       \subseteq Nat
  /\ 18 * MaxAnswerBytes + 12296 * MaxAttachments + 4 * MaxRequestPayloadBytes <= 3 * MaxBody

(* None is nothing else.                                                   *)
ASSUME NoneIsNoFile ==
  /\ Regular \subseteq Inodes \ {None}
  /\ \A f \in [inode : Inodes, content : Contents] : f # None
  /\ \A fs \in SUBSET [name : Names, content : Contents],
       bytes \in {a.redacted : a \in Answers} \cup {0}, state \in {"completed", "failed"} :
       [state |-> state, answer |-> bytes, files |-> fs] # None

runtimeVars == <<adapterVars, configured, saved, pc, ctx, runVars, childVars, result, answer,
                 born, left, runs, restarts, edits>>
sandboxVars == <<step, fetched, sandbox, deferred, leftover, entries, content, replaced,
                 todo, name, before, payload, files, text, staged, relay, record, lost, changes>>
suiteVars == <<subject, runtimeVars, sandboxVars, faults>>

SuiteInit ==
  /\ subject \in {"output", "policy", "sandbox"}
  /\ Init /\ Sandbox!Init
  /\ subject # "policy" => configured = {}
  /\ \A i \in Inodes : i \notin Regular \/ subject # "sandbox" => content[i] = half
  /\ subject # "sandbox" => text.redacted = text.bytes

(***************************************************************************)
(* One run with every output under one policy; or two runs under changing  *)
(* policies, requests and MCP configurations, neither cancelled, that each *)
(* report a session and then an answer.                                    *)
(***************************************************************************)
Within ==
  /\ subject = "output" =>
       /\ local' \in {NoMCPs, None} /\ request' = EmptyRequest
       /\ restarts' <= 1 /\ runs' <= 1 /\ edits' = 0 /\ faults' <= 1
  /\ subject = "policy" =>
       /\ \A i \in DOMAIN said' : said'[i] \in SessionLines
       /\ \A i \in DOMAIN said' : (said'[i].type = "session") = (i = 1)
       /\ Len(said') <= 2 /\ ~holder' /\ faults' = 0
       /\ pc' \in {"prepare", "launch", "scan"} => ctx' = "live"

(***************************************************************************)
(* Files change often only while nothing else is unusual: the requester    *)
(* has not cancelled, no answer grows, and at most one step failed.        *)
(***************************************************************************)
FewChanges ==
  \/ changes' <= 1
  \/ relay' # Sandbox!Cancelled /\ text.redacted = text.bytes /\ faults' <= 1

SuiteNext ==
  /\ UNCHANGED subject
  /\ \/ /\ subject \in {"output", "policy"} /\ Next
        /\ Within
        /\ UNCHANGED sandboxVars
     \/ /\ subject = "sandbox" /\ Sandbox!Next
        /\ FewChanges
        /\ UNCHANGED runtimeVars

(* The fairness of each component, in the behaviours it is the subject of. *)
Runtimes  == subject \in {"output", "policy"}
Sandboxes == subject = "sandbox"

SuiteFairness ==
  /\ WF_vars(Runtimes /\ AdapterStep)
  /\ WF_vars(Runtimes /\ Cancel)
  /\ WF_vars(Runtimes /\ KillOnCancel)
  /\ WF_sandboxVars(Sandboxes /\ Sandbox!Execute)
  /\ WF_sandboxVars(Sandboxes /\ Sandbox!Reconcile)

SuiteSpec == SuiteInit /\ [][SuiteNext]_suiteVars /\ SuiteFairness

-----------------------------------------------------------------------------
(* What is collected while files change is sound, acceptable to the relay, *)
(* and leaves no directory (ArtifactSandbox).                              *)
ResultSound == Sandbox!ResultSound

(* An execution past its boundary has an end at the relay.                 *)
ExecutionsAreAnswered == (Sandboxes /\ step = "started") ~> Sandbox!Answered
=============================================================================
