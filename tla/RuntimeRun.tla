------------------------------ MODULE RuntimeRun ------------------------------
(***************************************************************************)
(* internal/runtime: a receiver's runtime adapter (claude, codex or an     *)
(* external runner) and its runs of one conversation.  An adapter narrows  *)
(* the policy, freezes or checks the MCP inventory, starts the child       *)
(* process and reads its JSON lines until the pipe ends.  The child, its   *)
(* descendants, the user's configuration and the context's deadline move   *)
(* on their own.                                                           *)
(***************************************************************************)
EXTENDS RuntimePolicy, Naturals, Sequences, SequencesExt

CONSTANTS Kinds, Locals,      \* the adapters and policies the receiver may be started with
          Asked,              \* the policy requests of runs
          Servers,            \* MCP servers a user may configure
          OwnServers,         \* those of them that are Team Relay's own
          Texts, TooLong,     \* answers; one of them exceeds the local limit
          SessionIDs, Lines,  \* session ids, and the lines a child may print
          Descendants,        \* whether a child may leave a process holding its output
          None,
          MaxLines, MaxRuns, MaxRestarts, MaxEdits, MaxFaults   \* bounds

VARIABLES kind, local,       \* the adapter and its policy; None before the receiver started
          configured,        \* the MCP servers in the user's configuration
          frozen,            \* the adapter's snapshot of them
          approved,          \* the inventory the approval fingerprint covers
          saved,             \* the conversation's session: None or [id, kind, policy]
          pc, ctx,           \* the run, and its context: "live" or "done"
          request, policy,   \* its policy request and effective policy
          resumed, file,     \* the session it resumes; its private MCP configuration
          child, granted,    \* the process, and what it was started with
          holder,            \* a descendant holds the child's output open
          pipe, said,        \* unread lines, and all lines of this child
          result,            \* [session, text, failed, broken] as the lines set it
          answer,            \* what the last run returned, None for an error
          born,              \* history: the [id, policy] pairs runs have reported
          left,              \* a private configuration outlived a killed receiver
          runs, restarts, edits, faults

adapterVars == <<kind, local, frozen, approved>>
runVars == <<request, policy, resumed, file, granted>>
childVars == <<child, holder, pipe, said>>
bounds == <<runs, restarts, edits, faults>>
vars == <<adapterVars, configured, saved, pc, ctx, runVars, childVars, result, answer, born,
          left, bounds>>

NoResult == [session |-> None, text |-> None, failed |-> FALSE, broken |-> FALSE]
NoGrant == [tools |-> {}, servers |-> {}]

Init ==
  /\ kind = None /\ local = None /\ configured \in SUBSET Servers /\ frozen = {} /\ approved = {}
  /\ saved = None /\ pc = "down" /\ ctx = "done"
  /\ request = EmptyRequest /\ policy = None /\ resumed = None /\ file = None
  /\ child = "none" /\ granted = NoGrant /\ holder = FALSE /\ pipe = <<>> /\ said = <<>>
  /\ result = NoResult /\ answer = None /\ born = {} /\ left = FALSE
  /\ runs = 0 /\ restarts = 0 /\ edits = 0 /\ faults = 0

Works == UNCHANGED faults
Fails == faults < MaxFaults /\ faults' = faults + 1

-----------------------------------------------------------------------------
(* Claude can omit Bash, but cannot make it read-only.                     *)
validateClaudePolicy(p) ==
  ValidatePolicySupport(Controls, p) /\ ("shell" \in p.allow => "writes" \in p.allow)

(* The policy an adapter is constructed with and every run's, again.       *)
Accepts(k, p) ==
  CASE k = "claude" -> validateClaudePolicy(p)
    [] k = "codex" -> "mcps" \notin p.allow /\ ValidatePolicySupport(Controls \ {"shell"}, p)
    [] k = "external" -> TRUE

recipientMCPServers == configured \ OwnServers

(***************************************************************************)
(* The receiver starts: the adapter is built and its approval fingerprint  *)
(* computed, which freezes the inventory it covers.                        *)
(***************************************************************************)
Start(k, l) ==
  /\ pc = "down" /\ restarts < MaxRestarts /\ restarts' = restarts + 1
  /\ Accepts(k, normalizePolicy(l))
  /\ kind' = k /\ local' = normalizePolicy(l)
  /\ frozen' = (IF k = "claude" /\ "mcps" \in local'.allow THEN recipientMCPServers ELSE {})
  /\ approved' = frozen' /\ pc' = "idle" /\ answer' = None
  /\ UNCHANGED <<configured, saved, ctx, runVars, childVars, result, born, left, runs, edits, faults>>

(* The receiver dies; the child of a run is orphaned with its files.       *)
Stop ==
  /\ pc # "down" /\ pc' = "down"
  /\ kind' = None /\ local' = None /\ frozen' = {} /\ approved' = {}
  /\ left' = (left \/ file # None)
  /\ ctx' = "done" /\ request' = EmptyRequest /\ policy' = None /\ resumed' = None
  /\ file' = None /\ granted' = NoGrant
  /\ child' = "none" /\ holder' = FALSE /\ pipe' = <<>> /\ said' = <<>>
  /\ result' = NoResult /\ answer' = None
  /\ UNCHANGED <<configured, saved, born, bounds>>

(* The user edits the MCP configuration at any time.                       *)
Configure(s) ==
  /\ edits < MaxEdits /\ edits' = edits + 1
  /\ s # configured /\ configured' = s
  /\ UNCHANGED <<adapterVars, saved, pc, ctx, runVars, childVars, result, answer, born, left,
                 runs, restarts, faults>>

-----------------------------------------------------------------------------
CompatibleSession(s, p) == s # None /\ s.kind = kind /\ s.policy = p

(***************************************************************************)
(* Run: the request narrows the policy; an unsupported one is refused.  An *)
(* external runner is probed first, for its controls and for resumption.   *)
(***************************************************************************)
Run(r, controls, resumes) ==
  LET p == EffectivePolicy(local, r) IN
  /\ pc = "idle" /\ runs < MaxRuns /\ runs' = runs + 1
  /\ request' = r /\ policy' = p /\ answer' = None /\ result' = NoResult
  /\ child' = "none" /\ granted' = NoGrant /\ pipe' = <<>> /\ said' = <<>> /\ holder' = FALSE
  /\ IF Accepts(kind, p) /\ (kind = "external" => ValidatePolicySupport(controls, p))
       THEN /\ pc' = "prepare" /\ ctx' = "live"
            /\ resumed' = (IF CompatibleSession(saved, p) /\ (kind = "external" => resumes)
                             THEN saved ELSE None)
       ELSE pc' = "idle" /\ ctx' = "done" /\ resumed' = None
  /\ UNCHANGED <<adapterVars, configured, saved, file, born, left, restarts, edits, faults>>

(***************************************************************************)
(* Claude's private MCP file, from the frozen snapshot; codex's check that *)
(* an empty home shows no MCP server.                                      *)
(***************************************************************************)
prepareMCPConfig ==
  /\ pc = "prepare"
  /\ \/ /\ Works /\ pc' = "launch"
        /\ file' = (IF kind = "claude" THEN IF "mcps" \in policy.allow THEN frozen ELSE {}
                                       ELSE None)
     \/ Fails /\ pc' = "idle" /\ UNCHANGED file
  /\ UNCHANGED <<adapterVars, configured, saved, ctx, request, policy, resumed, granted, childVars,
                 result, answer, born, left, runs, restarts, edits>>

(***************************************************************************)
(* commandArgs: the tools left to the child.  Claude's read-only mode is a *)
(* list of allowed tools, its others a list of denied ones; codex always   *)
(* has a shell, in a sandbox; an external runner is sent the policy.       *)
(***************************************************************************)
commandArgs(p) ==
  CASE kind = "claude" ->
         IF p.mode = "read_only" THEN {"read"} \cup (p.allow \cap {"network"})
         ELSE {"read", "network", "shell", "writes"} \ ({"network", "shell", "writes"} \ p.allow)
    [] kind = "codex" -> {"read", "shell"} \cup (p.allow \cap {"writes", "network"})
    [] kind = "external" -> {"read"} \cup p.allow

(* ExecuteJSONLines starts the process; a run cancelled by now starts none.*)
Launch ==
  /\ pc = "launch"
  /\ result' = [NoResult EXCEPT !.session = resumed]
  /\ \/ /\ ctx = "live" /\ Works
        /\ pc' = "scan" /\ child' = "running" /\ UNCHANGED file
        /\ granted' = [tools |-> commandArgs(policy),
                       servers |-> IF file = None THEN {} ELSE file]
     \/ /\ \/ ctx = "done" /\ Works
           \/ Fails
        /\ pc' = "idle" /\ file' = None /\ UNCHANGED <<child, granted>>
  /\ UNCHANGED <<adapterVars, configured, saved, ctx, request, policy, resumed, holder, pipe, said,
                 answer, born, left, runs, restarts, edits>>

-----------------------------------------------------------------------------
(* The child's own steps.                                                  *)
Say(l) ==
  /\ child = "running" /\ Len(said) < MaxLines
  /\ pipe' = Append(pipe, l) /\ said' = Append(said, l)
  /\ UNCHANGED <<adapterVars, configured, saved, pc, ctx, runVars, child, holder, result, answer,
                 born, left, bounds>>

LeaveProcess ==
  /\ Descendants /\ child = "running" /\ ~holder /\ holder' = TRUE
  /\ UNCHANGED <<adapterVars, configured, saved, pc, ctx, runVars, child, pipe, said, result, answer,
                 born, left, bounds>>

ProcessEnds ==
  /\ holder /\ child # "running" /\ holder' = FALSE
  /\ UNCHANGED <<adapterVars, configured, saved, pc, ctx, runVars, child, pipe, said, result, answer,
                 born, left, bounds>>

Exit(how) ==
  /\ child = "running" /\ child' = how
  /\ UNCHANGED <<adapterVars, configured, saved, pc, ctx, runVars, holder, pipe, said, result, answer,
                 born, left, bounds>>

(* The run's timeout passes, or the receiver cancels it.                   *)
Cancel ==
  /\ ctx = "live" /\ ctx' = "done"
  /\ UNCHANGED <<adapterVars, configured, saved, pc, runVars, childVars, result, answer, born, left,
                 bounds>>

(* Mutant: a cancelled run lets the process go on.                         *)
KillNothing == FALSE /\ UNCHANGED vars

(* CommandContext kills the process, and only it.                          *)
KillOnCancel ==
  /\ ctx = "done" /\ child = "running" /\ child' = "killed"
  /\ UNCHANGED <<adapterVars, configured, saved, pc, ctx, runVars, holder, pipe, said, result, answer,
                 born, left, bounds>>

-----------------------------------------------------------------------------
(***************************************************************************)
(* What an adapter makes of one line.  A line is [type, text, session,     *)
(* failed], failed being an error's message or Claude's is_error; "long"   *)
(* exceeds the scanner's buffer, "notice" is not JSON.                     *)
(***************************************************************************)
sessionRef(id) == [id |-> id, kind |-> kind, policy |-> policy]
Broken(r) == [r EXCEPT !.broken = TRUE]
WithText(r, t) == IF t = TooLong THEN Broken(r) ELSE [r EXCEPT !.text = t]

CodexLine(r, l) ==
  CASE l.type = "session" -> [r EXCEPT !.session = sessionRef(l.session)]
    [] l.type = "text" -> WithText(r, l.text)
    [] l.type = "error" -> [r EXCEPT !.failed = l.failed]
    [] OTHER -> r

ClaudeLine(r, l) ==
  LET s == IF l.session = None THEN r ELSE [r EXCEPT !.session = sessionRef(l.session)] IN
  CASE l.type = "text" -> WithText(s, l.text)
    [] l.type = "result" ->
         LET t == IF l.text = None THEN s ELSE WithText(s, l.text)
         IN IF t.broken THEN t ELSE [t EXCEPT !.failed = l.failed]
    [] OTHER -> s

ExternalLine(r, l) ==
  LET s == IF l.session = None THEN r ELSE [r EXCEPT !.session = sessionRef(l.session)] IN
  CASE l.type = "session" -> s
    [] l.type = "result" -> WithText(s, l.text)
    [] l.type = "error" -> [r EXCEPT !.failed = l.failed]
    [] l.type = "foreign" -> Broken(r)
    [] OTHER -> r

Handled(r, l) ==
  IF l.type = "long" THEN Broken(r)
  ELSE IF l.type = "notice" THEN r
  ELSE CASE kind = "codex" -> CodexLine(r, l)
         [] kind = "claude" -> ClaudeLine(r, l)
         [] kind = "external" -> ExternalLine(r, l)

(* ScanJSONLines: a line is handled; one that fails kills the process.     *)
ScanLine ==
  LET r == Handled(result, Head(pipe)) IN
  /\ pc = "scan" /\ pipe # <<>>
  /\ pipe' = Tail(pipe) /\ result' = r
  /\ born' = IF r.session # None /\ r.session # result.session THEN born \cup {r.session} ELSE born
  /\ IF r.broken THEN pc' = "wait" /\ child' = (IF child = "running" THEN "killed" ELSE child)
                 ELSE UNCHANGED <<pc, child>>
  /\ UNCHANGED <<adapterVars, configured, saved, ctx, runVars, holder, said, answer, left, bounds>>

(* The pipe ends when every process that has it open is gone.              *)
ScanEnds ==
  /\ pc = "scan" /\ pipe = <<>> /\ child # "running" /\ ~holder
  /\ pc' = "wait"
  /\ UNCHANGED <<adapterVars, configured, saved, ctx, runVars, childVars, result, answer, born, left,
                 bounds>>

(* Mutant: the process's status is not looked at.                          *)
SucceededByText == ~result.broken /\ ~result.failed /\ result.text # None

Succeeded == /\ ~result.broken /\ child = "exited"
             /\ ~result.failed /\ result.text # None

(* The deferred cleanup of the private configuration.                      *)
cleanupMCPConfig == None

(* Wait, then the answer or an error; the controller saves the session.    *)
Return ==
  /\ pc = "wait" /\ child # "running"
  /\ pc' = "idle" /\ ctx' = "done" /\ file' = cleanupMCPConfig
  /\ IF Succeeded THEN answer' = result.text /\ saved' = result.session
                  ELSE answer' = None /\ UNCHANGED saved
  /\ UNCHANGED <<adapterVars, configured, request, policy, resumed, granted, childVars, result, born,
                 left, bounds>>

-----------------------------------------------------------------------------
AdapterStep == prepareMCPConfig \/ Launch \/ ScanLine \/ ScanEnds \/ Return

Next ==
  \/ \E k \in Kinds, l \in Locals : Start(k, l)
  \/ Stop
  \/ \E s \in SUBSET Servers : Configure(s)
  \/ \E r \in Asked, c \in {Controls, Controls \ {"network"}}, b \in BOOLEAN : Run(r, c, b)
  \/ AdapterStep
  \/ \E l \in Lines : Say(l)
  \/ \E how \in {"exited", "crashed"} : Exit(how)
  \/ LeaveProcess \/ ProcessEnds
  \/ Cancel \/ KillOnCancel

Spec == Init /\ [][Next]_vars

(* The adapter runs, its timer fires, and the kernel delivers the kill.    *)
FairSpec == Spec /\ WF_vars(AdapterStep) /\ WF_vars(Cancel) /\ WF_vars(KillOnCancel)

-----------------------------------------------------------------------------
(* The adapters and policies that exist, and what the bounds are.          *)
ASSUME RuntimeConstants ==
  /\ Kinds \subseteq {"claude", "codex", "external"}
  /\ Locals \subseteq Policies /\ Asked \subseteq PolicyRequests
  /\ {MaxLines, MaxRuns, MaxRestarts, MaxEdits, MaxFaults} \subseteq Nat

(* A line is what the adapter decodes; a text always has its text.         *)
ASSUME LinesAreDecoded ==
  \A l \in Lines : /\ l.text \in Texts \cup {None} /\ l.session \in SessionIDs \cup {None}
                   /\ l.failed \in BOOLEAN /\ (l.type = "text" => l.text # None)

ASSUME NoneIsNoSession ==
  \A id \in SessionIDs \cup {None}, k \in Kinds, p \in Policies :
     [id |-> id, kind |-> k, policy |-> p] # None

(* The state's shape.                                                      *)
TypeOK ==
  /\ pc \in {"down", "idle", "prepare", "launch", "scan", "wait"}
  /\ child \in {"none", "running", "exited", "crashed", "killed"}
  /\ pc \in {"down", "idle", "prepare", "launch"} => child # "running"
  /\ pc = "wait" => child \in {"exited", "crashed", "killed"}
  /\ pipe \in Seq(Lines) /\ IsSuffix(pipe, said)
  /\ answer \in Texts \cup {None}

Speaks(l) == \/ l.type = "text" /\ kind \in {"claude", "codex"}
             \/ l.type = "result" /\ kind = "claude" /\ l.text # None
             \/ l.type = "result" /\ kind = "external"
Reports(l) == l.type = (IF kind = "claude" THEN "result" ELSE "error")

Spoken == {i \in DOMAIN said : Speaks(said[i])}
Reported == {i \in DOMAIN said : Reports(said[i])}
IsLast(i, S) == i \in S /\ \A j \in S : j <= i

(***************************************************************************)
(* An answer is the whole of a successful run: the process ended by itself *)
(* with success, all it said was read, nothing it reported last was an     *)
(* error, and the answer is the last text it gave.                         *)
(***************************************************************************)
AnswerIsComplete ==
  answer # None =>
    /\ child = "exited" /\ pipe = <<>>
    /\ \E i \in Spoken : IsLast(i, Spoken) /\ answer = said[i].text /\ answer # TooLong
    /\ \A i \in Reported : IsLast(i, Reported) => ~said[i].failed

Writers == IF kind = "claude" THEN {"writes", "shell"} ELSE {"writes"}

(***************************************************************************)
(* Whatever a request asks for and however the user edits the              *)
(* configuration meanwhile, a child has only tools that the recipient and  *)
(* the request both allow, no way to write where writing is denied, and    *)
(* only MCP servers the approval fingerprint covers.                       *)
(***************************************************************************)
GrantIsApproved ==
  child = "running" =>
    /\ granted.tools \subseteq {"read"} \cup (local.allow \cap Limit(request))
    /\ granted.tools \cap Writers # {} => "writes" \in local.allow \cap Limit(request)
    /\ granted.servers \subseteq approved \ OwnServers
    /\ granted.servers # {} => "mcps" \in Limit(request)

(***************************************************************************)
(* A session is resumed only under the very policy a run reported it       *)
(* under: never a chat that a broader policy shaped, across restarts and   *)
(* changes of configuration.                                               *)
(***************************************************************************)
SessionKeepsItsPolicy ==
  (child = "running" /\ resumed # None) =>
     [id |-> resumed.id, kind |-> kind, policy |-> policy] \in born

(* No credential-bearing MCP file outlives its run, however that ended.    *)
NoConfigurationLeft == pc = "idle" => file = None

(***************************************************************************)
(* A cancelled or timed out run ends, so that its slot is free again; but  *)
(* one whose child has left a process may wait for that process.           *)
(***************************************************************************)
CancelledRunEnds ==
  (ctx = "done" /\ pc \notin {"idle", "down"}) ~> (pc \in {"idle", "down"} \/ holder)

(***************************************************************************)
(* A run returns a whole answer or none, leaves no private configuration,  *)
(* grants no more than was approved and resumes no session of another      *)
(* policy.                                                                 *)
(***************************************************************************)
RunSound ==
  /\ TypeOK
  /\ AnswerIsComplete /\ NoConfigurationLeft /\ GrantIsApproved /\ SessionKeepsItsPolicy
=============================================================================
