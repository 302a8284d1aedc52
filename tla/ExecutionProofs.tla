--------------------------- MODULE ExecutionProofs ---------------------------
(***************************************************************************)
(* Proofs about the components of MCExecution, each for every value of its *)
(* constants: RuntimeRun, and ArtifactSandbox, which is Sandbox here.      *)
(***************************************************************************)
EXTENDS MCExecution, SequenceTheorems, FiniteSetTheorems, WellFoundedInduction, TLAPS

(***************************************************************************)
(* A run, for any adapters, policies, requests, lines and bounds.  While   *)
(* it lasts its policy is the one the request leaves of the adapter's, and *)
(* supported; its files, grant and session follow from that policy; and    *)
(* the result is a function of the lines read so far.                      *)
(***************************************************************************)
Running == {"prepare", "launch", "scan", "wait"}
Sessions == [id : SessionIDs \cup {None}, kind : Kinds, policy : Policies]
Results == [session : Sessions \cup {None}, text : Texts \cup {None}, failed : BOOLEAN,
            broken : BOOLEAN]

(* The adapter: normalised, supported, with an inventory of its own.       *)
AdapterInv ==
  /\ pc \in Running \cup {"down", "idle"}
  /\ approved = frozen /\ frozen \cap OwnServers = {}
  /\ pc # "down" => /\ kind \in Kinds /\ local \in Policies /\ normalizePolicy(local) = local
  /\ pc = "down" => answer = None
  /\ pc \in Running => /\ request \in Asked /\ policy = EffectivePolicy(local, request)
                       /\ Accepts(kind, policy)

(* The child process, and the run's private file.                          *)
ChildInv ==
  /\ child \in {"none", "running", "exited", "crashed", "killed"}
  /\ child = "running" => pc = "scan"
  /\ pc \in {"scan", "wait"} => child # "none"
  /\ file # None => /\ pc \in {"launch", "scan", "wait"} /\ file \subseteq frozen
                    /\ file = {} \/ "mcps" \in policy.allow
  /\ child = "running" => /\ granted.tools = commandArgs(policy)
                          /\ granted.servers \subseteq frozen
                          /\ granted.servers = {} \/ "mcps" \in policy.allow

(* The lines: what is unread is the end of what was said.                  *)
Heard == Len(said) - Len(pipe)
PipeInv ==
  /\ pipe \in Seq(Lines) /\ said \in Seq(Lines) /\ Len(pipe) <= Len(said)
  /\ \A i \in 1..Len(pipe) : pipe[i] = said[Heard + i]
  /\ pc \in {"prepare", "launch"} => said = <<>>
  /\ pc = "wait" /\ ~result.broken => pipe = <<>>

(* The sessions: none but those that runs reported, under their policy.    *)
SessionInv ==
  /\ result \in Results /\ born \subseteq Sessions
  /\ saved = None \/ saved \in born
  /\ result.session = None \/ result.session \in born
  /\ resumed = None \/ resumed \in born
  /\ pc \in Running /\ resumed # None => resumed.kind = kind /\ resumed.policy = policy

(* The result: the last text read, and the last report.                    *)
HeardText ==
  \/ result.text = None /\ \A i \in 1..Heard : ~Speaks(said[i])
  \/ \E i \in 1..Heard : /\ Speaks(said[i]) /\ result.text = said[i].text /\ result.text # TooLong
                         /\ \A j \in 1..Heard : Speaks(said[j]) => j <= i
HeardReport ==
  \/ ~result.failed /\ \A i \in 1..Heard : ~Reports(said[i])
  \/ \E i \in 1..Heard : /\ Reports(said[i]) /\ result.failed = said[i].failed
                         /\ \A j \in 1..Heard : Reports(said[j]) => j <= i
ResultInv ==
  /\ pc \in {"scan", "wait"} /\ ~result.broken => HeardText /\ HeardReport
  /\ pc = "scan" => ~result.broken
  /\ answer # None => /\ pc = "idle" /\ child = "exited" /\ pipe = <<>> /\ answer = result.text
                      /\ ~result.failed /\ HeardText /\ HeardReport

RunInv == AdapterInv /\ ChildInv /\ PipeInv /\ SessionInv /\ ResultInv

-----------------------------------------------------------------------------
(***************************************************************************)
(* The policy operators (runtime/policy.go).                               *)
(***************************************************************************)
LEMMA NormalizedPolicy ==
  ASSUME NEW p \in Policies
  PROVE  /\ normalizePolicy(p) = [mode |-> p.mode,
                allow |-> IF p.mode = "read_only" THEN p.allow \ {"writes", "shell", "mcps"}
                          ELSE p.allow]
         /\ normalizePolicy(p) \in Policies
         /\ normalizePolicy(normalizePolicy(p)) = normalizePolicy(p)
<1>1. ASSUME NEW q \in Policies
      PROVE  normalizePolicy(q) = [mode |-> q.mode,
                allow |-> IF q.mode = "read_only" THEN q.allow \ {"writes", "shell", "mcps"}
                          ELSE q.allow]
  BY DEF normalizePolicy, Policies
<1>2. normalizePolicy(p) \in Policies
  <2>1. (IF p.mode = "read_only" THEN p.allow \ {"writes", "shell", "mcps"} ELSE p.allow)
          \in SUBSET Permissions
    BY DEF Policies
  <2> QED BY <1>1, <2>1 DEF Policies
<1>3. normalizePolicy(normalizePolicy(p)) = normalizePolicy(p)
  BY <1>1, <1>2
<1> QED BY <1>1, <1>2, <1>3

(***************************************************************************)
(* What a request leaves is no more than the recipient allows and than the *)
(* request allows, is a policy in normal form, and in read-only mode       *)
(* allows neither writes nor a shell nor MCPs.                             *)
(***************************************************************************)
LEMMA RequestsOnlyNarrow ==
  ASSUME NEW l \in Policies, normalizePolicy(l) = l, NEW r \in PolicyRequests
  PROVE  /\ EffectivePolicy(l, r) \in Policies
         /\ normalizePolicy(EffectivePolicy(l, r)) = EffectivePolicy(l, r)
         /\ EffectivePolicy(l, r).allow \subseteq l.allow \cap Limit(r)
         /\ EffectivePolicy(l, r).mode = "read_only" =>
              EffectivePolicy(l, r).allow \cap {"writes", "shell", "mcps"} = {}
<1>1. \A q \in Policies : /\ normalizePolicy(q) \in Policies
                          /\ normalizePolicy(normalizePolicy(q)) = normalizePolicy(q)
                          /\ normalizePolicy(q).allow \subseteq q.allow
                          /\ normalizePolicy(q).mode = "read_only" =>
                               normalizePolicy(q).allow \cap {"writes", "shell", "mcps"} = {}
  BY NormalizedPolicy
<1>2. CASE r = EmptyRequest
  <2>1. Limit(r) = Permissions
    BY <1>2 DEF Limit, EmptyRequest
  <2>2. l.allow \subseteq Permissions
    BY DEF Policies
  <2>3. EffectivePolicy(l, r) = l
    BY <1>2 DEF EffectivePolicy
  <2> QED BY <1>1, <2>1, <2>2, <2>3
<1>3. CASE r # EmptyRequest
  <2> DEFINE allow == l.allow \cap Limit(r)
             mode == IF allow \cap {"writes", "shell", "mcps"} = {} THEN "read_only"
                     ELSE IF allow = l.allow THEN l.mode ELSE "custom"
  <2>1. EffectivePolicy(l, r) = normalizePolicy([mode |-> mode, allow |-> allow])
    BY <1>3 DEF EffectivePolicy
  <2>2. l.mode \in Modes /\ l.allow \subseteq Permissions
    BY DEF Policies
  <2>3. mode \in Modes /\ allow \in SUBSET Permissions
    BY <2>2 DEF Modes
  <2> HIDE DEF mode, allow
  <2>4. [mode |-> mode, allow |-> allow] \in Policies
    BY <2>3 DEF Policies
  <2>5. EffectivePolicy(l, r).allow \subseteq allow
    BY <1>1, <2>1, <2>4
  <2>6. /\ EffectivePolicy(l, r) \in Policies
        /\ normalizePolicy(EffectivePolicy(l, r)) = EffectivePolicy(l, r)
        /\ EffectivePolicy(l, r).mode = "read_only" =>
              EffectivePolicy(l, r).allow \cap {"writes", "shell", "mcps"} = {}
    BY <1>1, <2>1, <2>4
  <2> QED BY <2>5, <2>6 DEF allow
<1> QED BY <1>2, <1>3

(* What a run's child is given by its command line.                        *)
LEMMA ToolsAreAllowed ==
  ASSUME NEW p \in Policies, kind \in Kinds, Accepts(kind, p), normalizePolicy(p) = p,
         p.mode = "read_only" => p.allow \cap {"writes", "shell", "mcps"} = {}
  PROVE  /\ commandArgs(p) \subseteq {"read"} \cup p.allow
         /\ commandArgs(p) \cap Writers # {} => "writes" \in p.allow
<1>1. kind \in {"claude", "codex", "external"} /\ p.allow \subseteq Permissions
  BY RuntimeConstants DEF Policies
<1>2. CASE kind = "claude"
  BY <1>1, <1>2 DEF commandArgs, Writers, Accepts, validateClaudePolicy
<1>3. CASE kind = "codex"
  <2>1. "shell" \in p.allow
    BY <1>3 DEF Accepts, ValidatePolicySupport, Required, Controls
  <2> QED BY <1>1, <1>3, <2>1 DEF commandArgs, Writers
<1>4. CASE kind = "external"
  BY <1>1, <1>4 DEF commandArgs, Writers
<1> QED BY <1>1, <1>2, <1>3, <1>4

-----------------------------------------------------------------------------
(***************************************************************************)
(* What an adapter makes of a line: a text that counts becomes the result's*)
(* text, a report its failure, and nothing else touches them.              *)
(***************************************************************************)
LineTaken(r, l, s) ==
  /\ s \in Results /\ (s.session = r.session \/ s.session \in Sessions)
  /\ ~s.broken => /\ s.text = (IF Speaks(l) THEN l.text ELSE r.text)
                  /\ Speaks(l) => l.text # TooLong
                  /\ s.failed = (IF Reports(l) THEN l.failed ELSE r.failed)

LEMMA ReportedSession ==
  ASSUME kind \in Kinds, policy \in Policies, NEW r \in Results,
         NEW id \in SessionIDs \cup {None}
  PROVE  LET s == [r EXCEPT !.session = sessionRef(id)] IN
           /\ s \in Results /\ s.session \in Sessions
           /\ s.text = r.text /\ s.failed = r.failed /\ s.broken = r.broken
<1>1. sessionRef(id) \in Sessions
  BY DEF sessionRef, Sessions
<1>2. [r EXCEPT !.session = sessionRef(id)]
        = [session |-> sessionRef(id), text |-> r.text, failed |-> r.failed, broken |-> r.broken]
  BY DEF Results
<1> HIDE DEF Sessions
<1> QED BY <1>1, <1>2 DEF Results

LEMMA GivenText ==
  ASSUME NEW r \in Results, ~r.broken, NEW t \in Texts \cup {None}
  PROVE  LET s == WithText(r, t) IN
           /\ s \in Results /\ s.session = r.session /\ s.failed = r.failed
           /\ t = TooLong => s.broken = TRUE
           /\ t # TooLong => s.text = t /\ s.broken = FALSE
<1>1. CASE t = TooLong
  <2>1. WithText(r, t) = [session |-> r.session, text |-> r.text, failed |-> r.failed,
                        broken |-> TRUE]
    BY <1>1 DEF WithText, Broken, Results
  <2> QED BY <1>1, <2>1 DEF Results
<1>2. CASE t # TooLong
  <2>1. WithText(r, t) = [session |-> r.session, text |-> t, failed |-> r.failed,
                          broken |-> r.broken]
    BY <1>2 DEF WithText, Results
  <2> QED BY <1>2, <2>1 DEF Results
<1> QED BY <1>1, <1>2

LEMMA BrokenLine ==
  ASSUME NEW r \in Results
  PROVE  Broken(r) \in Results /\ Broken(r).broken = TRUE /\ Broken(r).session = r.session
<1>1. Broken(r) = [session |-> r.session, text |-> r.text, failed |-> r.failed, broken |-> TRUE]
  <2>1. \A b \in BOOLEAN : [r EXCEPT !.broken = b]
          = [session |-> r.session, text |-> r.text, failed |-> r.failed, broken |-> b]
    BY DEF Results
  <2> QED BY <2>1 DEF Broken
<1>2. r.session \in Sessions \cup {None} /\ r.text \in Texts \cup {None} /\ r.failed \in BOOLEAN
  BY DEF Results
<1> HIDE DEF Sessions
<1>3. Broken(r) \in Results
  BY <1>1, <1>2 DEF Results
<1> QED BY <1>1, <1>3

LEMMA GivenReport ==
  ASSUME NEW r \in Results, NEW b \in BOOLEAN
  PROVE  LET s == [r EXCEPT !.failed = b] IN
           /\ s \in Results /\ s.session = r.session /\ s.text = r.text
           /\ s.failed = b /\ s.broken = r.broken
<1>1. [r EXCEPT !.failed = b]
        = [session |-> r.session, text |-> r.text, failed |-> b, broken |-> r.broken]
  BY DEF Results
<1> QED BY <1>1 DEF Results

LEMMA HandledIsTaken ==
  ASSUME kind \in Kinds, policy \in Policies, NEW r \in Results, ~r.broken, NEW l \in Lines
  PROVE  LineTaken(r, l, Handled(r, l))
<1>0. /\ kind \in {"claude", "codex", "external"}
      /\ l.text \in Texts \cup {None} /\ l.session \in SessionIDs \cup {None}
      /\ l.failed \in BOOLEAN
      /\ l.type = "text" => l.text # None
  BY RuntimeConstants, LinesAreDecoded
<1>1. CASE l.type = "long"
  <2>1. Handled(r, l) = Broken(r)
    BY <1>1 DEF Handled
  <2> QED BY <2>1, BrokenLine DEF LineTaken
<1>2. CASE l.type = "notice"
  <2>1. Handled(r, l) = r
    BY <1>2 DEF Handled
  <2> QED BY <1>0, <1>2, <2>1 DEF LineTaken, Speaks, Reports
<1> DEFINE s == IF l.session = None THEN r ELSE [r EXCEPT !.session = sessionRef(l.session)]
<1>3. /\ s \in Results /\ (s.session = r.session \/ s.session \in Sessions)
      /\ s.text = r.text /\ s.failed = r.failed /\ ~s.broken
  BY <1>0, ReportedSession
<1>4. CASE kind = "codex" /\ l.type \notin {"long", "notice"}
  <2>1. Handled(r, l) = CodexLine(r, l)
    BY <1>4 DEF Handled
  <2>2. CASE l.type = "session"
    <3>1. Handled(r, l) = [r EXCEPT !.session = sessionRef(l.session)]
      BY <2>1, <2>2 DEF CodexLine
    <3> QED BY <1>0, <1>4, <2>2, <3>1, ReportedSession DEF LineTaken, Speaks, Reports
  <2>3. CASE l.type = "text"
    <3>1. Handled(r, l) = WithText(r, l.text)
      BY <2>1, <2>3 DEF CodexLine
    <3>2. LET u == WithText(r, l.text) IN
            /\ u \in Results /\ u.session = r.session /\ u.failed = r.failed
            /\ l.text = TooLong => u.broken = TRUE
            /\ l.text # TooLong => u.text = l.text /\ u.broken = FALSE
      BY <1>0, GivenText
    <3> QED BY <1>4, <2>3, <3>1, <3>2 DEF LineTaken, Speaks, Reports
  <2>4. CASE l.type = "error"
    <3>1. Handled(r, l) = [r EXCEPT !.failed = l.failed]
      BY <2>1, <2>4 DEF CodexLine
    <3> QED BY <1>0, <1>4, <2>4, <3>1, GivenReport DEF LineTaken, Speaks, Reports
  <2>5. CASE l.type \notin {"session", "text", "error"}
    <3>1. Handled(r, l) = r
      BY <2>1, <2>5 DEF CodexLine
    <3> QED BY <1>4, <2>5, <3>1 DEF LineTaken, Speaks, Reports
  <2> QED BY <2>2, <2>3, <2>4, <2>5
<1>5. CASE kind = "claude" /\ l.type \notin {"long", "notice"}
  <2>1. Handled(r, l) = ClaudeLine(r, l)
    BY <1>5 DEF Handled
  <2>2. CASE l.type = "text"
    <3>1. Handled(r, l) = WithText(s, l.text)
      BY <2>1, <2>2 DEF ClaudeLine
    <3>2. LET u == WithText(s, l.text) IN
            /\ u \in Results /\ u.session = s.session /\ u.failed = s.failed
            /\ l.text = TooLong => u.broken = TRUE
            /\ l.text # TooLong => u.text = l.text /\ u.broken = FALSE
      BY <1>0, <1>3, GivenText
    <3> QED BY <1>3, <1>5, <2>2, <3>1, <3>2 DEF LineTaken, Speaks, Reports
  <2>3. CASE l.type = "result"
    <3> DEFINE t == IF l.text = None THEN s ELSE WithText(s, l.text)
    <3>1. Handled(r, l) = IF t.broken THEN t ELSE [t EXCEPT !.failed = l.failed]
      BY <2>1, <2>3 DEF ClaudeLine
    <3>2. /\ t \in Results /\ t.session = s.session
          /\ ~t.broken => /\ t.text = (IF Speaks(l) THEN l.text ELSE r.text)
                          /\ Speaks(l) => l.text # TooLong
      BY <1>0, <1>3, <1>5, <2>3, GivenText DEF Speaks
    <3> HIDE DEF s, t
    <3>3. CASE t.broken
      BY <1>3, <3>1, <3>2, <3>3 DEF LineTaken
    <3>4. CASE ~t.broken
      <4>1. LET u == [t EXCEPT !.failed = l.failed] IN
              /\ u \in Results /\ u.session = t.session /\ u.text = t.text
              /\ u.failed = l.failed /\ u.broken = t.broken
        BY <1>0, <3>2, GivenReport
      <4> QED BY <1>3, <1>5, <2>3, <3>1, <3>2, <3>4, <4>1 DEF LineTaken, Reports
    <3> QED BY <3>3, <3>4
  <2>4. CASE l.type \notin {"text", "result"}
    <3>1. Handled(r, l) = s
      BY <2>1, <2>4 DEF ClaudeLine
    <3> QED BY <1>3, <1>5, <2>4, <3>1 DEF LineTaken, Speaks, Reports
  <2> QED BY <2>2, <2>3, <2>4
<1>6. CASE kind = "external" /\ l.type \notin {"long", "notice"}
  <2>1. Handled(r, l) = ExternalLine(r, l)
    BY <1>6 DEF Handled
  <2>2. CASE l.type = "session"
    <3>1. Handled(r, l) = s
      BY <2>1, <2>2 DEF ExternalLine
    <3> QED BY <1>3, <1>6, <2>2, <3>1 DEF LineTaken, Speaks, Reports
  <2>3. CASE l.type = "result"
    <3>1. Handled(r, l) = WithText(s, l.text)
      BY <2>1, <2>3 DEF ExternalLine
    <3>2. LET u == WithText(s, l.text) IN
            /\ u \in Results /\ u.session = s.session /\ u.failed = s.failed
            /\ l.text = TooLong => u.broken = TRUE
            /\ l.text # TooLong => u.text = l.text /\ u.broken = FALSE
      BY <1>0, <1>3, GivenText
    <3> QED BY <1>3, <1>6, <2>3, <3>1, <3>2 DEF LineTaken, Speaks, Reports
  <2>4. CASE l.type = "error"
    <3>1. Handled(r, l) = [r EXCEPT !.failed = l.failed]
      BY <2>1, <2>4 DEF ExternalLine
    <3> QED BY <1>0, <1>6, <2>4, <3>1, GivenReport DEF LineTaken, Speaks, Reports
  <2>5. CASE l.type = "foreign"
    <3>1. Handled(r, l) = Broken(r)
      BY <2>1, <2>5 DEF ExternalLine
    <3> QED BY <3>1, BrokenLine DEF LineTaken
  <2>6. CASE l.type \notin {"session", "result", "error", "foreign"}
    <3>1. Handled(r, l) = r
      BY <2>1, <2>6 DEF ExternalLine
    <3> QED BY <1>6, <2>6, <3>1 DEF LineTaken, Speaks, Reports
  <2> QED BY <2>2, <2>3, <2>4, <2>5, <2>6
<1> QED BY <1>0, <1>1, <1>2, <1>4, <1>5, <1>6

-----------------------------------------------------------------------------
(***************************************************************************)
(* The parts of the invariant under steps that leave their variables alone.*)
(***************************************************************************)
LEMMA AdapterKept ==
  ASSUME AdapterInv, UNCHANGED <<adapterVars, pc, request, policy>>, answer' \in {answer, None}
  PROVE  AdapterInv'
<1>1. kind' = kind /\ local' = local /\ frozen' = frozen /\ approved' = approved
  BY DEF adapterVars
<1>2. Accepts(kind, policy)' = Accepts(kind, policy)
  BY <1>1 DEF Accepts, validateClaudePolicy
<1> QED BY <1>1, <1>2 DEF AdapterInv

LEMMA ChildKept ==
  ASSUME ChildInv, UNCHANGED <<adapterVars, pc, runVars>>,
         child' = child \/ child' \in {"exited", "crashed", "killed"},
         child' = "running" => child = "running"
  PROVE  ChildInv'
<1>1. kind' = kind /\ frozen' = frozen /\ policy' = policy /\ file' = file /\ granted' = granted
  BY DEF adapterVars, runVars
<1>2. commandArgs(policy)' = commandArgs(policy)
  BY <1>1 DEF commandArgs
<1> QED BY <1>1, <1>2 DEF ChildInv

LEMMA PipeKept ==
  ASSUME PipeInv, UNCHANGED <<pipe, said>>,
         pc' \in {"prepare", "launch"} => pc \in {"prepare", "launch"},
         pc' = "wait" /\ ~result'.broken => pipe = <<>>
  PROVE  PipeInv'
BY DEF PipeInv, Heard

LEMMA SessionKept ==
  ASSUME SessionInv, UNCHANGED <<kind, policy, saved, resumed, result, born>>,
         pc' \in Running => pc \in Running
  PROVE  SessionInv'
BY DEF SessionInv

LEMMA HeardKept ==
  ASSUME UNCHANGED <<kind, pipe, said, result>>
  PROVE  HeardText' = HeardText /\ HeardReport' = HeardReport
BY DEF HeardText, HeardReport, Heard, Speaks, Reports

(* The user's edits, a descendant, the deadline, or nothing.               *)
LEMMA QuietKeepsInv ==
  ASSUME RunInv,
         UNCHANGED <<adapterVars, saved, pc, runVars, child, pipe, said, result, answer, born>>
  PROVE  RunInv'
<1>1. UNCHANGED <<kind, policy, resumed>>
  BY DEF adapterVars, runVars
<1>2. AdapterInv'
  BY AdapterKept DEF RunInv, runVars
<1>3. ChildInv'
  BY ChildKept DEF RunInv
<1>4. PipeInv'
  BY PipeKept DEF RunInv, PipeInv
<1>5. SessionInv'
  BY <1>1, SessionKept DEF RunInv
<1>6. ResultInv'
  BY <1>1, HeardKept DEF RunInv, ResultInv
<1> QED BY <1>2, <1>3, <1>4, <1>5, <1>6 DEF RunInv

(* The child ends, by itself or killed.                                    *)
LEMMA ChildEndsKeepsInv ==
  ASSUME RunInv, (\E how \in {"exited", "crashed"} : Exit(how)) \/ KillOnCancel
  PROVE  RunInv'
<1>1. /\ child = "running" /\ child' \in {"exited", "crashed", "killed"}
      /\ UNCHANGED <<adapterVars, saved, pc, runVars, pipe, said, result, answer, born>>
  BY DEF Exit, KillOnCancel
<1>2. UNCHANGED <<kind, policy, resumed, request>>
  BY <1>1 DEF adapterVars, runVars
<1>3. AdapterInv'
  BY <1>1, <1>2, AdapterKept DEF RunInv
<1>4. ChildInv'
  BY <1>1, ChildKept DEF RunInv
<1>5. PipeInv'
  BY <1>1, PipeKept DEF RunInv, PipeInv
<1>6. SessionInv'
  BY <1>1, <1>2, SessionKept DEF RunInv
<1>7. pc = "scan"
  BY <1>1 DEF RunInv, ChildInv
<1>8. ResultInv'
  BY <1>1, <1>2, <1>7, HeardKept DEF RunInv, ResultInv
<1> QED BY <1>3, <1>4, <1>5, <1>6, <1>8 DEF RunInv

(* The child prints a line.                                                *)
LEMMA SayKeepsInv ==
  ASSUME RunInv, NEW l \in Lines, Say(l)
  PROVE  RunInv'
<1>1. /\ pipe' = Append(pipe, l) /\ said' = Append(said, l) /\ child = "running"
      /\ UNCHANGED <<adapterVars, saved, pc, runVars, child, result, answer, born>>
  BY DEF Say
<1>2. UNCHANGED <<kind, policy, resumed, request>> /\ pc = "scan"
  BY <1>1 DEF adapterVars, runVars, RunInv, ChildInv
<1>3. AdapterInv'
  BY <1>1, <1>2, AdapterKept DEF RunInv
<1>4. ChildInv'
  BY <1>1, ChildKept DEF RunInv
<1>5. /\ pipe \in Seq(Lines) /\ said \in Seq(Lines) /\ Len(pipe) \in Nat /\ Len(said) \in Nat
      /\ Len(pipe) <= Len(said) /\ \A i \in 1..Len(pipe) : pipe[i] = said[Heard + i]
  BY DEF RunInv, PipeInv
<1>6. /\ Len(pipe') = Len(pipe) + 1 /\ Len(said') = Len(said) + 1 /\ Heard' = Heard
      /\ pipe' \in Seq(Lines) /\ said' \in Seq(Lines) /\ Heard \in 0..Len(said)
  BY <1>1, <1>5 DEF Heard
<1>7. /\ \A i \in 1..Len(pipe) : pipe'[i] = pipe[i]
      /\ \A i \in 1..Len(said) : said'[i] = said[i]
      /\ pipe'[Len(pipe) + 1] = l /\ said'[Len(said) + 1] = l
  BY <1>1, <1>5
<1>8. PipeInv'
  <2>1. ASSUME NEW i \in 1..Len(pipe') PROVE pipe'[i] = said'[Heard' + i]
    <3>1. CASE i = Len(pipe) + 1
      <4>1. Heard + i = Len(said) + 1
        BY <1>5, <3>1 DEF Heard
      <4> QED BY <1>6, <1>7, <3>1, <4>1
    <3>2. CASE i # Len(pipe) + 1
      <4>1. i \in 1..Len(pipe)
        BY <1>5, <1>6, <3>2
      <4>2. Heard + i \in 1..Len(said)
        BY <1>5, <4>1 DEF Heard
      <4> QED BY <1>5, <1>6, <1>7, <4>1, <4>2
    <3> QED BY <3>1, <3>2
  <2>2. Len(pipe') <= Len(said')
    BY <1>5, <1>6
  <2> QED BY <1>1, <1>2, <1>6, <2>1, <2>2 DEF PipeInv
<1>9. SessionInv'
  BY <1>1, <1>2, SessionKept DEF RunInv
<1>10. HeardText => HeardText'
  <2>1. \A i \in 1..Heard : Speaks(said[i])' = Speaks(said[i]) /\ said'[i] = said[i]
    BY <1>2, <1>6, <1>7 DEF Speaks
  <2> QED BY <1>1, <1>6, <2>1 DEF HeardText
<1>11. HeardReport => HeardReport'
  <2>1. \A i \in 1..Heard : Reports(said[i])' = Reports(said[i]) /\ said'[i] = said[i]
    BY <1>2, <1>6, <1>7 DEF Reports
  <2> QED BY <1>1, <1>6, <2>1 DEF HeardReport
<1>12. ResultInv'
  BY <1>1, <1>2, <1>10, <1>11 DEF RunInv, ResultInv
<1> QED BY <1>3, <1>4, <1>8, <1>9, <1>12 DEF RunInv

LEMMA StartKeepsInv ==
  ASSUME RunInv, NEW k \in Kinds, NEW l \in Locals, Start(k, l)
  PROVE  RunInv'
<1>1. /\ pc = "down" /\ pc' = "idle" /\ answer' = None /\ kind' = k /\ local' = normalizePolicy(l)
      /\ frozen' \in {recipientMCPServers, {}} /\ approved' = frozen'
      /\ UNCHANGED <<saved, runVars, childVars, result, born>>
  BY DEF Start
<1>2. UNCHANGED <<request, policy, resumed, file, granted, child, pipe, said>>
  BY <1>1 DEF runVars, childVars
<1>3. child # "running" /\ file = None
  BY <1>1 DEF RunInv, ChildInv
<1>4. local' \in Policies /\ normalizePolicy(local') = local'
  BY <1>1, NormalizedPolicy, RuntimeConstants
<1>5. AdapterInv'
  BY <1>1, <1>4 DEF AdapterInv, Running, recipientMCPServers
<1>6. ChildInv'
  BY <1>1, <1>2, <1>3 DEF RunInv, ChildInv
<1>7. PipeInv'
  BY <1>1, <1>2, PipeKept DEF RunInv
<1>8. SessionInv'
  BY <1>1, <1>2 DEF RunInv, SessionInv, Running
<1>9. ResultInv'
  BY <1>1 DEF ResultInv
<1> QED BY <1>5, <1>6, <1>7, <1>8, <1>9 DEF RunInv

LEMMA NoResultIsResult == NoResult \in Results /\ NoResult.session = None /\ NoResult.text = None
                          /\ NoResult.failed = FALSE /\ NoResult.broken = FALSE
BY DEF NoResult, Results

LEMMA StopKeepsInv == ASSUME RunInv, Stop PROVE RunInv'
<1>1. /\ pc' = "down" /\ answer' = None /\ approved' = frozen' /\ frozen' = {}
      /\ file' = None /\ child' = "none" /\ pipe' = <<>> /\ said' = <<>>
      /\ result' = NoResult /\ resumed' = None /\ UNCHANGED <<saved, born>>
  BY DEF Stop
<1>2. AdapterInv'
  BY <1>1 DEF AdapterInv, Running
<1>3. ChildInv'
  BY <1>1 DEF ChildInv
<1>4. PipeInv'
  BY <1>1 DEF PipeInv, Heard
<1>5. SessionInv'
  BY <1>1, NoResultIsResult DEF RunInv, SessionInv, Running
<1>6. ResultInv'
  BY <1>1 DEF ResultInv
<1> QED BY <1>2, <1>3, <1>4, <1>5, <1>6 DEF RunInv

LEMMA RunKeepsInv ==
  ASSUME RunInv, NEW r \in Asked, NEW controls, NEW resumes \in BOOLEAN, Run(r, controls, resumes)
  PROVE  RunInv'
<1> DEFINE p == EffectivePolicy(local, r)
<1>1. /\ pc = "idle" /\ request' = r /\ policy' = p /\ answer' = None /\ result' = NoResult
      /\ child' = "none" /\ pipe' = <<>> /\ said' = <<>>
      /\ UNCHANGED <<adapterVars, saved, file, born>>
  BY DEF Run
<1>2. UNCHANGED <<kind, local, frozen, approved>>
  BY <1>1 DEF adapterVars
<1>3. \/ /\ pc' = "prepare" /\ Accepts(kind, p)
         /\ resumed' = None \/ (CompatibleSession(saved, p) /\ resumed' = saved)
      \/ pc' = "idle" /\ resumed' = None
  <2>1. IF Accepts(kind, p) /\ (kind = "external" => ValidatePolicySupport(controls, p))
          THEN /\ pc' = "prepare" /\ ctx' = "live"
               /\ resumed' = (IF CompatibleSession(saved, p) /\ (kind = "external" => resumes)
                                THEN saved ELSE None)
          ELSE pc' = "idle" /\ ctx' = "done" /\ resumed' = None
    BY DEF Run
  <2>2. CASE Accepts(kind, p) /\ (kind = "external" => ValidatePolicySupport(controls, p))
    <3>1. /\ pc' = "prepare"
          /\ resumed' = (IF CompatibleSession(saved, p) /\ (kind = "external" => resumes)
                           THEN saved ELSE None)
      BY <2>1, <2>2
    <3>2. resumed' = None \/ (CompatibleSession(saved, p) /\ resumed' = saved)
      BY <3>1
    <3> QED BY <2>2, <3>1, <3>2
  <2>3. CASE ~(Accepts(kind, p) /\ (kind = "external" => ValidatePolicySupport(controls, p)))
    BY <2>1, <2>3
  <2> QED BY <2>2, <2>3
<1> HIDE DEF p
<1>4. AdapterInv'
  <2>1. Accepts(kind, p)' = Accepts(kind, p)'
    OBVIOUS
  <2>2. pc' = "prepare" => Accepts(kind', policy')
    BY <1>1, <1>2, <1>3 DEF Accepts, validateClaudePolicy
  <2>3. policy' = EffectivePolicy(local', request')
    BY <1>1, <1>2 DEF p
  <2> QED BY <1>1, <1>2, <1>3, <2>2, <2>3 DEF RunInv, AdapterInv, Running
<1>5. ChildInv'
  BY <1>1, <1>3 DEF RunInv, ChildInv
<1>6. PipeInv'
  BY <1>1 DEF PipeInv, Heard
<1>7. SessionInv'
  BY <1>1, <1>2, <1>3, NoResultIsResult DEF RunInv, SessionInv, CompatibleSession
<1>8. ResultInv'
  BY <1>1, <1>3 DEF ResultInv
<1> QED BY <1>4, <1>5, <1>6, <1>7, <1>8 DEF RunInv

LEMMA prepareMCPConfigKeepsInv == ASSUME RunInv, prepareMCPConfig PROVE RunInv'
<1>1. /\ pc = "prepare" /\ pc' \in {"launch", "idle"}
      /\ pc' = "launch" => file' \in {None, {}} \/ (file' = frozen /\ "mcps" \in policy.allow)
      /\ pc' = "idle" => file' = file
      /\ UNCHANGED <<adapterVars, saved, request, policy, resumed, granted, child, pipe, said,
                     result, answer, born>>
  BY DEF prepareMCPConfig, childVars
<1>2. UNCHANGED <<kind, local, frozen, approved>>
  BY <1>1 DEF adapterVars
<1>3. file = None /\ child # "running" /\ answer = None
  BY <1>1 DEF RunInv, ChildInv, ResultInv
<1>4. AdapterInv'
  <2>1. Accepts(kind, policy)' = Accepts(kind, policy)
    BY <1>1, <1>2 DEF Accepts, validateClaudePolicy
  <2> QED BY <1>1, <1>2, <2>1 DEF RunInv, AdapterInv, Running
<1>5. ChildInv'
  BY <1>1, <1>2, <1>3 DEF RunInv, ChildInv
<1>6. PipeInv'
  BY <1>1, PipeKept DEF RunInv
<1>7. SessionInv'
  BY <1>1, <1>2, SessionKept DEF RunInv, Running
<1>8. ResultInv'
  BY <1>1, <1>3 DEF ResultInv
<1> QED BY <1>4, <1>5, <1>6, <1>7, <1>8 DEF RunInv

LEMMA LaunchKeepsInv == ASSUME RunInv, Launch PROVE RunInv'
<1>1. /\ pc = "launch" /\ result' = [NoResult EXCEPT !.session = resumed]
      /\ UNCHANGED <<adapterVars, saved, request, policy, resumed, pipe, said, answer, born>>
      /\ \/ /\ pc' = "scan" /\ child' = "running" /\ file' = file
            /\ granted' = [tools |-> commandArgs(policy),
                          servers |-> IF file = None THEN {} ELSE file]
         \/ pc' = "idle" /\ file' = None /\ child' = child /\ granted' = granted
  BY DEF Launch
<1>2. UNCHANGED <<kind, local, frozen, approved>>
  BY <1>1 DEF adapterVars
<1>3. child # "running" /\ answer = None /\ said = <<>> /\ pipe = <<>>
  <2>1. pipe \in Seq(Lines) /\ Len(pipe) <= Len(said) /\ said = <<>>
    BY <1>1 DEF RunInv, PipeInv
  <2>2. pipe = <<>>
    BY <2>1
  <2> QED BY <1>1, <2>1, <2>2 DEF RunInv, ChildInv, ResultInv
<1>4. AdapterInv'
  <2>1. Accepts(kind, policy)' = Accepts(kind, policy)
    BY <1>1, <1>2 DEF Accepts, validateClaudePolicy
  <2> QED BY <1>1, <1>2, <2>1 DEF RunInv, AdapterInv, Running
<1>5. ChildInv'
  <2>1. commandArgs(policy)' = commandArgs(policy)
    BY <1>1, <1>2 DEF commandArgs
  <2>2. file = None \/ /\ file \subseteq frozen
                       /\ file = {} \/ "mcps" \in policy.allow
    BY DEF RunInv, ChildInv
  <2>3. CASE pc' = "scan"
    <3>1. /\ child' = "running" /\ file' = file /\ granted'.tools = commandArgs(policy)'
          /\ granted'.servers = (IF file = None THEN {} ELSE file)
      BY <1>1, <2>1, <2>3
    <3> QED BY <1>1, <1>2, <2>2, <2>3, <3>1 DEF ChildInv
  <2>4. CASE pc' = "idle"
    BY <1>1, <1>3, <2>4 DEF RunInv, ChildInv
  <2> QED BY <1>1, <2>3, <2>4
<1>6. PipeInv'
  BY <1>1, PipeKept DEF RunInv
<1>7. /\ result' = [session |-> resumed, text |-> None, failed |-> FALSE, broken |-> FALSE]
      /\ result'.text = None /\ result'.failed = FALSE /\ result'.broken = FALSE
  BY <1>1 DEF NoResult
<1>8. SessionInv'
  <2>1. resumed = None \/ resumed \in born
    BY DEF RunInv, SessionInv
  <2>2. resumed \in Sessions \cup {None}
    BY <2>1 DEF RunInv, SessionInv
  <2>3. result' \in Results /\ result'.session = resumed
    BY <1>7, <2>2 DEF Results
  <2>4. pc' \in Running => pc \in Running
    BY <1>1 DEF Running
  <2> QED BY <1>1, <1>2, <2>1, <2>3, <2>4 DEF RunInv, SessionInv
<1>9. ResultInv'
  <2>1. Heard' = 0
    BY <1>1, <1>3 DEF Heard
  <2>2. HeardText' /\ HeardReport'
    BY <1>7, <2>1 DEF HeardText, HeardReport
  <2> QED BY <1>1, <1>3, <1>7, <2>2 DEF ResultInv
<1> QED BY <1>4, <1>5, <1>6, <1>8, <1>9 DEF RunInv

(***************************************************************************)
(* One more line is read: what was heard grows by it.                      *)
(***************************************************************************)
LEMMA ScanLineKeepsInv == ASSUME RunInv, ScanLine PROVE RunInv'
<1> DEFINE l == Head(pipe)
           r == Handled(result, l)
<1>1. /\ pc = "scan" /\ pipe # <<>> /\ pipe' = Tail(pipe) /\ result' = r
      /\ born' = (IF r.session # None /\ r.session # result.session
                     THEN born \cup {r.session} ELSE born)
      /\ UNCHANGED <<adapterVars, saved, runVars, said, answer>>
      /\ \/ r.broken /\ pc' = "wait" /\ child' = (IF child = "running" THEN "killed" ELSE child)
         \/ ~r.broken /\ UNCHANGED <<pc, child>>
  BY DEF ScanLine
<1>2. UNCHANGED <<kind, local, frozen, approved, policy, request, resumed, file, granted>>
  BY <1>1 DEF adapterVars, runVars
<1>3. /\ pipe \in Seq(Lines) /\ said \in Seq(Lines) /\ Len(pipe) \in Nat /\ Len(said) \in Nat
      /\ Len(pipe) <= Len(said) /\ \A i \in 1..Len(pipe) : pipe[i] = said[Heard + i]
      /\ result \in Results /\ ~result.broken /\ HeardText /\ HeardReport /\ answer = None
      /\ born \subseteq Sessions /\ kind \in Kinds
  BY <1>1 DEF RunInv, PipeInv, SessionInv, AdapterInv, ResultInv
<1>4. policy \in Policies
  BY <1>1, RequestsOnlyNarrow, RuntimeConstants DEF RunInv, AdapterInv, Running
<1>5. /\ Len(pipe) \in Nat \ {0} /\ l = pipe[1] /\ l \in Lines /\ pipe' \in Seq(Lines)
      /\ Len(pipe') = Len(pipe) - 1 /\ \A i \in 1..Len(pipe') : pipe'[i] = pipe[i + 1]
  BY <1>1, <1>3
<1>6. LineTaken(result, l, r)
  BY <1>3, <1>4, <1>5, HandledIsTaken
<1> HIDE DEF l, r
<1>7. Heard' = Heard + 1 /\ l = said[Heard + 1] /\ Heard \in Nat
  BY <1>1, <1>3, <1>5 DEF Heard
<1>8. pc' \in {"scan", "wait"}
  BY <1>1
<1>9. AdapterInv'
  <2>1. Accepts(kind, policy)' = Accepts(kind, policy)
    BY <1>2 DEF Accepts, validateClaudePolicy
  <2> QED BY <1>1, <1>2, <1>8, <2>1 DEF RunInv, AdapterInv, Running
<1>10. ChildInv'
  <2>1. commandArgs(policy)' = commandArgs(policy)
    BY <1>2 DEF commandArgs
  <2> QED BY <1>1, <1>2, <1>8, <2>1 DEF RunInv, ChildInv
<1>11. PipeInv'
  <2>1. ASSUME NEW i \in 1..Len(pipe') PROVE pipe'[i] = said'[Heard' + i]
    <3>1. i + 1 \in 1..Len(pipe)
      BY <1>5
    <3>2. pipe'[i] = said[Heard + (i + 1)] /\ Heard + (i + 1) = Heard' + i
      BY <1>3, <1>5, <1>7, <3>1
    <3> QED BY <1>1, <3>2
  <2>2. Len(pipe') <= Len(said')
    BY <1>1, <1>3, <1>5
  <2>3. pc' = "wait" => result'.broken
    BY <1>1
  <2> QED BY <1>1, <1>3, <1>5, <1>8, <2>1, <2>2, <2>3 DEF PipeInv
<1>12. SessionInv'
  <2>1. result' \in Results /\ (r.session = result.session \/ r.session \in Sessions)
    BY <1>1, <1>6 DEF LineTaken
  <2>2. born' \subseteq Sessions /\ born \subseteq born'
    BY <1>1, <1>3, <2>1
  <2>3. r.session = None \/ r.session \in born'
    BY <1>1 DEF RunInv, SessionInv
  <2>4. pc \in Running
    BY <1>1 DEF Running
  <2> QED BY <1>1, <1>2, <2>1, <2>2, <2>3, <2>4 DEF RunInv, SessionInv
<1>13. ASSUME ~r.broken PROVE HeardText' /\ HeardReport'
  <2>0. PICK n : n = Heard + 1
    OBVIOUS
  <2>1. /\ n \in 1..n /\ \A i \in 1..n : i <= n
        /\ \A i \in 1..n : i \in 1..Heard \/ i = n
        /\ \A i \in 1..Heard : i \in 1..n
    BY <1>7, <2>0
  <2>2. Heard' = n /\ l = said[n] /\ said' = said
    BY <1>1, <1>7, <2>0
  <2>3. \A i \in 1..n : Speaks(said[i])' = Speaks(said[i]) /\ Reports(said[i])' = Reports(said[i])
    BY <1>1, <1>2 DEF Speaks, Reports
  <2>4. HeardText'
    <3>1. CASE Speaks(l)
      <4>1. Speaks(said[n])' /\ result'.text = said[n].text /\ result'.text # TooLong
        BY <1>1, <1>6, <1>13, <2>1, <2>2, <2>3, <3>1 DEF LineTaken
      <4> QED BY <2>1, <2>2, <4>1 DEF HeardText
    <3>2. CASE ~Speaks(l)
      <4>1. result'.text = result.text /\ ~Speaks(said[n])
        BY <1>1, <1>6, <1>13, <2>2, <3>2 DEF LineTaken
      <4>2. CASE result.text = None /\ \A i \in 1..Heard : ~Speaks(said[i])
        <5>1. \A i \in 1..n : ~Speaks(said[i])'
          BY <2>1, <2>3, <4>1, <4>2
        <5> QED BY <2>2, <4>1, <4>2, <5>1 DEF HeardText
      <4>3. CASE \E i \in 1..Heard : /\ Speaks(said[i]) /\ result.text = said[i].text
                                     /\ result.text # TooLong
                                     /\ \A j \in 1..Heard : Speaks(said[j]) => j <= i
        <5>1. PICK i \in 1..Heard : /\ Speaks(said[i]) /\ result.text = said[i].text
                                    /\ result.text # TooLong
                                    /\ \A j \in 1..Heard : Speaks(said[j]) => j <= i
          BY <4>3
        <5>2. i \in 1..n /\ Speaks(said[i])' /\ \A j \in 1..n : Speaks(said[j])' => j <= i
          BY <2>1, <2>3, <4>1, <5>1
        <5> QED BY <2>2, <4>1, <5>1, <5>2 DEF HeardText
      <4> QED BY <1>3, <4>2, <4>3 DEF HeardText
    <3> QED BY <3>1, <3>2
  <2>5. HeardReport'
    <3>1. CASE Reports(l)
      <4>1. Reports(said[n])' /\ result'.failed = said[n].failed
        BY <1>1, <1>6, <1>13, <2>1, <2>2, <2>3, <3>1 DEF LineTaken
      <4> QED BY <2>1, <2>2, <4>1 DEF HeardReport
    <3>2. CASE ~Reports(l)
      <4>1. result'.failed = result.failed /\ ~Reports(said[n])
        BY <1>1, <1>6, <1>13, <2>2, <3>2 DEF LineTaken
      <4>2. CASE ~result.failed /\ \A i \in 1..Heard : ~Reports(said[i])
        <5>1. \A i \in 1..n : ~Reports(said[i])'
          BY <2>1, <2>3, <4>1, <4>2
        <5> QED BY <2>2, <4>1, <4>2, <5>1 DEF HeardReport
      <4>3. CASE \E i \in 1..Heard : /\ Reports(said[i]) /\ result.failed = said[i].failed
                                     /\ \A j \in 1..Heard : Reports(said[j]) => j <= i
        <5>1. PICK i \in 1..Heard : /\ Reports(said[i]) /\ result.failed = said[i].failed
                                    /\ \A j \in 1..Heard : Reports(said[j]) => j <= i
          BY <4>3
        <5>2. i \in 1..n /\ Reports(said[i])' /\ \A j \in 1..n : Reports(said[j])' => j <= i
          BY <2>1, <2>3, <4>1, <5>1
        <5> QED BY <2>2, <4>1, <5>1, <5>2 DEF HeardReport
      <4> QED BY <1>3, <4>2, <4>3 DEF HeardReport
    <3> QED BY <3>1, <3>2
  <2> QED BY <2>4, <2>5
<1>14. ResultInv'
  BY <1>1, <1>3, <1>13 DEF ResultInv
<1> QED BY <1>9, <1>10, <1>11, <1>12, <1>14 DEF RunInv

LEMMA ScanEndsKeepsInv == ASSUME RunInv, ScanEnds PROVE RunInv'
<1>1. /\ pc = "scan" /\ pc' = "wait" /\ pipe = <<>> /\ child # "running"
      /\ UNCHANGED <<adapterVars, saved, runVars, childVars, result, answer, born>>
  BY DEF ScanEnds
<1>2. UNCHANGED <<kind, local, frozen, approved, policy, request, resumed, file, granted>>
      /\ UNCHANGED <<child, pipe, said>>
  BY <1>1 DEF adapterVars, runVars, childVars
<1>3. AdapterInv'
  <2>1. Accepts(kind, policy)' = Accepts(kind, policy)
    BY <1>2 DEF Accepts, validateClaudePolicy
  <2> QED BY <1>1, <1>2, <2>1 DEF RunInv, AdapterInv, Running
<1>4. ChildInv'
  BY <1>1, <1>2 DEF RunInv, ChildInv
<1>5. PipeInv'
  BY <1>1, <1>2, PipeKept DEF RunInv
<1>6. SessionInv'
  BY <1>1, <1>2, SessionKept DEF RunInv, Running
<1>7. ResultInv'
  BY <1>1, <1>2, HeardKept DEF RunInv, ResultInv
<1> QED BY <1>3, <1>4, <1>5, <1>6, <1>7 DEF RunInv

LEMMA ReturnKeepsInv == ASSUME RunInv, Return PROVE RunInv'
<1>1. /\ pc = "wait" /\ child # "running" /\ pc' = "idle" /\ file' = None
      /\ UNCHANGED <<adapterVars, request, policy, resumed, granted, childVars, result, born>>
      /\ \/ Succeeded /\ answer' = result.text /\ saved' = result.session
         \/ answer' = None /\ saved' = saved
  BY DEF Return, cleanupMCPConfig
<1>2. UNCHANGED <<kind, local, frozen, approved, child, pipe, said>>
  BY <1>1 DEF adapterVars, childVars
<1>3. AdapterInv'
  BY <1>1, <1>2 DEF RunInv, AdapterInv, Running
<1>4. ChildInv'
  BY <1>1, <1>2 DEF RunInv, ChildInv
<1>5. PipeInv'
  BY <1>1, <1>2, PipeKept DEF RunInv
<1>6. SessionInv'
  BY <1>1, <1>2 DEF RunInv, SessionInv, Running
<1>7. ResultInv'
  BY <1>1, <1>2, HeardKept DEF RunInv, ResultInv, Succeeded, PipeInv
<1> QED BY <1>3, <1>4, <1>5, <1>6, <1>7 DEF RunInv

LEMMA InitialRun == ASSUME Init PROVE RunInv
<1>1. AdapterInv
  BY DEF Init, AdapterInv, Running
<1>2. ChildInv
  BY DEF Init, ChildInv
<1>3. PipeInv
  BY DEF Init, PipeInv, Heard
<1>4. SessionInv
  BY NoResultIsResult DEF Init, SessionInv, Running
<1>5. ResultInv
  BY DEF Init, ResultInv
<1> QED BY <1>1, <1>2, <1>3, <1>4, <1>5 DEF RunInv


-----------------------------------------------------------------------------
(***************************************************************************)
(* Every step of the run preserves its invariant.                          *)
(***************************************************************************)
LEMMA RunStepKeepsInv == RunInv /\ [Next]_vars => RunInv'
<1> SUFFICES ASSUME RunInv, [Next]_vars PROVE RunInv'
  OBVIOUS
<1>1. ASSUME NEW k \in Kinds, NEW l \in Locals, Start(k, l) PROVE RunInv'
  BY <1>1, StartKeepsInv
<1>2. CASE Stop
  BY <1>2, StopKeepsInv
<1>3. ASSUME NEW s \in SUBSET Servers, Configure(s) PROVE RunInv'
  BY <1>3, QuietKeepsInv DEF Configure, childVars
<1>4. ASSUME NEW r \in Asked, NEW c, NEW b \in BOOLEAN, Run(r, c, b) PROVE RunInv'
  BY <1>4, RunKeepsInv
<1>5. CASE AdapterStep
  BY <1>5, prepareMCPConfigKeepsInv, LaunchKeepsInv, ScanLineKeepsInv, ScanEndsKeepsInv,
     ReturnKeepsInv DEF AdapterStep
<1>6. ASSUME NEW l \in Lines, Say(l) PROVE RunInv'
  BY <1>6, SayKeepsInv
<1>7. CASE (\E how \in {"exited", "crashed"} : Exit(how)) \/ KillOnCancel
  BY <1>7, ChildEndsKeepsInv
<1>8. CASE LeaveProcess \/ ProcessEnds \/ Cancel
  BY <1>8, QuietKeepsInv DEF LeaveProcess, ProcessEnds, Cancel, childVars
<1>9. CASE UNCHANGED vars
  BY <1>9, QuietKeepsInv DEF vars, childVars
<1> QED BY <1>1, <1>2, <1>3, <1>4, <1>5, <1>6, <1>7, <1>8, <1>9 DEF Next

(* The unread lines are the end of what was said.                          *)
LEMMA UnreadIsSuffix == ASSUME PipeInv PROVE IsSuffix(pipe, said)
<1>1. /\ pipe \in Seq(Lines) /\ said \in Seq(Lines) /\ Len(pipe) \in Nat /\ Len(said) \in Nat
      /\ Len(pipe) <= Len(said) /\ \A i \in 1..Len(pipe) : pipe[i] = said[Heard + i]
  BY DEF PipeInv
<1> DEFINE u == Reverse(pipe)
           v == Reverse(said)
<1>2. /\ u = [i \in 1..Len(pipe) |-> pipe[(Len(pipe) - i) + 1]]
      /\ v = [i \in 1..Len(said) |-> said[(Len(said) - i) + 1]]
  BY DEF Reverse
<1>3. u \in Seq(Lines) /\ Len(u) = Len(pipe) /\ v \in Seq(Lines) /\ Len(v) = Len(said)
  BY <1>1, <1>2
<1>4. ASSUME NEW i \in 1..Len(u) PROVE u[i] = v[i]
  <2>1. i \in 1..Len(pipe) /\ i \in 1..Len(said)
    BY <1>1, <1>3
  <2>2. u[i] = pipe[(Len(pipe) - i) + 1] /\ v[i] = said[(Len(said) - i) + 1]
    BY <1>2, <2>1
  <2>3. /\ (Len(pipe) - i) + 1 \in 1..Len(pipe)
        /\ Heard + ((Len(pipe) - i) + 1) = (Len(said) - i) + 1
    BY <1>1, <2>1 DEF Heard
  <2> QED BY <1>1, <2>2, <2>3
<1>5. SubSeq(v, 1, Len(u)) = [i \in 1..Len(u) |-> v[i]]
  BY <1>1, <1>3
<1>6. u = [i \in 1..Len(u) |-> v[i]]
  BY <1>2, <1>3, <1>4
<1> QED BY <1>1, <1>3, <1>5, <1>6 DEF IsSuffix, IsPrefix

(* The last text and the last report are those of the whole output.        *)
LEMMA HeardIsAll ==
  ASSUME RunInv, answer # None PROVE AnswerIsComplete
<1>1. /\ child = "exited" /\ pipe = <<>> /\ answer = result.text
      /\ ~result.failed /\ HeardText /\ HeardReport
  BY DEF RunInv, ResultInv
<1>2. said \in Seq(Lines) /\ Heard = Len(said) /\ DOMAIN said = 1..Heard
  BY <1>1 DEF RunInv, PipeInv, Heard
<1>3. \E i \in Spoken : IsLast(i, Spoken) /\ answer = said[i].text /\ answer # TooLong
  <2>1. PICK i \in 1..Heard : /\ Speaks(said[i]) /\ result.text = said[i].text
                              /\ result.text # TooLong
                              /\ \A j \in 1..Heard : Speaks(said[j]) => j <= i
    BY <1>1 DEF HeardText
  <2>2. i \in Spoken /\ \A j \in Spoken : j <= i
    BY <1>2, <2>1 DEF Spoken
  <2> QED BY <1>1, <2>1, <2>2 DEF IsLast
<1>4. ASSUME NEW i \in Reported, IsLast(i, Reported) PROVE ~said[i].failed
  <2>1. i \in 1..Heard /\ Reports(said[i]) /\ \A j \in Reported : j <= i
    BY <1>2, <1>4 DEF Reported, IsLast
  <2>2. PICK j \in 1..Heard : /\ Reports(said[j]) /\ result.failed = said[j].failed
                              /\ \A k \in 1..Heard : Reports(said[k]) => k <= j
    BY <1>1, <2>1 DEF HeardReport
  <2>3. j \in Reported
    BY <1>2, <2>2 DEF Reported
  <2>4. i <= j /\ j <= i /\ i \in Int /\ j \in Int
    BY <1>2, <2>1, <2>2, <2>3
  <2>5. i = j
    BY <2>4
  <2> QED BY <1>1, <2>2, <2>5
<1> QED BY <1>1, <1>3, <1>4 DEF AnswerIsComplete

(* What the invariant says of a running child is what the run promises.    *)
LEMMA RunningIsApproved ==
  ASSUME RunInv PROVE GrantIsApproved /\ SessionKeepsItsPolicy
<1> SUFFICES ASSUME child = "running" PROVE GrantIsApproved /\ SessionKeepsItsPolicy
  BY DEF GrantIsApproved, SessionKeepsItsPolicy
<1>1. /\ pc = "scan" /\ granted.tools = commandArgs(policy) /\ granted.servers \subseteq frozen
      /\ granted.servers = {} \/ "mcps" \in policy.allow
  BY DEF RunInv, ChildInv
<1>2. /\ kind \in Kinds /\ local \in Policies /\ normalizePolicy(local) = local
      /\ request \in Asked /\ policy = EffectivePolicy(local, request) /\ Accepts(kind, policy)
      /\ approved = frozen /\ frozen \cap OwnServers = {}
  BY <1>1 DEF RunInv, AdapterInv, Running
<1>3. request \in PolicyRequests
  BY <1>2, RuntimeConstants
<1>4. /\ policy \in Policies /\ normalizePolicy(policy) = policy
      /\ policy.allow \subseteq local.allow \cap Limit(request)
      /\ policy.mode = "read_only" => policy.allow \cap {"writes", "shell", "mcps"} = {}
  BY <1>2, <1>3, RequestsOnlyNarrow
<1>5. /\ commandArgs(policy) \subseteq {"read"} \cup policy.allow
      /\ commandArgs(policy) \cap Writers # {} => "writes" \in policy.allow
  BY <1>2, <1>4, ToolsAreAllowed
<1>6. GrantIsApproved
  BY <1>1, <1>2, <1>4, <1>5 DEF GrantIsApproved
<1>7. ASSUME resumed # None
      PROVE  [id |-> resumed.id, kind |-> kind, policy |-> policy] \in born
  <2>1. resumed \in born /\ resumed \in Sessions /\ resumed.kind = kind /\ resumed.policy = policy
    BY <1>1, <1>7 DEF RunInv, SessionInv, Running
  <2>2. resumed = [id |-> resumed.id, kind |-> resumed.kind, policy |-> resumed.policy]
    BY <2>1 DEF Sessions
  <2> QED BY <2>1, <2>2
<1> QED BY <1>6, <1>7 DEF SessionKeepsItsPolicy

LEMMA RunInvIsEnough == ASSUME RunInv PROVE RunSound
<1>1. TypeOK
  <2>1. pc \in {"down", "idle", "prepare", "launch", "scan", "wait"}
    BY DEF RunInv, AdapterInv, Running
  <2>2. /\ child \in {"none", "running", "exited", "crashed", "killed"}
        /\ pc \in {"down", "idle", "prepare", "launch"} => child # "running"
        /\ pc = "wait" => child \in {"exited", "crashed", "killed"}
    BY DEF RunInv, ChildInv
  <2>3. pipe \in Seq(Lines) /\ IsSuffix(pipe, said)
    BY UnreadIsSuffix DEF RunInv, PipeInv
  <2>4. answer \in Texts \cup {None}
    BY DEF RunInv, ResultInv, SessionInv, Results
  <2> QED BY <2>1, <2>2, <2>3, <2>4 DEF TypeOK
<1>2. AnswerIsComplete
  BY HeardIsAll DEF AnswerIsComplete
<1>3. NoConfigurationLeft
  BY DEF RunInv, ChildInv, NoConfigurationLeft
<1> QED BY <1>1, <1>2, <1>3, RunningIsApproved DEF RunSound

(***************************************************************************)
(* In every state of every run of an adapter, its policy is what the       *)
(* request leaves of the recipient's, and its result is the last text and  *)
(* the last report of the lines read so far.                               *)
(***************************************************************************)
THEOREM RunIsInvariant == Spec => []RunInv
<1>1. Init => RunInv
  BY InitialRun
<1>2. RunInv /\ [Next]_vars => RunInv'
  BY RunStepKeepsInv
<1> QED BY <1>1, <1>2, PTL DEF Spec

(***************************************************************************)
(* A run returns the last text of a child that succeeded and was read to   *)
(* its end, or nothing; leaves no private configuration; gives the child   *)
(* no tool or MCP server beyond what recipient and request both allow; and *)
(* resumes no session of another policy: for any adapters, policies,       *)
(* requests and lines, and any number of runs, edits and restarts.         *)
(***************************************************************************)
THEOREM RunIsSound == Spec => []RunSound
<1>1. RunInv => RunSound
  BY RunInvIsEnough
<1> QED BY <1>1, RunIsInvariant, PTL

-----------------------------------------------------------------------------
(***************************************************************************)
(* The files of one execution, for any attachments, names, contents, sizes *)
(* and bounds.  What the loop has taken and what it has still to take are  *)
(* together no more than was listed, no name is taken twice, and the       *)
(* directory goes with the execution once its Cleanup is deferred.         *)
(***************************************************************************)
CollectedFiles == [name : Names \ Refused, inode : Regular, content : Contents]

FilesInv ==
  /\ IsFiniteSet(todo) /\ IsFiniteSet(files) /\ files \subseteq CollectedFiles
  /\ \A f \in files : /\ Size[f.content] <= MaxAttachmentBytes /\ f.name \notin todo
                      /\ <<f.name, f.content>> \in Textual => f.content \notin Secret
  /\ \A f, g \in files : f.name = g.name => f = g
  /\ Sandbox!Total(files) <= MaxRequestPayloadBytes /\ Cardinality(files) <= MaxAttachments

(* The loop of CollectResults: one turn, and what it counts.               *)
LoopInv ==
  /\ step \in {"started", "fetch", "running", "collect", "list"} => todo = {} /\ files = {}
  /\ step \in {"next", "open", "recheck"} =>
       Cardinality(files) + Cardinality(todo) <= MaxAttachments
  /\ step \in {"open", "recheck"} => name \notin Refused
  /\ step = "recheck" => payload.inode = before /\ payload.content \in Contents

(* The answer within its limit, and a result only the relay can refuse.    *)
StagedInv ==
  /\ text \in Answers
  /\ step \in {"collect", "list", "next", "open", "recheck", "collected"} =>
       text.bytes <= MaxFinalTextBytes
  /\ Sandbox!PreparedIsAcceptable

(* The request's directory.                                                *)
DirectoryInv ==
  /\ step = "started" => ~sandbox
  /\ step \notin {"started", "fetch", "ended"} /\ sandbox => deferred \/ leftover
  /\ step = "ended" /\ sandbox => leftover

SandboxInv == Sandbox!TypeOK /\ FilesInv /\ LoopInv /\ StagedInv /\ DirectoryInv

-----------------------------------------------------------------------------
(***************************************************************************)
(* Sums over finite sets.  The induction is on the set: a set of bad       *)
(* subsets of a finite set has a least one.                                *)
(***************************************************************************)
LEMMA LeastSubset ==
  ASSUME NEW S, IsFiniteSet(S), NEW B, B \subseteq SUBSET S, B # {}
  PROVE  \E m \in B : \A s \in B : s \subseteq m => s = m
<1>1. IsWellFoundedOn(StrictSubsetOrdering(S), SUBSET S)
  BY FS_StrictSubsetOrderingWellFounded, FS_FiniteSubsetsOfFinite
<1>2. PICK m \in B : \A s \in B : <<s, m>> \notin StrictSubsetOrdering(S)
  BY <1>1, WFMin
<1>3. ASSUME NEW s \in B, s \subseteq m PROVE s = m
  <2>1. <<s, m>> \in (SUBSET S) \X (SUBSET S)
    OBVIOUS
  <2> QED BY <1>2, <1>3, <2>1 DEF StrictSubsetOrdering
<1> QED BY <1>3

LEMMA SubsetInduction ==
  ASSUME NEW S, IsFiniteSet(S), NEW G, {} \in G,
         \A s \in SUBSET S, x \in S : s \in G /\ x \notin s => s \cup {x} \in G
  PROVE  S \in G
<1> SUFFICES ASSUME S \notin G PROVE FALSE
  OBVIOUS
<1> DEFINE B == {s \in SUBSET S : s \notin G}
<1>1. S \in B /\ B \subseteq SUBSET S
  OBVIOUS
<1>2. PICK m \in B : \A s \in B : s \subseteq m => s = m
  <2> HIDE DEF B
  <2> QED BY <1>1, LeastSubset
<1>3. PICK x \in m : x \in S
  BY <1>2
<1>4. m \ {x} \in G /\ m \ {x} \in SUBSET S
  BY <1>2, <1>3
<1>5. (m \ {x}) \cup {x} = m
  BY <1>3
<1> QED BY <1>2, <1>3, <1>4, <1>5

(* g sums the weights w over the subsets of S, in the order of CHOOSE.     *)
First(s) == CHOOSE x \in s : TRUE
Sums(g, w, S) ==
  \A s \in SUBSET S : g[s] = IF s = {} THEN 0 ELSE w[First(s)] + g[s \ {First(s)}]
IsSum(g, w, S) == g \in [SUBSET S -> Nat] /\ Sums(g, w, S)

LEMMA FirstIsMember == ASSUME NEW s, s # {} PROVE First(s) \in s
BY DEF First

(* The order does not matter.                                              *)
LEMMA SumTakesAny ==
  ASSUME NEW S, IsFiniteSet(S), NEW w, \A x \in S : w[x] \in Nat, NEW g, IsSum(g, w, S)
  PROVE  \A s \in SUBSET S : \A x \in s : g[s] = w[x] + g[s \ {x}]
<1> DEFINE B == {s \in SUBSET S : \E x \in s : g[s] # w[x] + g[s \ {x}]}
<1> SUFFICES ASSUME B # {} PROVE FALSE
  OBVIOUS
<1>1. PICK m \in B : \A s \in B : s \subseteq m => s = m
  <2>1. B \subseteq SUBSET S
    OBVIOUS
  <2> HIDE DEF B
  <2> QED BY <2>1, LeastSubset
<1>2. PICK x \in m : g[m] # w[x] + g[m \ {x}]
  BY <1>1
<1> DEFINE y == First(m)
<1>3. m \in SUBSET S /\ y \in m /\ g[m] = w[y] + g[m \ {y}]
  BY <1>1, <1>2, FirstIsMember DEF IsSum, Sums
<1> HIDE DEF y
<1>4. x # y
  BY <1>2, <1>3
<1>5. m \ {x} \notin B /\ m \ {y} \notin B /\ m \ {x} \in SUBSET S /\ m \ {y} \in SUBSET S
  BY <1>1, <1>2, <1>3
<1>6. g[m \ {x}] = w[y] + g[(m \ {x}) \ {y}] /\ g[m \ {y}] = w[x] + g[(m \ {y}) \ {x}]
  BY <1>2, <1>3, <1>4, <1>5
<1> DEFINE n == g[(m \ {x}) \ {y}]
<1>7. g[m \ {x}] = w[y] + n /\ g[m \ {y}] = w[x] + n
  <2>1. (m \ {x}) \ {y} = (m \ {y}) \ {x}
    OBVIOUS
  <2> QED BY <1>6, <2>1
<1>8. w[x] \in Nat /\ w[y] \in Nat /\ n \in Nat
  <2>1. (m \ {x}) \ {y} \in SUBSET S
    BY <1>3
  <2> QED BY <1>2, <1>3, <2>1 DEF IsSum, Sums
<1> HIDE DEF n
<1> QED BY <1>2, <1>3, <1>7, <1>8

LEMMA SumExtends ==
  ASSUME NEW S, IsFiniteSet(S), NEW w, \A x \in S : w[x] \in Nat,
         NEW s \in SUBSET S, NEW x \in S \ s,
         NEW g, IsSum(g, w, s)
  PROVE  \E h : IsSum(h, w, s \cup {x})
<1> DEFINE h == [t \in SUBSET (s \cup {x}) |-> IF x \in t THEN w[x] + g[t \ {x}] ELSE g[t]]
<1>1. IsFiniteSet(s)
  BY FS_Subset
<1>2. \A t \in SUBSET s : \A y \in t : g[t] = w[y] + g[t \ {y}]
  <2>1. \A y \in s : w[y] \in Nat
    OBVIOUS
  <2>2. ASSUME NEW t \in SUBSET s, NEW y \in t PROVE g[t] = w[y] + g[t \ {y}]
    BY <1>1, <2>1, SumTakesAny
  <2> QED BY <2>2
<1>3. ASSUME NEW t \in SUBSET (s \cup {x})
      PROVE  /\ x \in t => h[t] = w[x] + g[t \ {x}] /\ t \ {x} \in SUBSET s
             /\ x \notin t => h[t] = g[t] /\ t \in SUBSET s
             /\ h[t] \in Nat
  <2>1. x \in t => h[t] = w[x] + g[t \ {x}] /\ t \ {x} \in SUBSET s
    OBVIOUS
  <2>2. x \notin t => h[t] = g[t] /\ t \in SUBSET s
    OBVIOUS
  <2>3. \A u \in SUBSET s : g[u] \in Nat
    BY DEF IsSum, Sums
  <2> HIDE DEF h
  <2> QED BY <2>1, <2>2, <2>3
<1>4. h \in [SUBSET (s \cup {x}) -> Nat]
  BY <1>3
<1> HIDE DEF h
<1>5. ASSUME NEW t \in SUBSET (s \cup {x})
      PROVE  h[t] = IF t = {} THEN 0 ELSE w[First(t)] + h[t \ {First(t)}]
  <2>1. CASE t = {}
    BY <1>3, <2>1 DEF IsSum, Sums
  <2>2. CASE t # {}
    <3> DEFINE y == First(t)
    <3>1. y \in t
      BY <2>2, FirstIsMember
    <3>2. CASE x \notin t
      <4>1. g[t] = w[y] + g[t \ {y}] /\ h[t] = g[t] /\ h[t \ {y}] = g[t \ {y}]
        BY <1>2, <1>3, <3>1, <3>2
      <4> QED BY <2>2, <4>1
    <3>3. CASE y = x
      <4>1. h[t] = w[x] + g[t \ {x}] /\ h[t \ {x}] = g[t \ {x}]
        BY <1>3, <3>1, <3>3
      <4> QED BY <2>2, <3>3, <4>1
    <3>4. CASE x \in t /\ y # x
      <4>1. h[t] = w[x] + g[t \ {x}] /\ t \ {x} \in SUBSET s /\ y \in t \ {x}
        BY <1>3, <3>1, <3>4
      <4>2. g[t \ {x}] = w[y] + g[(t \ {x}) \ {y}]
        BY <1>2, <4>1
      <4>3. h[t \ {y}] = w[x] + g[(t \ {y}) \ {x}]
        BY <1>3, <3>4
      <4>4. (t \ {x}) \ {y} = (t \ {y}) \ {x} /\ (t \ {x}) \ {y} \in SUBSET s
        BY <4>1
      <4>5. w[x] \in Nat /\ w[y] \in Nat /\ g[(t \ {x}) \ {y}] \in Nat
        BY <4>1, <4>4 DEF IsSum, Sums
      <4> DEFINE n == g[(t \ {x}) \ {y}]
      <4>6. g[t \ {x}] = w[y] + n /\ h[t \ {y}] = w[x] + n /\ n \in Nat
        BY <4>2, <4>3, <4>4, <4>5
      <4> HIDE DEF n
      <4>7. h[t] = w[y] + h[t \ {y}]
        BY <4>1, <4>5, <4>6
      <4> QED BY <2>2, <4>7
    <3> QED BY <3>2, <3>3, <3>4
  <2> QED BY <2>1, <2>2
<1> QED BY <1>4, <1>5 DEF IsSum, Sums

LEMMA SumExists ==
  ASSUME NEW S, IsFiniteSet(S), NEW w, \A x \in S : w[x] \in Nat
  PROVE  \E g : IsSum(g, w, S)
<1> DEFINE G == {s \in SUBSET S : \E g : IsSum(g, w, s)}
<1>1. {} \in G
  <2> DEFINE g == [s \in {{}} |-> 0]
  <2>1. IsSum(g, w, {})
    BY DEF IsSum, Sums
  <2> QED BY <2>1
<1>2. ASSUME NEW s \in SUBSET S, NEW x \in S, s \in G, x \notin s PROVE s \cup {x} \in G
  BY <1>2, SumExtends
<1>3. S \in G
  <2> HIDE DEF G
  <2> QED BY <1>1, <1>2, SubsetInduction
<1> QED BY <1>3

(* The model's two sums: of the sizes, and of what a submission encodes.   *)
Weight(S) == [f \in S |-> Size[f.content]]
EncodedWeight(S) == [f \in S |-> 4096 + Sandbox!Base64(Size[f.content])]

LEMMA SumIsUnique ==
  ASSUME NEW S, IsFiniteSet(S), NEW w, NEW h, IsSum(h, w, S), NEW i,
         Sums(i, w, S)
  PROVE  i[S] = h[S]
<1> DEFINE B == {s \in SUBSET S : i[s] # h[s]}
<1>1. B = {}
  <2> SUFFICES ASSUME B # {} PROVE FALSE
    OBVIOUS
  <2>1. PICK m \in B : \A s \in B : s \subseteq m => s = m
    <3>1. B \subseteq SUBSET S
      OBVIOUS
    <3> HIDE DEF B
    <3> QED BY <3>1, LeastSubset
  <2>2. m \in SUBSET S /\ i[m] # h[m]
    BY <2>1
  <2>3. m # {}
    BY <2>2 DEF IsSum, Sums
  <2>4. First(m) \in m
    BY <2>3, FirstIsMember
  <2>5. m \ {First(m)} \in SUBSET S /\ m \ {First(m)} \notin B
    BY <2>1, <2>4
  <2>6. i[m \ {First(m)}] = h[m \ {First(m)}]
    BY <2>5
  <2>7. i[m] = w[First(m)] + i[m \ {First(m)}]
    BY <2>2, <2>3 DEF Sums
  <2>8. h[m] = w[First(m)] + h[m \ {First(m)}]
    BY <2>2, <2>3 DEF IsSum, Sums
  <2> QED BY <2>2, <2>6, <2>7, <2>8
<1> QED BY <1>1

LEMMA TotalIsSum ==
  ASSUME NEW S, IsFiniteSet(S), \A f \in S : Size[f.content] \in Nat
  PROVE  \E g : IsSum(g, Weight(S), S) /\ Sandbox!Total(S) = g[S]
<1> DEFINE Step(i) == [s \in SUBSET S |->
                         IF s = {} THEN 0
                         ELSE Size[(CHOOSE x \in s : TRUE).content] + i[s \ {CHOOSE x \in s : TRUE}]]
           iter == CHOOSE i : i = Step(i)
<1>1. Sandbox!Total(S) = iter[S]
  BY DEF Sandbox!Total, Sandbox!MapThenSumSet, Sandbox!MapThenFoldSet
<1>2. PICK h : IsSum(h, Weight(S), S)
  BY SumExists DEF Weight
<1>3. h = Step(h)
  <2>1. ASSUME NEW s \in SUBSET S, s # {} PROVE Weight(S)[First(s)] = Size[First(s).content]
    BY <2>1, FirstIsMember DEF Weight
  <2> QED BY <1>2, <2>1 DEF IsSum, Sums, First
<1>4. iter = Step(iter)
  <2> HIDE DEF Step
  <2> QED BY <1>3
<1> HIDE DEF iter
<1>5. Sums(iter, Weight(S), S)
  <2>1. ASSUME NEW s \in SUBSET S, s # {} PROVE Weight(S)[First(s)] = Size[First(s).content]
    BY <2>1, FirstIsMember DEF Weight
  <2>2. ASSUME NEW s \in SUBSET S PROVE iter[s] = Step(iter)[s]
    <3> HIDE DEF Step
    <3> QED BY <1>4
  <2>3. ASSUME NEW s \in SUBSET S
        PROVE  iter[s] = IF s = {} THEN 0 ELSE Weight(S)[First(s)] + iter[s \ {First(s)}]
    <3>1. CASE s = {}
      BY <2>2, <3>1
    <3>2. CASE s # {}
      BY <2>1, <2>2, <3>2 DEF First
    <3> QED BY <3>1, <3>2
  <2> QED BY <2>3 DEF Sums
<1> HIDE DEF Step
<1>6. iter[S] = h[S]
  BY <1>2, <1>5, SumIsUnique
<1> QED BY <1>1, <1>2, <1>6

(* A file's base64 form, of three bytes in four characters.                *)
LEMMA EncodedSize ==
  ASSUME NEW n \in Nat
  PROVE  4096 + Sandbox!Base64(n) \in Nat /\ 3 * (4096 + Sandbox!Base64(n)) <= 4 * n + 12296
<1> DEFINE q == (n + 2) \div 3
<1>1. q \in Nat /\ 3 * q <= n + 2
  OBVIOUS
<1>2. Sandbox!Base64(n) = 4 * q
  BY DEF Sandbox!Base64
<1> HIDE DEF q
<1> QED BY <1>1, <1>2

LEMMA EncodedIsSum ==
  ASSUME NEW S, IsFiniteSet(S), \A f \in S : Size[f.content] \in Nat
  PROVE  \E g : IsSum(g, EncodedWeight(S), S) /\ Sandbox!Encoded(S) = g[S]
<1> DEFINE W(x) == 4096 + Sandbox!Base64(Size[x.content])
           Step(i) == [s \in SUBSET S |-> IF s = {} THEN 0 ELSE W(First(s)) + i[s \ {First(s)}]]
           iter == CHOOSE i : i = Step(i)
<1>1. Sandbox!Encoded(S) = iter[S]
  BY DEF First, Sandbox!Encoded, Sandbox!MapThenSumSet, Sandbox!MapThenFoldSet
<1>7. \A x : W(x) = 4096 + Sandbox!Base64(Size[x.content])
  OBVIOUS
<1> HIDE DEF W
<1>2. PICK h : IsSum(h, EncodedWeight(S), S)
  <2>1. \A f \in S : EncodedWeight(S)[f] \in Nat
    BY EncodedSize DEF EncodedWeight
  <2> QED BY <2>1, SumExists
<1>3. h = Step(h)
  <2>1. ASSUME NEW s \in SUBSET S, s # {} PROVE EncodedWeight(S)[First(s)] = W(First(s))
    BY <1>7, <2>1, FirstIsMember DEF EncodedWeight
  <2> QED BY <1>2, <2>1 DEF IsSum, Sums
<1>4. iter = Step(iter)
  <2> HIDE DEF Step
  <2> QED BY <1>3
<1> HIDE DEF iter
<1>5. Sums(iter, EncodedWeight(S), S)
  <2>1. ASSUME NEW s \in SUBSET S, s # {} PROVE EncodedWeight(S)[First(s)] = W(First(s))
    BY <1>7, <2>1, FirstIsMember DEF EncodedWeight
  <2>2. ASSUME NEW s \in SUBSET S PROVE iter[s] = Step(iter)[s]
    <3> HIDE DEF Step
    <3> QED BY <1>4
  <2>3. ASSUME NEW s \in SUBSET S
        PROVE  iter[s] = IF s = {} THEN 0 ELSE EncodedWeight(S)[First(s)] + iter[s \ {First(s)}]
    <3>1. CASE s = {}
      BY <2>2, <3>1
    <3>2. CASE s # {}
      BY <2>1, <2>2, <3>2
    <3> QED BY <3>1, <3>2
  <2> QED BY <2>3 DEF Sums
<1> HIDE DEF Step
<1>6. iter[S] = h[S]
  BY <1>2, <1>5, SumIsUnique
<1> QED BY <1>1, <1>2, <1>6

(* What is sent of a deliverable, its name and content.                    *)
Sent(f) == [name |-> f.name, content |-> f.content]
SentOf(s) == {Sent(f) : f \in s}

LEMMA SentIsNoMore ==
  ASSUME NEW F, IsFiniteSet(F), \A f \in F : Size[f.content] \in Nat
  PROVE  /\ IsFiniteSet(SentOf(F)) /\ Cardinality(SentOf(F)) <= Cardinality(F)
         /\ Sandbox!Total(SentOf(F)) <= Sandbox!Total(F)
<1>1. IsFiniteSet(SentOf(F)) /\ Cardinality(SentOf(F)) <= Cardinality(F)
  <2> DEFINE send == [f \in F |-> Sent(f)]
  <2>1. send \in Surjection(F, SentOf(F))
    BY DEF Surjection, SentOf
  <2> HIDE DEF send
  <2> QED BY <2>1, FS_Surjection
<1>2. PICK g : IsSum(g, Weight(F), F) /\ Sandbox!Total(F) = g[F]
  BY TotalIsSum
<1>3. \A f \in SentOf(F) : Size[f.content] \in Nat
  BY DEF SentOf, Sent
<1>4. PICK h : IsSum(h, Weight(SentOf(F)), SentOf(F)) /\ Sandbox!Total(SentOf(F)) = h[SentOf(F)]
  BY <1>1, <1>3, TotalIsSum
<1> DEFINE G == {s \in SUBSET F : h[SentOf(s)] <= g[s]}
<1>5. {} \in G
  <2>1. SentOf({}) = {}
    BY DEF SentOf
  <2>2. g[{}] = 0 /\ h[{}] = 0
    BY <1>2, <1>4 DEF IsSum, Sums
  <2> QED BY <2>1, <2>2
<1>6. ASSUME NEW s \in SUBSET F, NEW f \in F, s \in G, f \notin s PROVE s \cup {f} \in G
  <2> DEFINE t == s \cup {f}
             n == Size[f.content]
  <2>0. n \in Nat
    OBVIOUS
  <2>1. /\ t \in SUBSET F /\ t \ {f} = s /\ f \in t
        /\ SentOf(t) \in SUBSET SentOf(F) /\ SentOf(s) \in SUBSET SentOf(F)
        /\ SentOf(t) = SentOf(s) \cup {Sent(f)} /\ Sent(f) \in SentOf(F)
    BY <1>6 DEF SentOf
  <2>9. Weight(F)[f] = n /\ Weight(SentOf(F))[Sent(f)] = n
    BY <2>1 DEF Weight, Sent
  <2> HIDE DEF n, t
  <2>2. g[s] \in Nat /\ g[t] \in Nat /\ h[SentOf(s)] \in Nat /\ h[SentOf(t)] \in Nat
    BY <1>2, <1>4, <2>1 DEF IsSum
  <2>3. g[t] = n + g[s]
    <3>1. \A x \in F : Weight(F)[x] \in Nat
      BY DEF Weight
    <3>2. g[t] = Weight(F)[f] + g[t \ {f}]
      BY <1>2, <2>1, <3>1, SumTakesAny
    <3> QED BY <2>1, <2>9, <3>2
  <2>4. h[SentOf(t)] <= n + h[SentOf(s)]
    <3>1. CASE Sent(f) \in SentOf(s)
      <4>1. SentOf(t) = SentOf(s)
        BY <2>1, <3>1
      <4> QED BY <2>0, <2>2, <4>1
    <3>2. CASE Sent(f) \notin SentOf(s)
      <4>1. \A x \in SentOf(F) : Weight(SentOf(F))[x] \in Nat
        BY <1>3 DEF Weight
      <4>2. h[SentOf(t)] = Weight(SentOf(F))[Sent(f)] + h[SentOf(t) \ {Sent(f)}]
        <5>1. Sent(f) \in SentOf(t)
          BY <2>1
        <5>2. ASSUME NEW u \in SUBSET SentOf(F), NEW x \in u
              PROVE  h[u] = Weight(SentOf(F))[x] + h[u \ {x}]
          BY <1>1, <1>4, <4>1, SumTakesAny
        <5> QED BY <2>1, <5>1, <5>2
      <4>3. SentOf(t) \ {Sent(f)} = SentOf(s)
        BY <2>1, <3>2
      <4>4. h[SentOf(t)] = n + h[SentOf(s)]
        BY <2>9, <4>2, <4>3
      <4> QED BY <2>0, <2>2, <4>4
    <3> QED BY <3>1, <3>2
  <2>5. h[SentOf(s)] <= g[s]
    BY <1>6
  <2>6. h[SentOf(t)] <= g[t]
    BY <2>0, <2>2, <2>3, <2>4, <2>5
  <2> QED BY <2>1, <2>6 DEF t
<1>7. F \in G
  <2> HIDE DEF G
  <2> QED BY <1>5, <1>6, SubsetInduction
<1> QED BY <1>1, <1>2, <1>4, <1>7

(* The body a set of files makes, from their sizes and number.             *)
LEMMA EncodedIsBounded ==
  ASSUME NEW S, IsFiniteSet(S), \A f \in S : Size[f.content] \in Nat
  PROVE  /\ Sandbox!Total(S) \in Nat /\ Sandbox!Encoded(S) \in Nat
         /\ 3 * Sandbox!Encoded(S) <= 4 * Sandbox!Total(S) + 12296 * Cardinality(S)
<1>1. PICK g : IsSum(g, Weight(S), S) /\ Sandbox!Total(S) = g[S]
  BY TotalIsSum
<1>2. PICK e : IsSum(e, EncodedWeight(S), S) /\ Sandbox!Encoded(S) = e[S]
  BY EncodedIsSum
<1> DEFINE G == {s \in SUBSET S : 3 * e[s] <= 4 * g[s] + 12296 * Cardinality(s)}
<1>3. {} \in G
  <2>1. g[{}] = 0 /\ e[{}] = 0 /\ Cardinality({}) = 0
    BY <1>1, <1>2, FS_EmptySet DEF IsSum, Sums
  <2> QED BY <2>1
<1>4. ASSUME NEW s \in SUBSET S, NEW f \in S, s \in G, f \notin s PROVE s \cup {f} \in G
  <2> DEFINE t == s \cup {f}
             n == Size[f.content]
             m == 4096 + Sandbox!Base64(n)
  <2>0. n \in Nat
    OBVIOUS
  <2>1. t \in SUBSET S /\ t \ {f} = s /\ f \in t
    BY <1>4
  <2>2. m \in Nat /\ 3 * m <= 4 * n + 12296
    BY <2>0, EncodedSize
  <2>9. Weight(S)[f] = n /\ EncodedWeight(S)[f] = m
    BY DEF Weight, EncodedWeight
  <2>5. Cardinality(t) = Cardinality(s) + 1 /\ Cardinality(s) \in Nat
    BY <1>4, FS_Subset, FS_AddElement, FS_CardinalityType
  <2> HIDE DEF m, n, t
  <2>3. g[t] = n + g[s]
    <3>1. \A x \in S : Weight(S)[x] \in Nat
      BY DEF Weight
    <3>2. g[t] = Weight(S)[f] + g[t \ {f}]
      BY <1>1, <2>1, <3>1, SumTakesAny
    <3> QED BY <2>1, <2>9, <3>2
  <2>4. e[t] = m + e[s]
    <3>1. \A x \in S : EncodedWeight(S)[x] \in Nat
      BY EncodedSize DEF EncodedWeight
    <3>2. e[t] = EncodedWeight(S)[f] + e[t \ {f}]
      BY <1>2, <2>1, <3>1, SumTakesAny
    <3> QED BY <2>1, <2>9, <3>2
  <2>6. g[s] \in Nat /\ e[s] \in Nat
    BY <1>1, <1>2 DEF IsSum
  <2>7. 3 * e[s] <= 4 * g[s] + 12296 * Cardinality(s)
    BY <1>4
  <2>8. 3 * e[t] <= 4 * g[t] + 12296 * Cardinality(t)
    BY <2>0, <2>2, <2>3, <2>4, <2>5, <2>6, <2>7
  <2> QED BY <2>1, <2>8 DEF t
<1>5. S \in G
  <2> HIDE DEF G
  <2> QED BY <1>3, <1>4, SubsetInduction
<1>6. g[S] \in Nat /\ e[S] \in Nat
  BY <1>1, <1>2 DEF IsSum
<1> QED BY <1>1, <1>2, <1>5, <1>6

(* The two modules count alike.                                            *)
LEMMA SameCardinality == ASSUME NEW S PROVE Sandbox!Cardinality(S) = Cardinality(S)
BY DEF Cardinality, Sandbox!Cardinality

(* The parts of the invariant under steps that leave their variables alone.*)
LEMMA FilesKept == ASSUME FilesInv, UNCHANGED <<todo, files>> PROVE FilesInv'
BY DEF FilesInv

LEMMA PreparedFollows ==
  ASSUME staged' # None => Sandbox!Acceptable(staged') \/ Sandbox!OnlyRelayRefuses(staged')
  PROVE  Sandbox!PreparedIsAcceptable'
BY DEF Sandbox!PreparedIsAcceptable, Sandbox!Acceptable, Sandbox!OnlyRelayRefuses,
       Sandbox!decodeJSON, Sandbox!prepareArtifacts

LEMMA StagedKept ==
  ASSUME StagedInv, UNCHANGED text, staged' \in {staged, None},
         step' \in {"collect", "list", "next", "open", "recheck", "collected"} =>
           step \in {"collect", "list", "next", "open", "recheck", "collected"}
  PROVE  StagedInv'
<1>1. Sandbox!PreparedIsAcceptable'
  BY PreparedFollows DEF StagedInv, Sandbox!PreparedIsAcceptable
<1> QED BY <1>1 DEF StagedInv

LEMMA LoopKept ==
  ASSUME LoopInv, UNCHANGED <<todo, name, before, payload, files>>,
         step' \in {"started", "fetch", "running", "collect", "list"} =>
           step \in {"started", "fetch", "running", "collect", "list"},
         step' \in {"next", "open", "recheck"} => step' = step
  PROVE  LoopInv'
BY DEF LoopInv

(* The runtime's processes move, swap and rewrite files.                   *)
LEMMA WritersKeepInv ==
  ASSUME SandboxInv,
         \/ \E n \in Names, i \in Inodes \cup {None} : Sandbox!Link(n, i)
         \/ \E i \in Regular, c \in Contents : Sandbox!Rewrite(i, c)
         \/ Sandbox!ReplaceDirectory
  PROVE  SandboxInv'
<1>1. UNCHANGED <<step, fetched, sandbox, deferred, leftover, text, staged, record, todo, name,
                  before, payload, files>>
  BY DEF Sandbox!Link, Sandbox!Rewrite, Sandbox!ReplaceDirectory, Sandbox!loopVars, Sandbox!outVars
<1>2. entries' \in [Names -> Inodes \cup {None}] /\ content' \in [Inodes -> Contents]
  BY NoneIsNoFile DEF SandboxInv, Sandbox!TypeOK, Sandbox!Link, Sandbox!Rewrite,
                      Sandbox!ReplaceDirectory
<1>3. Sandbox!TypeOK'
  BY <1>1, <1>2 DEF SandboxInv, Sandbox!TypeOK
<1>4. FilesInv' /\ LoopInv' /\ StagedInv'
  BY <1>1, FilesKept, LoopKept, StagedKept DEF SandboxInv
<1>5. DirectoryInv'
  BY <1>1 DEF SandboxInv, DirectoryInv
<1> QED BY <1>3, <1>4, <1>5 DEF SandboxInv

(* Before the collection: the directory, the attachments and the run.      *)
LEMMA BeginningKeepsInv ==
  ASSUME SandboxInv,
         \/ Sandbox!createRequestDirectory \/ (\E a \in Attachments : Sandbox!Materialize(a))
         \/ Sandbox!RunRuntime \/ Sandbox!RuntimeReturns \/ Sandbox!RuntimeCancelled
         \/ Sandbox!openOwnedReturnRoot
  PROVE  SandboxInv'
<1>1. /\ step \in {"started", "fetch", "running", "collect"}
      /\ UNCHANGED <<entries, content, text, staged, record, todo, name, before, payload, files>>
  BY DEF Sandbox!createRequestDirectory, Sandbox!Materialize, Sandbox!RunRuntime,
         Sandbox!RuntimeReturns, Sandbox!RuntimeCancelled, Sandbox!openOwnedReturnRoot,
         Sandbox!loopVars, Sandbox!outVars, Sandbox!dirVars
<1>2. /\ step' \in {"fetch", "running", "collect", "collected", "list", "failed", "cleanup"}
      /\ fetched' \subseteq Attachments
      /\ step' \in {"collect", "collected"} => text.bytes <= MaxFinalTextBytes
      /\ step' = "list" => step = "collect"
  BY DEF SandboxInv, Sandbox!TypeOK, Sandbox!createRequestDirectory, Sandbox!Materialize,
         Sandbox!RunRuntime, Sandbox!RuntimeReturns, Sandbox!RuntimeCancelled,
         Sandbox!openOwnedReturnRoot, Sandbox!Goto
<1>3. Sandbox!TypeOK'
  BY <1>1, <1>2 DEF SandboxInv, Sandbox!TypeOK
<1>4. FilesInv' /\ LoopInv'
  BY <1>1, <1>2, FilesKept, LoopKept DEF SandboxInv
<1>5. StagedInv'
  <2>1. Sandbox!PreparedIsAcceptable'
    BY <1>1, PreparedFollows DEF SandboxInv, StagedInv, Sandbox!PreparedIsAcceptable
  <2> QED BY <1>1, <1>2, <2>1 DEF SandboxInv, StagedInv
<1>6. DirectoryInv'
  BY <1>1, <1>2 DEF SandboxInv, DirectoryInv, Sandbox!createRequestDirectory, Sandbox!Materialize,
         Sandbox!RunRuntime, Sandbox!RuntimeReturns, Sandbox!RuntimeCancelled,
         Sandbox!openOwnedReturnRoot, Sandbox!Goto
<1> QED BY <1>3, <1>4, <1>5, <1>6 DEF SandboxInv

(* A name is inspected, its file opened and read, or none is left.         *)
LEMMA TurnKeepsInv ==
  ASSUME SandboxInv,
         Sandbox!validateOwnedReturnRoot \/ (\E n \in Names : Sandbox!Inspect(n)) \/ Sandbox!Read
  PROVE  SandboxInv'
<1>1. UNCHANGED <<fetched, sandbox, deferred, leftover, entries, content, text, staged, record,
                  todo, files>>
  BY DEF Sandbox!validateOwnedReturnRoot, Sandbox!Inspect, Sandbox!Read,
         Sandbox!loopVars, Sandbox!outVars, Sandbox!dirVars
<1>2. /\ step \in {"next", "open"} /\ step' \in {"failed", "collected", "open", "recheck"}
      /\ step' = "open" => /\ step = "next" /\ name' \in todo /\ name' \notin Refused
                           /\ before' \in Regular
      /\ step' = "recheck" => /\ step = "open" /\ UNCHANGED <<name, before>>
                              /\ payload' = [inode |-> before, content |-> content[before]]
      /\ step' # "recheck" => payload' = payload
  BY DEF Sandbox!validateOwnedReturnRoot, Sandbox!Inspect, Sandbox!Read, Sandbox!Goto,
         Sandbox!loopVars
<1>3. step = "open" => name \in todo /\ name \notin Refused /\ before \in Regular
  BY DEF SandboxInv, Sandbox!TypeOK, LoopInv
<1>4. payload = None /\ content \in [Inodes -> Contents]
  BY <1>2 DEF SandboxInv, Sandbox!TypeOK
<1>5. step' = "recheck" =>
        payload' # None /\ payload'.inode = before' /\ payload'.content \in Contents
  <2> SUFFICES ASSUME step' = "recheck"
               PROVE  payload' # None /\ payload'.inode = before' /\ payload'.content \in Contents
    OBVIOUS
  <2>1. before \in Inodes /\ before' = before
    BY <1>2, <1>3, NoneIsNoFile
  <2>2. content[before] \in Contents
    BY <1>4, <2>1
  <2>3. payload' \in [inode : Inodes, content : Contents]
    BY <1>2, <2>1, <2>2
  <2> QED BY <1>2, <2>1, <2>2, <2>3, NoneIsNoFile
<1>6. Sandbox!TypeOK'
  BY <1>1, <1>2, <1>3, <1>4, <1>5 DEF SandboxInv, Sandbox!TypeOK
<1>7. FilesInv' /\ StagedInv'
  BY <1>1, <1>2, FilesKept, StagedKept DEF SandboxInv
<1>8. LoopInv'
  BY <1>1, <1>2, <1>3, <1>5 DEF SandboxInv, LoopInv
<1>9. DirectoryInv'
  BY <1>1, <1>2 DEF SandboxInv, DirectoryInv
<1> QED BY <1>6, <1>7, <1>8, <1>9 DEF SandboxInv

LEMMA ReadDirKeepsInv == ASSUME SandboxInv, Sandbox!ReadDir PROVE SandboxInv'
<1>1. step = "list" /\ todo' = {n \in Names : entries[n] # None}
  BY DEF Sandbox!ReadDir
<1>2. step' = (IF Cardinality(todo') > MaxAttachments THEN "failed" ELSE "next")
  <2>1. step' = (IF Sandbox!Cardinality(todo') > MaxAttachments THEN "failed" ELSE "next")
    BY DEF Sandbox!ReadDir, Sandbox!Goto
  <2>2. Sandbox!Cardinality(todo') = Cardinality(todo')
    BY SameCardinality
  <2> QED BY <2>1, <2>2
<1>3. UNCHANGED <<fetched, sandbox, deferred, leftover, Sandbox!dirVars, name, before, payload,
                   files, Sandbox!outVars>>
  BY DEF Sandbox!ReadDir
<1>4. UNCHANGED <<entries, content, text, staged, record, fetched, sandbox, deferred, leftover,
                  name, before, payload, files>>
  BY <1>3 DEF Sandbox!outVars, Sandbox!dirVars
<1>5. step' \in {"failed", "next"} /\ files = {}
  BY <1>1, <1>2 DEF SandboxInv, LoopInv
<1>6. todo' \subseteq Names /\ IsFiniteSet(todo') /\ Cardinality(todo') \in Nat
  BY <1>1, <1>2, <1>4, SandboxLimits, FS_Subset, FS_CardinalityType
<1>7. Sandbox!TypeOK'
  BY <1>1, <1>2, <1>4, <1>5, <1>6 DEF SandboxInv, Sandbox!TypeOK
<1>8. FilesInv'
  BY <1>1, <1>2, <1>4, <1>5, <1>6 DEF SandboxInv, FilesInv
<1>9. LoopInv'
  <2>1. MaxAttachments \in Nat /\ Cardinality({}) = 0
    BY SandboxLimits, FS_EmptySet
  <2>2. step' = "next" => Cardinality(files') + Cardinality(todo') <= MaxAttachments
    BY <1>1, <1>2, <1>4, <1>5, <1>6, <2>1
  <2> QED BY <1>5, <2>2 DEF LoopInv
<1>10. StagedInv'
  BY <1>1, <1>2, <1>4, <1>5, StagedKept DEF SandboxInv
<1>11. DirectoryInv'
  BY <1>1, <1>2, <1>4, <1>5 DEF SandboxInv, DirectoryInv
<1> QED BY <1>7, <1>8, <1>9, <1>10, <1>11 DEF SandboxInv

(* A file is taken: the loop has one name less and one file more.          *)
LEMMA TakenKeepsFiles ==
  ASSUME SandboxInv, step = "recheck", NEW f,
         f = [name |-> name, inode |-> payload.inode, content |-> payload.content],
         Sandbox!Deliverable(f), todo' = todo \ {name}, files' = files \cup {f}
  PROVE  FilesInv' /\ Cardinality(files') + Cardinality(todo') <= MaxAttachments
<1>1. /\ name \in todo /\ name \notin Refused /\ payload.inode \in Regular
      /\ payload.content \in Contents /\ todo \subseteq Names
  BY DEF SandboxInv, Sandbox!TypeOK, LoopInv
<1>2. /\ Size[f.content] <= MaxAttachmentBytes
      /\ <<f.name, f.content>> \in Textual => f.content \notin Secret
      /\ Sandbox!Total(files') <= MaxRequestPayloadBytes
  BY DEF Sandbox!Deliverable
<1>3. f \in CollectedFiles /\ f.name = name
  BY <1>1, <1>2 DEF CollectedFiles
<1>4. /\ IsFiniteSet(todo) /\ IsFiniteSet(files) /\ files \subseteq CollectedFiles
      /\ \A g \in files : /\ Size[g.content] <= MaxAttachmentBytes /\ g.name \notin todo
                          /\ <<g.name, g.content>> \in Textual => g.content \notin Secret
      /\ \A g, h \in files : g.name = h.name => g = h
      /\ Cardinality(files) + Cardinality(todo) <= MaxAttachments
  BY DEF SandboxInv, FilesInv, LoopInv
<1>5. f \notin files
  BY <1>1, <1>3, <1>4
<1>12. IsFiniteSet(todo) /\ IsFiniteSet(files) /\ name \in todo
  BY <1>1, <1>4
<1>6. /\ IsFiniteSet(files') /\ Cardinality(files') = Cardinality(files) + 1
      /\ IsFiniteSet(todo') /\ Cardinality(todo') = Cardinality(todo) - 1
  BY <1>5, <1>12, FS_AddElement, FS_RemoveElement
<1>7. Cardinality(files) \in Nat /\ Cardinality(todo) \in Nat /\ Cardinality(todo') \in Nat
      /\ MaxAttachments \in Nat
  BY <1>4, <1>6, FS_CardinalityType, SandboxLimits
<1>8. /\ Cardinality(files') + Cardinality(todo') <= MaxAttachments
      /\ Cardinality(files') <= MaxAttachments
  BY <1>4, <1>6, <1>7
<1>9. \A g \in files' : /\ Size[g.content] <= MaxAttachmentBytes /\ g.name \notin todo'
                        /\ <<g.name, g.content>> \in Textual => g.content \notin Secret
  BY <1>2, <1>3, <1>4
<1>10. \A g, h \in files' : g.name = h.name => g = h
  <2>1. \A g \in files : g.name # f.name
    BY <1>1, <1>3, <1>4
  <2> QED BY <1>4, <2>1
<1>11. files' \subseteq CollectedFiles
  BY <1>3, <1>4
<1> QED BY <1>2, <1>6, <1>8, <1>9, <1>10, <1>11 DEF FilesInv, CollectedFiles

LEMMA RecheckKeepsInv == ASSUME SandboxInv, Sandbox!Recheck PROVE SandboxInv'
<1> DEFINE f == [name |-> name, inode |-> payload.inode, content |-> payload.content]
<1>1. /\ step = "recheck" /\ payload' = None
      /\ \/ /\ Sandbox!Deliverable(f) /\ files' = files \cup {f} /\ todo' = todo \ {name}
            /\ step' = "next"
         \/ step' = "failed" /\ UNCHANGED <<files, todo>>
      /\ UNCHANGED <<fetched, sandbox, deferred, leftover, Sandbox!dirVars, Sandbox!outVars>>
  BY DEF Sandbox!Recheck, Sandbox!Goto
<1>2. UNCHANGED <<entries, content, text, staged, record>>
  BY <1>1 DEF Sandbox!dirVars, Sandbox!outVars
<1> HIDE DEF f
<1>3. FilesInv' /\ (step' = "next" => Cardinality(files') + Cardinality(todo') <= MaxAttachments)
  <2>1. CASE Sandbox!Deliverable(f) /\ files' = files \cup {f} /\ todo' = todo \ {name}
    BY <1>1, <2>1, TakenKeepsFiles DEF f
  <2>2. CASE step' = "failed" /\ UNCHANGED <<files, todo>>
    BY <2>2, FilesKept DEF SandboxInv
  <2> QED BY <1>1, <2>1, <2>2
<1>4. todo' \subseteq Names /\ step' \in {"next", "failed"}
  BY <1>1 DEF SandboxInv, Sandbox!TypeOK
<1>5. Sandbox!TypeOK'
  BY <1>1, <1>2, <1>4 DEF SandboxInv, Sandbox!TypeOK
<1>6. LoopInv'
  BY <1>3, <1>4 DEF LoopInv
<1>7. StagedInv'
  BY <1>1, <1>2, <1>4, StagedKept DEF SandboxInv
<1>8. DirectoryInv'
  BY <1>1, <1>4 DEF SandboxInv, DirectoryInv
<1> QED BY <1>3, <1>5, <1>6, <1>7, <1>8 DEF SandboxInv

(***************************************************************************)
(* What is staged the relay can record: a failure always, and what was     *)
(* collected, unless only the relay refuses it, because its files are no   *)
(* more and no larger than the limits, and both limits fit in the relay's  *)
(* body together.                                                          *)
(***************************************************************************)
LEMMA FailedIsAcceptable == Sandbox!Acceptable(Sandbox!Failed)
<1>1. Sandbox!Failed.answer = 0 /\ Sandbox!Failed.files = {}
  BY DEF Sandbox!Failed
<1>2. IsFiniteSet({}) /\ Cardinality({}) = 0
  BY FS_EmptySet
<1>3. PICK g : IsSum(g, Weight({}), {}) /\ Sandbox!Total({}) = g[{}]
  BY <1>2, TotalIsSum
<1>4. Sandbox!Total({}) = 0
  BY <1>3 DEF IsSum, Sums
<1>5. Sandbox!Encoded({}) \in Nat /\ 3 * Sandbox!Encoded({}) <= 0
  BY <1>2, <1>4, EncodedIsBounded
<1>6. {MaxAttachments, MaxRequestPayloadBytes, MaxAnswerBytes, MaxBody} \subseteq Nat
  BY SandboxLimits
<1>7. Sandbox!decodeJSON(Sandbox!Failed)
  BY <1>1, <1>5, <1>6 DEF Sandbox!decodeJSON
<1>8. Sandbox!prepareArtifacts({})
  BY <1>4, <1>6 DEF Sandbox!prepareArtifacts
<1>9. Sandbox!Cardinality({}) = 0
  BY <1>2, SameCardinality
<1> QED BY <1>1, <1>6, <1>7, <1>8, <1>9 DEF Sandbox!Acceptable

LEMMA CompletedIsAcceptable ==
  ASSUME SandboxInv, step = "collected", ~Sandbox!OnlyRelayRefuses(Sandbox!Completed)
  PROVE  Sandbox!Acceptable(Sandbox!Completed)
<1>1. Sandbox!Completed.answer = text.redacted /\ Sandbox!Completed.files = SentOf(files)
  BY DEF Sandbox!Completed, SentOf, Sent
<1>2. /\ IsFiniteSet(files) /\ files \subseteq CollectedFiles
      /\ \A f \in files : Size[f.content] <= MaxAttachmentBytes
      /\ \A f, g \in files : f.name = g.name => f = g
      /\ Sandbox!Total(files) <= MaxRequestPayloadBytes /\ Cardinality(files) <= MaxAttachments
  BY DEF SandboxInv, FilesInv
<1>3. \A f \in files : Size[f.content] \in Nat /\ f.name \in Names \ Refused
  BY <1>2, SandboxLimits DEF CollectedFiles
<1>4. /\ IsFiniteSet(SentOf(files)) /\ Cardinality(SentOf(files)) <= Cardinality(files)
      /\ Sandbox!Total(SentOf(files)) <= Sandbox!Total(files)
  BY <1>2, <1>3, SentIsNoMore
<1>5. \A f \in SentOf(files) : Size[f.content] \in Nat /\ Size[f.content] <= MaxAttachmentBytes
                               /\ f.name \notin Refused
  BY <1>2, <1>3 DEF SentOf, Sent
<1>6. /\ Sandbox!Total(SentOf(files)) \in Nat /\ Sandbox!Encoded(SentOf(files)) \in Nat
      /\ 3 * Sandbox!Encoded(SentOf(files)) <=
           4 * Sandbox!Total(SentOf(files)) + 12296 * Cardinality(SentOf(files))
  BY <1>4, <1>5, EncodedIsBounded
<1>7. /\ Cardinality(SentOf(files)) \in Nat /\ Cardinality(files) \in Nat
      /\ Sandbox!Total(files) \in Nat
  BY <1>2, <1>3, <1>4, FS_CardinalityType, EncodedIsBounded
<1>8. /\ text.redacted \in Nat /\ MaxAnswerBytes \in Nat
      /\ 18 * MaxAnswerBytes + 12296 * MaxAttachments + 4 * MaxRequestPayloadBytes <= 3 * MaxBody
      /\ MaxAttachments \in Nat /\ MaxRequestPayloadBytes \in Nat /\ MaxBody \in Nat
  BY SandboxLimits DEF SandboxInv, StagedInv
<1>15. text.redacted <= MaxAnswerBytes
  BY <1>1, <1>8 DEF Sandbox!OnlyRelayRefuses
<1>9. /\ Sandbox!Total(SentOf(files)) <= MaxRequestPayloadBytes
      /\ Cardinality(SentOf(files)) <= MaxAttachments
  BY <1>2, <1>4, <1>6, <1>7, <1>8
<1>10. 6 * text.redacted + Sandbox!Encoded(SentOf(files)) <= MaxBody
  BY <1>6, <1>7, <1>8, <1>9, <1>15
<1>11. \A f, g \in SentOf(files) : Key[f.name] = Key[g.name] => f = g
  <2> SUFFICES ASSUME NEW f \in files, NEW g \in files, Key[f.name] = Key[g.name]
               PROVE  Sent(f) = Sent(g)
    BY DEF SentOf, Sent
  <2>1. Sent(f) \in Sandbox!Completed.files /\ Sent(g) \in Sandbox!Completed.files
    BY <1>1 DEF SentOf
  <2>2. f.name = g.name
    BY <2>1 DEF Sent, Sandbox!OnlyRelayRefuses
  <2> QED BY <1>2, <2>2
<1>12. Sandbox!prepareArtifacts(SentOf(files))
  BY <1>5, <1>9, <1>11 DEF Sandbox!prepareArtifacts
<1>13. Sandbox!decodeJSON(Sandbox!Completed)
  BY <1>1, <1>10 DEF Sandbox!decodeJSON
<1>14. Sandbox!Cardinality(SentOf(files)) <= MaxAttachments
  BY <1>9, SameCardinality
<1> QED BY <1>1, <1>12, <1>13, <1>14, <1>15 DEF Sandbox!Acceptable

LEMMA StagedIsSomething ==
  ASSUME SandboxInv PROVE Sandbox!Failed # None /\ Sandbox!Completed # None
<1>1. text \in Answers /\ files \subseteq CollectedFiles
  BY DEF SandboxInv, StagedInv, FilesInv
<1>2. {[name |-> f.name, content |-> f.content] : f \in files}
        \in SUBSET [name : Names, content : Contents]
  BY <1>1 DEF CollectedFiles
<1>3. text.redacted \in {a.redacted : a \in Answers} \cup {0}
  BY <1>1
<1>4. Sandbox!Completed # None
  BY <1>2, <1>3, NoneIsNoFile DEF Sandbox!Completed
<1>5. /\ {} \in SUBSET [name : Names, content : Contents]
      /\ 0 \in {a.redacted : a \in Answers} \cup {0}
  OBVIOUS
<1>6. Sandbox!Failed # None
  BY <1>5, NoneIsNoFile DEF Sandbox!Failed
<1> QED BY <1>4, <1>6

(* The result is journaled, a failure after all that went wrong.           *)
LEMMA PreparingKeepsInv == ASSUME SandboxInv, Sandbox!prepareAndSubmitResult PROVE SandboxInv'
<1>1. /\ step \in {"collected", "failed"} /\ step' \in {"submit", "cleanup"}
      /\ UNCHANGED <<fetched, sandbox, deferred, leftover, entries, content, text, record,
                     todo, name, before, payload, files>>
  BY DEF Sandbox!prepareAndSubmitResult, Sandbox!Goto, Sandbox!loopVars, Sandbox!dirVars
<1>2. \/ step' = "submit" /\ record /\ step = "collected" /\ staged' = Sandbox!Completed
      \/ step' = "submit" /\ record /\ staged' = Sandbox!Failed
      \/ step' = "cleanup" /\ staged' = staged
  BY <1>1 DEF Sandbox!prepareAndSubmitResult, Sandbox!Goto
<1>3. step' = "submit" => staged' # None /\ record
  BY <1>2, StagedIsSomething
<1>4. Sandbox!PreparedIsAcceptable'
  <2>1. staged' # None => Sandbox!Acceptable(staged') \/ Sandbox!OnlyRelayRefuses(staged')
    BY <1>2, FailedIsAcceptable, CompletedIsAcceptable
       DEF SandboxInv, StagedInv, Sandbox!PreparedIsAcceptable
  <2> QED BY <2>1, PreparedFollows
<1>5. Sandbox!TypeOK'
  BY <1>1, <1>2, <1>3 DEF SandboxInv, Sandbox!TypeOK
<1>6. FilesInv' /\ LoopInv'
  BY <1>1, FilesKept, LoopKept DEF SandboxInv
<1>7. StagedInv'
  BY <1>1, <1>4 DEF SandboxInv, StagedInv
<1>8. DirectoryInv'
  BY <1>1 DEF SandboxInv, DirectoryInv
<1> QED BY <1>5, <1>6, <1>7, <1>8 DEF SandboxInv

(***************************************************************************)
(* It is submitted, and later replayed, until the relay has it, unless the *)
(* requester cancels and the operation is discarded.                       *)
(***************************************************************************)
LEMMA SubmittingKeepsInv ==
  ASSUME SandboxInv,
         Sandbox!Submit \/ Sandbox!Reconcile \/ Sandbox!Discard \/ Sandbox!Cancel
  PROVE  SandboxInv'
<1>1. /\ step' \in {step, "cleanup"} /\ (step' # step => step = "submit")
      /\ UNCHANGED <<fetched, sandbox, deferred, leftover, entries, content, text,
                     todo, name, before, payload, files>>
  BY DEF Sandbox!Submit, Sandbox!Reconcile, Sandbox!Discard, Sandbox!Cancel, Sandbox!Goto,
         Sandbox!loopVars, Sandbox!dirVars
<1>2. \/ staged' = staged /\ record' = record
      \/ staged' = None /\ record' = FALSE
  BY DEF Sandbox!Submit, Sandbox!Reconcile, Sandbox!Discard, Sandbox!Cancel,
         Sandbox!replayPreparedResult
<1>4. Sandbox!TypeOK'
  BY <1>1, <1>2 DEF SandboxInv, Sandbox!TypeOK
<1>5. FilesInv' /\ LoopInv'
  BY <1>1, FilesKept, LoopKept DEF SandboxInv
<1>6. StagedInv'
  BY <1>1, <1>2, StagedKept DEF SandboxInv
<1>7. DirectoryInv'
  BY <1>1 DEF SandboxInv, DirectoryInv
<1> QED BY <1>4, <1>5, <1>6, <1>7 DEF SandboxInv

(* The directory goes, unless its removal fails.                           *)
LEMMA CleanupKeepsInv == ASSUME SandboxInv, Sandbox!Cleanup PROVE SandboxInv'
<1>1. /\ step = "cleanup" /\ step' = "ended"
      /\ \/ sandbox' = (sandbox /\ ~deferred) /\ leftover' = leftover
         \/ leftover' = TRUE /\ sandbox' = sandbox
      /\ UNCHANGED <<fetched, deferred, entries, content, text, staged, record,
                     todo, name, before, payload, files>>
  BY DEF Sandbox!Cleanup, Sandbox!Goto, Sandbox!loopVars, Sandbox!dirVars, Sandbox!outVars
<1>2. Sandbox!TypeOK'
  BY <1>1 DEF SandboxInv, Sandbox!TypeOK
<1>3. FilesInv' /\ LoopInv' /\ StagedInv'
  BY <1>1, FilesKept, LoopKept, StagedKept DEF SandboxInv
<1>4. DirectoryInv'
  BY <1>1 DEF SandboxInv, DirectoryInv
<1> QED BY <1>2, <1>3, <1>4 DEF SandboxInv

(* Nothing collected is within every limit.                                *)
LEMMA NothingIsWithinLimits ==
  /\ IsFiniteSet({}) /\ Cardinality({}) = 0 /\ Sandbox!Total({}) = 0
  /\ MaxAttachments \in Nat /\ MaxRequestPayloadBytes \in Nat
<1>1. IsFiniteSet({}) /\ Cardinality({}) = 0
  BY FS_EmptySet
<1>2. PICK g : IsSum(g, Weight({}), {}) /\ Sandbox!Total({}) = g[{}]
  BY <1>1, TotalIsSum
<1>3. Sandbox!Total({}) = 0
  BY <1>2 DEF IsSum, Sums
<1> QED BY <1>1, <1>3, SandboxLimits

(* The receiver dies at any point.                                         *)
LEMMA CrashKeepsInv == ASSUME SandboxInv, Sandbox!Crash PROVE SandboxInv'
<1>1. /\ step' = "ended" /\ leftover' = TRUE /\ todo' = {} /\ files' = {} /\ payload' = None
      /\ UNCHANGED <<fetched, sandbox, deferred, entries, content, text, staged, record>>
  BY DEF Sandbox!Crash, Sandbox!dirVars, Sandbox!outVars
<1>2. Sandbox!TypeOK'
  BY <1>1 DEF SandboxInv, Sandbox!TypeOK
<1>3. FilesInv'
  BY <1>1, NothingIsWithinLimits DEF FilesInv
<1>4. LoopInv' /\ StagedInv'
  BY <1>1, StagedKept DEF SandboxInv, LoopInv
<1>5. DirectoryInv'
  BY <1>1 DEF DirectoryInv
<1> QED BY <1>2, <1>3, <1>4, <1>5 DEF SandboxInv

LEMMA SandboxInitHolds == Sandbox!Init => SandboxInv
<1> SUFFICES ASSUME Sandbox!Init PROVE SandboxInv
  OBVIOUS
<1>1. Sandbox!TypeOK
  BY DEF Sandbox!Init, Sandbox!TypeOK
<1>2. FilesInv
  BY NothingIsWithinLimits DEF Sandbox!Init, FilesInv
<1>3. LoopInv /\ StagedInv /\ DirectoryInv
  BY DEF Sandbox!Init, LoopInv, StagedInv, DirectoryInv, Sandbox!PreparedIsAcceptable
<1> QED BY <1>1, <1>2, <1>3 DEF SandboxInv

LEMMA SandboxStepKeepsInv ==
  ASSUME SandboxInv, [Sandbox!Next]_(Sandbox!vars) PROVE SandboxInv'
<1>1. CASE \/ Sandbox!createRequestDirectory \/ (\E a \in Attachments : Sandbox!Materialize(a))
           \/ Sandbox!RunRuntime \/ Sandbox!RuntimeReturns \/ Sandbox!RuntimeCancelled
           \/ Sandbox!openOwnedReturnRoot
  BY <1>1, BeginningKeepsInv
<1>2. CASE Sandbox!ReadDir
  BY <1>2, ReadDirKeepsInv
<1>3. CASE \/ Sandbox!validateOwnedReturnRoot \/ (\E n \in Names : Sandbox!Inspect(n))
           \/ Sandbox!Read
  BY <1>3, TurnKeepsInv
<1>4. CASE Sandbox!Recheck
  BY <1>4, RecheckKeepsInv
<1>5. CASE Sandbox!prepareAndSubmitResult
  BY <1>5, PreparingKeepsInv
<1>6. CASE Sandbox!Submit \/ Sandbox!Reconcile \/ Sandbox!Discard \/ Sandbox!Cancel
  BY <1>6, SubmittingKeepsInv
<1>7. CASE Sandbox!Cleanup
  BY <1>7, CleanupKeepsInv
<1>8. CASE Sandbox!Crash
  BY <1>8, CrashKeepsInv
<1>9. CASE \/ \E n \in Names, i \in Inodes \cup {None} : Sandbox!Link(n, i)
           \/ \E i \in Regular, c \in Contents : Sandbox!Rewrite(i, c)
           \/ Sandbox!ReplaceDirectory
  BY <1>9, WritersKeepInv
<1>10. CASE UNCHANGED Sandbox!vars
  <2>1. UNCHANGED <<step, fetched, sandbox, deferred, leftover, entries, content, todo, name,
                    before, payload, files, text, staged, record>>
    BY <1>10 DEF Sandbox!vars, Sandbox!dirVars, Sandbox!loopVars, Sandbox!outVars
  <2>2. Sandbox!TypeOK'
    BY <2>1 DEF SandboxInv, Sandbox!TypeOK
  <2>3. FilesInv' /\ LoopInv' /\ StagedInv'
    BY <2>1, FilesKept, LoopKept, StagedKept DEF SandboxInv
  <2>4. DirectoryInv'
    BY <2>1 DEF SandboxInv, DirectoryInv
  <2> QED BY <2>2, <2>3, <2>4 DEF SandboxInv
<1> QED
  BY <1>1, <1>2, <1>3, <1>4, <1>5, <1>6, <1>7, <1>8, <1>9, <1>10 DEF Sandbox!Next, Sandbox!Execute

(***************************************************************************)
(* What one execution has collected, staged and left on disk is as         *)
(* SandboxInv says, however the runtime's processes swap and rewrite files *)
(* between its checks, and wherever it fails or the receiver dies.         *)
(***************************************************************************)
THEOREM SandboxIsInvariant == Sandbox!Spec => []SandboxInv
<1>1. Sandbox!Init => SandboxInv
  BY SandboxInitHolds
<1>2. SandboxInv /\ [Sandbox!Next]_(Sandbox!vars) => SandboxInv'
  BY SandboxStepKeepsInv
<1> QED BY <1>1, <1>2, PTL DEF Sandbox!Spec

LEMMA SandboxInvIsSound == ASSUME SandboxInv PROVE ResultSound
<1>1. Sandbox!TypeOK
  BY DEF SandboxInv
<1>2. Sandbox!DeliverablesAreSound
  <2>1. \A f \in files : /\ f.inode \in Regular /\ f.name \notin Refused
                         /\ <<f.name, f.content>> \in Textual => f.content \notin Secret
    BY DEF SandboxInv, FilesInv, CollectedFiles
  <2>2. Sandbox!Cardinality(files) = Cardinality(files)
    BY SameCardinality
  <2> QED BY <2>1, <2>2 DEF SandboxInv, FilesInv, Sandbox!DeliverablesAreSound
<1>3. Sandbox!PreparedIsAcceptable
  BY DEF SandboxInv, StagedInv
<1>4. Sandbox!NoSandboxLeft
  BY DEF SandboxInv, DirectoryInv, Sandbox!NoSandboxLeft
<1> QED BY <1>1, <1>2, <1>3, <1>4 DEF ResultSound, Sandbox!ResultSound

(***************************************************************************)
(* ResultSound, for any attachments, names, contents, answers and limits   *)
(* that leave room in the relay's body: CollectResults delivers only       *)
(* regular files, under names and contents it may deliver, within the      *)
(* limits; the relay can record what the receiver journals, but for an     *)
(* answer redaction made too long and names that differ only in case; and  *)
(* an execution that ends takes its directory with it, unless a removal    *)
(* failed or the receiver died.                                            *)
(***************************************************************************)
THEOREM ResultIsSound == Sandbox!Spec => []ResultSound
<1>1. SandboxInv => ResultSound
  BY SandboxInvIsSound
<1> QED BY <1>1, SandboxIsInvariant, PTL
=============================================================================
