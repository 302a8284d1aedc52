--------------------------- MODULE AdminCredential ---------------------------
(***************************************************************************)
(* The administrator's credential, end to end: the bootstrap and rotation  *)
(* endpoints of the relay (Bootstrap and RotateAdminCredential of          *)
(* internal/store/redis.go, one step per Redis round trip that matters),   *)
(* and the commands that call them (cmd/team-relay-admin), with the        *)
(* recovery files they stage before the call and remove after it.          *)
(*                                                                         *)
(* An attempt draws its token and its idempotency key together and stores  *)
(* both in one file, so the new token stands for the key too.  The         *)
(* organisation has one administrator member, whom nobody can revoke.      *)
(*                                                                         *)
(* There are two token files, in one private directory: a rotation reads   *)
(* the current token from one and writes its replacement to the same file  *)
(* or to the other.  A token that comes from TEAM_RELAY_ADMIN_TOKEN is one *)
(* read from a file that the rotation does not write.                      *)
(*                                                                         *)
(* A transaction's WATCH is a flag: `dirty` is raised when another         *)
(* transaction commits a write of a watched key, and refuses the EXEC.     *)
(***************************************************************************)
EXTENDS PrivateFiles, Naturals, FiniteSets

CONSTANTS
  Tokens,       \* admin tokens the commands generate
  Commands,     \* team-relay-admin processes that run on the machine
  Handlers,     \* HTTP handlers of the relay
  MaxTimeouts,  \* bound on calls given up by the client
  MaxAborts,    \* bound on calls lost by the network or the relay
  MaxCrashes,   \* bound on crashes of the administrator's machine
  MaxFaults     \* bound on writes and syncs that fail

ASSUME AdminConstants ==
  /\ {MaxTimeouts, MaxAborts, MaxCrashes, MaxFaults} \subseteq Nat
  /\ None \notin Tokens /\ Torn \notin Tokens /\ None # Torn
  /\ None \notin Handlers

VARIABLES
  boot,         \* the token of the bootstrap record, or None
  cred,         \* tokens with an admin credential record
  rotation,     \* rotation[t]: the token that t replaced, or None
  call,         \* call[h]: the call handler h serves
  files,        \* the administrator's private directory
  mishap,       \* history: the removal of an attempt whose token is unsynced
  cli,          \* cli[p]: the state of command p
  drawn,        \* tokens generated so far
  timeouts, aborts, crashes, faults

relayVars == <<boot, cred, rotation>>
vars == <<relayVars, call, files, mishap, cli, drawn, timeouts, aborts, crashes, faults>>

-----------------------------------------------------------------------------
(* Types. *)

Attempt == [source : Tokens \cup {None}, new : Tokens]

(* The token files, the recovery file of a rotation to each of them, and   *)
(* that of a bootstrap, which always writes the first.                     *)
Destinations == {"token", "other"}
RotationFile(dst) == IF dst = "token" THEN "rotation" ELSE "otherRotation"
AttemptFile(cmd, dst) == IF cmd = "bootstrap" THEN "bootstrap" ELSE RotationFile(dst)
AttemptFiles == {"bootstrap", "rotation", "otherRotation"}
IsAttempt(content) == content \notin {None, Torn}

NoCall == [op |-> "none", auth |-> None, new |-> None, step |-> "idle",
           attempt |-> 0, dirty |-> FALSE]
Idle == [pc |-> "idle", cmd |-> "none", dst |-> "token", auth |-> None,
         attempt |-> [source |-> None, new |-> None], conn |-> None]

(* The state's shape: records, handlers, files and commands.               *)
TypeOK ==
  /\ boot \in Tokens \cup {None}
  /\ cred \subseteq Tokens
  /\ rotation \in [Tokens -> Tokens \cup {None}]
  /\ call \in [Handlers ->
       [op : {"none", "bootstrap", "rotate"}, auth : Tokens \cup {None},
        new : Tokens \cup {None},
        step : {"idle", "exists", "credential", "auth", "rotation", "old",
                "exec", "ok", "unauthorized", "error"},
        attempt : 0..4, dirty : BOOLEAN]]
  /\ \A dst \in Destinations : files[dst] \in Path(Tokens)
  /\ \A f \in AttemptFiles : files[f] \in Path(Attempt)
  /\ mishap \in {"none", "unsynced", "crashed"}
  /\ drawn \subseteq Tokens
  /\ cli \in [Commands ->
       [pc : {"idle", "prepare", "stage", "staging", "staged", "send", "wait",
              "finalize", "writing", "published", "replaced",
              "remove", "removed"},
        cmd : {"none", "bootstrap", "rotate"}, dst : Destinations,
        auth : Tokens \cup {None},
        attempt : [source : Tokens \cup {None}, new : Tokens \cup {None}],
        conn : Handlers \cup {None}]]

Init ==
  /\ boot = None /\ cred = {} /\ rotation = [t \in Tokens |-> None]
  /\ call = [h \in Handlers |-> NoCall]
  /\ files = [f \in Destinations \cup AttemptFiles |-> NoFile]
  /\ mishap = "none"
  /\ cli = [p \in Commands |-> Idle]
  /\ drawn = {} /\ timeouts = 0 /\ aborts = 0 /\ crashes = 0
  /\ faults = 0

bounds == <<timeouts, aborts, crashes, faults>>
clientVars == <<files, mishap, cli, drawn, bounds>>

-----------------------------------------------------------------------------
(* The relay. *)

(* Keys a transaction watches, and those its commit writes.                *)
Watched(c) ==
  IF c.op = "bootstrap"
  THEN {<<"boot", None>>, <<"credential", c.new>>}
  ELSE {<<"credential", c.auth>>, <<"credential", c.new>>, <<"rotation", c.new>>}

Writes(c) == Watched(c)

InTransaction(c) == c.step \in {"credential", "old", "exec"}

At(h, step) == call[h].step = step
Goto(h, step) == call' = [call EXCEPT ![h].step = step]

(* A failed transaction starts over, five attempts in all.                 *)
FirstStep(c) == IF c.op = "bootstrap" THEN "exists" ELSE "rotation"
Retry(h) ==
  LET c == call[h] IN
    call' = [call EXCEPT ![h] =
               IF c.attempt = 4 THEN [c EXCEPT !.step = "error"]
               ELSE [c EXCEPT !.step = FirstStep(c), !.attempt = @ + 1,
                              !.dirty = FALSE]]

(***************************************************************************)
(* Bootstrap: WATCH and read the completion flag.  A completed bootstrap   *)
(* answers only the request that made it, and only while its token still   *)
(* is a credential.                                                        *)
(***************************************************************************)
Bootstrap(h) ==
  /\ At(h, "exists")
  /\ Goto(h, CASE boot = None -> "credential"
               [] boot = call[h].new /\ boot \in cred -> "ok"
               [] OTHER -> "error")
  /\ UNCHANGED <<relayVars, clientVars>>

CredentialExists(h) ==
  /\ At(h, "credential")
  /\ IF call[h].new \in cred THEN Retry(h) ELSE Goto(h, "exec")
  /\ UNCHANGED <<relayVars, clientVars>>

(* The rotation handler authenticates its bearer token first.              *)
Authenticate(h) ==
  /\ At(h, "auth")
  /\ Goto(h, IF call[h].auth \in cred THEN "rotation" ELSE "unauthorized")
  /\ UNCHANGED <<relayVars, clientVars>>

(***************************************************************************)
(* RotateAdminCredential: WATCH and read the rotation record.  A completed *)
(* rotation answers a caller that holds its old or its new token.          *)
(***************************************************************************)
RotateAdminCredential(h) ==
  /\ At(h, "rotation")
  /\ LET c == call[h] IN
       Goto(h, CASE rotation[c.new] # None ->
                      IF c.auth \in {c.new, rotation[c.new]}
                      THEN "ok" ELSE "unauthorized"
                 [] rotation[c.new] = None /\ c.auth = c.new -> "error"
                 [] OTHER -> "old")
  /\ UNCHANGED <<relayVars, clientVars>>

RotationCredentials(h) ==
  /\ At(h, "old")
  /\ IF call[h].auth \in cred /\ call[h].new \notin cred
     THEN Goto(h, "exec") ELSE Retry(h)
  /\ UNCHANGED <<relayVars, clientVars>>

(* EXEC fails if a watched key was written since the WATCH.                *)
TxFailed(h) ==
  /\ At(h, "exec") /\ call[h].dirty
  /\ Retry(h)
  /\ UNCHANGED <<relayVars, clientVars>>

(* A commit answers its call and dirties the transactions that watch it.   *)
Committed(h) ==
  call' = [g \in Handlers |->
             IF g = h THEN [call[h] EXCEPT !.step = "ok"]
             ELSE [call[g] EXCEPT !.dirty = @ \/
                     (InTransaction(call[g])
                        /\ Watched(call[g]) \cap Writes(call[h]) # {})]]

BootstrapExec(h) ==
  /\ At(h, "exec") /\ ~call[h].dirty /\ call[h].op = "bootstrap"
  /\ boot' = call[h].new
  /\ cred' = cred \cup {call[h].new}
  /\ Committed(h)
  /\ UNCHANGED <<rotation, clientVars>>

RotateExec(h) ==
  /\ At(h, "exec") /\ ~call[h].dirty /\ call[h].op = "rotate"
  /\ cred' = (cred \cup {call[h].new}) \ {call[h].auth}
  /\ rotation' = [rotation EXCEPT ![call[h].new] = call[h].auth]
  /\ Committed(h)
  /\ UNCHANGED <<boot, clientVars>>

-----------------------------------------------------------------------------
(* The commands. *)

Exit(p) == cli' = [cli EXCEPT ![p] = Idle]
Advance(p, pc) == cli' = [cli EXCEPT ![p].pc = pc]
File(p) == AttemptFile(cli[p].cmd, cli[p].dst)
Token(p) == files[cli[p].dst].now

(***************************************************************************)
(* privatefs.SyncDirectory.  `mishap` tells how far things went towards a  *)
(* recovery file that disappears for good while the token it stands for    *)
(* does not stay: removed before the token file was durable, and then the  *)
(* machine crashed before any sync succeeded.                              *)
(***************************************************************************)
Synced ==
  /\ files' = SyncDirectory(files)
  /\ mishap' = IF mishap = "unsynced" THEN "none" ELSE mishap

(***************************************************************************)
(* bootstrap, rotate: the rotation first reads the current credential from *)
(* src, the token file or its environment variable; an empty or partial    *)
(* file is no credential.  The replacement goes to dst.                    *)
(***************************************************************************)
BeginBootstrap(p) ==
  /\ cli[p].pc = "idle"
  /\ cli' = [cli EXCEPT ![p] = [Idle EXCEPT !.pc = "prepare", !.cmd = "bootstrap"]]
  /\ UNCHANGED <<relayVars, call, files, mishap, drawn, bounds>>

BeginRotate(p, src, dst) ==
  /\ cli[p].pc = "idle"
  /\ files[src].now \in Tokens
  /\ cli' = [cli EXCEPT ![p] = [Idle EXCEPT !.pc = "prepare", !.cmd = "rotate",
                                            !.dst = dst, !.auth = files[src].now]]
  /\ UNCHANGED <<relayVars, call, files, mishap, drawn, bounds>>

(***************************************************************************)
(* prepareBootstrapAttempt, prepareRotationAttempt: a staged attempt is    *)
(* resumed if it belongs to this command.                                  *)
(***************************************************************************)
(* Mutant: only the replaced credential may resume a rotation.             *)
ResumableBySource(p, att) ==
  IF cli[p].cmd = "bootstrap"
  THEN Token(p) \in {None, att.new}
  ELSE cli[p].auth = att.source /\ Token(p) \in {None, att.source}

Resumable(p, att) ==
  IF cli[p].cmd = "bootstrap"
  THEN Token(p) \in {None, att.new}
  ELSE /\ cli[p].auth \in {att.source, att.new}
       /\ Token(p) \in {None, att.source, att.new}

PrepareResumed(p) ==
  /\ cli[p].pc = "prepare"
  /\ LET content == files[File(p)].now IN
       /\ IsAttempt(content) /\ Resumable(p, content)
       /\ cli' = [cli EXCEPT ![p].pc = "send", ![p].attempt = content]
  /\ UNCHANGED <<relayVars, call, files, mishap, drawn, bounds>>

(* The last case is a bound: every token of Tokens is drawn.               *)
PrepareRefused(p) ==
  /\ cli[p].pc = "prepare"
  /\ LET content == files[File(p)].now IN
       \/ content = Torn
       \/ IsAttempt(content) /\ ~Resumable(p, content)
       \/ content = None /\ cli[p].cmd = "bootstrap" /\ Token(p) # None
       \/ content = None /\ drawn = Tokens
  /\ Exit(p)
  /\ UNCHANGED <<relayVars, call, files, mishap, drawn, bounds>>

(* Mutant: the attempt is not staged before the call.                      *)
PrepareUnstaged(p) ==
  /\ cli[p].pc = "prepare"
  /\ files[File(p)].now = None
  /\ cli[p].cmd = "bootstrap" => Token(p) = None
  /\ \E t \in Tokens \ drawn :
       /\ drawn' = drawn \cup {t}
       /\ cli' = [cli EXCEPT ![p].pc = "send",
                             ![p].attempt = [source |-> cli[p].auth, new |-> t]]
  /\ UNCHANGED <<relayVars, call, files, mishap, bounds>>

PrepareNew(p) ==
  /\ cli[p].pc = "prepare"
  /\ files[File(p)].now = None
  /\ cli[p].cmd = "bootstrap" => Token(p) = None
  /\ \E t \in Tokens \ drawn :
       /\ drawn' = drawn \cup {t}
       /\ cli' = [cli EXCEPT ![p].pc = "stage",
                             ![p].attempt = [source |-> cli[p].auth, new |-> t]]
  /\ UNCHANGED <<relayVars, call, files, mishap, bounds>>

(* writeRecoveryFile: WriteNewFile creates, writes and syncs, or refuses.  *)
Stage(p) ==
  /\ cli[p].pc = "stage"
  /\ IF files[File(p)].now = None
     THEN files' = OpenNewFile(files, File(p)) /\ Advance(p, "staging")
     ELSE Exit(p) /\ UNCHANGED files
  /\ UNCHANGED <<relayVars, call, mishap, drawn, bounds>>

Staging(p) ==
  /\ cli[p].pc = "staging"
  /\ files' = Written(files, File(p), cli[p].attempt)
  /\ Advance(p, "staged")
  /\ UNCHANGED <<relayVars, call, mishap, drawn, bounds>>

Staged(p) ==
  /\ cli[p].pc = "staged"
  /\ Synced
  /\ Advance(p, "send")
  /\ UNCHANGED <<relayVars, call, drawn, bounds>>

(* The call is made only now that the attempt is durable.                  *)
Send(p) ==
  /\ cli[p].pc = "send"
  /\ \E h \in Handlers :
       /\ At(h, "idle")
       /\ call' = [call EXCEPT ![h] =
            [op |-> cli[p].cmd, auth |-> cli[p].auth, new |-> cli[p].attempt.new,
             step |-> IF cli[p].cmd = "bootstrap" THEN "exists" ELSE "auth",
             attempt |-> 0, dirty |-> FALSE]]
       /\ cli' = [cli EXCEPT ![p].pc = "wait", ![p].conn = h]
  /\ UNCHANGED <<relayVars, files, mishap, drawn, bounds>>

(***************************************************************************)
(* A rotation refused as unauthorized is tried once more with the staged   *)
(* new token: the first call may have committed without its answer.        *)
(***************************************************************************)
Waits(p, h) == cli[p].pc = "wait" /\ cli[p].conn = h

Replied(p) ==
  \E h \in Handlers :
    /\ Waits(p, h) /\ call[h].step \in {"ok", "unauthorized", "error"}
    /\ call' = [call EXCEPT ![h] = NoCall]
    /\ LET c == cli[p] IN
         cli' = [cli EXCEPT ![p] =
           CASE At(h, "ok") -> [c EXCEPT !.pc = "finalize", !.conn = None]
             [] At(h, "unauthorized") /\ c.auth # c.attempt.new ->
                  [c EXCEPT !.pc = "send", !.conn = None, !.auth = c.attempt.new]
             [] OTHER -> Idle]
    /\ UNCHANGED <<relayVars, files, mishap, drawn, bounds>>

(* The client gives up; the handler goes on.                               *)
Timeout(p) ==
  /\ timeouts < MaxTimeouts /\ cli[p].pc = "wait"
  /\ timeouts' = timeouts + 1
  /\ Exit(p)
  /\ UNCHANGED <<relayVars, call, files, mishap, drawn, aborts, crashes, faults>>

(* The call is lost before its next step; a waiting client sees an error.  *)
Abort(h) ==
  /\ aborts < MaxAborts /\ ~At(h, "idle")
  /\ aborts' = aborts + 1
  /\ call' = [call EXCEPT ![h] = NoCall]
  /\ cli' = [p \in Commands |-> IF Waits(p, h) THEN Idle ELSE cli[p]]
  /\ UNCHANGED <<relayVars, files, mishap, drawn, timeouts, crashes, faults>>

(* An answer nobody waits for.                                             *)
Discard(h) ==
  /\ call[h].step \in {"ok", "unauthorized", "error"}
  /\ \A p \in Commands : ~Waits(p, h)
  /\ call' = [call EXCEPT ![h] = NoCall]
  /\ UNCHANGED <<relayVars, clientVars>>

(***************************************************************************)
(* finalizeAdminToken: a token file that does not exist is created and     *)
(* written in place; one that holds the rotation's source is replaced; one *)
(* that holds any other credential, or is torn, is left alone.             *)
(***************************************************************************)
Finalize(p) ==
  /\ cli[p].pc = "finalize"
  /\ LET att == cli[p].attempt
         t   == Token(p) IN
       \/ /\ t = None
          /\ files' = OpenNewFile(files, cli[p].dst) /\ Advance(p, "writing")
       \/ /\ t = att.new
          /\ Advance(p, "remove") /\ UNCHANGED files
       \/ /\ t # None /\ t # att.new /\ t = att.source
          /\ files' = Written(files, cli[p].dst, att.new) /\ Advance(p, "replaced")
       \/ /\ t \notin {None, att.new, att.source}
          /\ Exit(p) /\ UNCHANGED files
  /\ UNCHANGED <<relayVars, call, mishap, drawn, bounds>>

WriteToken(p) ==
  /\ cli[p].pc = "writing"
  /\ files' = Written(files, cli[p].dst, cli[p].attempt.new)
  /\ Advance(p, "published")
  /\ UNCHANGED <<relayVars, call, mishap, drawn, bounds>>

SyncToken(p) ==
  /\ cli[p].pc \in {"published", "replaced"}
  /\ Synced
  /\ Advance(p, "remove")
  /\ UNCHANGED <<relayVars, call, drawn, bounds>>

(* The file is removed whether or not the token in place is durable.       *)
RemoveAttempt(p) ==
  /\ cli[p].pc = "remove"
  /\ files' = Removed(files, File(p))
  /\ mishap' = IF mishap = "none" /\ files[cli[p].dst].durable # cli[p].attempt.new
               THEN "unsynced" ELSE mishap
  /\ Advance(p, "removed")
  /\ UNCHANGED <<relayVars, call, drawn, bounds>>

SyncRemoved(p) ==
  /\ cli[p].pc = "removed"
  /\ Synced
  /\ Exit(p)
  /\ UNCHANGED <<relayVars, call, drawn, bounds>>

(***************************************************************************)
(* A write or a sync fails and the command gives up.  WriteNewFile removes *)
(* the file it was creating; AtomicWriteFile leaves the one it replaced.   *)
(***************************************************************************)
WriteFails(p) ==
  /\ faults < MaxFaults
  /\ faults' = faults + 1
  /\ \/ /\ cli[p].pc \in {"staging", "staged"}
        /\ files' = Removed(files, File(p))
     \/ /\ cli[p].pc \in {"writing", "published"}
        /\ files' = Removed(files, cli[p].dst)
     \/ /\ cli[p].pc \in {"replaced", "removed"}
        /\ UNCHANGED files
  /\ Exit(p)
  /\ UNCHANGED <<relayVars, call, mishap, drawn, timeouts, aborts, crashes>>

(* The machine stops: the commands die, unsynced entries may be lost.      *)
Crash ==
  /\ crashes < MaxCrashes
  /\ crashes' = crashes + 1
  /\ files' \in AfterCrash(files)
  /\ mishap' = IF mishap = "unsynced" THEN "crashed" ELSE mishap
  /\ cli' = [p \in Commands |-> Idle]
  /\ UNCHANGED <<relayVars, call, drawn, timeouts, aborts, faults>>

-----------------------------------------------------------------------------
Prepare(p) == PrepareResumed(p) \/ PrepareRefused(p) \/ PrepareNew(p)

CommandStep(p) ==
  \/ Prepare(p) \/ Stage(p) \/ Staging(p) \/ Staged(p) \/ Send(p) \/ Replied(p)
  \/ Finalize(p) \/ WriteToken(p) \/ SyncToken(p) \/ RemoveAttempt(p)
  \/ SyncRemoved(p)

HandlerStep(h) ==
  \/ Bootstrap(h) \/ CredentialExists(h) \/ Authenticate(h)
  \/ RotateAdminCredential(h) \/ RotationCredentials(h) \/ TxFailed(h)
  \/ BootstrapExec(h) \/ RotateExec(h) \/ Discard(h)

Next ==
  \/ \E p \in Commands : BeginBootstrap(p) \/ CommandStep(p) \/ Timeout(p) \/ WriteFails(p)
  \/ \E p \in Commands, src, dst \in Destinations : BeginRotate(p, src, dst)
  \/ \E h \in Handlers : HandlerStep(h) \/ Abort(h)
  \/ Crash

(***************************************************************************)
(* Running commands and handlers go on, and an administrator who is told   *)
(* to retry a rotation does so: to the same token file, and from the one   *)
(* that holds its source or, by now, its replacement.                      *)
(***************************************************************************)
Rerun(p, dst) ==
  LET staged == files[RotationFile(dst)].now IN
    /\ IsAttempt(staged)
    /\ \E src \in Destinations :
         files[src].now \in {staged.source, staged.new} /\ BeginRotate(p, src, dst)

Fairness ==
  /\ \A p \in Commands : WF_vars(CommandStep(p))
  /\ \A p \in Commands : \A dst \in Destinations : SF_vars(Rerun(p, dst))
  /\ \A h \in Handlers : WF_vars(HandlerStep(h))

Spec == Init /\ [][Next]_vars
FairSpec == Spec /\ Fairness

-----------------------------------------------------------------------------
(* Properties. *)

(***************************************************************************)
(* Bootstrap makes one organisation with one credential, and rotations     *)
(* replace it one for one, however calls are repeated, lost or raced.      *)
(***************************************************************************)
OneAdministrator ==
  \/ boot = None /\ cred = {}
  \/ boot # None /\ \E t \in Tokens : cred = {t}

(* The tokens the administrator can still use from the disk.               *)
Held ==
  {t \in Tokens : \/ \E dst \in Destinations : files[dst].now = t
                  \/ \E f \in AttemptFiles :
                       IsAttempt(files[f].now) /\ files[f].now.new = t}

(***************************************************************************)
(* Once bootstrapped, the administrator's disk holds the valid credential, *)
(* as a token file or in a recovery file, through lost answers, failing    *)
(* writes and syncs, and crashes (finalizeAdminToken's order).  One case   *)
(* is excepted, because the code loses the only administrator in it: the   *)
(* sync that follows the replacement of a token file fails, the rerun      *)
(* finds the new token in place and removes the recovery file, and the     *)
(* machine crashes before a sync succeeds.                                 *)
(***************************************************************************)
NeverLockedOut == boot # None /\ mishap # "crashed" => cred \subseteq Held

(***************************************************************************)
(* A recovery file that was staged is removed only when the relay has      *)
(* committed what it stands for (docs/admin.md: "removes the recovery file *)
(* only after a confirmed exact response").  A file whose own staging      *)
(* fails is removed before anything is sent.                               *)
(***************************************************************************)
RemovalIsConfirmed ==
  [][\A f \in AttemptFiles :
       IsAttempt(files[f].now) /\ files'[f].now = None /\ crashes' = crashes
         /\ (\A p \in Commands : cli[p].pc # "staged")
         => LET t == files[f].now.new IN boot = t \/ rotation[t] # None]_vars

(***************************************************************************)
(* The two ends at which a staged rotation stays behind and every rerun is *)
(* refused: another rotation took its source away before it was committed, *)
(* or its destination holds neither the source nor the replacement, being  *)
(* torn by a crash while it was written in place or holding an older       *)
(* credential (prepareRotationAttempt stages without looking at it).       *)
(***************************************************************************)
Superseded(att) == {att.source, att.new} \cap cred = {}
Foreign(dst, att) == files[dst].now \notin {None, att.source, att.new}

(***************************************************************************)
(* A staged rotation is completed by rerunning the command, whichever call *)
(* or answer was lost, write failed or machine crashed, unless it ended in *)
(* one of the two ways above.                                              *)
(***************************************************************************)
RotationCompletes ==
  \A dst \in Destinations :
    LET staged == files[RotationFile(dst)].now IN
      IsAttempt(staged)
        ~> \/ ~IsAttempt(staged)
           \/ Superseded(staged)
           \/ Foreign(dst, staged)

(***************************************************************************)
(* What bootstrap and rotation keep through lost, repeated and racing      *)
(* calls, failing writes and crashes: one administrator at the relay, and  *)
(* its credential on the disk, with the exception NeverLockedOut states.   *)
(***************************************************************************)
CredentialKept == TypeOK /\ OneAdministrator /\ NeverLockedOut
=============================================================================
