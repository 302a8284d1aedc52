---------------------------- MODULE DeviceSetup ----------------------------
(***************************************************************************)
(* `team-relay setup` (cmd/team-relay/main.go): the files it reserves,     *)
(* stages, publishes and removes around its one network call, so that an   *)
(* unknown outcome can be retried as the same device.  Every file          *)
(* operation may fail, and the machine may crash between two of them.      *)
(*                                                                         *)
(* A key stands for the device token and the retry identity drawn with it. *)
(* Each configuration path has an invitation of its own; the device-token  *)
(* file belongs to the directory.  An empty reserved file is Torn.         *)
(* Staging files are never read again and are left out.                    *)
(***************************************************************************)
EXTENDS PrivateFiles, Naturals

CONSTANTS
  Keys,
  Configs,      \* configuration paths of one directory
  MaxFaults,    \* bound on failed file operations and lost answers
  MaxCrashes    \* bound on crashes of the machine

VARIABLES
  files,        \* the directory
  run,          \* the setup that runs
  enrolled,     \* enrolled[c]: the key that used c's invitation, or None
  drawn,        \* keys generated so far
  faults, crashes

vars == <<files, run, enrolled, drawn, faults, crashes>>

Config(c)  == <<"config", c>>
Attempt(c) == <<"attempt", c>>
Token      == <<"token", None>>
Complete   == "complete"

Idle == [pc |-> "idle", config |-> None, key |-> None, published |-> FALSE]

Steps == {"idle", "reserveConfig", "reserveToken", "stage", "reserveAttempt",
          "writeAttempt", "syncAttempt", "publishToken", "syncToken",
          "resumeToken", "restoreToken", "restoreSync", "resumeConfig", "resumeSync",
          "call", "publishConfig", "syncConfig", "removeAttempt", "syncRemoved"}

(* The state's shape: each file holds what is written there, or is torn.   *)
TypeOK ==
  /\ \A c \in Configs : files[Config(c)] \in Path({Complete})
                          /\ files[Attempt(c)] \in Path(Keys)
  /\ files[Token] \in Path(Keys)
  /\ run \in [pc : Steps, config : Configs \cup {None}, key : Keys \cup {None},
              published : BOOLEAN]
  /\ enrolled \in [Configs -> Keys \cup {None}]
  /\ drawn \subseteq Keys

Init ==
  /\ files = [f \in {Config(c) : c \in Configs} \cup {Attempt(c) : c \in Configs}
                      \cup {Token} |-> NoFile]
  /\ run = Idle
  /\ enrolled = [c \in Configs |-> None]
  /\ drawn = {} /\ faults = 0 /\ crashes = 0

-----------------------------------------------------------------------------
At(pc)    == run.pc = pc
Goto(pc)  == run' = [run EXCEPT !.pc = pc]
Works     == UNCHANGED faults
Fails     == faults < MaxFaults /\ faults' = faults + 1
Now(f)    == files[f].now
config    == Config(run.config)
attempt   == Attempt(run.config)

(* The files left when these are removed.                                  *)
Without(paths) ==
  [f \in DOMAIN files |-> IF f \in paths THEN [files[f] EXCEPT !.now = None]
                          ELSE files[f]]

(* cleanup: what a failed preparation removes, the attempt included or not.*)
Cleanup(paths) == files' = Without({config, Token} \cup paths) /\ run' = Idle

(* preserveForRetry: only an unpublished configuration is removed.         *)
PreserveForRetry ==
  /\ files' = Without(IF run.published THEN {} ELSE {config})
  /\ run' = Idle

-----------------------------------------------------------------------------
(* A saved attempt is resumed; an empty one is an error.                   *)
Setup(c) ==
  /\ At("idle")
  /\ \/ /\ Now(Attempt(c)) \in Keys
        /\ run' = [Idle EXCEPT !.pc = "resumeToken", !.config = c,
                               !.key = Now(Attempt(c))]
        /\ UNCHANGED drawn
     \/ /\ Now(Attempt(c)) = None
        /\ \E k \in Keys \ drawn :
             /\ drawn' = drawn \cup {k}
             /\ run' = [Idle EXCEPT !.pc = "reserveConfig", !.config = c, !.key = k]
  /\ UNCHANGED <<files, enrolled, faults, crashes>>

(* prepareSetupPublication: the destinations are reserved, O_EXCL.         *)
ReserveConfig ==
  /\ At("reserveConfig")
  /\ \/ /\ Now(config) = None /\ Works
        /\ files' = OpenNewFile(files, config) /\ Goto("reserveToken")
     \/ /\ Now(config) # None /\ Works
        /\ run' = Idle /\ UNCHANGED files
     \/ Fails /\ run' = Idle /\ UNCHANGED files
  /\ UNCHANGED <<enrolled, drawn, crashes>>

ReserveToken ==
  /\ At("reserveToken")
  /\ \/ /\ Now(Token) = None /\ Works
        /\ files' = OpenNewFile(files, Token) /\ Goto("stage")
     \/ Now(Token) # None /\ Works /\ Cleanup({})
     \/ Fails /\ Cleanup({})
  /\ UNCHANGED <<enrolled, drawn, crashes>>

Stage ==
  /\ At("stage")
  /\ \/ Works /\ Goto("reserveAttempt") /\ UNCHANGED files
     \/ Fails /\ Cleanup({})
  /\ UNCHANGED <<enrolled, drawn, crashes>>

(* publishNewSecret of the attempt: reserved, replaced, synced.            *)
ReserveAttempt ==
  /\ At("reserveAttempt")
  /\ \/ /\ Now(attempt) = None /\ Works
        /\ files' = OpenNewFile(files, attempt) /\ Goto("writeAttempt")
     \/ Fails /\ Cleanup({})
  /\ UNCHANGED <<enrolled, drawn, crashes>>

WriteAttempt ==
  /\ At("writeAttempt")
  /\ \/ Works /\ files' = Written(files, attempt, run.key) /\ Goto("syncAttempt")
     \/ Fails /\ Cleanup({attempt})
  /\ UNCHANGED <<enrolled, drawn, crashes>>

SyncAttempt ==
  /\ At("syncAttempt")
  /\ \/ Works /\ files' = SyncDirectory(files) /\ Goto("publishToken")
     \/ Fails /\ Cleanup({attempt})
  /\ UNCHANGED <<enrolled, drawn, crashes>>

PublishToken ==
  /\ At("publishToken")
  /\ \/ Works /\ files' = Written(files, Token, run.key) /\ Goto("syncToken")
     \/ Fails /\ Cleanup({attempt})
  /\ UNCHANGED <<enrolled, drawn, crashes>>

(* Mutant: the published token is not synced.                              *)
SyncTokenSkipped ==
  /\ At("syncToken")
  /\ Works /\ Goto("call") /\ UNCHANGED files
  /\ UNCHANGED <<enrolled, drawn, crashes>>

SyncToken ==
  /\ At("syncToken")
  /\ \/ Works /\ files' = SyncDirectory(files) /\ Goto("call")
     \/ Fails /\ Cleanup({attempt})
  /\ UNCHANGED <<enrolled, drawn, crashes>>

-----------------------------------------------------------------------------
(***************************************************************************)
(* resumeSetupPublication: the token is there, reserved, gone, or another. *)
(***************************************************************************)
ResumeToken ==
  /\ At("resumeToken")
  /\ \/ Now(Token) = run.key /\ Works /\ Goto("resumeConfig") /\ UNCHANGED files
     \/ /\ Now(Token) = Torn /\ Works
        /\ files' = Written(files, Token, run.key) /\ Goto("resumeConfig")
     \/ /\ Now(Token) = None /\ Works
        /\ files' = OpenNewFile(files, Token) /\ Goto("restoreToken")
     \/ /\ Now(Token) \notin {None, Torn, run.key} /\ Works
        /\ run' = Idle /\ UNCHANGED files
     \/ Fails /\ run' = Idle /\ UNCHANGED files
  /\ UNCHANGED <<enrolled, drawn, crashes>>

RestoreToken ==
  /\ \/ /\ At("restoreToken") /\ Works
        /\ files' = Written(files, Token, run.key) /\ Goto("restoreSync")
     \/ /\ At("restoreSync") /\ Works
        /\ files' = SyncDirectory(files) /\ Goto("resumeConfig")
     \/ /\ run.pc \in {"restoreToken", "restoreSync"} /\ Fails
        /\ files' = Removed(files, Token) /\ run' = Idle
  /\ UNCHANGED <<enrolled, drawn, crashes>>

ResumeConfig ==
  /\ At("resumeConfig")
  /\ \/ /\ Now(config) = Complete /\ Works
        /\ run' = [run EXCEPT !.pc = "resumeSync", !.published = TRUE]
        /\ UNCHANGED files
     \/ Now(config) = Torn /\ Works /\ Goto("resumeSync") /\ UNCHANGED files
     \/ /\ Now(config) = None /\ Works
        /\ files' = OpenNewFile(files, config) /\ Goto("resumeSync")
     \/ Now(config) # Complete /\ Fails /\ PreserveForRetry
     \/ Fails /\ run' = Idle /\ UNCHANGED files
  /\ UNCHANGED <<enrolled, drawn, crashes>>

ResumeSync ==
  /\ At("resumeSync")
  /\ \/ Works /\ files' = SyncDirectory(files) /\ Goto("call")
     \/ Fails /\ PreserveForRetry
  /\ UNCHANGED <<enrolled, drawn, crashes>>

-----------------------------------------------------------------------------
(***************************************************************************)
(* The relay (module Enrollment): an invitation enrols one key, and answers*)
(* its exact retries.  The call or its answer may be lost, or refused: the *)
(* command treats every error alike.                                       *)
(***************************************************************************)
MayEnroll == enrolled[run.config] \in {None, run.key}

enrollRelayDevice ==
  /\ At("call")
  /\ \/ /\ MayEnroll /\ enrolled' = [enrolled EXCEPT ![run.config] = run.key]
        /\ \/ Works /\ Goto("publishConfig") /\ UNCHANGED files
           \/ Fails /\ PreserveForRetry
     \/ Fails /\ UNCHANGED enrolled /\ PreserveForRetry
  /\ UNCHANGED <<drawn, crashes>>

(* publishConfig: the completion marker, then the attempt is removed.      *)
PublishConfig ==
  /\ At("publishConfig")
  /\ \/ run.published /\ Works /\ Goto("syncConfig") /\ UNCHANGED files
     \/ /\ ~run.published /\ Works
        /\ files' = Written(files, config, Complete)
        /\ run' = [run EXCEPT !.pc = "syncConfig", !.published = TRUE]
     \/ ~run.published /\ Fails /\ PreserveForRetry
  /\ UNCHANGED <<enrolled, drawn, crashes>>

SyncConfig ==
  /\ At("syncConfig")
  /\ \/ Works /\ files' = SyncDirectory(files) /\ Goto("removeAttempt")
     \/ Fails /\ run' = Idle /\ UNCHANGED files
  /\ UNCHANGED <<enrolled, drawn, crashes>>

RemoveAttempt ==
  /\ At("removeAttempt")
  /\ \/ Works /\ files' = Removed(files, attempt) /\ Goto("syncRemoved")
     \/ Fails /\ run' = Idle /\ UNCHANGED files
  /\ UNCHANGED <<enrolled, drawn, crashes>>

SyncRemoved ==
  /\ At("syncRemoved") /\ run' = Idle
  /\ \/ Works /\ files' = SyncDirectory(files)
     \/ Fails /\ UNCHANGED files
  /\ UNCHANGED <<enrolled, drawn, crashes>>

Crash ==
  /\ crashes < MaxCrashes /\ crashes' = crashes + 1
  /\ files' \in AfterCrash(files)
  /\ run' = Idle
  /\ UNCHANGED <<enrolled, drawn, faults>>

-----------------------------------------------------------------------------
Prepare == \/ ReserveConfig \/ ReserveToken \/ Stage \/ ReserveAttempt
           \/ WriteAttempt \/ SyncAttempt \/ PublishToken \/ SyncToken
Resume  == ResumeToken \/ RestoreToken \/ ResumeConfig \/ ResumeSync
Publish == PublishConfig \/ SyncConfig \/ RemoveAttempt \/ SyncRemoved
Step    == Prepare \/ Resume \/ enrollRelayDevice \/ Publish

Next == (\E c \in Configs : Setup(c)) \/ Step \/ Crash

(* A setup that runs goes on, and one that failed is run again.            *)
Fairness == WF_vars(Step) /\ \A c \in Configs : SF_vars(Setup(c))

Spec == Init /\ [][Next]_vars
FairSpec == Spec /\ Fairness

-----------------------------------------------------------------------------
(* Properties. *)

(***************************************************************************)
(* The token of an enrolled device is on the machine, published or in the  *)
(* attempt, whatever failed and wherever it crashed: no enrolment is lost. *)
(***************************************************************************)
TokenOnDisk ==
  \A c \in Configs : enrolled[c] # None => enrolled[c] \in {Now(Token), Now(Attempt(c))}

(***************************************************************************)
(* The configuration is the completion marker (docs/quickstart.md:         *)
(* "published last"): where it is complete, also after a crash, its device *)
(* is enrolled and the token file is complete.                             *)
(***************************************************************************)
ConfigIsLast ==
  \A c \in Configs : Now(Config(c)) = Complete =>
    enrolled[c] # None /\ Now(Token) = enrolled[c]

(***************************************************************************)
(* Once the invitation is used, setup never calls with another identity:   *)
(* a retry cannot be refused, and cannot create a second device.           *)
(***************************************************************************)
RetriesKeepIdentity ==
  At("call") => enrolled[run.config] \in {None, run.key}

(***************************************************************************)
(* The attempt of an enrolled device is removed only when the              *)
(* configuration is durable (docs/quickstart.md: "removed only after the   *)
(* final configuration is durably published").                             *)
(***************************************************************************)
AttemptOutlivesPublication ==
  \A c \in Configs : enrolled[c] # None =>
    Now(Attempt(c)) = enrolled[c] \/ files[Config(c)].durable = Complete

(***************************************************************************)
(* Rerunning the identical command completes an enrolled setup.            *)
(***************************************************************************)
SetupCompletes ==
  \A c \in Configs : enrolled[c] # None ~>
    Now(Config(c)) = Complete /\ Now(Attempt(c)) = None /\ At("idle")

(***************************************************************************)
(* What setup keeps, whatever is lost, fails or crashes: the token of an   *)
(* enrolled device, the order of token, configuration and attempt, and     *)
(* the identity that a used invitation was called with.                    *)
(***************************************************************************)
EnrolmentKept ==
  /\ TypeOK
  /\ TokenOnDisk /\ ConfigIsLast /\ AttemptOutlivesPublication /\ RetriesKeepIdentity
=============================================================================
