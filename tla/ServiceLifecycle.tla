--------------------------- MODULE ServiceLifecycle ---------------------------
(***************************************************************************)
(* internal/lifecycle: `team-relay server|receiver start, stop, restart`   *)
(* as the steps of lifecycle.go's run, one per file written and per        *)
(* service-manager command, against launchd (darwin) or systemd --user     *)
(* (linux).  A command may fail or be interrupted at each of them; the     *)
(* service's process crashes, the user edits the configuration, logs out   *)
(* and in.  One command runs at a time.  Configurations are numbered by    *)
(* age, a definition by the configuration it was made from, 0 is none.     *)
(***************************************************************************)
EXTENDS Naturals

CONSTANTS Platforms,     \* platforms the instance covers
          MaxPolls,      \* attempts of unloadLaunchAgent, 60 in the code
          MaxConfig, MaxCommands, MaxFaults, MaxExits, MaxLogins  \* bounds

VARIABLES
  platform, config,
  unit, entry,       \* layout.unit's definition; whether layout.entry links to it
  known,             \* the definition the manager has registered
  active, enabled,   \* the manager keeps the service running; starts it at login
  leaving,           \* launchd still deregisters the service
  proc,              \* the definition the running process was started from
  session,           \* the user is logged in
  cmd,               \* the running command
  outcome,           \* the last command: [how, action, config, at, was]
  cut,               \* history: a `systemctl disable --now` was cut short, and
                     \* neither completed nor undone by an enable since
  commands, faults, exits, logins

managerVars == <<known, active, enabled, leaving>>
bounds == <<commands, faults, exits, logins>>
vars == <<platform, config, unit, entry, managerVars, proc, session, cmd, outcome, cut, bounds>>

Idle == [pc |-> "idle", action |-> "none", config |-> 0, loaded |-> FALSE, was |-> FALSE,
         attempts |-> 0, absent |-> 0]
NoOutcome == [how |-> "none", action |-> "none", config |-> 0, at |-> "idle", was |-> FALSE]

Init ==
  /\ platform \in Platforms /\ config = 1 /\ unit = 0 /\ entry = FALSE
  /\ known = 0 /\ active = FALSE /\ enabled = (platform = "darwin") /\ leaving = FALSE
  /\ proc = 0 /\ session = TRUE /\ cmd = Idle /\ outcome = NoOutcome /\ cut = FALSE
  /\ commands = 0 /\ faults = 0 /\ exits = 0 /\ logins = 0

-----------------------------------------------------------------------------
(* A command's steps.                                                      *)
At(pc) == cmd.pc = pc
Goto(pc) == cmd' = [cmd EXCEPT !.pc = pc] /\ UNCHANGED outcome
End(how) ==
  /\ cmd' = Idle
  /\ outcome' = [how |-> how, action |-> cmd.action, config |-> cmd.config, at |-> cmd.pc,
                 was |-> cmd.was]
Fault == faults < MaxFaults /\ faults' = faults + 1
Works == UNCHANGED faults
Others == UNCHANGED <<platform, config, session, commands, exits, logins>>
External == Others /\ UNCHANGED <<proc, cut>>

(* run: the configuration is read first.                                   *)
Begin(action) ==
  /\ At("idle") /\ session /\ commands < MaxCommands /\ commands' = commands + 1
  /\ cmd' = [Idle EXCEPT !.pc = "inspect", !.action = action, !.config = config, !.was = active]
  /\ outcome' = NoOutcome
  /\ UNCHANGED <<platform, config, unit, entry, managerVars, proc, session, cut, faults, exits, logins>>

(***************************************************************************)
(* What the service manager shows.  launchd does not call a job running    *)
(* that it is ending; systemd loads a linked unit on demand.               *)
(***************************************************************************)
Loaded == IF platform = "darwin" THEN known # 0 ELSE known # 0 \/ entry
Running == IF platform = "darwin" THEN proc # 0 /\ ~leaving ELSE Loaded /\ active

inspect ==
  /\ At("inspect") /\ Works
  /\ CASE cmd.action = "stop" ->
            cmd' = [cmd EXCEPT !.loaded = Loaded,
                      !.pc = IF ~Loaded THEN "remove"
                             ELSE IF platform = "darwin" THEN "bootout" ELSE "disable"]
            /\ UNCHANGED outcome
       [] cmd.action = "start" /\ Running -> End("ok")
       [] OTHER -> cmd' = [cmd EXCEPT !.loaded = Loaded, !.pc = "install"] /\ UNCHANGED outcome
  /\ External /\ UNCHANGED <<unit, entry, managerVars>>

AfterInstall == IF platform = "linux" THEN "reload" ELSE IF cmd.loaded THEN "bootout" ELSE "enable"

(* makeSpec, validateSpec, then the definition and the link to it.         *)
installDefinition ==
  /\ At("install")
  /\ \/ Works /\ unit' = cmd.config /\ entry' = TRUE /\ Goto(AfterInstall)
     \/ Fault /\ unit' \in {unit, cmd.config} /\ UNCHANGED entry /\ End("error")
  /\ External /\ UNCHANGED managerVars

(* launchctl bootout: the job is told to end; it is deregistered later.    *)
bootout ==
  /\ At("bootout")
  /\ IF known = 0 THEN Works /\ End("error") /\ UNCHANGED managerVars
     ELSE \/ /\ Works /\ leaving' = TRUE /\ active' = FALSE /\ UNCHANGED <<known, enabled>>
             /\ Goto("poll")
          \/ Fault /\ End("error") /\ UNCHANGED managerVars
  /\ External /\ UNCHANGED <<unit, entry>>

AfterUnload == IF cmd.action = "stop" THEN "remove" ELSE "enable"

(* Mutant: bootout's success is taken for the end of the deregistration.   *)
UnloadWithoutWait ==
  /\ At("poll") /\ Works /\ Goto(AfterUnload)
  /\ External /\ UNCHANGED <<unit, entry, managerVars>>

(* Absence is confirmed by two polls in a row; patience is bounded.        *)
unloadLaunchAgent ==
  /\ At("poll")
  /\ LET absent == IF Loaded THEN 0 ELSE cmd.absent + 1 IN
       \/ /\ Works
          /\ IF absent = 2 THEN Goto(AfterUnload)
             ELSE IF cmd.attempts + 1 = MaxPolls THEN End("timeout")
             ELSE cmd' = [cmd EXCEPT !.absent = absent, !.attempts = @ + 1] /\ UNCHANGED outcome
       \/ Fault /\ End("error")
  /\ External /\ UNCHANGED <<unit, entry, managerVars>>

enable ==
  /\ At("enable")
  /\ \/ Works /\ enabled' = TRUE /\ Goto("bootstrap")
     \/ Fault /\ UNCHANGED enabled /\ End("error")
  /\ External /\ UNCHANGED <<unit, entry, known, active, leaving>>

(* launchctl bootstrap refuses a service that is still registered.         *)
bootstrap ==
  /\ At("bootstrap")
  /\ IF known # 0 THEN Works /\ End("error") /\ UNCHANGED <<known, active>>
     ELSE \/ Works /\ known' = unit /\ active' = TRUE /\ End("ok")
          \/ Fault /\ UNCHANGED <<known, active>> /\ End("error")
  /\ External /\ UNCHANGED <<unit, entry, enabled, leaving>>

(* systemctl daemon-reload; enable; start or restart.                      *)
daemonReload ==
  /\ At("reload")
  /\ \/ Works /\ known' = (IF entry THEN unit ELSE 0) /\ Goto("enableUnit")
     \/ Fault /\ UNCHANGED known /\ End("error")
  /\ External /\ UNCHANGED <<unit, entry, active, enabled, leaving>>

(* Mutant: the unit is started, not enabled.                               *)
SkipEnable ==
  /\ At("enableUnit") /\ Works /\ Goto("activate")
  /\ External /\ UNCHANGED <<unit, entry, managerVars>>

enableUnit ==
  /\ At("enableUnit")
  /\ \/ Works /\ enabled' = TRUE /\ cut' = FALSE /\ Goto("activate")
     \/ Fault /\ UNCHANGED <<enabled, cut>> /\ End("error")
  /\ Others /\ UNCHANGED <<unit, entry, known, active, leaving, proc>>

activate ==
  /\ At("activate")
  /\ \/ /\ Works /\ active' = TRUE /\ End("ok")
        /\ proc' = IF cmd.action = "restart" THEN 0 ELSE proc
     \/ Fault /\ UNCHANGED <<active, proc>> /\ End("error")
  /\ Others /\ UNCHANGED <<unit, entry, known, enabled, leaving, cut>>

(***************************************************************************)
(* systemctl disable --now is three calls of systemctl to the manager: the *)
(* links go, this one's included; the manager reloads; the unit is         *)
(* stopped.  It fails, or is killed with the command, between any two.     *)
(***************************************************************************)
disable ==
  /\ At("disable")
  /\ \/ Works /\ enabled' = FALSE /\ entry' = FALSE /\ Goto("disabled")
     \/ Fault /\ UNCHANGED <<enabled, entry>> /\ End("error")
  /\ External /\ UNCHANGED <<unit, known, active, leaving>>

disabled ==
  /\ At("disabled")
  /\ \/ Works /\ known' = 0 /\ UNCHANGED cut /\ Goto("now")
     \/ Fault /\ cut' = TRUE /\ UNCHANGED known /\ End("error")
  /\ Others /\ UNCHANGED <<unit, entry, active, enabled, leaving, proc>>

now ==
  /\ At("now")
  /\ \/ Works /\ active' = FALSE /\ proc' = 0 /\ cut' = FALSE /\ Goto("remove")
     \/ Fault /\ cut' = TRUE /\ UNCHANGED <<active, proc>> /\ End("error")
  /\ Others /\ UNCHANGED <<unit, entry, known, enabled, leaving>>

removeEntry ==
  /\ At("remove")
  /\ \/ /\ Works /\ entry' = FALSE
        /\ IF platform = "darwin" THEN End("ok") ELSE Goto("stopReload")
     \/ Fault /\ UNCHANGED entry /\ End("error")
  /\ External /\ UNCHANGED <<unit, managerVars>>

stopReload ==
  /\ At("stopReload")
  /\ \/ Works /\ known' = (IF entry THEN unit ELSE 0) /\ End("ok")
     \/ Fault /\ UNCHANGED known /\ End("error")
  /\ External /\ UNCHANGED <<unit, entry, active, enabled, leaving>>

(* Ctrl-C cancels the command's context, and kills the manager command     *)
(* that it runs; the end of the terminal ends it anywhere.                 *)
Interrupt ==
  /\ ~At("idle")
  /\ Fault /\ End("interrupted")
  /\ cut' = (cut \/ At("disabled") \/ At("now"))
  /\ Others /\ UNCHANGED <<unit, entry, managerVars, proc>>

CommandStep ==
  \/ inspect \/ installDefinition \/ bootout \/ unloadLaunchAgent \/ enable \/ bootstrap
  \/ daemonReload \/ enableUnit \/ activate
  \/ disable \/ disabled \/ now \/ removeEntry \/ stopReload

-----------------------------------------------------------------------------
(* The service manager and the user.                                       *)
Deregister ==
  /\ leaving /\ leaving' = FALSE /\ known' = 0 /\ proc' = 0
  /\ UNCHANGED <<platform, config, unit, entry, active, enabled, session, cmd, outcome, cut, bounds>>

(* RunAtLoad and KeepAlive; Restart=always.                                *)
Launch ==
  /\ active /\ known # 0 /\ proc = 0 /\ proc' = known
  /\ UNCHANGED <<platform, config, unit, entry, managerVars, session, cmd, outcome, cut, bounds>>

ProcessExits ==
  /\ proc # 0 /\ exits < MaxExits /\ exits' = exits + 1 /\ proc' = 0
  /\ UNCHANGED <<platform, config, unit, entry, managerVars, session, cmd, outcome, cut,
                 commands, faults, logins>>

Edit ==
  /\ config < MaxConfig /\ config' = config + 1
  /\ UNCHANGED <<platform, unit, entry, managerVars, proc, session, cmd, outcome, cut, bounds>>

(* The session's end takes its services, and a command that runs, with it. *)
Logout ==
  /\ session /\ logins < MaxLogins /\ logins' = logins + 1
  /\ session' = FALSE /\ proc' = 0 /\ known' = 0 /\ active' = FALSE /\ leaving' = FALSE
  /\ cmd' = Idle
  /\ outcome' = IF At("idle") THEN [outcome EXCEPT !.was = FALSE] ELSE NoOutcome
  /\ UNCHANGED <<platform, config, unit, entry, enabled, cut, commands, faults, exits>>

Login ==
  /\ ~session /\ session' = TRUE
  /\ known' = (IF entry THEN unit ELSE 0) /\ active' = (entry /\ enabled)
  /\ UNCHANGED <<platform, config, unit, entry, enabled, leaving, proc, cmd, outcome, cut, bounds>>

Next ==
  \/ \E a \in {"start", "stop", "restart"} : Begin(a)
  \/ CommandStep \/ Interrupt
  \/ Deregister \/ Launch \/ ProcessExits \/ Edit \/ Logout \/ Login

(* The manager starts and deregisters services; users log in again.        *)
Fairness == WF_vars(Launch) /\ WF_vars(Deregister) /\ WF_vars(Login)

Spec == Init /\ [][Next]_vars
FairSpec == Spec /\ Fairness

-----------------------------------------------------------------------------
(* The state's shape: only launchd deregisters slowly, only a registered   *)
(* service, and what the manager knows was written by a command.           *)
TypeOK ==
  /\ platform \in Platforms /\ config \in 1..MaxConfig
  /\ {unit, known, proc} \subseteq 0..MaxConfig
  /\ {entry, active, enabled, leaving, session} \subseteq BOOLEAN
  /\ leaving => platform = "darwin" /\ known # 0 /\ ~active
  /\ entry => unit # 0
  /\ ~session => proc = 0 /\ At("idle")
  /\ cmd.absent \in 0..1 /\ cmd.attempts \in 0..MaxPolls

Succeeded(action) == outcome.how = "ok" /\ outcome.action = action

(***************************************************************************)
(* A stop that reported success holds until the next start or restart: no  *)
(* process runs, not even after a crash of the old one or another login.   *)
(* The exception: `systemctl disable --now` was cut short.  Its links are  *)
(* gone while the process runs, so a second stop finds no such unit,       *)
(* reports success and leaves the process alone (README, 7, h).            *)
(***************************************************************************)
StoppedStaysStopped == Succeeded("stop") => proc = 0 \/ cut

(***************************************************************************)
(* After a restart that reported success, whatever process the manager     *)
(* starts, now or after a crash or a login, has the configuration that the *)
(* restart read, or a later one.                                           *)
(***************************************************************************)
RestartRunsLatest == Succeeded("restart") /\ proc # 0 => proc >= outcome.config

(***************************************************************************)
(* A definition that cannot be written interrupts nothing: the service is  *)
(* as active after the failed command as it was before.                    *)
(***************************************************************************)
FailedInstallInterruptsNothing ==
  (outcome.how = "error" /\ outcome.at = "install" /\ outcome.was) => active

(***************************************************************************)
(* However slowly launchd deregisters, and whatever an interrupted command *)
(* left behind, a command that unloaded the job does not meet its old      *)
(* registration when it bootstraps the new definition.                     *)
(***************************************************************************)
BootstrapMeetsNoRegistration == At("bootstrap") => known = 0

(***************************************************************************)
(* A started service runs, again after a crash and again after a login,    *)
(* until another command is run; unless a start found running what a stop  *)
(* that was cut short had taken out of the login's services.               *)
(***************************************************************************)
StartedServiceRuns ==
  [](Succeeded("start") \/ Succeeded("restart") =>
       <>(proc # 0 \/ cmd.pc # "idle") \/ cut)

(***************************************************************************)
(* The service is as the last successful command left it: stopped, or of   *)
(* the latest definition; and no command interrupts it for an installation *)
(* that fails or starts a job that is still registered.                    *)
(***************************************************************************)
ServiceAsAsked ==
  /\ TypeOK
  /\ StoppedStaysStopped /\ RestartRunsLatest
  /\ FailedInstallInterruptsNothing /\ BootstrapMeetsNoRegistration
=============================================================================
