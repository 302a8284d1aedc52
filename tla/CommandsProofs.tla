---------------------------- MODULE CommandsProofs ----------------------------
(***************************************************************************)
(* Proofs about the components of MCCommands, each for every value of its  *)
(* constants: ServiceLifecycle (here Service), DeviceSetup (here Device)   *)
(* and AdminCredential.                                                    *)
(***************************************************************************)
EXTENDS MCCommands, TLAPS

(***************************************************************************)
(* ServiceLifecycle, for any number of commands, faults, crashes and       *)
(* logins.  The invariant says at each step of a command what the service  *)
(* manager still knows: a command that reached the definition's removal or *)
(* its registration has seen the old registration go.  What it says of a   *)
(* stopped service rests on Whole: no `systemctl disable --now` has been   *)
(* cut short between its calls and left at that.                           *)
(***************************************************************************)
Whole == ~cut

Steps == {"idle", "inspect", "install", "bootout", "poll", "enable", "bootstrap", "reload",
          "enableUnit", "activate", "disable", "disabled", "now", "remove", "stopReload"}
ServiceActions == {"none", "start", "stop", "restart"}
CommandStates == [pc : Steps, action : ServiceActions, config : 0..MaxConfig, loaded : BOOLEAN,
                  was : BOOLEAN, attempts : Nat, absent : 0..1]
Outcomes == [how : {"none", "ok", "error", "timeout", "interrupted"}, action : ServiceActions,
             config : 0..MaxConfig, at : Steps, was : BOOLEAN]

(* The shape.                                                              *)
ManagerShape ==
  /\ unit \in 0..MaxConfig /\ known \in 0..MaxConfig /\ proc \in 0..MaxConfig
  /\ entry \in BOOLEAN /\ active \in BOOLEAN /\ enabled \in BOOLEAN /\ leaving \in BOOLEAN
  /\ cut \in BOOLEAN
ServiceShape ==
  /\ platform \in Platforms /\ config \in 1..MaxConfig /\ session \in BOOLEAN
  /\ ManagerShape
  /\ cmd \in CommandStates /\ outcome \in Outcomes
  /\ cmd.attempts < MaxPolls
  /\ cmd.pc # "idle" => cmd.config # 0 /\ cmd.action # "none"

(* The service manager: a service that runs, or will, is registered.       *)
ManagerInv ==
  /\ leaving => platform = "darwin" /\ known # 0 /\ ~active
  /\ entry => unit # 0
  /\ cut => platform = "linux"
  /\ Whole /\ (active \/ proc # 0) /\ cmd.pc # "now" => known # 0
  /\ ~session => proc = 0 /\ ~active /\ known = 0 /\ ~leaving /\ cmd.pc = "idle" /\ ~outcome.was

(* What a command has done, and found, at each of its steps.               *)
CommandInv ==
  /\ cmd.pc \in {"bootout", "poll", "enable", "bootstrap"} => platform = "darwin"
  /\ cmd.pc \in {"reload", "enableUnit", "activate", "disable", "disabled", "now", "stopReload"} =>
       platform = "linux"
  /\ cmd.pc \in {"install", "enable", "bootstrap", "reload", "enableUnit", "activate"} =>
       cmd.action # "stop"
  /\ cmd.pc \in {"disable", "disabled", "now", "remove", "stopReload"} => cmd.action = "stop"
  /\ cmd.pc \in {"bootout", "poll", "enable", "bootstrap", "reload", "enableUnit", "activate"}
       /\ cmd.action # "stop" => unit = cmd.config /\ entry
  /\ cmd.pc \in {"enableUnit", "activate"} => known = unit
  /\ cmd.pc \in {"enable", "bootstrap"} => known = 0
  /\ cmd.pc = "install" /\ ~cmd.loaded /\ platform = "darwin" => known = 0
  /\ cmd.pc = "remove" /\ platform = "darwin" => known = 0
  /\ Whole /\ cmd.pc \in {"remove", "stopReload"} => ~active /\ proc = 0
  /\ cmd.pc = "stopReload" => ~entry
  /\ cmd.pc \in {"inspect", "install"} /\ cmd.was => active

(* What the last command left.                                             *)
OutcomeInv ==
  /\ outcome.how # "none" => cmd.pc = "idle"
  /\ outcome.how = "ok" /\ outcome.action = "stop" => ~entry /\ (Whole => ~active /\ proc = 0)
  /\ outcome.how = "ok" /\ outcome.action = "restart" =>
       unit = outcome.config /\ known \in {0, unit} /\ proc \in {0, unit}
  /\ outcome.how = "error" /\ outcome.at = "install" /\ outcome.was => active

ServiceInv == ServiceShape /\ ManagerInv /\ CommandInv /\ OutcomeInv

-----------------------------------------------------------------------------
(* What the code and the instances give the constants.                     *)
ServiceConstants ==
  /\ Platforms \subseteq {"darwin", "linux"}
  /\ MaxConfig \in Nat \ {0} /\ MaxPolls \in Nat \ {0}

(* A command moves on to a step, or ends and leaves its outcome.           *)
MovedTo(q) ==
  /\ cmd' \in CommandStates /\ cmd'.pc = q /\ cmd'.action = cmd.action
  /\ cmd'.config = cmd.config /\ cmd'.was = cmd.was /\ outcome' = outcome
Ended(how) ==
  /\ cmd'.pc = "idle" /\ cmd'.attempts = 0 /\ cmd' \in CommandStates /\ outcome' \in Outcomes
  /\ outcome'.how = how /\ outcome'.action = cmd.action /\ outcome'.config = cmd.config
  /\ outcome'.at = cmd.pc /\ outcome'.was = cmd.was

LEMMA CommandMoves ==
  ASSUME NEW q \in Steps, cmd \in CommandStates, Service!Goto(q)
  PROVE  MovedTo(q) /\ cmd'.loaded = cmd.loaded /\ cmd'.attempts = cmd.attempts
<1>1. cmd' = [pc |-> q, action |-> cmd.action, config |-> cmd.config, loaded |-> cmd.loaded,
              was |-> cmd.was, attempts |-> cmd.attempts, absent |-> cmd.absent]
  BY DEF Service!Goto, CommandStates
<1> QED BY <1>1 DEF Service!Goto, CommandStates, MovedTo

LEMMA CommandEnds ==
  ASSUME NEW how \in {"ok", "error", "timeout", "interrupted"}, ServiceConstants,
         cmd \in CommandStates, Service!End(how)
  PROVE  Ended(how)
BY DEF Service!End, Service!Idle, CommandStates, Outcomes, Ended, Steps, ServiceActions,
       ServiceConstants

-----------------------------------------------------------------------------
(* The parts that a command's steps share.                                 *)
UnchangedButCommand == UNCHANGED <<platform, config, unit, entry, known, active, enabled, leaving,
                                   proc, session>>

(* A command is run in a session, and the outcome of the last is gone.     *)
LEMMA AtWork ==
  ASSUME ServiceConstants, ServiceInv, cmd.pc # "idle"
  PROVE  /\ session = TRUE /\ outcome.how = "none" /\ cmd.config \in 1..MaxConfig
         /\ cmd \in CommandStates /\ cmd.pc \in Steps /\ cmd.action \in ServiceActions \ {"none"}
         /\ cmd.loaded \in BOOLEAN /\ cmd.was \in BOOLEAN /\ cmd.attempts \in 0..MaxPolls
<1>1. cmd \in CommandStates /\ outcome.how = "none" /\ session = TRUE
  BY DEF ServiceInv, ServiceShape, ManagerInv, OutcomeInv
<1>2. cmd.config \in 0..MaxConfig /\ cmd.config # 0 /\ cmd.attempts \in Nat /\ cmd.attempts < MaxPolls
      /\ MaxConfig \in Nat /\ MaxPolls \in Nat
  BY <1>1 DEF CommandStates, ServiceInv, ServiceShape, ServiceConstants
<1> QED BY <1>1, <1>2 DEF CommandStates, ServiceInv, ServiceShape

(* A command that fails, or is interrupted, having changed nothing.        *)
LEMMA FailureKeepsInv ==
  ASSUME ServiceConstants, ServiceInv, cmd.pc # "idle",
         cut' \in {cut, TRUE}, cmd.pc = "now" => cut', cut' => cut \/ platform = "linux",
         NEW how \in {"error", "timeout", "interrupted"}, Service!End(how), UnchangedButCommand
  PROVE  ServiceInv'
<1>1. Ended(how) /\ (Whole' => Whole) /\ cut' \in BOOLEAN /\ (Whole' => cmd.pc # "now")
  BY AtWork, CommandEnds DEF UnchangedButCommand, Whole, ServiceInv, ServiceShape, ManagerShape
<1>2. ServiceShape'
  BY <1>1 DEF Ended, UnchangedButCommand, ServiceInv, ServiceShape, ManagerShape, ServiceConstants
<1>3. ManagerInv'
  BY <1>1, AtWork DEF Ended, UnchangedButCommand, ServiceInv, ManagerInv
<1>4. CommandInv'
  BY <1>1 DEF Ended, CommandInv
<1>5. OutcomeInv'
  BY <1>1 DEF Ended, UnchangedButCommand, ServiceInv, OutcomeInv, CommandInv
<1> QED BY <1>2, <1>3, <1>4, <1>5 DEF ServiceInv

(* A command that goes on: what is left to show of the step.               *)
LEMMA MoveKeepsShape ==
  ASSUME ServiceConstants, ServiceInv, cmd.pc # "idle", NEW q \in Steps \ {"idle"}, MovedTo(q),
         cmd'.attempts < MaxPolls, UNCHANGED <<platform, config, session>>,
         ManagerShape',
         ManagerInv', CommandInv'
  PROVE  ServiceInv'
<1>1. ServiceShape'
  BY AtWork DEF MovedTo, ServiceInv, ServiceShape
<1>2. OutcomeInv'
  BY AtWork DEF MovedTo, OutcomeInv
<1> QED BY <1>1, <1>2 DEF ServiceInv

(* A step that writes one thing and goes on.                               *)
LEMMA MoveOnly ==
  ASSUME ServiceConstants, ServiceInv, cmd.pc # "idle", NEW q \in Steps \ {"idle"},
         Service!Goto(q), UNCHANGED <<platform, config, session>>,
         ManagerShape',
         MovedTo(q) => ManagerInv' /\ CommandInv'
  PROVE  ServiceInv'
<1>1. MovedTo(q) /\ cmd'.attempts = cmd.attempts
  BY AtWork, CommandMoves
<1>2. cmd'.attempts < MaxPolls
  BY <1>1 DEF ServiceInv, ServiceShape
<1> QED BY <1>1, <1>2, MoveKeepsShape

(* A command that ends.                                                    *)
LEMMA EndOnly ==
  ASSUME ServiceConstants, ServiceInv, cmd.pc # "idle",
         NEW how \in {"ok", "error", "timeout", "interrupted"},
         Service!End(how), UNCHANGED <<platform, config, session>>,
         ManagerShape',
         Ended(how) => ManagerInv' /\ OutcomeInv'
  PROVE  ServiceInv'
<1>1. Ended(how)
  BY AtWork, CommandEnds
<1>2. ServiceShape'
  BY <1>1 DEF Ended, ServiceInv, ServiceShape, ServiceConstants
<1>3. CommandInv'
  BY <1>1 DEF Ended, CommandInv
<1> QED BY <1>1, <1>2, <1>3 DEF ServiceInv

-----------------------------------------------------------------------------
(* Each step of a command keeps the invariant.                             *)
LEMMA enableKeepsInv == ASSUME ServiceConstants, ServiceInv, Service!enable PROVE ServiceInv'
<1>1. cmd.pc = "enable" /\ UNCHANGED <<platform, config, session>>
  BY DEF Service!enable, Service!At, Service!External, Service!Others
<1>2. CASE Service!Works /\ enabled' = TRUE /\ Service!Goto("bootstrap")
  <2>1. ASSUME MovedTo("bootstrap") PROVE ManagerInv' /\ CommandInv'
    BY <1>1, <1>2, <2>1, AtWork
    DEF Service!enable, Service!External, Service!Others, Service!managerVars, MovedTo, Whole, ServiceConstants,
        ServiceInv, ServiceShape, ManagerShape, ManagerInv, CommandInv
  <2>2. ManagerShape'
    BY <1>1, <1>2
    DEF Service!enable, Service!External, Service!Others, Service!managerVars, ServiceConstants, ServiceInv,
        ServiceShape, ManagerShape
  <2> QED
    BY <1>1, <1>2, <2>1, <2>2, MoveOnly DEF Steps
<1>3. CASE Service!Fault /\ UNCHANGED enabled /\ Service!End("error")
  BY <1>1, <1>3, FailureKeepsInv
  DEF Service!enable, Service!External, Service!Others, Service!managerVars, UnchangedButCommand, Whole
<1> QED BY <1>2, <1>3 DEF Service!enable

LEMMA daemonReloadKeepsInv == ASSUME ServiceConstants, ServiceInv, Service!daemonReload PROVE ServiceInv'
<1>1. cmd.pc = "reload" /\ UNCHANGED <<platform, config, session>>
  BY DEF Service!daemonReload, Service!At, Service!External, Service!Others
<1>2. CASE Service!Works /\ known' = (IF entry THEN unit ELSE 0) /\ Service!Goto("enableUnit")
  <2>1. ASSUME MovedTo("enableUnit") PROVE ManagerInv' /\ CommandInv'
    BY <1>1, <1>2, <2>1, AtWork
    DEF Service!daemonReload, Service!External, Service!Others, Service!managerVars, MovedTo, Whole,
       ServiceConstants,
        ServiceInv, ServiceShape, ManagerShape, ManagerInv, CommandInv
  <2>2. ManagerShape'
    BY <1>1, <1>2
    DEF Service!daemonReload, Service!External, Service!Others, Service!managerVars, ServiceConstants, ServiceInv,
        ServiceShape, ManagerShape
  <2> QED
    BY <1>1, <1>2, <2>1, <2>2, MoveOnly DEF Steps
<1>3. CASE Service!Fault /\ UNCHANGED known /\ Service!End("error")
  BY <1>1, <1>3, FailureKeepsInv
  DEF Service!daemonReload, Service!External, Service!Others, Service!managerVars, UnchangedButCommand, Whole
<1> QED BY <1>2, <1>3 DEF Service!daemonReload

LEMMA enableUnitKeepsInv == ASSUME ServiceConstants, ServiceInv, Service!enableUnit PROVE ServiceInv'
<1>1. cmd.pc = "enableUnit" /\ UNCHANGED <<platform, config, session>>
  BY DEF Service!enableUnit, Service!At, Service!External, Service!Others
<1>2. CASE Service!Works /\ enabled' = TRUE /\ cut' = FALSE /\ Service!Goto("activate")
  <2>1. ASSUME MovedTo("activate") PROVE ManagerInv' /\ CommandInv'
    BY <1>1, <1>2, <2>1, AtWork
    DEF Service!enableUnit, Service!External, Service!Others, Service!managerVars, MovedTo, Whole, ServiceConstants,
        ServiceInv, ServiceShape, ManagerShape, ManagerInv, CommandInv
  <2>2. ManagerShape'
    BY <1>1, <1>2
    DEF Service!enableUnit, Service!External, Service!Others, Service!managerVars, ServiceConstants, ServiceInv,
        ServiceShape, ManagerShape
  <2> QED
    BY <1>1, <1>2, <2>1, <2>2, MoveOnly DEF Steps
<1>3. CASE Service!Fault /\ UNCHANGED <<enabled, cut>> /\ Service!End("error")
  BY <1>1, <1>3, FailureKeepsInv
  DEF Service!enableUnit, Service!External, Service!Others, Service!managerVars, UnchangedButCommand, Whole
<1> QED BY <1>2, <1>3 DEF Service!enableUnit

LEMMA disableKeepsInv == ASSUME ServiceConstants, ServiceInv, Service!disable PROVE ServiceInv'
<1>1. cmd.pc = "disable" /\ UNCHANGED <<platform, config, session>>
  BY DEF Service!disable, Service!At, Service!External, Service!Others
<1>2. CASE Service!Works /\ enabled' = FALSE /\ entry' = FALSE /\ Service!Goto("disabled")
  <2>1. ASSUME MovedTo("disabled") PROVE ManagerInv' /\ CommandInv'
    BY <1>1, <1>2, <2>1, AtWork
    DEF Service!disable, Service!External, Service!Others, Service!managerVars, MovedTo, Whole, ServiceConstants,
        ServiceInv, ServiceShape, ManagerShape, ManagerInv, CommandInv
  <2>2. ManagerShape'
    BY <1>1, <1>2
    DEF Service!disable, Service!External, Service!Others, Service!managerVars, ServiceConstants, ServiceInv,
        ServiceShape, ManagerShape
  <2> QED
    BY <1>1, <1>2, <2>1, <2>2, MoveOnly DEF Steps
<1>3. CASE Service!Fault /\ UNCHANGED <<enabled, entry>> /\ Service!End("error")
  BY <1>1, <1>3, FailureKeepsInv
  DEF Service!disable, Service!External, Service!Others, Service!managerVars, UnchangedButCommand, Whole
<1> QED BY <1>2, <1>3 DEF Service!disable

LEMMA disabledKeepsInv == ASSUME ServiceConstants, ServiceInv, Service!disabled PROVE ServiceInv'
<1>1. cmd.pc = "disabled" /\ UNCHANGED <<platform, config, session>>
  BY DEF Service!disabled, Service!At, Service!External, Service!Others
<1>2. CASE Service!Works /\ known' = 0 /\ UNCHANGED cut /\ Service!Goto("now")
  <2>1. ASSUME MovedTo("now") PROVE ManagerInv' /\ CommandInv'
    BY <1>1, <1>2, <2>1, AtWork
    DEF Service!disabled, Service!External, Service!Others, Service!managerVars, MovedTo, Whole, ServiceConstants,
        ServiceInv, ServiceShape, ManagerShape, ManagerInv, CommandInv
  <2>2. ManagerShape'
    BY <1>1, <1>2
    DEF Service!disabled, Service!External, Service!Others, Service!managerVars, ServiceConstants, ServiceInv,
        ServiceShape, ManagerShape
  <2> QED
    BY <1>1, <1>2, <2>1, <2>2, MoveOnly DEF Steps
<1>3. CASE Service!Fault /\ cut' = TRUE /\ UNCHANGED known /\ Service!End("error")
  BY <1>1, <1>3, FailureKeepsInv
  DEF Service!disabled, Service!External, Service!Others, Service!managerVars, UnchangedButCommand,
      Whole, ServiceInv, CommandInv
<1> QED BY <1>2, <1>3 DEF Service!disabled

LEMMA nowKeepsInv == ASSUME ServiceConstants, ServiceInv, Service!now PROVE ServiceInv'
<1>0. ManagerShape /\ MaxConfig \in Nat
  BY DEF ServiceConstants, ServiceInv, ServiceShape
<1>1. cmd.pc = "now" /\ UNCHANGED <<platform, config, session>>
      /\ UNCHANGED <<unit, known, entry, enabled, leaving>>
  BY DEF Service!now, Service!At, Service!External, Service!Others, Service!managerVars
<1>2. CASE Service!Works /\ active' = FALSE /\ proc' = 0 /\ cut' = FALSE /\ Service!Goto("remove")
  <2>1. ASSUME MovedTo("remove") PROVE ManagerInv' /\ CommandInv'
    BY <1>1, <1>2, <2>1, AtWork
    DEF Service!now, Service!External, Service!Others, Service!managerVars, MovedTo, Whole, ServiceConstants,
        ServiceInv, ServiceShape, ManagerShape, ManagerInv, CommandInv
  <2>2. ManagerShape'
    <3>1. active' \in BOOLEAN
      BY <1>2
    <3>2. proc' \in 0..MaxConfig
      BY <1>0, <1>2
    <3>3. unit' \in 0..MaxConfig
      BY <1>0, <1>1 DEF ManagerShape
    <3>4. known' \in 0..MaxConfig
      BY <1>0, <1>1 DEF ManagerShape
    <3>5. entry' \in BOOLEAN /\ enabled' \in BOOLEAN /\ leaving' \in BOOLEAN
      BY <1>0, <1>1 DEF ManagerShape
    <3>6. cut' \in BOOLEAN
      BY <1>2
    <3> QED BY <3>1, <3>2, <3>3, <3>4, <3>5, <3>6 DEF ManagerShape
  <2> QED
    BY <1>1, <1>2, <2>1, <2>2, MoveOnly DEF Steps
<1>3. CASE Service!Fault /\ cut' = TRUE /\ UNCHANGED <<active, proc>> /\ Service!End("error")
  BY <1>1, <1>3, FailureKeepsInv
  DEF Service!now, Service!External, Service!Others, Service!managerVars, UnchangedButCommand, Whole, ServiceInv,
     CommandInv
<1> QED BY <1>2, <1>3 DEF Service!now

LEMMA installDefinitionKeepsInv == ASSUME ServiceConstants, ServiceInv, Service!installDefinition PROVE ServiceInv'
<1>0. ManagerShape /\ MaxConfig \in Nat
  BY DEF ServiceConstants, ServiceInv, ServiceShape
<1>1. cmd.pc = "install" /\ UNCHANGED <<platform, config, session>>
      /\ UNCHANGED <<known, active, enabled, leaving, proc, cut>>
  BY DEF Service!installDefinition, Service!At, Service!External, Service!Others, Service!managerVars
<1>2. Service!AfterInstall \in Steps \ {"idle"}
  BY DEF Service!AfterInstall, Steps
<1>3. CASE Service!Works /\ unit' = cmd.config /\ entry' = TRUE /\ Service!Goto(Service!AfterInstall)
  <2>1. ASSUME MovedTo(Service!AfterInstall) PROVE ManagerInv' /\ CommandInv'
    <3>1. cmd'.pc = Service!AfterInstall /\ cmd'.action = cmd.action /\ cmd'.config = cmd.config
      BY <2>1 DEF MovedTo
    <3> QED
      BY <1>1, <1>3, <3>1, AtWork
      DEF Service!installDefinition, Service!External, Service!Others, Service!managerVars, Whole,
          ServiceConstants, ServiceInv, ServiceShape, ManagerShape, ManagerInv, CommandInv, Service!AfterInstall
  <2>2. ManagerShape'
    BY <1>0, <1>1, <1>3, AtWork DEF ManagerShape
  <2> QED
    BY <1>1, <1>2, <1>3, <2>1, <2>2, MoveOnly
<1>4. CASE unit' \in {unit, cmd.config} /\ UNCHANGED entry /\ Service!End("error")
  <2>1. ASSUME Ended("error") PROVE ManagerInv' /\ OutcomeInv'
    BY <1>1, <1>4, <2>1, AtWork
    DEF Service!installDefinition, Service!External, Service!Others, Service!managerVars, Ended, Whole,
       ServiceConstants,
        ServiceInv, ServiceShape, ManagerShape, ManagerInv, CommandInv, OutcomeInv
  <2>2. ManagerShape'
    BY <1>0, <1>1, <1>4, AtWork DEF ManagerShape
  <2> QED
    BY <1>1, <1>4, <2>1, <2>2, EndOnly
<1> QED BY <1>3, <1>4 DEF Service!installDefinition

LEMMA bootoutKeepsInv == ASSUME ServiceConstants, ServiceInv, Service!bootout PROVE ServiceInv'
<1>1. cmd.pc = "bootout" /\ UNCHANGED <<platform, config, session>>
  BY DEF Service!bootout, Service!At, Service!External, Service!Others
<1>2. CASE known # 0 /\ Service!Works /\ leaving' = TRUE /\ active' = FALSE /\ UNCHANGED <<known, enabled>> /\ Service!Goto("poll")
  <2>1. ASSUME MovedTo("poll") PROVE ManagerInv' /\ CommandInv'
    BY <1>1, <1>2, <2>1, AtWork
    DEF Service!bootout, Service!External, Service!Others, Service!managerVars, MovedTo, Whole, ServiceConstants,
        ServiceInv, ServiceShape, ManagerShape, ManagerInv, CommandInv
  <2>2. ManagerShape'
    BY <1>1, <1>2, AtWork
    DEF Service!bootout, Service!External, Service!Others, Service!managerVars, ServiceConstants, ServiceInv,
        ServiceShape, ManagerShape
  <2> QED
    BY <1>1, <1>2, <2>1, <2>2, MoveOnly DEF Steps
<1>3. CASE UNCHANGED Service!managerVars /\ Service!End("error")
  BY <1>1, <1>3, FailureKeepsInv
  DEF Service!bootout, Service!External, Service!Others, Service!managerVars, UnchangedButCommand
<1> QED BY <1>2, <1>3 DEF Service!bootout

LEMMA bootstrapKeepsInv == ASSUME ServiceConstants, ServiceInv, Service!bootstrap PROVE ServiceInv'
<1>1. cmd.pc = "bootstrap" /\ UNCHANGED <<platform, config, session>>
  BY DEF Service!bootstrap, Service!At, Service!External, Service!Others
<1>2. CASE UNCHANGED <<known, active>> /\ Service!End("error")
  BY <1>1, <1>2, FailureKeepsInv
  DEF Service!bootstrap, Service!External, Service!Others, Service!managerVars, UnchangedButCommand
<1>3. CASE known = 0 /\ known' = unit /\ active' = TRUE /\ Service!End("ok")
  <2>1. ASSUME Ended("ok") PROVE ManagerInv' /\ OutcomeInv'
    <3>1. /\ UNCHANGED <<unit, entry, enabled, leaving, proc, cut>>
          /\ unit # 0 /\ entry /\ unit = cmd.config /\ cmd.action # "stop"
      BY <1>1, <1>3, AtWork
      DEF Service!bootstrap, Service!External, Service!Others, ServiceInv, ManagerInv, CommandInv
    <3>2. ManagerInv'
      BY <1>1, <1>3, <2>1, <3>1, AtWork DEF Ended, ServiceInv, ManagerInv
    <3>3. proc = 0
      BY <1>1, <1>3 DEF ServiceInv, ManagerInv, CommandInv, Whole
    <3>4. OutcomeInv'
      BY <1>1, <1>3, <2>1, <3>1, <3>3, AtWork DEF Ended, OutcomeInv
    <3> QED BY <3>2, <3>4
  <2>2. ManagerShape'
    BY <1>1, <1>3, AtWork
    DEF Service!bootstrap, Service!External, Service!Others, Service!managerVars, ServiceConstants, ServiceInv,
        ServiceShape, ManagerShape
  <2> QED
    BY <1>1, <1>3, <2>1, <2>2, EndOnly
<1> QED BY <1>2, <1>3 DEF Service!bootstrap

LEMMA activateKeepsInv == ASSUME ServiceConstants, ServiceInv, Service!activate PROVE ServiceInv'
<1>1. cmd.pc = "activate" /\ UNCHANGED <<platform, config, session>>
  BY DEF Service!activate, Service!At, Service!External, Service!Others
<1>2. CASE active' = TRUE /\ (proc' = IF cmd.action = "restart" THEN 0 ELSE proc) /\ Service!End("ok")
  <2>1. ASSUME Ended("ok") PROVE ManagerInv' /\ OutcomeInv'
    BY <1>1, <1>2, <2>1, AtWork
    DEF Service!activate, Service!External, Service!Others, Service!managerVars, Ended, Whole, ServiceConstants,
        ServiceInv, ServiceShape, ManagerShape, ManagerInv, CommandInv, OutcomeInv
  <2>2. ManagerShape'
    BY <1>1, <1>2, AtWork
    DEF Service!activate, Service!External, Service!Others, Service!managerVars, ServiceConstants, ServiceInv,
        ServiceShape, ManagerShape
  <2> QED
    BY <1>1, <1>2, <2>1, <2>2, EndOnly
<1>3. CASE UNCHANGED <<active, proc>> /\ Service!End("error")
  BY <1>1, <1>3, FailureKeepsInv
  DEF Service!activate, Service!External, Service!Others, Service!managerVars, UnchangedButCommand
<1> QED BY <1>2, <1>3 DEF Service!activate

LEMMA removeEntryKeepsInv == ASSUME ServiceConstants, ServiceInv, Service!removeEntry PROVE ServiceInv'
<1>1. cmd.pc = "remove" /\ UNCHANGED <<platform, config, session>>
  BY DEF Service!removeEntry, Service!At, Service!External, Service!Others
<1>2. CASE platform = "darwin" /\ entry' = FALSE /\ Service!End("ok")
  <2>1. ASSUME Ended("ok") PROVE ManagerInv' /\ OutcomeInv'
    BY <1>1, <1>2, <2>1, AtWork
    DEF Service!removeEntry, Service!External, Service!Others, Service!managerVars, Ended, Whole, ServiceConstants,
        ServiceInv, ServiceShape, ManagerShape, ManagerInv, CommandInv, OutcomeInv
  <2>2. ManagerShape'
    BY <1>1, <1>2, AtWork
    DEF Service!removeEntry, Service!External, Service!Others, Service!managerVars, ServiceConstants, ServiceInv,
        ServiceShape, ManagerShape
  <2> QED
    BY <1>1, <1>2, <2>1, <2>2, EndOnly
<1>3. CASE platform # "darwin" /\ entry' = FALSE /\ Service!Goto("stopReload")
  <2>1. ASSUME MovedTo("stopReload") PROVE ManagerInv' /\ CommandInv'
    BY <1>1, <1>3, <2>1, AtWork
    DEF Service!removeEntry, Service!External, Service!Others, Service!managerVars, MovedTo, Whole,
       ServiceConstants,
        ServiceInv, ServiceShape, ManagerShape, ManagerInv, CommandInv
  <2>2. ManagerShape'
    BY <1>1, <1>3, AtWork
    DEF Service!removeEntry, Service!External, Service!Others, Service!managerVars, ServiceConstants, ServiceInv,
        ServiceShape, ManagerShape
  <2> QED
    BY <1>1, <1>3, <2>1, <2>2, MoveOnly DEF Steps
<1>4. CASE UNCHANGED entry /\ Service!End("error")
  BY <1>1, <1>4, FailureKeepsInv
  DEF Service!removeEntry, Service!External, Service!Others, Service!managerVars, UnchangedButCommand
<1> QED BY <1>2, <1>3, <1>4 DEF Service!removeEntry

LEMMA stopReloadKeepsInv == ASSUME ServiceConstants, ServiceInv, Service!stopReload PROVE ServiceInv'
<1>1. cmd.pc = "stopReload" /\ UNCHANGED <<platform, config, session>>
  BY DEF Service!stopReload, Service!At, Service!External, Service!Others
<1>2. CASE known' = (IF entry THEN unit ELSE 0) /\ Service!End("ok")
  <2>1. ASSUME Ended("ok") PROVE ManagerInv' /\ OutcomeInv'
    BY <1>1, <1>2, <2>1, AtWork
    DEF Service!stopReload, Service!External, Service!Others, Service!managerVars, Ended, Whole, ServiceConstants,
        ServiceInv, ServiceShape, ManagerShape, ManagerInv, CommandInv, OutcomeInv
  <2>2. ManagerShape'
    BY <1>1, <1>2, AtWork
    DEF Service!stopReload, Service!External, Service!Others, Service!managerVars, ServiceConstants, ServiceInv,
        ServiceShape, ManagerShape
  <2> QED
    BY <1>1, <1>2, <2>1, <2>2, EndOnly
<1>3. CASE UNCHANGED known /\ Service!End("error")
  BY <1>1, <1>3, FailureKeepsInv
  DEF Service!stopReload, Service!External, Service!Others, Service!managerVars, UnchangedButCommand
<1> QED BY <1>2, <1>3 DEF Service!stopReload
LEMMA inspectKeepsInv == ASSUME ServiceConstants, ServiceInv, Service!inspect PROVE ServiceInv'
<1>0. ManagerShape /\ MaxConfig \in Nat /\ cmd \in CommandStates /\ platform \in {"darwin", "linux"}
      /\ Service!Loaded \in BOOLEAN
  BY DEF ServiceConstants, ServiceInv, ServiceShape, Service!Loaded, ManagerShape
<1>1. cmd.pc = "inspect" /\ UNCHANGED <<platform, config, session>>
      /\ UNCHANGED <<unit, entry, known, active, enabled, leaving, proc, cut>>
  BY DEF Service!inspect, Service!At, Service!External, Service!Others, Service!managerVars
<1>2. ManagerShape'
  BY <1>0, <1>1 DEF ManagerShape
<1>3. CASE Service!End("ok")
  <2>1. cmd.action = "start"
    BY <1>0, <1>1, <1>3 DEF Service!inspect, Service!End, Service!Idle, CommandStates
  <2>2. ASSUME Ended("ok") PROVE ManagerInv' /\ OutcomeInv'
    BY <1>1, <2>1, <2>2, AtWork DEF Ended, Whole, ServiceInv, ManagerInv, OutcomeInv
  <2> QED
    BY <1>1, <1>2, <1>3, <2>2, EndOnly
<1>4. CASE cmd.action = "stop"
  <2> DEFINE q == IF ~Service!Loaded THEN "remove"
                  ELSE IF platform = "darwin" THEN "bootout" ELSE "disable"
  <2>1. cmd' = [cmd EXCEPT !.loaded = Service!Loaded, !.pc = q] /\ UNCHANGED outcome
    BY <1>4 DEF Service!inspect
  <2>2. cmd' = [pc |-> q, action |-> cmd.action, config |-> cmd.config, loaded |-> Service!Loaded,
                was |-> cmd.was, attempts |-> cmd.attempts, absent |-> cmd.absent]
    BY <1>0, <2>1 DEF CommandStates
  <2>3. q \in Steps \ {"idle"}
    BY DEF Steps
  <2>4. MovedTo(q) /\ cmd'.attempts = cmd.attempts
    BY <1>0, <2>1, <2>2, <2>3 DEF MovedTo, CommandStates
  <2>5. ManagerInv' /\ CommandInv'
    BY <1>0, <1>1, <1>4, <2>4, AtWork
    DEF MovedTo, Whole, ServiceInv, ManagerInv, CommandInv, Service!Loaded, ManagerShape
  <2>6. cmd'.attempts < MaxPolls
    BY <2>4 DEF ServiceInv, ServiceShape
  <2> QED BY <1>1, <1>2, <2>3, <2>4, <2>5, <2>6, MoveKeepsShape
<1>5. CASE cmd.action # "stop" /\ ~Service!End("ok")
  <2>1. cmd' = [cmd EXCEPT !.loaded = Service!Loaded, !.pc = "install"] /\ UNCHANGED outcome
    BY <1>5 DEF Service!inspect
  <2>2. cmd' = [pc |-> "install", action |-> cmd.action, config |-> cmd.config,
                loaded |-> Service!Loaded, was |-> cmd.was, attempts |-> cmd.attempts,
                absent |-> cmd.absent]
    BY <1>0, <2>1 DEF CommandStates
  <2>3. MovedTo("install") /\ cmd'.attempts = cmd.attempts /\ cmd'.loaded = Service!Loaded
    BY <1>0, <2>1, <2>2 DEF MovedTo, CommandStates, Steps
  <2>4. ManagerInv' /\ CommandInv'
    BY <1>0, <1>1, <1>5, <2>3, AtWork
    DEF MovedTo, Whole, ServiceInv, ManagerInv, CommandInv, Service!Loaded, ManagerShape
  <2>5. cmd'.attempts < MaxPolls
    BY <2>3 DEF ServiceInv, ServiceShape
  <2>6. "install" \in Steps \ {"idle"}
    BY DEF Steps
  <2> QED BY <1>1, <1>2, <2>3, <2>4, <2>5, <2>6, MoveKeepsShape
<1> QED BY <1>3, <1>4, <1>5

LEMMA unloadLaunchAgentKeepsInv ==
  ASSUME ServiceConstants, ServiceInv, Service!unloadLaunchAgent PROVE ServiceInv'
<1>0. ManagerShape /\ MaxConfig \in Nat /\ cmd \in CommandStates /\ platform \in {"darwin", "linux"}
      /\ MaxPolls \in Nat /\ cmd.attempts < MaxPolls
  BY DEF ServiceConstants, ServiceInv, ServiceShape
<1>1. cmd.pc = "poll" /\ UNCHANGED <<platform, config, session>>
      /\ UNCHANGED <<unit, entry, known, active, enabled, leaving, proc, cut>>
  BY DEF Service!unloadLaunchAgent, Service!At, Service!External, Service!Others, Service!managerVars
<1>2. ManagerShape' /\ platform = "darwin"
  BY <1>0, <1>1 DEF ManagerShape, ServiceInv, CommandInv
<1>3. PICK absent \in 0..2 :
        /\ absent = (IF Service!Loaded THEN 0 ELSE cmd.absent + 1)
        /\ \/ absent = 2 /\ Service!Goto(Service!AfterUnload)
           \/ absent # 2 /\ cmd.attempts + 1 = MaxPolls /\ Service!End("timeout")
           \/ /\ absent # 2 /\ cmd.attempts + 1 # MaxPolls
              /\ cmd' = [cmd EXCEPT !.absent = absent, !.attempts = @ + 1] /\ UNCHANGED outcome
           \/ Service!End("error")
  <2> DEFINE a == IF Service!Loaded THEN 0 ELSE cmd.absent + 1
  <2>1. a \in 0..2
    BY <1>0 DEF CommandStates
  <2> QED BY <2>1 DEF Service!unloadLaunchAgent
<1>4. CASE absent = 2 /\ Service!Goto(Service!AfterUnload)
  <2>1. known = 0 /\ Service!AfterUnload \in Steps \ {"idle"}
    BY <1>0, <1>2, <1>3, <1>4 DEF Service!Loaded, Service!AfterUnload, Steps
  <2>2. ASSUME MovedTo(Service!AfterUnload) PROVE ManagerInv' /\ CommandInv'
    <3>1. cmd'.pc = (IF cmd.action = "stop" THEN "remove" ELSE "enable")
          /\ cmd'.action = cmd.action /\ cmd'.config = cmd.config
      BY <2>2 DEF MovedTo, Service!AfterUnload
    <3> QED
      BY <1>0, <1>1, <1>2, <2>1, <3>1, AtWork
      DEF Whole, ServiceInv, ManagerInv, CommandInv, ManagerShape
  <2> QED BY <1>1, <1>2, <1>4, <2>1, <2>2, MoveOnly
<1>5. CASE \E how \in {"timeout", "error"} : Service!End(how)
  BY <1>1, <1>5, FailureKeepsInv DEF UnchangedButCommand
<1>6. CASE /\ cmd.attempts + 1 # MaxPolls
           /\ cmd' = [cmd EXCEPT !.absent = absent, !.attempts = @ + 1] /\ UNCHANGED outcome
           /\ absent # 2
  <2>1. cmd' = [pc |-> cmd.pc, action |-> cmd.action, config |-> cmd.config, loaded |-> cmd.loaded,
                was |-> cmd.was, attempts |-> cmd.attempts + 1, absent |-> absent]
    BY <1>0, <1>6 DEF CommandStates
  <2>2. absent \in 0..1
    BY <1>3, <1>6
  <2>3. cmd' \in CommandStates
    BY <1>0, <2>1, <2>2 DEF CommandStates
  <2>4. MovedTo("poll") /\ cmd'.attempts = cmd.attempts + 1
    BY <1>1, <1>6, <2>1, <2>3 DEF MovedTo
  <2>5. cmd'.attempts < MaxPolls /\ "poll" \in Steps \ {"idle"}
    BY <1>0, <1>6, <2>4 DEF CommandStates, Steps
  <2>6. ManagerInv' /\ CommandInv'
    BY <1>0, <1>1, <1>2, <2>4, AtWork
    DEF MovedTo, Whole, ServiceInv, ManagerInv, CommandInv, ManagerShape
  <2> QED BY <1>1, <1>2, <2>4, <2>5, <2>6, MoveKeepsShape
<1> QED BY <1>3, <1>4, <1>5, <1>6

(* Ctrl-C, and the next command.                                           *)
LEMMA InterruptKeepsInv == ASSUME ServiceConstants, ServiceInv, Service!Interrupt PROVE ServiceInv'
<1>1. /\ cmd.pc # "idle" /\ Service!End("interrupted") /\ UnchangedButCommand
      /\ cut' = (cut \/ cmd.pc = "disabled" \/ cmd.pc = "now")
  BY DEF Service!Interrupt, Service!Others, Service!At, Service!managerVars, UnchangedButCommand
<1>2. cut' \in {cut, TRUE} /\ (cmd.pc = "now" => cut') /\ (cut' => cut \/ platform = "linux")
  BY <1>1 DEF ServiceInv, ServiceShape, ManagerShape, CommandInv
<1> QED BY <1>1, <1>2, FailureKeepsInv

LEMMA BeginKeepsInv ==
  ASSUME ServiceConstants, ServiceInv, NEW action \in {"start", "stop", "restart"}, Service!Begin(action)
  PROVE  ServiceInv'
<1>0. ManagerShape /\ MaxConfig \in Nat /\ MaxPolls \in Nat \ {0} /\ platform \in Platforms
      /\ config \in 1..MaxConfig /\ session \in BOOLEAN
  BY DEF ServiceConstants, ServiceInv, ServiceShape
<1>1. cmd.pc = "idle" /\ session /\ UNCHANGED <<platform, config, session>>
      /\ UNCHANGED <<unit, entry, known, active, enabled, leaving, proc, cut>>
  BY DEF Service!Begin, Service!At, Service!managerVars
<1>2. cmd' = [pc |-> "inspect", action |-> action, config |-> config, loaded |-> FALSE,
              was |-> active, attempts |-> 0, absent |-> 0]
  BY DEF Service!Begin, Service!Idle
<1>3. outcome' = [how |-> "none", action |-> "none", config |-> 0, at |-> "idle", was |-> FALSE]
  BY DEF Service!Begin, Service!NoOutcome
<1>4. cmd' \in CommandStates
  BY <1>0, <1>2 DEF CommandStates, Steps, ServiceActions, ManagerShape
<1>5. outcome' \in Outcomes
  BY <1>0, <1>3 DEF Outcomes, Steps, ServiceActions
<1>6. ManagerShape'
  BY <1>0, <1>1 DEF ManagerShape
<1>7. ServiceShape'
  BY <1>0, <1>1, <1>2, <1>4, <1>5, <1>6 DEF ServiceShape
<1>8. ManagerInv'
  BY <1>1, <1>2, <1>3 DEF ManagerInv, ServiceInv, Whole
<1>9. CommandInv' /\ OutcomeInv'
  BY <1>1, <1>2, <1>3 DEF CommandInv, OutcomeInv
<1> QED BY <1>7, <1>8, <1>9 DEF ServiceInv
(* What the manager may come to know, and run.                             *)
LEMMA ManagerShapeNext ==
  ASSUME ManagerShape, MaxConfig \in Nat, unit' = unit,
         known' \in {0, known, unit}, proc' \in {0, proc, known},
         entry' \in BOOLEAN, active' \in BOOLEAN, enabled' \in BOOLEAN, leaving' \in BOOLEAN,
         cut' = cut
  PROVE  ManagerShape'
<1>1. unit' \in 0..MaxConfig
  BY DEF ManagerShape
<1>2. known' \in 0..MaxConfig
  BY DEF ManagerShape
<1>3. proc' \in 0..MaxConfig
  BY DEF ManagerShape
<1> QED BY <1>1, <1>2, <1>3 DEF ManagerShape

(* The service manager and the user: no step of a command.                 *)
LEMMA EnvironmentKeepsInv ==
  ASSUME ServiceConstants, ServiceInv,
         \/ Service!Deregister \/ Service!Launch \/ Service!ProcessExits \/ Service!Edit
         \/ Service!Login
  PROVE  ServiceInv'
<1> USE DEF Service!managerVars
<1>0. ManagerShape /\ MaxConfig \in Nat /\ config \in 1..MaxConfig /\ session \in BOOLEAN
  BY DEF ServiceConstants, ServiceInv, ServiceShape
<1>1. UNCHANGED <<platform, unit, entry, enabled, cmd, outcome, cut>> /\ Whole' = Whole
  BY DEF Service!Deregister, Service!Launch, Service!ProcessExits, Service!Edit, Service!Login,
     Whole
<1>2. ManagerShape'
  <2>1. /\ known' \in {0, known, unit} /\ proc' \in {0, proc, known}
        /\ active' \in BOOLEAN /\ leaving' \in BOOLEAN
    BY <1>0
    DEF Service!Deregister, Service!Launch, Service!ProcessExits, Service!Edit, Service!Login,
        ManagerShape
  <2>2. entry' \in BOOLEAN /\ enabled' \in BOOLEAN
    BY <1>0, <1>1 DEF ManagerShape
  <2> QED BY <1>0, <1>1, <2>1, <2>2, ManagerShapeNext
<1>3. config' \in 1..MaxConfig /\ session' \in BOOLEAN
  <2>1. config' = config \/ (config < MaxConfig /\ config' = config + 1)
    BY DEF Service!Deregister, Service!Launch, Service!ProcessExits, Service!Edit, Service!Login
  <2>2. session' = session \/ session' = TRUE
    BY DEF Service!Deregister, Service!Launch, Service!ProcessExits, Service!Edit, Service!Login
  <2>3. config' \in 1..MaxConfig
    BY <1>0, <2>1
  <2>4. session' \in BOOLEAN
    BY <1>0, <2>2
  <2> QED BY <2>3, <2>4
<1>4. ServiceShape'
  BY <1>1, <1>2, <1>3 DEF ServiceInv, ServiceShape
<1>5. CASE Service!Deregister
  BY <1>0, <1>1, <1>4, <1>5
  DEF Service!Deregister, ServiceInv, ManagerInv, CommandInv, OutcomeInv, ManagerShape
<1>6. CASE Service!Launch
  BY <1>0, <1>1, <1>4, <1>6
  DEF Service!Launch, ServiceInv, ManagerInv, CommandInv, OutcomeInv, ManagerShape
<1>7. CASE Service!ProcessExits
  BY <1>0, <1>1, <1>4, <1>7
  DEF Service!ProcessExits, ServiceInv, ManagerInv, CommandInv, OutcomeInv, ManagerShape
<1>8. CASE Service!Edit
  BY <1>0, <1>1, <1>4, <1>8
  DEF Service!Edit, ServiceInv, ManagerInv, CommandInv, OutcomeInv, ManagerShape
<1>9. CASE Service!Login
  BY <1>0, <1>1, <1>4, <1>9
  DEF Service!Login, ServiceInv, ManagerInv, CommandInv, OutcomeInv, ManagerShape
<1> QED BY <1>5, <1>6, <1>7, <1>8, <1>9

LEMMA LogoutKeepsInv == ASSUME ServiceConstants, ServiceInv, Service!Logout PROVE ServiceInv'
<1>0. ManagerShape /\ MaxConfig \in Nat /\ MaxPolls \in Nat \ {0} /\ outcome \in Outcomes
  BY DEF ServiceConstants, ServiceInv, ServiceShape
<1>1. /\ session' = FALSE /\ proc' = 0 /\ known' = 0 /\ active' = FALSE /\ leaving' = FALSE
      /\ UNCHANGED <<platform, config, unit, entry, enabled, cut>>
  BY DEF Service!Logout
<1>2. cmd' \in CommandStates /\ cmd'.pc = "idle" /\ cmd'.attempts = 0
  BY <1>0 DEF Service!Logout, Service!Idle, CommandStates, Steps, ServiceActions
<1>3. /\ outcome' \in Outcomes /\ outcome'.was = FALSE
      /\ \/ outcome'.how = "none"
         \/ /\ outcome'.how = outcome.how /\ outcome'.action = outcome.action
            /\ outcome'.config = outcome.config
  <2>1. CASE Service!At("idle")
    <3>1. outcome' = [how |-> outcome.how, action |-> outcome.action, config |-> outcome.config,
                      at |-> outcome.at, was |-> FALSE]
      BY <1>0, <2>1 DEF Service!Logout, Outcomes
    <3> QED BY <1>0, <3>1 DEF Outcomes
  <2>2. CASE ~Service!At("idle")
    <3>1. outcome' = [how |-> "none", action |-> "none", config |-> 0, at |-> "idle", was |-> FALSE]
      BY <2>2 DEF Service!Logout, Service!NoOutcome
    <3> QED BY <1>0, <3>1 DEF Outcomes, Steps, ServiceActions
  <2> QED BY <2>1, <2>2
<1>4. ManagerShape'
  <2>1. entry' \in BOOLEAN /\ enabled' \in BOOLEAN
    BY <1>0, <1>1 DEF ManagerShape
  <2> QED BY <1>0, <1>1, <2>1, ManagerShapeNext
<1>5. ServiceShape'
  <2>1. config' \in 1..MaxConfig /\ platform' \in Platforms
    BY <1>1 DEF ServiceInv, ServiceShape
  <2>2. cmd'.attempts < MaxPolls
    BY <1>0, <1>2
  <2> QED BY <1>1, <1>2, <1>3, <1>4, <2>1, <2>2 DEF ServiceShape
<1>6. ManagerInv' /\ CommandInv'
  BY <1>0, <1>1, <1>2, <1>3 DEF ManagerInv, CommandInv, ServiceInv
<1>7. OutcomeInv'
  BY <1>1, <1>2, <1>3 DEF OutcomeInv, ServiceInv
<1> QED BY <1>5, <1>6, <1>7 DEF ServiceInv

LEMMA UnchangedServiceKeepsInv == ASSUME ServiceInv, UNCHANGED Service!vars PROVE ServiceInv'
BY DEF Service!vars, Service!managerVars, ServiceInv, ServiceShape, ManagerShape, ManagerInv,
       CommandInv, OutcomeInv, Whole

LEMMA InitialService == ASSUME ServiceConstants, Service!Init PROVE ServiceInv
<1>1. cmd = [pc |-> "idle", action |-> "none", config |-> 0, loaded |-> FALSE, was |-> FALSE,
             attempts |-> 0, absent |-> 0]
  BY DEF Service!Init, Service!Idle
<1>2. outcome = [how |-> "none", action |-> "none", config |-> 0, at |-> "idle", was |-> FALSE]
  BY DEF Service!Init, Service!NoOutcome
<1>3. cmd \in CommandStates /\ outcome \in Outcomes
  BY <1>1, <1>2 DEF ServiceConstants, CommandStates, Outcomes, Steps, ServiceActions
<1>4. ManagerShape
  <2>1. 0 \in 0..MaxConfig
    BY DEF ServiceConstants
  <2>2. enabled \in BOOLEAN
    BY DEF Service!Init
  <2> QED BY <2>1, <2>2 DEF Service!Init, ManagerShape
<1>5. ServiceShape
  BY <1>1, <1>3, <1>4 DEF Service!Init, ServiceShape, ServiceConstants
<1>6. ManagerInv /\ CommandInv /\ OutcomeInv
  BY <1>1, <1>2 DEF Service!Init, ManagerInv, CommandInv, OutcomeInv, Whole
<1> QED BY <1>5, <1>6 DEF ServiceInv

-----------------------------------------------------------------------------
(***************************************************************************)
(* A restart that reported success leaves only its configuration, or a     *)
(* later one, to be run; a failed installation interrupts nothing; a       *)
(* command does not bootstrap over the old registration; and a service     *)
(* whose stop reported success stays stopped, unless a `systemctl disable  *)
(* --now` was cut short before.                                            *)
(***************************************************************************)
LEMMA ServiceInvIsEnough ==
  ASSUME ServiceConstants, ServiceInv
  PROVE  /\ Service!TypeOK /\ Service!RestartRunsLatest
         /\ Service!FailedInstallInterruptsNothing /\ Service!BootstrapMeetsNoRegistration
         /\ Service!StoppedStaysStopped
<1>0. ManagerShape /\ MaxConfig \in Nat /\ MaxPolls \in Nat /\ cmd \in CommandStates
      /\ outcome \in Outcomes /\ cmd.attempts < MaxPolls
  BY DEF ServiceConstants, ServiceInv, ServiceShape
<1>1. cmd.absent \in 0..1 /\ cmd.attempts \in 0..MaxPolls
  BY <1>0 DEF CommandStates
<1>2. Service!TypeOK
  BY <1>0, <1>1 DEF Service!TypeOK, ServiceInv, ServiceShape, ManagerShape, ManagerInv, Service!At
<1>3. Service!RestartRunsLatest
  <2>1. outcome.config \in 0..MaxConfig
    BY <1>0 DEF Outcomes
  <2> QED
    BY <1>0, <2>1
    DEF Service!RestartRunsLatest, Service!Succeeded, ServiceInv, OutcomeInv, ManagerShape
<1>4. Service!FailedInstallInterruptsNothing
  BY DEF Service!FailedInstallInterruptsNothing, ServiceInv, OutcomeInv
<1>5. Service!BootstrapMeetsNoRegistration
  BY DEF Service!BootstrapMeetsNoRegistration, Service!At, ServiceInv, CommandInv
<1>6. Service!StoppedStaysStopped
  BY DEF Service!StoppedStaysStopped, Service!Succeeded, ServiceInv, OutcomeInv, Whole
<1> QED BY <1>2, <1>3, <1>4, <1>5, <1>6

(***************************************************************************)
(* The invariant holds in every behaviour of the service.                  *)
(***************************************************************************)
THEOREM ServiceIsTracked == ASSUME ServiceConstants PROVE Service!Spec => []ServiceInv
<1>1. Service!Init => ServiceInv
  BY InitialService
<1>2. ServiceInv /\ [Service!Next]_(Service!vars) => ServiceInv'
  <2> SUFFICES ASSUME ServiceInv, [Service!Next]_(Service!vars) PROVE ServiceInv'
    OBVIOUS
  <2>1. CASE UNCHANGED Service!vars
    BY <2>1, UnchangedServiceKeepsInv
  <2>2. ASSUME NEW a \in {"start", "stop", "restart"}, Service!Begin(a) PROVE ServiceInv'
    BY <2>2, BeginKeepsInv
  <2>3. CASE Service!CommandStep
    BY <2>3, inspectKeepsInv, installDefinitionKeepsInv, bootoutKeepsInv,
       unloadLaunchAgentKeepsInv, enableKeepsInv, bootstrapKeepsInv, daemonReloadKeepsInv,
       enableUnitKeepsInv, activateKeepsInv, disableKeepsInv, disabledKeepsInv, nowKeepsInv,
       removeEntryKeepsInv, stopReloadKeepsInv
    DEF Service!CommandStep
  <2>4. CASE Service!Interrupt
    BY <2>4, InterruptKeepsInv
  <2>5. CASE Service!Deregister \/ Service!Launch \/ Service!ProcessExits \/ Service!Edit
             \/ Service!Login
    BY <2>5, EnvironmentKeepsInv
  <2>6. CASE Service!Logout
    BY <2>6, LogoutKeepsInv
  <2> QED BY <2>1, <2>2, <2>3, <2>4, <2>5, <2>6 DEF Service!Next
<1> QED BY <1>1, <1>2, PTL DEF Service!Spec

(***************************************************************************)
(* Whatever fails, crashes or is interrupted, the service is as the last   *)
(* successful start, stop or restart left it (lifecycle.go's run), but for *)
(* a stop after a `systemctl disable --now` that was cut short.            *)
(***************************************************************************)
THEOREM ServiceIsAsAsked == ASSUME ServiceConstants PROVE Service!Spec => []ServiceAsAsked
<1>1. ServiceInv => ServiceAsAsked
  BY ServiceInvIsEnough DEF ServiceAsAsked, Service!ServiceAsAsked
<1> QED BY <1>1, ServiceIsTracked, PTL

-----------------------------------------------------------------------------
(***************************************************************************)
(* DeviceSetup, for any keys, faults and crashes.  The configurations of a *)
(* directory share its token and nothing else, and one setup runs at a     *)
(* time: what is said of a configuration's own files holds for any number  *)
(* of them, what is said of the token between runs for one.                *)
(***************************************************************************)
Contents == Keys \cup {Device!Complete, None, Torn}
Paths == {Device!Config(c) : c \in Configs} \cup {Device!Attempt(c) : c \in Configs}
           \cup {Device!Token}
May(p) == (IF p[1] = "config" THEN {Device!Complete} ELSE Keys) \cup {None, Torn}
Directories == {dir \in [Paths -> [now : Contents, durable : Contents]] :
                  \A p \in Paths : dir[p].now \in May(p) /\ dir[p].durable \in May(p)}
SetupRuns == [pc : Device!Steps, config : Configs \cup {None}, key : Keys \cup {None},
              published : BOOLEAN]

CfgNow(c) == setupFiles[Device!Config(c)].now
CfgDur(c) == setupFiles[Device!Config(c)].durable
AttNow(c) == setupFiles[Device!Attempt(c)].now
AttDur(c) == setupFiles[Device!Attempt(c)].durable
TokNow == setupFiles[Device!Token].now
TokDur == setupFiles[Device!Token].durable

Fresh == {"reserveToken", "stage", "reserveAttempt", "writeAttempt", "syncAttempt",
          "publishToken", "syncToken"}
Resuming == {"resumeToken", "restoreToken", "restoreSync", "resumeConfig", "resumeSync"}
Calling == {"call", "publishConfig", "syncConfig", "removeAttempt"}

SetupShape ==
  /\ setupFiles \in Directories /\ run \in SetupRuns
  /\ enrolled \in [Configs -> Keys \cup {None}] /\ setupDrawn \subseteq Keys
  /\ run.pc # "idle" => run.config \in Configs /\ run.key \in Keys

(* A configuration is complete only if its device is enrolled; the attempt *)
(* is durable, and stays until the configuration is.                       *)
ConfigurationInv(c) ==
  /\ CfgNow(c) = Device!Complete => enrolled[c] # None
  /\ CfgDur(c) = Device!Complete => CfgNow(c) = Device!Complete
  /\ \/ AttNow(c) = None \/ AttNow(c) = AttDur(c)
     \/ run.config = c /\ run.pc \in {"writeAttempt", "syncAttempt"}
  /\ enrolled[c] # None =>
       /\ AttNow(c) \in {None, enrolled[c]} /\ AttDur(c) \in {None, enrolled[c]}
       /\ CfgDur(c) = Device!Complete \/ (AttNow(c) # None /\ AttDur(c) # None)

(* The setup that runs: what it has written, and what is synced of it.     *)
SetupRunInv(c) ==
  /\ run.pc = "reserveConfig" => AttNow(c) = None
  /\ run.pc \in {"reserveConfig"} \cup Fresh \cup (Resuming \ {"resumeSync"}) => ~run.published
  /\ run.pc \in Fresh => CfgNow(c) = Torn /\ enrolled[c] = None
  /\ run.pc = "syncAttempt" => AttNow(c) = run.key
  /\ run.pc \in {"publishToken", "syncToken"} \cup Resuming \cup Calling =>
       AttNow(c) = run.key /\ AttDur(c) = run.key /\ enrolled[c] \in {None, run.key}
  /\ run.pc \in {"syncToken", "restoreSync", "resumeConfig", "resumeSync"} \cup Calling =>
       TokNow = run.key
  /\ run.pc = "restoreToken" => TokNow = Torn
  /\ run.pc \in Calling => TokDur = run.key
  /\ run.pc \in Calling \ {"call"} => enrolled[c] = run.key
  /\ run.pc \in {"resumeSync", "call", "publishConfig"} =>
       CfgNow(c) = IF run.published THEN Device!Complete ELSE Torn
  /\ run.pc \in {"syncConfig", "removeAttempt", "syncRemoved"} => CfgNow(c) = Device!Complete
  /\ run.pc \in {"removeAttempt", "syncRemoved"} => CfgDur(c) = Device!Complete
  /\ run.pc = "syncRemoved" => AttNow(c) = None

SetupInv ==
  /\ SetupShape
  /\ \A c \in Configs : ConfigurationInv(c)
  /\ run.pc # "idle" => SetupRunInv(run.config)

(* With one configuration: its token is kept once it is complete.          *)
TokenInv(c) ==
  /\ CfgNow(c) = Device!Complete => TokNow = enrolled[c] /\ TokDur = enrolled[c]
  /\ run.pc \in {"restoreToken", "restoreSync"} => CfgNow(c) # Device!Complete

(***************************************************************************)
(* The operators of PrivateFiles on a directory of setup's.                *)
(***************************************************************************)
LEMMA PathsDiffer ==
  ASSUME NEW c \in Configs
  PROVE  /\ Device!Config(c) \in Paths /\ Device!Attempt(c) \in Paths /\ Device!Token \in Paths
         /\ Device!Config(c) # Device!Token /\ Device!Attempt(c) # Device!Token
         /\ Device!Config(c) # Device!Attempt(c)
         /\ May(Device!Config(c)) = {Device!Complete, None, Torn}
         /\ May(Device!Attempt(c)) = Keys \cup {None, Torn}
         /\ May(Device!Token) = Keys \cup {None, Torn}
BY DEF Paths, May, Device!Config, Device!Attempt, Device!Token

LEMMA OtherPaths ==
  ASSUME NEW c \in Configs, NEW d \in Configs, c # d
  PROVE  {Device!Config(d), Device!Attempt(d)}
           \cap {Device!Config(c), Device!Attempt(c), Device!Token} = {}
BY DEF Device!Config, Device!Attempt, Device!Token

LEMMA EntryIsPair ==
  ASSUME NEW dir \in Directories, NEW p \in Paths
  PROVE  /\ dir[p] = [now |-> dir[p].now, durable |-> dir[p].durable]
         /\ dir[p].now \in May(p) /\ dir[p].durable \in May(p)
         /\ dir[p].now \in Contents /\ dir[p].durable \in Contents
BY DEF Directories

LEMMA EntryUpdated ==
  ASSUME NEW e \in [now : Contents, durable : Contents], NEW v
  PROVE  [e EXCEPT !.now = v] = [now |-> v, durable |-> e.durable]
OBVIOUS

LEMMA MayIsContents == ASSUME NEW p PROVE May(p) \subseteq Contents
BY DEF May, Contents

LEMMA WrittenEntry ==
  ASSUME NEW dir \in Directories, NEW p \in Paths, NEW v \in May(p)
  PROVE  /\ Device!Written(dir, p, v) \in Directories
         /\ Device!Written(dir, p, v)[p] = [now |-> v, durable |-> dir[p].durable]
         /\ \A q \in Paths : q # p => Device!Written(dir, p, v)[q] = dir[q]
<1> DEFINE new == Device!Written(dir, p, v)
<1>1. new = [q \in Paths |-> IF q = p THEN [dir[p] EXCEPT !.now = v] ELSE dir[q]]
  BY DEF Directories, Device!Written
<1>2. [dir[p] EXCEPT !.now = v] = [now |-> v, durable |-> dir[p].durable]
  <2>1. dir[p] \in [now : Contents, durable : Contents]
    BY DEF Directories
  <2> QED BY <2>1, EntryUpdated
<1>3. \A q \in Paths : new[q] = IF q = p THEN [now |-> v, durable |-> dir[p].durable] ELSE dir[q]
  BY <1>1, <1>2
<1>4. v \in Contents /\ dir[p].durable \in Contents /\ dir[p].durable \in May(p)
  BY MayIsContents, EntryIsPair
<1>5. \A q \in Paths : new[q] \in [now : Contents, durable : Contents]
                       /\ new[q].now \in May(q) /\ new[q].durable \in May(q)
  BY <1>3, <1>4 DEF Directories
<1>6. new \in [Paths -> [now : Contents, durable : Contents]]
  BY <1>1, <1>5
<1> HIDE DEF new
<1>7. new \in Directories
  BY <1>5, <1>6 DEF Directories
<1> QED BY <1>3, <1>7 DEF new

LEMMA OpenedEntry ==
  ASSUME NEW dir \in Directories, NEW p \in Paths
  PROVE  /\ Device!OpenNewFile(dir, p) \in Directories
         /\ Device!OpenNewFile(dir, p)[p] = [now |-> Torn, durable |-> dir[p].durable]
         /\ \A q \in Paths : q # p => Device!OpenNewFile(dir, p)[q] = dir[q]
<1>1. Device!OpenNewFile(dir, p) = Device!Written(dir, p, Torn)
  BY DEF Device!OpenNewFile, Device!Written
<1>2. Torn \in May(p)
  BY DEF May
<1> QED BY <1>1, <1>2, WrittenEntry

LEMMA RemovedEntry ==
  ASSUME NEW dir \in Directories, NEW p \in Paths
  PROVE  /\ Device!Removed(dir, p) \in Directories
         /\ Device!Removed(dir, p)[p] = [now |-> None, durable |-> dir[p].durable]
         /\ \A q \in Paths : q # p => Device!Removed(dir, p)[q] = dir[q]
<1>1. Device!Removed(dir, p) = Device!Written(dir, p, None)
  BY DEF Device!Removed, Device!Written
<1>2. None \in May(p)
  BY DEF May
<1> QED BY <1>1, <1>2, WrittenEntry

LEMMA SyncedEntry ==
  ASSUME NEW dir \in Directories
  PROVE  /\ Device!SyncDirectory(dir) \in Directories
         /\ \A p \in Paths : Device!SyncDirectory(dir)[p] = [now |-> dir[p].now, durable |-> dir[p].now]
<1>1. Device!SyncDirectory(dir) = [p \in Paths |-> [now |-> dir[p].now, durable |-> dir[p].now]]
  BY DEF Directories, Device!SyncDirectory
<1> QED BY <1>1 DEF Directories

LEMMA CrashedEntry ==
  ASSUME NEW dir \in Directories, NEW new \in Device!AfterCrash(dir)
  PROVE  /\ new \in Directories
         /\ \A p \in Paths : /\ new[p].durable = new[p].now
                             /\ new[p].now \in {dir[p].now, dir[p].durable}
<1>1. PICK lost \in SUBSET Device!Unsynced(dir) :
        new = [p \in Paths |-> Device!Survivor(dir[p], p \in lost)]
  BY DEF Directories, Device!AfterCrash
<1>2. ASSUME NEW p \in Paths
      PROVE  /\ new[p] \in [now : Contents, durable : Contents]
             /\ new[p].now \in May(p) /\ new[p].durable = new[p].now
             /\ new[p].now \in {dir[p].now, dir[p].durable}
  <2> DEFINE v == IF p \in lost THEN dir[p].durable ELSE dir[p].now
  <2>1. new[p] = [now |-> v, durable |-> v]
    BY <1>1 DEF Device!Survivor
  <2>2. v \in Contents /\ v \in May(p) /\ v \in {dir[p].now, dir[p].durable}
    BY EntryIsPair
  <2> HIDE DEF v
  <2> QED BY <2>1, <2>2
<1>3. new \in [Paths -> [now : Contents, durable : Contents]]
  BY <1>1, <1>2
<1> QED BY <1>2, <1>3 DEF Directories

LEMMA WithoutEntry ==
  ASSUME setupFiles \in Directories, NEW paths
  PROVE  /\ Device!Without(paths) \in Directories
         /\ \A p \in Paths : Device!Without(paths)[p] =
              IF p \in paths THEN [now |-> None, durable |-> setupFiles[p].durable] ELSE setupFiles[p]
<1> DEFINE new == Device!Without(paths)
<1>1. new = [p \in Paths |-> IF p \in paths THEN [setupFiles[p] EXCEPT !.now = None]
                                            ELSE setupFiles[p]]
  BY DEF Directories, Device!Without
<1>2. \A p \in Paths : [setupFiles[p] EXCEPT !.now = None]
                         = [now |-> None, durable |-> setupFiles[p].durable]
  <2>1. \A p \in Paths : setupFiles[p] \in [now : Contents, durable : Contents]
    BY DEF Directories
  <2> QED BY <2>1, EntryUpdated
<1>3. \A p \in Paths : new[p] = IF p \in paths THEN [now |-> None, durable |-> setupFiles[p].durable]
                                               ELSE setupFiles[p]
  BY <1>1, <1>2
<1>4. \A p \in Paths : None \in Contents /\ None \in May(p)
  BY DEF Contents, May
<1>5. \A p \in Paths : new[p] \in [now : Contents, durable : Contents]
                       /\ new[p].now \in May(p) /\ new[p].durable \in May(p)
  <2> TAKE p \in Paths
  <2>1. /\ setupFiles[p] \in [now : Contents, durable : Contents]
        /\ setupFiles[p].now \in May(p) /\ setupFiles[p].durable \in May(p)
    BY DEF Directories
  <2>2. CASE p \in paths
    <3>1. new[p] = [now |-> None, durable |-> setupFiles[p].durable]
      BY <1>3, <2>2
    <3> HIDE DEF new
    <3> QED BY <1>4, <2>1, <3>1
  <2>3. CASE p \notin paths
    <3>1. new[p] = setupFiles[p]
      BY <1>3, <2>3
    <3> HIDE DEF new
    <3> QED BY <2>1, <3>1
  <2> QED BY <2>2, <2>3
<1>6. new \in [Paths -> [now : Contents, durable : Contents]]
  BY <1>1, <1>5
<1> HIDE DEF new
<1>7. new \in Directories
  BY <1>5, <1>6 DEF Directories
<1> QED BY <1>3, <1>7 DEF new

(* A step concerns one configuration: the others only get synced.          *)
FilesOf(c) == {Device!Config(c), Device!Attempt(c), Device!Token}
SetupFrame(c) ==
  /\ setupFiles' \in Directories /\ run' \in SetupRuns /\ setupDrawn' \subseteq Keys
  /\ enrolled' \in [Configs -> Keys \cup {None}]
  /\ \A d \in Configs : d # c => enrolled'[d] = enrolled[d]
  /\ \A p \in Paths : p \notin FilesOf(c) =>
       setupFiles'[p] \in {setupFiles[p], [now |-> setupFiles[p].now, durable |-> setupFiles[p].now]}
  /\ run'.pc # "idle" => run'.config = c /\ run'.key \in Keys

SetupMoves(c) ==
  /\ SetupFrame(c) /\ ConfigurationInv(c)'
  /\ run'.pc # "idle" => SetupRunInv(c)'
  /\ TokenInv(c) => TokenInv(c)'

LEMMA MovesKeepInv ==
  ASSUME SetupInv, NEW c \in Configs, run.pc # "idle" => run.config = c, SetupMoves(c)
  PROVE  SetupInv'
<1>1. SetupFrame(c) /\ ConfigurationInv(c)' /\ (run'.pc # "idle" => SetupRunInv(c)')
  BY DEF SetupMoves
<1>2. SetupShape'
  BY <1>1 DEF SetupFrame, SetupShape
<1>3. ASSUME NEW d \in Configs, d # c PROVE ConfigurationInv(d)'
  <2>1. /\ Device!Config(d) \in Paths \ FilesOf(c) /\ Device!Attempt(d) \in Paths \ FilesOf(c)
    BY <1>3, PathsDiffer, OtherPaths DEF FilesOf
  <2>2. /\ CfgNow(d)' = CfgNow(d) /\ CfgDur(d)' \in {CfgNow(d), CfgDur(d)}
        /\ AttNow(d)' = AttNow(d) /\ AttDur(d)' \in {AttNow(d), AttDur(d)}
    BY <1>1, <2>1 DEF SetupFrame, CfgNow, CfgDur, AttNow, AttDur
  <2>3. enrolled'[d] = enrolled[d] /\ ConfigurationInv(d)
    BY <1>1, <1>3 DEF SetupFrame, SetupInv
  <2>4. AttNow(d) = None \/ AttNow(d) = AttDur(d)
    BY <1>3, <2>3 DEF ConfigurationInv
  <2> QED BY <2>2, <2>3, <2>4 DEF ConfigurationInv, CfgNow, CfgDur, AttNow, AttDur
<1>4. \A d \in Configs : ConfigurationInv(d)'
  BY <1>1, <1>3
<1>5. run'.pc # "idle" => SetupRunInv(run.config)'
  BY <1>1 DEF SetupFrame, SetupRunInv, CfgNow, CfgDur, AttNow, AttDur, TokNow, TokDur
<1> QED BY <1>2, <1>4, <1>5 DEF SetupInv

(* What the invariant says of the setup that runs.                         *)
LEMMA RunningSetup ==
  ASSUME SetupInv, run.pc # "idle", NEW c, c = run.config
  PROVE  /\ c \in Configs /\ run.key \in Keys /\ run \in SetupRuns
         /\ setupFiles \in Directories /\ setupDrawn \subseteq Keys
         /\ enrolled \in [Configs -> Keys \cup {None}]
         /\ ConfigurationInv(c) /\ SetupRunInv(c)
         /\ Device!config = Device!Config(c) /\ Device!attempt = Device!Attempt(c)
BY DEF SetupInv, SetupShape, Device!config, Device!attempt

LEMMA SetupIdle ==
  /\ Device!Idle \in SetupRuns /\ Device!Idle.pc = "idle"
BY DEF SetupRuns, Device!Idle, Device!Steps

LEMMA SetupGoto ==
  ASSUME run \in SetupRuns, NEW p \in Device!Steps, Device!Goto(p)
  PROVE  run' \in SetupRuns /\ run'.pc = p /\ run'.config = run.config /\ run'.key = run.key
         /\ run'.published = run.published
BY DEF SetupRuns, Device!Goto

(* The ways in which a setup gives up.                                     *)
LEMMA GivingUpMoves ==
  ASSUME SetupInv, run.pc \notin {"idle", "writeAttempt", "syncAttempt"}, NEW c, c = run.config,
         run' = Device!Idle, UNCHANGED <<setupFiles, enrolled, setupDrawn>>
  PROVE  SetupMoves(c)
<1>1. SetupFrame(c) /\ run'.pc = "idle"
  BY RunningSetup, SetupIdle DEF SetupFrame
<1>2. ConfigurationInv(c)'
  BY <1>1, RunningSetup, SetupIdle DEF ConfigurationInv, CfgNow, CfgDur, AttNow, AttDur
<1> QED BY <1>1, <1>2 DEF SetupMoves, TokenInv, CfgNow, TokNow, TokDur

LEMMA CleanupMoves ==
  ASSUME SetupInv, run.pc \in Fresh, NEW c, c = run.config, NEW paths,
         \/ paths = {} /\ run.pc \notin {"writeAttempt", "syncAttempt"}
         \/ paths = {Device!Attempt(c)},
         Device!Cleanup(paths), UNCHANGED <<enrolled, setupDrawn>>
  PROVE  SetupMoves(c)
<1> USE DEF Fresh
<1>1. c \in Configs /\ setupFiles \in Directories
  BY RunningSetup
<1>2. /\ setupFiles' = Device!Without({Device!Config(c), Device!Token} \cup paths)
      /\ run' = Device!Idle
  BY RunningSetup DEF Device!Cleanup
<1>3. /\ setupFiles' \in Directories
      /\ \A p \in Paths : p \notin FilesOf(c) => setupFiles'[p] = setupFiles[p]
      /\ setupFiles'[Device!Config(c)] = [now |-> None, durable |-> CfgDur(c)]
      /\ setupFiles'[Device!Attempt(c)] \in
           {setupFiles[Device!Attempt(c)], [now |-> None, durable |-> AttDur(c)]}
      /\ paths # {} => setupFiles'[Device!Attempt(c)] = [now |-> None, durable |-> AttDur(c)]
  <2> DEFINE gone == {Device!Config(c), Device!Token} \cup paths
  <2>1. /\ Device!Without(gone) \in Directories
        /\ \A p \in Paths : setupFiles'[p] = IF p \in gone
             THEN [now |-> None, durable |-> setupFiles[p].durable] ELSE setupFiles[p]
    BY <1>1, <1>2, WithoutEntry
  <2>2. /\ gone \subseteq FilesOf(c) /\ Device!Config(c) \in gone
        /\ paths # {} => Device!Attempt(c) \in gone
    BY DEF FilesOf
  <2>3. Device!Config(c) \in Paths /\ Device!Attempt(c) \in Paths
    BY <1>1, PathsDiffer
  <2> HIDE DEF gone
  <2> QED BY <1>2, <2>1, <2>2, <2>3 DEF CfgDur, AttDur, gone
<1>4. SetupFrame(c) /\ run'.pc = "idle"
  BY <1>2, <1>3, RunningSetup, SetupIdle DEF SetupFrame
<1>5. /\ CfgNow(c)' = None /\ CfgDur(c)' = CfgDur(c) /\ AttDur(c)' = AttDur(c)
      /\ AttNow(c)' \in {None, AttNow(c)} /\ (paths # {} => AttNow(c)' = None)
  BY <1>3 DEF CfgNow, CfgDur, AttNow, AttDur
<1>6. enrolled[c] = None /\ CfgNow(c) = Torn /\ ConfigurationInv(c)
  BY RunningSetup DEF SetupRunInv
<1>7. ConfigurationInv(c)'
  BY <1>4, <1>5, <1>6, SetupConstants DEF ConfigurationInv
<1>8. TokenInv(c)'
  BY <1>4, <1>5, SetupConstants DEF TokenInv
<1> QED BY <1>4, <1>7, <1>8 DEF SetupMoves

LEMMA PreserveMoves ==
  ASSUME SetupInv, run.pc \in {"resumeConfig", "resumeSync", "call", "publishConfig"},
         NEW c, c = run.config, run.published \/ CfgNow(c) # Device!Complete,
         Device!PreserveForRetry, UNCHANGED setupDrawn,
         enrolled' = enrolled \/ enrolled' = [enrolled EXCEPT ![c] = run.key]
  PROVE  SetupMoves(c)
<1>1. /\ c \in Configs /\ setupFiles \in Directories /\ run.key \in Keys
      /\ enrolled \in [Configs -> Keys \cup {None}] /\ ConfigurationInv(c)
      /\ AttNow(c) = run.key /\ AttDur(c) = run.key /\ enrolled[c] \in {None, run.key}
  BY RunningSetup DEF SetupRunInv, Resuming, Calling
<1>2. /\ setupFiles' = Device!Without(IF run.published THEN {} ELSE {Device!Config(c)})
      /\ run' = Device!Idle
  BY RunningSetup DEF Device!PreserveForRetry
<1>3. /\ setupFiles' \in Directories
      /\ \A p \in Paths : p # Device!Config(c) => setupFiles'[p] = setupFiles[p]
      /\ setupFiles'[Device!Config(c)] \in
           {setupFiles[Device!Config(c)], [now |-> None, durable |-> CfgDur(c)]}
      /\ run.published => setupFiles' [Device!Config(c)] = setupFiles[Device!Config(c)]
  <2> DEFINE gone == IF run.published THEN {} ELSE {Device!Config(c)}
  <2>1. /\ Device!Without(gone) \in Directories
        /\ \A p \in Paths : setupFiles'[p] = IF p \in gone
             THEN [now |-> None, durable |-> setupFiles[p].durable] ELSE setupFiles[p]
    BY <1>1, <1>2, WithoutEntry
  <2>2. gone \subseteq {Device!Config(c)} /\ (run.published => gone = {})
    OBVIOUS
  <2>3. Device!Config(c) \in Paths
    BY <1>1, PathsDiffer
  <2> HIDE DEF gone
  <2> QED BY <1>2, <2>1, <2>2, <2>3 DEF CfgDur, gone
<1>4. enrolled' \in [Configs -> Keys \cup {None}] /\ (\A d \in Configs : d # c => enrolled'[d] = enrolled[d])
      /\ enrolled'[c] \in {enrolled[c], run.key}
  BY <1>1
<1>5. SetupFrame(c) /\ run'.pc = "idle"
  BY <1>1, <1>2, <1>3, <1>4, RunningSetup, SetupIdle DEF SetupFrame, FilesOf
<1>6. /\ CfgNow(c)' \in {None, CfgNow(c)} /\ CfgDur(c)' = CfgDur(c)
      /\ run.published => CfgNow(c)' = CfgNow(c)
      /\ UNCHANGED <<AttNow(c), AttDur(c), TokNow, TokDur>>
  BY <1>1, <1>3, PathsDiffer DEF CfgNow, CfgDur, AttNow, AttDur, TokNow, TokDur
<1>7. enrolled[c] # None => enrolled'[c] = enrolled[c]
  BY <1>1, <1>4
<1>8. ConfigurationInv(c)'
  BY <1>1, <1>4, <1>5, <1>6, SetupConstants DEF ConfigurationInv
<1>9. TokenInv(c) => TokenInv(c)'
  BY <1>1, <1>5, <1>6, <1>7, SetupConstants DEF TokenInv, ConfigurationInv
<1> QED BY <1>5, <1>8, <1>9 DEF SetupMoves

(* The ways in which a setup goes on: what it writes, and where it goes.   *)
FilesFrame(c) ==
  /\ setupFiles' \in Directories
  /\ \A p \in Paths : p \notin FilesOf(c) =>
       setupFiles'[p] \in {setupFiles[p], [now |-> setupFiles[p].now, durable |-> setupFiles[p].now]}

LEMMA SetupConfigWritten ==
  ASSUME SetupInv, run.pc # "idle", NEW c, c = run.config, NEW v \in {Device!Complete, None, Torn},
         setupFiles' = Device!Written(setupFiles, Device!Config(c), v)
  PROVE  /\ FilesFrame(c) /\ CfgNow(c)' = v
         /\ UNCHANGED <<CfgDur(c), AttNow(c), AttDur(c), TokNow, TokDur>>
<1>1. /\ c \in Configs /\ setupFiles \in Directories
      /\ {Device!Config(c), Device!Attempt(c), Device!Token} \subseteq Paths /\ v \in May(Device!Config(c))
      /\ Device!Config(c) # Device!Attempt(c) /\ Device!Config(c) # Device!Token
  BY RunningSetup, PathsDiffer
<1>2. /\ setupFiles' \in Directories
      /\ setupFiles'[Device!Config(c)] = [now |-> v, durable |-> CfgDur(c)]
      /\ \A q \in Paths : q # Device!Config(c) => setupFiles'[q] = setupFiles[q]
  BY <1>1, WrittenEntry DEF CfgDur
<1> QED BY <1>1, <1>2 DEF FilesFrame, FilesOf, CfgNow, CfgDur, AttNow, AttDur, TokNow, TokDur

LEMMA AttemptWritten ==
  ASSUME SetupInv, run.pc # "idle", NEW c, c = run.config, NEW v \in Keys \cup {None, Torn},
         setupFiles' = Device!Written(setupFiles, Device!Attempt(c), v)
  PROVE  /\ FilesFrame(c) /\ AttNow(c)' = v
         /\ UNCHANGED <<CfgNow(c), CfgDur(c), AttDur(c), TokNow, TokDur>>
<1>1. /\ c \in Configs /\ setupFiles \in Directories
      /\ {Device!Config(c), Device!Attempt(c), Device!Token} \subseteq Paths /\ v \in May(Device!Attempt(c))
      /\ Device!Config(c) # Device!Attempt(c) /\ Device!Attempt(c) # Device!Token
  BY RunningSetup, PathsDiffer
<1>2. /\ setupFiles' \in Directories
      /\ setupFiles'[Device!Attempt(c)] = [now |-> v, durable |-> AttDur(c)]
      /\ \A q \in Paths : q # Device!Attempt(c) => setupFiles'[q] = setupFiles[q]
  BY <1>1, WrittenEntry DEF AttDur
<1> QED BY <1>1, <1>2 DEF FilesFrame, FilesOf, CfgNow, CfgDur, AttNow, AttDur, TokNow, TokDur

LEMMA TokenWritten ==
  ASSUME SetupInv, run.pc # "idle", NEW c, c = run.config, NEW v \in Keys \cup {None, Torn},
         setupFiles' = Device!Written(setupFiles, Device!Token, v)
  PROVE  /\ FilesFrame(c) /\ TokNow' = v
         /\ UNCHANGED <<CfgNow(c), CfgDur(c), AttNow(c), AttDur(c), TokDur>>
<1>1. /\ c \in Configs /\ setupFiles \in Directories
      /\ {Device!Config(c), Device!Attempt(c), Device!Token} \subseteq Paths /\ v \in May(Device!Token)
      /\ Device!Config(c) # Device!Token /\ Device!Attempt(c) # Device!Token
  BY RunningSetup, PathsDiffer
<1>2. /\ setupFiles' \in Directories
      /\ setupFiles'[Device!Token] = [now |-> v, durable |-> TokDur]
      /\ \A q \in Paths : q # Device!Token => setupFiles'[q] = setupFiles[q]
  BY <1>1, WrittenEntry DEF TokDur
<1> QED BY <1>1, <1>2 DEF FilesFrame, FilesOf, CfgNow, CfgDur, AttNow, AttDur, TokNow, TokDur

(* Creating a file leaves it torn, and removing it leaves none.            *)
LEMMA OpenedAndRemoved ==
  ASSUME NEW dir, NEW p
  PROVE  /\ Device!OpenNewFile(dir, p) = Device!Written(dir, p, Torn)
         /\ Device!Removed(dir, p) = Device!Written(dir, p, None)
BY DEF Device!OpenNewFile, Device!Removed, Device!Written

LEMMA SetupSynced ==
  ASSUME SetupInv, run.pc # "idle", NEW c, c = run.config,
         setupFiles' = Device!SyncDirectory(setupFiles)
  PROVE  /\ FilesFrame(c) /\ UNCHANGED <<CfgNow(c), AttNow(c), TokNow>>
         /\ CfgDur(c)' = CfgNow(c) /\ AttDur(c)' = AttNow(c) /\ TokDur' = TokNow
<1>1. /\ setupFiles \in Directories
      /\ {Device!Config(c), Device!Attempt(c), Device!Token} \subseteq Paths
  BY RunningSetup, PathsDiffer
<1>2. /\ setupFiles' \in Directories
      /\ \A p \in Paths : setupFiles'[p] = [now |-> setupFiles[p].now, durable |-> setupFiles[p].now]
  BY <1>1, SyncedEntry
<1>3. FilesFrame(c)
  BY <1>2 DEF FilesFrame
<1>4. ASSUME NEW p \in Paths
      PROVE  setupFiles'[p].now = setupFiles[p].now /\ setupFiles'[p].durable = setupFiles[p].now
  <2>1. setupFiles'[p] = [now |-> setupFiles[p].now, durable |-> setupFiles[p].now]
    BY <1>2
  <2> QED BY <2>1
<1> QED BY <1>1, <1>3, <1>4 DEF CfgNow, CfgDur, AttNow, AttDur, TokNow, TokDur

LEMMA NothingWritten ==
  ASSUME SetupInv, run.pc # "idle", NEW c, c = run.config, UNCHANGED setupFiles
  PROVE  /\ FilesFrame(c)
         /\ UNCHANGED <<CfgNow(c), CfgDur(c), AttNow(c), AttDur(c), TokNow, TokDur>>
BY RunningSetup DEF FilesFrame, CfgNow, CfgDur, AttNow, AttDur, TokNow, TokDur

LEMMA GoesOn ==
  ASSUME SetupInv, run.pc # "idle", NEW c, c = run.config, FilesFrame(c),
         NEW p \in Device!Steps, Device!Goto(p), UNCHANGED <<enrolled, setupDrawn>>
  PROVE  /\ SetupFrame(c) /\ run'.pc = p /\ run'.config = c
         /\ run'.key = run.key /\ run'.published = run.published
BY RunningSetup, SetupGoto DEF SetupFrame, FilesFrame

(* The preparation of a fresh setup.                                       *)
LEMMA ReserveConfigMoves ==
  ASSUME SetupInv, NEW c, c = run.config, Device!ReserveConfig PROVE SetupMoves(c)
<1>1. run.pc = "reserveConfig" /\ UNCHANGED <<enrolled, setupDrawn>>
  BY DEF Device!ReserveConfig, Device!At
<1>2. CASE UNCHANGED setupFiles /\ run' = Device!Idle
  BY <1>1, <1>2, GivingUpMoves
<1>3. CASE /\ CfgNow(c) = None /\ setupFiles' = Device!OpenNewFile(setupFiles, Device!Config(c))
           /\ Device!Goto("reserveToken")
  <2>1. /\ FilesFrame(c) /\ CfgNow(c)' = Torn
        /\ UNCHANGED <<CfgDur(c), AttNow(c), AttDur(c), TokNow, TokDur>>
    BY <1>1, <1>3, SetupConfigWritten, OpenedAndRemoved
  <2>2. SetupFrame(c) /\ run'.pc = "reserveToken" /\ run'.config = c /\ run'.published = run.published
    BY <1>1, <1>3, <2>1, GoesOn DEF Device!Steps
  <2>3. ConfigurationInv(c) /\ SetupRunInv(c)
    BY <1>1, RunningSetup
  <2>4. enrolled'[c] = None
    BY <1>1, <1>3, <2>3, SetupConstants DEF ConfigurationInv, SetupRunInv
  <2>5. ConfigurationInv(c)'
    BY <1>1, <1>3, <2>1, <2>2, <2>3, <2>4, SetupConstants DEF ConfigurationInv
  <2>6. SetupRunInv(c)'
    BY <1>1, <2>1, <2>2, <2>3, <2>4 DEF SetupRunInv, Fresh, Resuming, Calling
  <2>7. TokenInv(c)'
    BY <2>1, <2>2, SetupConstants DEF TokenInv
  <2> QED BY <2>2, <2>5, <2>6, <2>7 DEF SetupMoves
<1> QED
  BY <1>1, <1>2, <1>3, RunningSetup DEF Device!ReserveConfig, Device!Now, CfgNow

(* A fresh setup reserves, stages and publishes, or removes what it made.  *)
LEMMA PrepareMoves ==
  ASSUME SetupInv, NEW c, c = run.config,
         \/ Device!ReserveToken \/ Device!Stage \/ Device!ReserveAttempt \/ Device!WriteAttempt
         \/ Device!SyncAttempt \/ Device!PublishToken \/ Device!SyncToken
  PROVE  SetupMoves(c)
<1>0. run.pc \in Fresh /\ UNCHANGED <<enrolled, setupDrawn>>
  BY DEF Device!ReserveToken, Device!Stage, Device!ReserveAttempt, Device!WriteAttempt,
         Device!SyncAttempt, Device!PublishToken, Device!SyncToken, Device!At, Fresh
<1>1. /\ run.pc \in Fresh /\ run.pc # "idle" /\ UNCHANGED <<enrolled, setupDrawn>>
      /\ run.key \in Keys /\ ConfigurationInv(c) /\ SetupRunInv(c)
      /\ CfgNow(c) = Torn /\ enrolled[c] = None /\ ~run.published
  BY <1>0, RunningSetup DEF SetupRunInv, Fresh
<1>2. CASE \/ Device!Cleanup({}) /\ run.pc \notin {"writeAttempt", "syncAttempt"}
           \/ Device!Cleanup({Device!Attempt(c)})
  BY <1>1, <1>2, CleanupMoves
<1>3. CASE /\ run.pc = "reserveToken" /\ setupFiles' = Device!OpenNewFile(setupFiles, Device!Token)
           /\ Device!Goto("stage")
  <2>1. /\ FilesFrame(c) /\ TokNow' = Torn
        /\ UNCHANGED <<CfgNow(c), CfgDur(c), AttNow(c), AttDur(c), TokDur>>
    BY <1>1, <1>3, TokenWritten, OpenedAndRemoved
  <2>2. /\ SetupFrame(c) /\ run'.pc = "stage" /\ run'.config = c
        /\ run'.key = run.key /\ run'.published = run.published
    BY <1>1, <1>3, <2>1, GoesOn DEF Device!Steps
  <2>3. ConfigurationInv(c)'
    BY <1>1, <1>3, <2>1, <2>2, SetupConstants DEF ConfigurationInv, SetupRunInv, Fresh, Resuming,
       Calling
  <2>4. SetupRunInv(c)'
    BY <1>1, <1>3, <2>1, <2>2, SetupConstants DEF SetupRunInv, Fresh, Resuming, Calling
  <2>5. TokenInv(c)'
    BY <1>1, <2>1, <2>2, SetupConstants DEF TokenInv, SetupRunInv
  <2> QED BY <2>2, <2>3, <2>4, <2>5 DEF SetupMoves
<1>4. CASE /\ run.pc = "stage" /\ UNCHANGED setupFiles
           /\ Device!Goto("reserveAttempt")
  <2>1. /\ FilesFrame(c)
        /\ UNCHANGED <<CfgNow(c), CfgDur(c), AttNow(c), AttDur(c), TokNow, TokDur>>
    BY <1>1, <1>4, NothingWritten
  <2>2. /\ SetupFrame(c) /\ run'.pc = "reserveAttempt" /\ run'.config = c
        /\ run'.key = run.key /\ run'.published = run.published
    BY <1>1, <1>4, <2>1, GoesOn DEF Device!Steps
  <2>3. ConfigurationInv(c)'
    BY <1>1, <1>4, <2>1, <2>2, SetupConstants DEF ConfigurationInv, SetupRunInv, Fresh, Resuming,
       Calling
  <2>4. SetupRunInv(c)'
    BY <1>1, <1>4, <2>1, <2>2, SetupConstants DEF SetupRunInv, Fresh, Resuming, Calling
  <2>5. TokenInv(c)'
    BY <1>1, <2>1, <2>2, SetupConstants DEF TokenInv, SetupRunInv
  <2> QED BY <2>2, <2>3, <2>4, <2>5 DEF SetupMoves
<1>5. CASE /\ run.pc = "reserveAttempt" /\ setupFiles' = Device!OpenNewFile(setupFiles, Device!Attempt(c))
           /\ Device!Goto("writeAttempt")
  <2>1. /\ FilesFrame(c) /\ AttNow(c)' = Torn
        /\ UNCHANGED <<CfgNow(c), CfgDur(c), AttDur(c), TokNow, TokDur>>
    BY <1>1, <1>5, AttemptWritten, OpenedAndRemoved
  <2>2. /\ SetupFrame(c) /\ run'.pc = "writeAttempt" /\ run'.config = c
        /\ run'.key = run.key /\ run'.published = run.published
    BY <1>1, <1>5, <2>1, GoesOn DEF Device!Steps
  <2>3. ConfigurationInv(c)'
    BY <1>1, <1>5, <2>1, <2>2, SetupConstants DEF ConfigurationInv, SetupRunInv, Fresh, Resuming,
       Calling
  <2>4. SetupRunInv(c)'
    BY <1>1, <1>5, <2>1, <2>2, SetupConstants DEF SetupRunInv, Fresh, Resuming, Calling
  <2>5. TokenInv(c)'
    BY <1>1, <2>1, <2>2, SetupConstants DEF TokenInv, SetupRunInv
  <2> QED BY <2>2, <2>3, <2>4, <2>5 DEF SetupMoves
<1>6. CASE /\ run.pc = "writeAttempt" /\ setupFiles' = Device!Written(setupFiles, Device!Attempt(c), run.key)
           /\ Device!Goto("syncAttempt")
  <2>1. /\ FilesFrame(c) /\ AttNow(c)' = run.key
        /\ UNCHANGED <<CfgNow(c), CfgDur(c), AttDur(c), TokNow, TokDur>>
    BY <1>1, <1>6, AttemptWritten
  <2>2. /\ SetupFrame(c) /\ run'.pc = "syncAttempt" /\ run'.config = c
        /\ run'.key = run.key /\ run'.published = run.published
    BY <1>1, <1>6, <2>1, GoesOn DEF Device!Steps
  <2>3. ConfigurationInv(c)'
    BY <1>1, <1>6, <2>1, <2>2, SetupConstants DEF ConfigurationInv, SetupRunInv, Fresh, Resuming,
       Calling
  <2>4. SetupRunInv(c)'
    BY <1>1, <1>6, <2>1, <2>2, SetupConstants DEF SetupRunInv, Fresh, Resuming, Calling
  <2>5. TokenInv(c)'
    BY <1>1, <2>1, <2>2, SetupConstants DEF TokenInv, SetupRunInv
  <2> QED BY <2>2, <2>3, <2>4, <2>5 DEF SetupMoves
<1>7. CASE /\ run.pc = "syncAttempt" /\ setupFiles' = Device!SyncDirectory(setupFiles)
           /\ Device!Goto("publishToken")
  <2>1. /\ FilesFrame(c) /\ UNCHANGED <<CfgNow(c), AttNow(c), TokNow>>
        /\ CfgDur(c)' = CfgNow(c) /\ AttDur(c)' = AttNow(c) /\ TokDur' = TokNow
    BY <1>1, <1>7, SetupSynced
  <2>2. /\ SetupFrame(c) /\ run'.pc = "publishToken" /\ run'.config = c
        /\ run'.key = run.key /\ run'.published = run.published
    BY <1>1, <1>7, <2>1, GoesOn DEF Device!Steps
  <2>3. ConfigurationInv(c)'
    BY <1>1, <1>7, <2>1, <2>2, SetupConstants DEF ConfigurationInv, SetupRunInv, Fresh, Resuming,
       Calling
  <2>4. SetupRunInv(c)'
    BY <1>1, <1>7, <2>1, <2>2, SetupConstants DEF SetupRunInv, Fresh, Resuming, Calling
  <2>5. TokenInv(c)'
    BY <1>1, <2>1, <2>2, SetupConstants DEF TokenInv, SetupRunInv
  <2> QED BY <2>2, <2>3, <2>4, <2>5 DEF SetupMoves
<1>8. CASE /\ run.pc = "publishToken" /\ setupFiles' = Device!Written(setupFiles, Device!Token, run.key)
           /\ Device!Goto("syncToken")
  <2>1. /\ FilesFrame(c) /\ TokNow' = run.key
        /\ UNCHANGED <<CfgNow(c), CfgDur(c), AttNow(c), AttDur(c), TokDur>>
    BY <1>1, <1>8, TokenWritten
  <2>2. /\ SetupFrame(c) /\ run'.pc = "syncToken" /\ run'.config = c
        /\ run'.key = run.key /\ run'.published = run.published
    BY <1>1, <1>8, <2>1, GoesOn DEF Device!Steps
  <2>3. ConfigurationInv(c)'
    BY <1>1, <1>8, <2>1, <2>2, SetupConstants DEF ConfigurationInv, SetupRunInv, Fresh, Resuming,
       Calling
  <2>4. SetupRunInv(c)'
    BY <1>1, <1>8, <2>1, <2>2, SetupConstants DEF SetupRunInv, Fresh, Resuming, Calling
  <2>5. TokenInv(c)'
    BY <1>1, <2>1, <2>2, SetupConstants DEF TokenInv, SetupRunInv
  <2> QED BY <2>2, <2>3, <2>4, <2>5 DEF SetupMoves
<1>9. CASE /\ run.pc = "syncToken" /\ setupFiles' = Device!SyncDirectory(setupFiles)
           /\ Device!Goto("call")
  <2>1. /\ FilesFrame(c) /\ UNCHANGED <<CfgNow(c), AttNow(c), TokNow>>
        /\ CfgDur(c)' = CfgNow(c) /\ AttDur(c)' = AttNow(c) /\ TokDur' = TokNow
    BY <1>1, <1>9, SetupSynced
  <2>2. /\ SetupFrame(c) /\ run'.pc = "call" /\ run'.config = c
        /\ run'.key = run.key /\ run'.published = run.published
    BY <1>1, <1>9, <2>1, GoesOn DEF Device!Steps
  <2>3. ConfigurationInv(c)'
    BY <1>1, <1>9, <2>1, <2>2, SetupConstants DEF ConfigurationInv, SetupRunInv, Fresh, Resuming,
       Calling
  <2>4. SetupRunInv(c)'
    BY <1>1, <1>9, <2>1, <2>2, SetupConstants DEF SetupRunInv, Fresh, Resuming, Calling
  <2>5. TokenInv(c)'
    BY <1>1, <2>1, <2>2, SetupConstants DEF TokenInv, SetupRunInv
  <2> QED BY <2>2, <2>3, <2>4, <2>5 DEF SetupMoves
<1>10. Device!attempt = Device!Attempt(c)
  BY <1>1, RunningSetup
<1> QED
  BY <1>2, <1>3, <1>4, <1>5, <1>6, <1>7, <1>8, <1>9, <1>10
  DEF Device!ReserveToken, Device!Stage, Device!ReserveAttempt, Device!WriteAttempt,
      Device!SyncAttempt, Device!PublishToken, Device!SyncToken, Device!At

(* A setup that resumes its attempt restores the token and the marker.     *)
LEMMA ResumeMoves ==
  ASSUME SetupInv, NEW c, c = run.config,
         \/ Device!ResumeToken \/ Device!RestoreToken \/ Device!ResumeConfig \/ Device!ResumeSync
  PROVE  SetupMoves(c)
<1>0. run.pc \in Resuming /\ UNCHANGED <<enrolled, setupDrawn>>
  BY DEF Device!ResumeToken, Device!RestoreToken, Device!ResumeConfig, Device!ResumeSync,
         Device!At, Resuming
<1>1. /\ run.pc \in Resuming /\ run.pc # "idle" /\ UNCHANGED <<enrolled, setupDrawn>>
      /\ run.key \in Keys /\ ConfigurationInv(c) /\ SetupRunInv(c)
      /\ AttNow(c) = run.key /\ AttDur(c) = run.key /\ enrolled[c] \in {None, run.key}
      /\ CfgNow(c) = Device!Complete => enrolled[c] = run.key
  BY <1>0, RunningSetup, SetupConstants DEF ConfigurationInv, SetupRunInv, Resuming
<1>2. CASE UNCHANGED setupFiles /\ run' = Device!Idle
  BY <1>1, <1>2, GivingUpMoves DEF Resuming
<1>3. CASE /\ run.pc \in {"resumeConfig", "resumeSync"} /\ Device!PreserveForRetry
           /\ run.pc = "resumeConfig" => CfgNow(c) # Device!Complete
  <2>1. run.published \/ CfgNow(c) # Device!Complete
    BY <1>1, <1>3, SetupConstants DEF SetupRunInv
  <2> QED BY <1>1, <1>3, <2>1, PreserveMoves
<1>4. CASE /\ run.pc = "resumeToken" /\ TokNow = run.key /\ UNCHANGED setupFiles
           /\ Device!Goto("resumeConfig")
  <2>1. /\ FilesFrame(c)
        /\ UNCHANGED <<CfgNow(c), CfgDur(c), AttNow(c), AttDur(c), TokNow, TokDur>>
    BY <1>1, <1>4, NothingWritten
  <2>2. /\ SetupFrame(c) /\ run'.pc = "resumeConfig" /\ run'.config = c
        /\ run'.key = run.key /\ run'.published = run.published
    BY <1>1, <1>4, <2>1, GoesOn DEF Device!Steps
  <2>3. ConfigurationInv(c)'
    BY <1>1, <1>4, <2>1, <2>2, SetupConstants DEF ConfigurationInv, SetupRunInv, Fresh, Resuming,
       Calling
  <2>4. SetupRunInv(c)'
    BY <1>1, <1>4, <2>1, <2>2, SetupConstants DEF SetupRunInv, Fresh, Resuming, Calling
  <2>5. TokenInv(c) => TokenInv(c)'
    BY <1>1, <1>4, <2>1, <2>2, SetupConstants DEF TokenInv, ConfigurationInv
  <2> QED BY <2>2, <2>3, <2>4, <2>5 DEF SetupMoves
<1>5. CASE /\ run.pc = "resumeToken" /\ TokNow = Torn /\ setupFiles' = Device!Written(setupFiles, Device!Token, run.key)
           /\ Device!Goto("resumeConfig")
  <2>1. /\ FilesFrame(c) /\ TokNow' = run.key
        /\ UNCHANGED <<CfgNow(c), CfgDur(c), AttNow(c), AttDur(c), TokDur>>
    BY <1>1, <1>5, TokenWritten
  <2>2. /\ SetupFrame(c) /\ run'.pc = "resumeConfig" /\ run'.config = c
        /\ run'.key = run.key /\ run'.published = run.published
    BY <1>1, <1>5, <2>1, GoesOn DEF Device!Steps
  <2>3. ConfigurationInv(c)'
    BY <1>1, <1>5, <2>1, <2>2, SetupConstants DEF ConfigurationInv, SetupRunInv, Fresh, Resuming,
       Calling
  <2>4. SetupRunInv(c)'
    BY <1>1, <1>5, <2>1, <2>2, SetupConstants DEF SetupRunInv, Fresh, Resuming, Calling
  <2>5. TokenInv(c) => TokenInv(c)'
    BY <1>1, <1>5, <2>1, <2>2, SetupConstants DEF TokenInv, ConfigurationInv
  <2> QED BY <2>2, <2>3, <2>4, <2>5 DEF SetupMoves
<1>6. CASE /\ run.pc = "resumeToken" /\ TokNow = None /\ setupFiles' = Device!OpenNewFile(setupFiles, Device!Token)
           /\ Device!Goto("restoreToken")
  <2>1. /\ FilesFrame(c) /\ TokNow' = Torn
        /\ UNCHANGED <<CfgNow(c), CfgDur(c), AttNow(c), AttDur(c), TokDur>>
    BY <1>1, <1>6, TokenWritten, OpenedAndRemoved
  <2>2. /\ SetupFrame(c) /\ run'.pc = "restoreToken" /\ run'.config = c
        /\ run'.key = run.key /\ run'.published = run.published
    BY <1>1, <1>6, <2>1, GoesOn DEF Device!Steps
  <2>3. ConfigurationInv(c)'
    BY <1>1, <1>6, <2>1, <2>2, SetupConstants DEF ConfigurationInv, SetupRunInv, Fresh, Resuming,
       Calling
  <2>4. SetupRunInv(c)'
    BY <1>1, <1>6, <2>1, <2>2, SetupConstants DEF SetupRunInv, Fresh, Resuming, Calling
  <2>5. TokenInv(c) => TokenInv(c)'
    BY <1>1, <1>6, <2>1, <2>2, SetupConstants DEF TokenInv, ConfigurationInv
  <2> QED BY <2>2, <2>3, <2>4, <2>5 DEF SetupMoves
<1>7. CASE /\ run.pc = "restoreToken" /\ setupFiles' = Device!Written(setupFiles, Device!Token, run.key)
           /\ Device!Goto("restoreSync")
  <2>1. /\ FilesFrame(c) /\ TokNow' = run.key
        /\ UNCHANGED <<CfgNow(c), CfgDur(c), AttNow(c), AttDur(c), TokDur>>
    BY <1>1, <1>7, TokenWritten
  <2>2. /\ SetupFrame(c) /\ run'.pc = "restoreSync" /\ run'.config = c
        /\ run'.key = run.key /\ run'.published = run.published
    BY <1>1, <1>7, <2>1, GoesOn DEF Device!Steps
  <2>3. ConfigurationInv(c)'
    BY <1>1, <1>7, <2>1, <2>2, SetupConstants DEF ConfigurationInv, SetupRunInv, Fresh, Resuming,
       Calling
  <2>4. SetupRunInv(c)'
    BY <1>1, <1>7, <2>1, <2>2, SetupConstants DEF SetupRunInv, Fresh, Resuming, Calling
  <2>5. TokenInv(c) => TokenInv(c)'
    BY <1>1, <1>7, <2>1, <2>2, SetupConstants DEF TokenInv, ConfigurationInv
  <2> QED BY <2>2, <2>3, <2>4, <2>5 DEF SetupMoves
<1>8. CASE /\ run.pc = "restoreSync" /\ setupFiles' = Device!SyncDirectory(setupFiles)
           /\ Device!Goto("resumeConfig")
  <2>1. /\ FilesFrame(c) /\ UNCHANGED <<CfgNow(c), AttNow(c), TokNow>>
        /\ CfgDur(c)' = CfgNow(c) /\ AttDur(c)' = AttNow(c) /\ TokDur' = TokNow
    BY <1>1, <1>8, SetupSynced
  <2>2. /\ SetupFrame(c) /\ run'.pc = "resumeConfig" /\ run'.config = c
        /\ run'.key = run.key /\ run'.published = run.published
    BY <1>1, <1>8, <2>1, GoesOn DEF Device!Steps
  <2>3. ConfigurationInv(c)'
    BY <1>1, <1>8, <2>1, <2>2, SetupConstants DEF ConfigurationInv, SetupRunInv, Fresh, Resuming,
       Calling
  <2>4. SetupRunInv(c)'
    BY <1>1, <1>8, <2>1, <2>2, SetupConstants DEF SetupRunInv, Fresh, Resuming, Calling
  <2>5. TokenInv(c) => TokenInv(c)'
    BY <1>1, <1>8, <2>1, <2>2, SetupConstants DEF TokenInv, ConfigurationInv
  <2> QED BY <2>2, <2>3, <2>4, <2>5 DEF SetupMoves
<1>9. CASE /\ run.pc \in {"restoreToken", "restoreSync"}
           /\ setupFiles' = Device!Removed(setupFiles, Device!Token) /\ run' = Device!Idle
  <2>1. /\ FilesFrame(c) /\ TokNow' = None
        /\ UNCHANGED <<CfgNow(c), CfgDur(c), AttNow(c), AttDur(c), TokDur>>
    BY <1>1, <1>9, TokenWritten, OpenedAndRemoved
  <2>2. SetupFrame(c) /\ run'.pc = "idle"
    BY <1>1, <1>9, <2>1, RunningSetup, SetupIdle DEF SetupFrame, FilesFrame
  <2>3. ConfigurationInv(c)'
    BY <1>1, <2>1, <2>2 DEF ConfigurationInv
  <2>4. TokenInv(c) => TokenInv(c)'
    BY <1>9, <2>1, <2>2 DEF TokenInv
  <2> QED BY <2>2, <2>3, <2>4 DEF SetupMoves
<1>10. CASE /\ run.pc = "resumeConfig" /\ CfgNow(c) = Device!Complete /\ UNCHANGED setupFiles
            /\ run' = [run EXCEPT !.pc = "resumeSync", !.published = TRUE]
  <2>1. /\ FilesFrame(c)
        /\ UNCHANGED <<CfgNow(c), CfgDur(c), AttNow(c), AttDur(c), TokNow, TokDur>>
    BY <1>1, <1>10, NothingWritten
  <2>2. /\ run' \in SetupRuns /\ run'.pc = "resumeSync" /\ run'.config = c /\ run'.key = run.key
        /\ run'.published = TRUE
    BY <1>1, <1>10, RunningSetup DEF SetupRuns, Device!Steps
  <2>3. SetupFrame(c)
    BY <1>1, <2>1, <2>2, RunningSetup DEF SetupFrame, FilesFrame
  <2>4. ConfigurationInv(c)' /\ SetupRunInv(c)'
    BY <1>1, <1>10, <2>1, <2>2, SetupConstants DEF ConfigurationInv, SetupRunInv, Fresh, Resuming,
       Calling
  <2>5. TokenInv(c) => TokenInv(c)'
    BY <1>1, <2>1, <2>2 DEF TokenInv
  <2> QED BY <2>3, <2>4, <2>5 DEF SetupMoves
<1>11. CASE /\ run.pc = "resumeConfig" /\ CfgNow(c) = Torn /\ UNCHANGED setupFiles
           /\ Device!Goto("resumeSync")
  <2>1. /\ FilesFrame(c)
        /\ UNCHANGED <<CfgNow(c), CfgDur(c), AttNow(c), AttDur(c), TokNow, TokDur>>
    BY <1>1, <1>11, NothingWritten
  <2>2. /\ SetupFrame(c) /\ run'.pc = "resumeSync" /\ run'.config = c
        /\ run'.key = run.key /\ run'.published = run.published
    BY <1>1, <1>11, <2>1, GoesOn DEF Device!Steps
  <2>3. ConfigurationInv(c)'
    BY <1>1, <1>11, <2>1, <2>2, SetupConstants DEF ConfigurationInv, SetupRunInv, Fresh, Resuming,
       Calling
  <2>4. SetupRunInv(c)'
    BY <1>1, <1>11, <2>1, <2>2, SetupConstants DEF SetupRunInv, Fresh, Resuming, Calling
  <2>5. TokenInv(c) => TokenInv(c)'
    BY <1>1, <1>11, <2>1, <2>2, SetupConstants DEF TokenInv, ConfigurationInv
  <2> QED BY <2>2, <2>3, <2>4, <2>5 DEF SetupMoves
<1>12. CASE /\ run.pc = "resumeConfig" /\ CfgNow(c) = None /\ setupFiles' = Device!OpenNewFile(setupFiles, Device!Config(c))
           /\ Device!Goto("resumeSync")
  <2>1. /\ FilesFrame(c) /\ CfgNow(c)' = Torn
        /\ UNCHANGED <<CfgDur(c), AttNow(c), AttDur(c), TokNow, TokDur>>
    BY <1>1, <1>12, SetupConfigWritten, OpenedAndRemoved
  <2>2. /\ SetupFrame(c) /\ run'.pc = "resumeSync" /\ run'.config = c
        /\ run'.key = run.key /\ run'.published = run.published
    BY <1>1, <1>12, <2>1, GoesOn DEF Device!Steps
  <2>3. ConfigurationInv(c)'
    BY <1>1, <1>12, <2>1, <2>2, SetupConstants DEF ConfigurationInv, SetupRunInv, Fresh, Resuming,
       Calling
  <2>4. SetupRunInv(c)'
    BY <1>1, <1>12, <2>1, <2>2, SetupConstants DEF SetupRunInv, Fresh, Resuming, Calling
  <2>5. TokenInv(c) => TokenInv(c)'
    BY <1>1, <1>12, <2>1, <2>2, SetupConstants DEF TokenInv, ConfigurationInv
  <2> QED BY <2>2, <2>3, <2>4, <2>5 DEF SetupMoves
<1>13. CASE /\ run.pc = "resumeSync" /\ setupFiles' = Device!SyncDirectory(setupFiles)
           /\ Device!Goto("call")
  <2>1. /\ FilesFrame(c) /\ UNCHANGED <<CfgNow(c), AttNow(c), TokNow>>
        /\ CfgDur(c)' = CfgNow(c) /\ AttDur(c)' = AttNow(c) /\ TokDur' = TokNow
    BY <1>1, <1>13, SetupSynced
  <2>2. /\ SetupFrame(c) /\ run'.pc = "call" /\ run'.config = c
        /\ run'.key = run.key /\ run'.published = run.published
    BY <1>1, <1>13, <2>1, GoesOn DEF Device!Steps
  <2>3. ConfigurationInv(c)'
    BY <1>1, <1>13, <2>1, <2>2, SetupConstants DEF ConfigurationInv, SetupRunInv, Fresh, Resuming,
       Calling
  <2>4. SetupRunInv(c)'
    BY <1>1, <1>13, <2>1, <2>2, SetupConstants DEF SetupRunInv, Fresh, Resuming, Calling
  <2>5. TokenInv(c) => TokenInv(c)'
    BY <1>1, <1>13, <2>1, <2>2, SetupConstants DEF TokenInv, ConfigurationInv
  <2> QED BY <2>2, <2>3, <2>4, <2>5 DEF SetupMoves
<1>14. Device!config = Device!Config(c)
  BY <1>1, RunningSetup
<1> USE DEF Device!At, Device!Now, CfgNow, TokNow
<1>15. CASE Device!ResumeToken
  BY <1>2, <1>4, <1>5, <1>6, <1>15 DEF Device!ResumeToken
<1>16. CASE Device!RestoreToken
  BY <1>7, <1>8, <1>9, <1>16 DEF Device!RestoreToken
<1>17. CASE Device!ResumeConfig
  BY <1>2, <1>3, <1>10, <1>11, <1>12, <1>14, <1>17 DEF Device!ResumeConfig
<1>18. CASE Device!ResumeSync
  BY <1>3, <1>13, <1>18 DEF Device!ResumeSync
<1> QED BY <1>15, <1>16, <1>17, <1>18

(* The call, which may commit without its answer, and what follows it.     *)
LEMMA CallMoves ==
  ASSUME SetupInv, NEW c, c = run.config, Device!enrollRelayDevice PROVE SetupMoves(c)
<1>0. run.pc = "call" /\ UNCHANGED setupDrawn
  BY DEF Device!enrollRelayDevice, Device!At
<1>1. /\ run.pc = "call" /\ run.key \in Keys /\ c \in Configs
      /\ enrolled \in [Configs -> Keys \cup {None}]
      /\ ConfigurationInv(c) /\ SetupRunInv(c) /\ enrolled[c] \in {None, run.key}
      /\ run.published \/ CfgNow(c) # Device!Complete
  BY <1>0, RunningSetup, SetupConstants DEF SetupRunInv, Calling
<1>2. CASE Device!PreserveForRetry
  <2>1. enrolled' = enrolled \/ enrolled' = [enrolled EXCEPT ![c] = run.key]
    BY DEF Device!enrollRelayDevice
  <2> QED BY <1>0, <1>1, <1>2, <2>1, PreserveMoves
<1>3. CASE /\ enrolled' = [enrolled EXCEPT ![c] = run.key] /\ Device!Goto("publishConfig")
           /\ UNCHANGED setupFiles
  <2>1. /\ FilesFrame(c)
        /\ UNCHANGED <<CfgNow(c), CfgDur(c), AttNow(c), AttDur(c), TokNow, TokDur>>
    BY <1>1, <1>3, NothingWritten
  <2>2. /\ run' \in SetupRuns /\ run'.pc = "publishConfig" /\ run'.config = c
        /\ run'.key = run.key /\ run'.published = run.published
    BY <1>1, <1>3, RunningSetup, SetupGoto DEF Device!Steps
  <2>3. /\ enrolled' \in [Configs -> Keys \cup {None}] /\ enrolled'[c] = run.key
        /\ \A d \in Configs : d # c => enrolled'[d] = enrolled[d]
    BY <1>1, <1>3
  <2>4. SetupFrame(c)
    BY <1>0, <1>1, <2>1, <2>2, <2>3, RunningSetup DEF SetupFrame, FilesFrame
  <2>5. ConfigurationInv(c)' /\ SetupRunInv(c)'
    BY <1>1, <2>1, <2>2, <2>3, SetupConstants DEF ConfigurationInv, SetupRunInv, Fresh, Resuming,
       Calling
  <2>6. TokenInv(c) => TokenInv(c)'
    BY <1>1, <2>1, <2>2, <2>3, SetupConstants DEF TokenInv, ConfigurationInv
  <2> QED BY <2>2, <2>4, <2>5, <2>6 DEF SetupMoves
<1> QED BY <1>2, <1>3 DEF Device!enrollRelayDevice

(* The completion marker is published, then the attempt is removed.        *)
LEMMA PublishMoves ==
  ASSUME SetupInv, NEW c, c = run.config,
         \/ Device!PublishConfig \/ Device!SyncConfig \/ Device!RemoveAttempt \/ Device!SyncRemoved
  PROVE  SetupMoves(c)
<1>0. /\ run.pc \in {"publishConfig", "syncConfig", "removeAttempt", "syncRemoved"}
      /\ UNCHANGED <<enrolled, setupDrawn>>
  BY DEF Device!PublishConfig, Device!SyncConfig, Device!RemoveAttempt, Device!SyncRemoved,
     Device!At
<1>1. /\ run.pc \in {"publishConfig", "syncConfig", "removeAttempt", "syncRemoved"} /\ run.pc # "idle"
      /\ run.key \in Keys /\ ConfigurationInv(c) /\ SetupRunInv(c)
      /\ UNCHANGED <<enrolled, setupDrawn>>
  BY <1>0, RunningSetup
<1>2. CASE UNCHANGED setupFiles /\ run' = Device!Idle
  BY <1>1, <1>2, GivingUpMoves
<1>3. CASE run.pc = "publishConfig" /\ ~run.published /\ Device!PreserveForRetry
  <2>1. CfgNow(c) # Device!Complete
    BY <1>1, <1>3, SetupConstants DEF SetupRunInv
  <2> QED BY <1>1, <1>3, <2>1, PreserveMoves
<1>4. CASE /\ run.pc = "publishConfig" /\ run.published /\ UNCHANGED setupFiles
           /\ Device!Goto("syncConfig")
  <2>1. /\ FilesFrame(c)
        /\ UNCHANGED <<CfgNow(c), CfgDur(c), AttNow(c), AttDur(c), TokNow, TokDur>>
    BY <1>1, <1>4, NothingWritten
  <2>2. /\ SetupFrame(c) /\ run'.pc = "syncConfig" /\ run'.config = c
        /\ run'.key = run.key /\ run'.published = run.published
    BY <1>1, <1>4, <2>1, GoesOn DEF Device!Steps
  <2>3. ConfigurationInv(c)'
    BY <1>1, <1>4, <2>1, <2>2, SetupConstants DEF ConfigurationInv, SetupRunInv, Fresh, Resuming,
       Calling
  <2>4. SetupRunInv(c)'
    BY <1>1, <1>4, <2>1, <2>2, SetupConstants DEF SetupRunInv, Fresh, Resuming, Calling
  <2>5. TokenInv(c) => TokenInv(c)'
    BY <1>1, <1>4, <2>1, <2>2, SetupConstants DEF TokenInv, ConfigurationInv
  <2> QED BY <2>2, <2>3, <2>4, <2>5 DEF SetupMoves
<1>5. CASE /\ run.pc = "publishConfig"
           /\ setupFiles' = Device!Written(setupFiles, Device!Config(c), Device!Complete)
           /\ run' = [run EXCEPT !.pc = "syncConfig", !.published = TRUE]
  <2>1. /\ FilesFrame(c) /\ CfgNow(c)' = Device!Complete
        /\ UNCHANGED <<CfgDur(c), AttNow(c), AttDur(c), TokNow, TokDur>>
    BY <1>1, <1>5, SetupConfigWritten
  <2>2. /\ run' \in SetupRuns /\ run'.pc = "syncConfig" /\ run'.config = c /\ run'.key = run.key
        /\ run'.published = TRUE
    BY <1>1, <1>5, RunningSetup DEF SetupRuns, Device!Steps
  <2>3. SetupFrame(c)
    BY <1>1, <2>1, <2>2, RunningSetup DEF SetupFrame, FilesFrame
  <2>4. ConfigurationInv(c)' /\ SetupRunInv(c)'
    BY <1>1, <1>5, <2>1, <2>2, SetupConstants DEF ConfigurationInv, SetupRunInv, Fresh, Resuming,
       Calling
  <2>5. TokenInv(c)'
    BY <1>1, <1>5, <2>1, <2>2 DEF TokenInv, SetupRunInv, Calling
  <2> QED BY <2>3, <2>4, <2>5 DEF SetupMoves
<1>6. CASE /\ run.pc = "syncConfig" /\ setupFiles' = Device!SyncDirectory(setupFiles)
           /\ Device!Goto("removeAttempt")
  <2>1. /\ FilesFrame(c) /\ UNCHANGED <<CfgNow(c), AttNow(c), TokNow>>
        /\ CfgDur(c)' = CfgNow(c) /\ AttDur(c)' = AttNow(c) /\ TokDur' = TokNow
    BY <1>1, <1>6, SetupSynced
  <2>2. /\ SetupFrame(c) /\ run'.pc = "removeAttempt" /\ run'.config = c
        /\ run'.key = run.key /\ run'.published = run.published
    BY <1>1, <1>6, <2>1, GoesOn DEF Device!Steps
  <2>3. ConfigurationInv(c)'
    BY <1>1, <1>6, <2>1, <2>2, SetupConstants DEF ConfigurationInv, SetupRunInv, Fresh, Resuming,
       Calling
  <2>4. SetupRunInv(c)'
    BY <1>1, <1>6, <2>1, <2>2, SetupConstants DEF SetupRunInv, Fresh, Resuming, Calling
  <2>5. TokenInv(c) => TokenInv(c)'
    BY <1>1, <1>6, <2>1, <2>2, SetupConstants DEF TokenInv, ConfigurationInv
  <2> QED BY <2>2, <2>3, <2>4, <2>5 DEF SetupMoves
<1>7. CASE /\ run.pc = "removeAttempt" /\ setupFiles' = Device!Removed(setupFiles, Device!Attempt(c))
           /\ Device!Goto("syncRemoved")
  <2>1. /\ FilesFrame(c) /\ AttNow(c)' = None
        /\ UNCHANGED <<CfgNow(c), CfgDur(c), AttDur(c), TokNow, TokDur>>
    BY <1>1, <1>7, AttemptWritten, OpenedAndRemoved
  <2>2. /\ SetupFrame(c) /\ run'.pc = "syncRemoved" /\ run'.config = c
        /\ run'.key = run.key /\ run'.published = run.published
    BY <1>1, <1>7, <2>1, GoesOn DEF Device!Steps
  <2>3. ConfigurationInv(c)'
    BY <1>1, <1>7, <2>1, <2>2, SetupConstants DEF ConfigurationInv, SetupRunInv, Fresh, Resuming,
       Calling
  <2>4. SetupRunInv(c)'
    BY <1>1, <1>7, <2>1, <2>2, SetupConstants DEF SetupRunInv, Fresh, Resuming, Calling
  <2>5. TokenInv(c) => TokenInv(c)'
    BY <1>1, <1>7, <2>1, <2>2, SetupConstants DEF TokenInv, ConfigurationInv
  <2> QED BY <2>2, <2>3, <2>4, <2>5 DEF SetupMoves
<1>8. CASE /\ run.pc = "syncRemoved" /\ setupFiles' = Device!SyncDirectory(setupFiles)
           /\ run' = Device!Idle
  <2>1. /\ FilesFrame(c) /\ UNCHANGED <<CfgNow(c), AttNow(c), TokNow>>
        /\ CfgDur(c)' = CfgNow(c) /\ AttDur(c)' = AttNow(c) /\ TokDur' = TokNow
    BY <1>1, <1>8, SetupSynced
  <2>2. SetupFrame(c) /\ run'.pc = "idle"
    BY <1>1, <1>8, <2>1, RunningSetup, SetupIdle DEF SetupFrame, FilesFrame
  <2>3. ConfigurationInv(c)'
    BY <1>1, <1>8, <2>1, <2>2 DEF ConfigurationInv, SetupRunInv
  <2>4. TokenInv(c) => TokenInv(c)'
    BY <1>1, <2>1, <2>2 DEF TokenInv
  <2> QED BY <2>2, <2>3, <2>4 DEF SetupMoves
<1>9. Device!config = Device!Config(c) /\ Device!attempt = Device!Attempt(c)
  BY <1>1, RunningSetup
<1> QED
  BY <1>2, <1>3, <1>4, <1>5, <1>6, <1>7, <1>8, <1>9
  DEF Device!PublishConfig, Device!SyncConfig, Device!RemoveAttempt, Device!SyncRemoved, Device!At

(* A setup starts, with the saved attempt or with a fresh key.             *)
LEMMA SetupStartMoves ==
  ASSUME SetupInv, NEW c \in Configs, Device!Setup(c)
  PROVE  SetupMoves(c)
<1>1. /\ run.pc = "idle" /\ UNCHANGED <<setupFiles, enrolled>>
      /\ ConfigurationInv(c) /\ SetupShape
  BY DEF SetupInv, Device!Setup, Device!At
<1>2. \/ /\ AttNow(c) \in Keys /\ UNCHANGED setupDrawn
         /\ run' = [Device!Idle EXCEPT !.pc = "resumeToken", !.config = c, !.key = AttNow(c)]
      \/ /\ AttNow(c) = None
         /\ \E k \in Keys \ setupDrawn :
              /\ setupDrawn' = setupDrawn \cup {k}
              /\ run' = [Device!Idle EXCEPT !.pc = "reserveConfig", !.config = c, !.key = k]
  BY DEF Device!Setup, Device!Now, AttNow
<1>3. /\ run' \in SetupRuns /\ run'.config = c /\ run'.key \in Keys /\ run'.published = FALSE
      /\ setupDrawn' \subseteq Keys
      /\ \/ run'.pc = "resumeToken" /\ run'.key = AttNow(c)
         \/ run'.pc = "reserveConfig" /\ AttNow(c) = None
  BY <1>1, <1>2 DEF SetupShape, SetupRuns, Device!Idle, Device!Steps
<1>4. SetupFrame(c)
  BY <1>1, <1>3 DEF SetupFrame, SetupShape
<1>5. UNCHANGED <<CfgNow(c), CfgDur(c), AttNow(c), AttDur(c), TokNow, TokDur>>
  BY <1>1 DEF CfgNow, CfgDur, AttNow, AttDur, TokNow, TokDur
<1>6. AttNow(c) \in Keys => AttDur(c) = AttNow(c) /\ enrolled[c] \in {None, AttNow(c)}
  BY <1>1, SetupConstants DEF ConfigurationInv
<1>7. ConfigurationInv(c)'
  BY <1>1, <1>5 DEF ConfigurationInv
<1>8. SetupRunInv(c)'
  BY <1>1, <1>3, <1>5, <1>6, SetupConstants DEF SetupRunInv, Fresh, Resuming, Calling
<1>9. TokenInv(c) => TokenInv(c)'
  BY <1>1, <1>3, <1>5 DEF TokenInv
<1> QED BY <1>4, <1>7, <1>8, <1>9 DEF SetupMoves

(* The machine crashes: of each unsynced entry either version is left.     *)
LEMMA SetupCrashKeepsInv ==
  ASSUME SetupInv, Device!Crash
  PROVE  SetupInv' /\ \A c \in Configs : TokenInv(c) => TokenInv(c)'
<1>1. /\ setupFiles' \in Device!AfterCrash(setupFiles) /\ run' = Device!Idle
      /\ UNCHANGED <<enrolled, setupDrawn>>
  BY DEF Device!Crash
<1>2. setupFiles \in Directories /\ SetupShape
  BY DEF SetupInv, SetupShape
<1>3. /\ setupFiles' \in Directories
      /\ \A p \in Paths : /\ setupFiles'[p].durable = setupFiles'[p].now
                          /\ setupFiles'[p].now \in {setupFiles[p].now, setupFiles[p].durable}
  BY <1>1, <1>2, CrashedEntry
<1>4. SetupShape' /\ run'.pc = "idle"
  BY <1>1, <1>2, <1>3, SetupIdle DEF SetupShape
<1>5. ASSUME NEW c \in Configs PROVE ConfigurationInv(c)' /\ (TokenInv(c) => TokenInv(c)')
  <2>1. /\ CfgDur(c)' = CfgNow(c)' /\ CfgNow(c)' \in {CfgNow(c), CfgDur(c)}
        /\ AttDur(c)' = AttNow(c)' /\ AttNow(c)' \in {AttNow(c), AttDur(c)}
        /\ TokDur' = TokNow' /\ TokNow' \in {TokNow, TokDur}
    BY <1>3, PathsDiffer DEF CfgNow, CfgDur, AttNow, AttDur, TokNow, TokDur
  <2>2. ConfigurationInv(c) /\ enrolled'[c] = enrolled[c]
    BY <1>1 DEF SetupInv
  <2>3. ConfigurationInv(c)'
    BY <2>1, <2>2 DEF ConfigurationInv
  <2>4. TokenInv(c) => TokenInv(c)'
    BY <1>4, <2>1, <2>2 DEF TokenInv, ConfigurationInv
  <2> QED BY <2>3, <2>4
<1> QED BY <1>4, <1>5 DEF SetupInv

LEMMA SetupInitHolds ==
  ASSUME Device!Init PROVE SetupInv /\ \A c \in Configs : TokenInv(c)
<1>1. setupFiles = [p \in Paths |-> [now |-> None, durable |-> None]]
  BY DEF Device!Init, Paths, Device!NoFile
<1>2. setupFiles \in Directories
  BY <1>1 DEF Directories, Contents, May
<1>3. SetupShape /\ run.pc = "idle"
  BY <1>2, SetupIdle DEF SetupShape, Device!Init
<1>4. ASSUME NEW c \in Configs PROVE ConfigurationInv(c) /\ TokenInv(c)
  <2>1. CfgNow(c) = None /\ CfgDur(c) = None /\ AttNow(c) = None /\ AttDur(c) = None
    BY <1>1, PathsDiffer DEF CfgNow, CfgDur, AttNow, AttDur
  <2>2. enrolled[c] = None
    BY DEF Device!Init
  <2> QED BY <1>3, <2>1, <2>2, SetupConstants DEF ConfigurationInv, TokenInv
<1> QED BY <1>3, <1>4 DEF SetupInv

(* One step, and what it keeps of a configuration that is the only one.    *)
OneConfiguration == \A c, d \in Configs : c = d
OnlyTokenInv == OneConfiguration => \A c \in Configs : TokenInv(c)

LEMMA SetupStepKeepsInv ==
  ASSUME SetupInv, [Device!Next]_(Device!vars)
  PROVE  SetupInv' /\ (OnlyTokenInv => OnlyTokenInv')
<1>1. ASSUME NEW c \in Configs, run.pc # "idle" => run.config = c, SetupMoves(c)
      PROVE  SetupInv' /\ (OnlyTokenInv => OnlyTokenInv')
  <2>1. SetupInv'
    BY <1>1, MovesKeepInv
  <2>2. TokenInv(c) => TokenInv(c)'
    BY <1>1 DEF SetupMoves
  <2>3. ASSUME OneConfiguration, \A d \in Configs : TokenInv(d), NEW d \in Configs PROVE TokenInv(d)'
    <3>1. c = d
      BY <2>3 DEF OneConfiguration
    <3> QED BY <2>2, <2>3, <3>1
  <2>4. OneConfiguration' <=> OneConfiguration
    BY DEF OneConfiguration
  <2> QED BY <2>1, <2>3, <2>4 DEF OnlyTokenInv
<1>2. ASSUME NEW c \in Configs, Device!Setup(c) PROVE SetupInv' /\ (OnlyTokenInv => OnlyTokenInv')
  <2>1. run.pc = "idle"
    BY <1>2 DEF Device!Setup, Device!At
  <2>2. SetupMoves(c)
    BY <1>2, SetupStartMoves
  <2> QED BY <1>1, <2>1, <2>2
<1>3. CASE Device!Step
  <2>1. run.pc # "idle"
    BY <1>3 DEF Device!Step, Device!Prepare, Device!Resume, Device!Publish, Device!ReserveConfig,
         Device!ReserveToken, Device!Stage, Device!ReserveAttempt, Device!WriteAttempt,
         Device!SyncAttempt, Device!PublishToken, Device!SyncToken, Device!ResumeToken,
         Device!RestoreToken, Device!ResumeConfig, Device!ResumeSync, Device!enrollRelayDevice,
         Device!PublishConfig, Device!SyncConfig, Device!RemoveAttempt, Device!SyncRemoved,
         Device!At
  <2>2. PICK c \in Configs : c = run.config
    BY <2>1, RunningSetup
  <2>3. SetupMoves(c)
    BY <1>3, <2>2, ReserveConfigMoves, PrepareMoves, ResumeMoves, CallMoves, PublishMoves
    DEF Device!Step, Device!Prepare, Device!Resume, Device!Publish
  <2> QED BY <1>1, <2>2, <2>3
<1>4. CASE Device!Crash
  <2>1. SetupInv' /\ \A c \in Configs : TokenInv(c) => TokenInv(c)'
    BY <1>4, SetupCrashKeepsInv
  <2> QED BY <2>1 DEF OnlyTokenInv, OneConfiguration
<1>5. CASE UNCHANGED Device!vars
  <2>1. UNCHANGED <<setupFiles, run, enrolled, setupDrawn>>
    BY <1>5 DEF Device!vars
  <2>2. SetupShape'
    BY <2>1 DEF SetupInv, SetupShape
  <2>3. \A c \in Configs : ConfigurationInv(c)' /\ (TokenInv(c) => TokenInv(c)')
    BY <2>1 DEF SetupInv, ConfigurationInv, TokenInv, CfgNow, CfgDur, AttNow, AttDur, TokNow, TokDur
  <2>4. run'.pc # "idle" => SetupRunInv(run.config)'
    BY <2>1 DEF SetupInv, SetupRunInv, CfgNow, CfgDur, AttNow, AttDur, TokNow, TokDur
  <2> QED BY <2>2, <2>3, <2>4 DEF SetupInv, OnlyTokenInv, OneConfiguration
<1> QED BY <1>2, <1>3, <1>4, <1>5 DEF Device!Next

(***************************************************************************)
(* Setup's files and its run are as SetupInv says, and the only            *)
(* configuration's token is kept, after failures, lost answers and crashes *)
(* at any step (cmd/team-relay/main.go).                                   *)
(***************************************************************************)
THEOREM SetupIsTracked == Device!Spec => [](SetupInv /\ OnlyTokenInv)
<1>1. Device!Init => SetupInv /\ OnlyTokenInv
  BY SetupInitHolds DEF OnlyTokenInv
<1>2. SetupInv /\ OnlyTokenInv /\ [Device!Next]_(Device!vars) => (SetupInv /\ OnlyTokenInv)'
  BY SetupStepKeepsInv
<1> QED BY <1>1, <1>2, PTL DEF Device!Spec

LEMMA SetupIsTyped == ASSUME SetupInv PROVE Device!TypeOK
<1>1. SetupShape
  BY DEF SetupInv
<1>2. ASSUME NEW p \in Paths, NEW contents, May(p) = contents \cup {None, Torn}
      PROVE  setupFiles[p] \in Device!Path(contents)
  <2>1. /\ setupFiles[p] = [now |-> setupFiles[p].now, durable |-> setupFiles[p].durable]
        /\ setupFiles[p].now \in May(p) /\ setupFiles[p].durable \in May(p)
    BY <1>1, EntryIsPair DEF SetupShape
  <2> QED BY <1>2, <2>1 DEF Device!Path
<1>3. \A c \in Configs : /\ setupFiles[Device!Config(c)] \in Device!Path({Device!Complete})
                         /\ setupFiles[Device!Attempt(c)] \in Device!Path(Keys)
  BY <1>2, PathsDiffer
<1>4. setupFiles[Device!Token] \in Device!Path(Keys)
  <2>1. Device!Token \in Paths /\ May(Device!Token) = Keys \cup {None, Torn}
    BY DEF Paths, May, Device!Token
  <2> QED BY <1>2, <2>1
<1> QED BY <1>1, <1>3, <1>4 DEF SetupShape, SetupRuns, Device!TypeOK

LEMMA SetupInvIsEnough ==
  ASSUME SetupInv
  PROVE  /\ Device!RetriesKeepIdentity /\ Device!AttemptOutlivesPublication
         /\ OneConfiguration /\ OnlyTokenInv => Device!EnrolmentKept
<1>1. Device!RetriesKeepIdentity
  <2>1. CASE run.pc = "call"
    <3>1. SetupRunInv(run.config)
      BY <2>1 DEF SetupInv
    <3> QED BY <2>1, <3>1 DEF SetupRunInv, Calling, Device!RetriesKeepIdentity, Device!At
  <2>2. CASE run.pc # "call"
    BY <2>2 DEF Device!RetriesKeepIdentity, Device!At
  <2> QED BY <2>1, <2>2
<1>2. ASSUME NEW c \in Configs, enrolled[c] # None
      PROVE  AttNow(c) = enrolled[c] \/ (CfgNow(c) = Device!Complete /\ CfgDur(c) = Device!Complete)
  BY <1>2 DEF SetupInv, ConfigurationInv
<1>3. Device!AttemptOutlivesPublication
  BY <1>2 DEF Device!AttemptOutlivesPublication, Device!Now, AttNow, CfgDur
<1>4. ASSUME OneConfiguration, OnlyTokenInv PROVE Device!EnrolmentKept
  <2>1. \A c \in Configs : CfgNow(c) = Device!Complete => TokNow = enrolled[c] /\ enrolled[c] # None
    BY <1>4 DEF OnlyTokenInv, TokenInv, SetupInv, ConfigurationInv
  <2>2. Device!TokenOnDisk
    BY <1>2, <2>1 DEF Device!TokenOnDisk, Device!Now, AttNow, TokNow
  <2>3. Device!ConfigIsLast
    BY <2>1 DEF Device!ConfigIsLast, Device!Now, CfgNow, TokNow
  <2> QED BY <1>1, <1>3, <2>2, <2>3, SetupIsTyped DEF Device!EnrolmentKept
<1> QED BY <1>1, <1>3, <1>4

(***************************************************************************)
(* EnrolmentKept, for any keys and any number of failures, lost answers    *)
(* and crashes, when one configuration has the directory to itself: setup  *)
(* loses no token of an enrolled device, marks a configuration complete    *)
(* last and removes the attempt after that, and calls with no other        *)
(* identity once the invitation is used.                                   *)
(***************************************************************************)
THEOREM EnrolmentIsKept == ASSUME OneConfiguration PROVE Device!Spec => []EnrolmentKept
<1>1. SetupInv /\ OnlyTokenInv => EnrolmentKept
  BY SetupInvIsEnough DEF EnrolmentKept
<1> QED BY <1>1, SetupIsTracked, PTL

(***************************************************************************)
(* Any number of configurations may share the directory: each keeps its    *)
(* identity, and its attempt until it is durably complete.                 *)
(***************************************************************************)
THEOREM IdentitiesAreKept ==
  Device!Spec => [](Device!RetriesKeepIdentity /\ Device!AttemptOutlivesPublication)
<1>1. SetupInv => Device!RetriesKeepIdentity /\ Device!AttemptOutlivesPublication
  BY SetupInvIsEnough
<1> QED BY <1>1, SetupIsTracked, PTL

-----------------------------------------------------------------------------
(***************************************************************************)
(* AdminCredential, for any tokens, handlers, lost calls, failures and     *)
(* crashes, with one command at a time.  A call that was given up may      *)
(* still commit, so what is said of calls holds for every one in flight:   *)
(* the token it would install is recorded already, or is in a recovery     *)
(* file that no crash takes back.                                          *)
(***************************************************************************)
AdminPaths == Destinations \cup AttemptFiles
RotationFiles == {RotationFile(dst) : dst \in Destinations}
MayHold(f) == (IF f \in Destinations THEN Tokens ELSE Attempt) \cup {None, Torn}
AdminContents == Tokens \cup Attempt \cup {None, Torn}
AdminDirectories ==
  {dir \in [AdminPaths -> [now : AdminContents, durable : AdminContents]] :
     \A f \in AdminPaths : dir[f].now \in MayHold(f) /\ dir[f].durable \in MayHold(f)}
CallStates ==
  [op : {"none", "bootstrap", "rotate"}, auth : Tokens \cup {None}, new : Tokens \cup {None},
   step : {"idle", "exists", "credential", "auth", "rotation", "old", "exec", "ok",
           "unauthorized", "error"},
   attempt : 0..4, dirty : BOOLEAN]
CliStates ==
  [pc : {"idle", "prepare", "stage", "staging", "staged", "send", "wait", "finalize", "writing",
         "published", "replaced", "remove", "removed"},
   cmd : {"none", "bootstrap", "rotate"}, dst : Destinations, auth : Tokens \cup {None},
   attempt : [source : Tokens \cup {None}, new : Tokens \cup {None}],
   conn : Handlers \cup {None}]

(* The shape.                                                              *)
RelayShape == boot \in Tokens \cup {None} /\ cred \subseteq Tokens
                /\ rotation \in [Tokens -> Tokens \cup {None}]
ClientShape == /\ files \in AdminDirectories /\ cli \in [Commands -> CliStates]
               /\ drawn \subseteq Tokens /\ mishap \in {"none", "unsynced", "crashed"}
               /\ crashes \in Nat
CallShape == call \in [Handlers -> CallStates]

(* What the relay has, or had, and what the disk has now and for good.     *)
Recorded(t) == boot = t \/ rotation[t] # None
Now(f) == files[f].now
Durable(f) == files[f].durable
Carries(f, t) == IF f \in Destinations THEN Now(f) = t
                                       ELSE IsAttempt(Now(f)) /\ Now(f).new = t
Keeps(f, t) == Carries(f, t) /\ Durable(f) = Now(f)
RecoveryFile(c) == AttemptFile(c.cmd, c.dst)

(* The relay: every token it has, or had, is recorded, and none returns.   *)
RecordsInv ==
  /\ OneAdministrator
  /\ boot \in drawn \cup {None} /\ \A t \in cred : Recorded(t)
  /\ \A t \in Tokens : rotation[t] # None =>
       rotation[t] \notin cred /\ Recorded(rotation[t]) /\ boot # None /\ t \in drawn

(* The calls: what a handler may rely on unless its transaction will fail, *)
(* and that what it may commit is staged.                                  *)
BootstrapOK(c) ==
  /\ boot = c.new \/ Keeps("bootstrap", c.new)
  /\ c.step \in {"credential", "exec"} /\ c.dirty = FALSE => boot = None
  /\ c.step = "ok" => boot = c.new
RotateOK(c) ==
  /\ boot # None /\ c.new # boot
  /\ rotation[c.new] = None => \E f \in RotationFiles : Keeps(f, c.new)
  /\ c.step \in {"old", "exec"} /\ c.dirty = FALSE => rotation[c.new] = None
  /\ c.step = "exec" /\ c.dirty = FALSE => c.auth \in cred /\ c.new \notin cred
  /\ c.step = "ok" => rotation[c.new] # None
AdminCallOK(c) ==
  /\ (c.step = "idle") <=> (c.op = "none")
  /\ c.step \in {"exists", "credential"} => c.op = "bootstrap"
  /\ c.step \in {"auth", "rotation", "old", "unauthorized"} => c.op = "rotate"
  /\ IF c.op = "none" THEN c.new = None ELSE c.new \in drawn
  /\ c.op = "bootstrap" => BootstrapOK(c)
  /\ c.op = "rotate" => RotateOK(c)
CallsInv == \A h \in Handlers : AdminCallOK(call[h])

(* The files: attempts, which replace tokens that the relay knew, and      *)
(* tokens, which it knows or knew; neither changes at a crash.             *)
AdminAttempt(a, f) ==
  /\ a \in Attempt /\ a.new \in drawn
  /\ f = "bootstrap" => a.source = None
  /\ f # "bootstrap" => /\ a.source \in Tokens /\ Recorded(a.source) /\ boot # None
                        /\ a.new # boot
                        /\ rotation[a.new] # None => a.source \notin cred
AttemptsInv == \A f \in AttemptFiles : \A a \in {Now(f), Durable(f)} :
                 IsAttempt(a) => AdminAttempt(a, f)
TokensRecorded == \A dst \in Destinations : \A t \in {Now(dst), Durable(dst)} :
                    t \in Tokens => Recorded(t)

(* The credential is in some file, and in one that no crash takes back     *)
(* unless an attempt was removed before its token was durable.             *)
HeldInv ==
  /\ mishap # "crashed" => \A t \in cred : \E f \in AdminPaths : Carries(f, t)
  /\ mishap = "none" => \A t \in cred : \E f \in AdminPaths : Keeps(f, t)

(* The command: its attempt is unused until it is staged, staged until the *)
(* token is published, and confirmed from the answer on.                   *)
Preparing == {"stage", "staging", "staged"}
Finishing == {"finalize", "writing", "published", "replaced", "remove", "removed"}
Unused(t) == ~Recorded(t) /\ \A h \in Handlers : call[h].new # t
Confirmed(c) == IF c.cmd = "bootstrap" THEN boot = c.attempt.new
                                       ELSE rotation[c.attempt.new] # None
CliStagesOK(c) ==
  /\ c.pc \in Preparing => Unused(c.attempt.new)
  /\ c.pc = "staging" => Now(RecoveryFile(c)) = Torn
  /\ c.pc = "staged" => Now(RecoveryFile(c)) = c.attempt
  /\ c.pc \in {"send", "wait"} \cup (Finishing \ {"removed"})
       => Now(RecoveryFile(c)) = c.attempt /\ Durable(RecoveryFile(c)) = c.attempt
  /\ c.pc = "wait" => /\ c.conn \in Handlers /\ call[c.conn].op = c.cmd
                      /\ call[c.conn].new = c.attempt.new
  /\ c.pc \in Finishing => Confirmed(c)
  /\ c.pc = "writing" => Now(c.dst) = Torn
  /\ c.pc \in {"published", "replaced", "remove", "removed"} => Now(c.dst) = c.attempt.new
CliOK(c) ==
  /\ (c.pc = "idle") <=> (c.cmd = "none")
  /\ c.cmd = "bootstrap" => c.auth = None
  /\ c.cmd = "rotate" => c.auth \in Tokens /\ boot # None
  /\ c.cmd = "rotate" /\ c.pc = "prepare" => Recorded(c.auth)
  /\ c.pc \notin {"idle", "prepare"} => AdminAttempt(c.attempt, RecoveryFile(c))
  /\ CliStagesOK(c)

(* An attempt is durable, but for the one that is being staged.            *)
DurableOK(c) == \A f \in AttemptFiles :
                  IsAttempt(Now(f)) /\ ~(c.pc = "staged" /\ f = RecoveryFile(c)) => Durable(f) = Now(f)

AdminInv(p) ==
  /\ RelayShape /\ ClientShape /\ CallShape
  /\ RecordsInv /\ CallsInv /\ AttemptsInv /\ TokensRecorded /\ HeldInv
  /\ CliOK(cli[p]) /\ DurableOK(cli[p])

LEMMA AdminConstantsFacts ==
  /\ MaxTimeouts \in Nat /\ MaxAborts \in Nat /\ MaxCrashes \in Nat /\ MaxFaults \in Nat
  /\ None \notin Tokens /\ Torn \notin Tokens /\ None # Torn /\ None \notin Handlers
  /\ None \notin Attempt /\ Torn \notin Attempt
BY AdminConstants, AttemptConstants

LEMMA AdminFiles ==
  /\ \A f \in AttemptFiles : f \in AdminPaths /\ f \notin Destinations
  /\ \A f \in Destinations : f \in AdminPaths /\ f \notin AttemptFiles
  /\ \A f \in RotationFiles : f \in AttemptFiles /\ f # "bootstrap"
  /\ \A x, dst : AttemptFile(x, dst) \in AttemptFiles
  /\ \A x : \A dst \in Destinations : x # "bootstrap" => AttemptFile(x, dst) \in RotationFiles
  /\ \A dst : AttemptFile("bootstrap", dst) = "bootstrap"
BY DEF AdminPaths, AttemptFiles, Destinations, RotationFiles, RotationFile, AttemptFile

(* The shape as the model's type invariant has it.                         *)
LEMMA ShapeIsTypeOK ==
  ASSUME RelayShape, ClientShape, CallShape
  PROVE  TypeOK
<1>1. /\ \A f \in Destinations : files[f] \in Path(Tokens)
      /\ \A f \in AttemptFiles : files[f] \in Path(Attempt)
  <2>1. ASSUME NEW f \in AdminPaths PROVE files[f] \in [now : MayHold(f), durable : MayHold(f)]
    <3>1. files[f] \in [now : AdminContents, durable : AdminContents]
      BY DEF ClientShape, AdminDirectories
    <3>2. files[f] = [now |-> files[f].now, durable |-> files[f].durable]
      BY <3>1
    <3>3. files[f].now \in MayHold(f) /\ files[f].durable \in MayHold(f)
      BY DEF ClientShape, AdminDirectories
    <3> QED BY <3>2, <3>3
  <2>2. \A f \in Destinations : MayHold(f) = Tokens \cup {None, Torn}
    BY DEF MayHold
  <2>3. \A f \in AttemptFiles : MayHold(f) = Attempt \cup {None, Torn}
    BY AdminFiles DEF MayHold
  <2> QED BY <2>1, <2>2, <2>3, AdminFiles DEF Path
<1>2. call \in [Handlers -> CallStates] /\ cli \in [Commands -> CliStates]
        /\ drawn \subseteq Tokens /\ mishap \in {"none", "unsynced", "crashed"}
  BY DEF ClientShape, CallShape
<1>3. boot \in Tokens \cup {None} /\ cred \subseteq Tokens
        /\ rotation \in [Tokens -> Tokens \cup {None}]
  BY DEF RelayShape
<1> QED BY <1>1, <1>2, <1>3 DEF TypeOK, CallStates, CliStates
-----------------------------------------------------------------------------
(* A handler reads: its call moves on, or starts over, and nothing else    *)
(* changes.                                                                *)
LEMMA HandlerMoves ==
  ASSUME NEW p, NEW h \in Handlers, NEW d \in CallStates, AdminInv(p),
         call' = [call EXCEPT ![h] = d], UNCHANGED <<relayVars, clientVars>>,
         d.op = call[h].op, d.new = call[h].new, AdminCallOK(d)
  PROVE  AdminInv(p)'
<1> USE DEF AdminInv
<1>0. UNCHANGED <<boot, cred, rotation, files, mishap, cli, drawn, crashes>>
  BY DEF relayVars, clientVars, bounds
<1>1. CallShape'
  BY DEF CallShape
<1>2. call'[h] = d /\ \A g \in Handlers : g # h => call'[g] = call[g]
  BY DEF CallShape
<1>3. \A g \in Handlers : call'[g].op = call[g].op /\ call'[g].new = call[g].new
  BY <1>2
<1>4. RelayShape' /\ ClientShape' /\ RecordsInv' /\ AttemptsInv' /\ TokensRecorded'
        /\ HeldInv'
  BY <1>0 DEF RelayShape, ClientShape, RecordsInv, OneAdministrator, Recorded, AttemptsInv,
     AdminAttempt, TokensRecorded, HeldInv, Carries, Keeps, Now, Durable, IsAttempt
<1>5. DurableOK(cli[p])'
  BY <1>0 DEF DurableOK, RecoveryFile, Now, Durable, IsAttempt
<1>6. CallsInv'
  <2> SUFFICES ASSUME NEW g \in Handlers PROVE AdminCallOK(call[g])'
    BY DEF CallsInv
  <2>1. AdminCallOK(call'[g])
    BY <1>2 DEF CallsInv
  <2> QED BY <2>1, <1>0 DEF AdminCallOK, BootstrapOK, RotateOK, Keeps, Carries, Now,
       Durable, IsAttempt
<1>7. CliOK(cli[p])'
  BY <1>0, <1>3 DEF CliOK, CliStagesOK, AdminAttempt, Unused, Recorded, Confirmed, Now,
     Durable, RecoveryFile
<1> QED BY <1>1, <1>4, <1>5, <1>6, <1>7

LEMMA RetriedCallOK ==
  ASSUME NEW h \in Handlers, CallShape, CallsInv, InTransaction(call[h])
  PROVE  LET d == IF call[h].attempt = 4 THEN [call[h] EXCEPT !.step = "error"]
                  ELSE [call[h] EXCEPT !.step = FirstStep(call[h]), !.attempt = @ + 1,
                                       !.dirty = FALSE]
         IN  d \in CallStates /\ AdminCallOK(d) /\ d.op = call[h].op /\ d.new = call[h].new
<1> DEFINE c == call[h]
<1>1. c \in CallStates /\ AdminCallOK(c)
  BY DEF CallShape, CallsInv
<1>2. c.op \in {"bootstrap", "rotate"}
  BY <1>1 DEF InTransaction, AdminCallOK, CallStates
<1>3. CASE c.attempt = 4
  BY <1>1, <1>2, <1>3 DEF CallStates, AdminCallOK, BootstrapOK, RotateOK
<1>4. CASE c.attempt # 4
  <2>1. c.attempt + 1 \in 0..4
    BY <1>1, <1>4 DEF CallStates
  <2> QED BY <2>1, <1>1, <1>2, <1>4 DEF CallStates, AdminCallOK, BootstrapOK, RotateOK, FirstStep
<1> QED BY <1>3, <1>4

LEMMA RetryKeeps ==
  ASSUME NEW p, NEW h \in Handlers, AdminInv(p), InTransaction(call[h]), Retry(h),
         UNCHANGED <<relayVars, clientVars>>
  PROVE  AdminInv(p)'
BY RetriedCallOK, HandlerMoves DEF Retry, AdminInv

LEMMA GotoKeeps ==
  ASSUME NEW p, NEW h \in Handlers, AdminInv(p), NEW step, Goto(h, step),
         [call[h] EXCEPT !.step = step] \in CallStates,
         AdminCallOK([call[h] EXCEPT !.step = step]),
         UNCHANGED <<relayVars, clientVars>>
  PROVE  AdminInv(p)'
<1> DEFINE d == [call[h] EXCEPT !.step = step]
<1>1. call[h] \in CallStates
  BY DEF AdminInv, CallShape
<1>2. d.op = call[h].op /\ d.new = call[h].new
  BY <1>1 DEF CallStates
<1>3. call' = [call EXCEPT ![h] = d]
  BY <1>1 DEF Goto, AdminInv, CallShape
<1> HIDE DEF d
<1>4. d \in CallStates /\ AdminCallOK(d)
  BY DEF d
<1> QED BY <1>2, <1>3, <1>4, HandlerMoves

LEMMA HandlerReads ==
  ASSUME NEW p, NEW h \in Handlers, AdminInv(p),
         \/ Bootstrap(h) \/ CredentialExists(h) \/ Authenticate(h)
         \/ RotateAdminCredential(h) \/ RotationCredentials(h) \/ TxFailed(h)
  PROVE  AdminInv(p)'
<1>0. call[h] \in CallStates /\ AdminCallOK(call[h])
  BY DEF AdminInv, CallShape, CallsInv
<1> USE <1>0
<1>1. CASE Bootstrap(h)
  <2>0. call[h].op = "bootstrap"
    BY <1>1 DEF Bootstrap, At, AdminCallOK
  <2>1. CASE boot = None
    <3>1. Goto(h, "credential") /\ UNCHANGED <<relayVars, clientVars>>
      <4>1. boot \notin cred
        BY <2>1, AdminConstantsFacts DEF AdminInv, RelayShape
      <4> QED BY <1>1, <2>1, <4>1 DEF Bootstrap
    <3>2. [call[h] EXCEPT !.step = "credential"] \in CallStates
            /\ AdminCallOK([call[h] EXCEPT !.step = "credential"])
      BY <2>0, <2>1 DEF CallStates, AdminCallOK, BootstrapOK
    <3> QED BY <3>1, <3>2, GotoKeeps
  <2>2. CASE boot # None /\ boot = call[h].new /\ boot \in cred
    <3>1. Goto(h, "ok") /\ UNCHANGED <<relayVars, clientVars>>
      BY <1>1, <2>2 DEF Bootstrap
    <3>2. [call[h] EXCEPT !.step = "ok"] \in CallStates
            /\ AdminCallOK([call[h] EXCEPT !.step = "ok"])
      BY <2>0, <2>2 DEF CallStates, AdminCallOK, BootstrapOK
    <3> QED BY <3>1, <3>2, GotoKeeps
  <2>3. CASE boot # None /\ ~(boot = call[h].new /\ boot \in cred)
    <3>1. Goto(h, "error") /\ UNCHANGED <<relayVars, clientVars>>
      BY <1>1, <2>3 DEF Bootstrap
    <3>2. [call[h] EXCEPT !.step = "error"] \in CallStates
            /\ AdminCallOK([call[h] EXCEPT !.step = "error"])
      BY <2>0, <2>3 DEF CallStates, AdminCallOK, BootstrapOK
    <3> QED BY <3>1, <3>2, GotoKeeps
  <2> QED BY <2>1, <2>2, <2>3
<1>2. CASE CredentialExists(h)
  <2>0. call[h].op = "bootstrap" /\ call[h].step = "credential"
    BY <1>2 DEF CredentialExists, At, AdminCallOK
  <2>1. CASE call[h].new \in cred
    BY <1>2, <2>0, <2>1, RetryKeeps DEF CredentialExists, InTransaction
  <2>2. CASE call[h].new \notin cred
    <3>1. Goto(h, "exec") /\ UNCHANGED <<relayVars, clientVars>>
      BY <1>2, <2>2 DEF CredentialExists
    <3>2. [call[h] EXCEPT !.step = "exec"] \in CallStates
            /\ AdminCallOK([call[h] EXCEPT !.step = "exec"])
      BY <2>0 DEF CallStates, AdminCallOK, BootstrapOK
    <3> QED BY <3>1, <3>2, GotoKeeps
  <2> QED BY <2>1, <2>2
<1>3. CASE Authenticate(h)
  <2>0. call[h].op = "rotate" /\ call[h].step = "auth"
    BY <1>3 DEF Authenticate, At, AdminCallOK
  <2>1. PICK step \in {"rotation", "unauthorized"} : Goto(h, step)
    BY <1>3 DEF Authenticate
  <2>2. UNCHANGED <<relayVars, clientVars>>
    BY <1>3 DEF Authenticate
  <2>3. [call[h] EXCEPT !.step = step] \in CallStates
          /\ AdminCallOK([call[h] EXCEPT !.step = step])
    BY <2>0, <2>1 DEF CallStates, AdminCallOK, RotateOK
  <2> QED BY <2>1, <2>2, <2>3, GotoKeeps
<1>4. CASE RotateAdminCredential(h)
  <2>0. call[h].op = "rotate" /\ call[h].step = "rotation"
    BY <1>4 DEF RotateAdminCredential, At, AdminCallOK
  <2>1. PICK step \in {"ok", "unauthorized", "error", "old"} :
          /\ Goto(h, step)
          /\ step = "ok" => rotation[call[h].new] # None
          /\ step = "old" => rotation[call[h].new] = None
    BY <1>4 DEF RotateAdminCredential
  <2>2. UNCHANGED <<relayVars, clientVars>>
    BY <1>4 DEF RotateAdminCredential
  <2>3. [call[h] EXCEPT !.step = step] \in CallStates
          /\ AdminCallOK([call[h] EXCEPT !.step = step])
    BY <2>0, <2>1 DEF CallStates, AdminCallOK, RotateOK
  <2> QED BY <2>1, <2>2, <2>3, GotoKeeps
<1>5. CASE RotationCredentials(h)
  <2>0. call[h].op = "rotate" /\ call[h].step = "old"
    BY <1>5 DEF RotationCredentials, At, AdminCallOK
  <2>1. CASE call[h].auth \in cred /\ call[h].new \notin cred
    <3>1. Goto(h, "exec") /\ UNCHANGED <<relayVars, clientVars>>
      BY <1>5, <2>1 DEF RotationCredentials
    <3>2. [call[h] EXCEPT !.step = "exec"] \in CallStates
            /\ AdminCallOK([call[h] EXCEPT !.step = "exec"])
      BY <2>0, <2>1 DEF CallStates, AdminCallOK, RotateOK
    <3> QED BY <3>1, <3>2, GotoKeeps
  <2>2. CASE ~(call[h].auth \in cred /\ call[h].new \notin cred)
    <3>1. Retry(h) /\ UNCHANGED <<relayVars, clientVars>>
      BY <1>5, <2>2 DEF RotationCredentials
    <3> QED BY <2>0, <3>1, RetryKeeps DEF InTransaction
  <2> QED BY <2>1, <2>2
<1>6. CASE TxFailed(h)
  BY <1>6, RetryKeeps DEF TxFailed, At, InTransaction
<1> QED BY <1>1, <1>2, <1>3, <1>4, <1>5, <1>6

-----------------------------------------------------------------------------
(* A commit dirties the transactions that watch what it writes, so a call  *)
(* that may still commit relies on what the commit left alone.             *)
LEMMA CommitMoves ==
  ASSUME NEW h \in Handlers, CallShape, Committed(h)
  PROVE  /\ CallShape'
         /\ call'[h].step = "ok"
         /\ \A g \in Handlers : /\ call'[g].op = call[g].op /\ call'[g].new = call[g].new
                                /\ call'[g].auth = call[g].auth
         /\ \A g \in Handlers : g # h =>
              /\ call'[g].step = call[g].step
              /\ call'[g].dirty = FALSE => call[g].dirty = FALSE
              /\ call'[g].dirty = FALSE /\ InTransaction(call[g])
                   => Watched(call[g]) \cap Writes(call[h]) = {}
<1> DEFINE touched(g) == call[g].dirty \/ (InTransaction(call[g])
                           /\ Watched(call[g]) \cap Writes(call[h]) # {})
<1>1. \A g \in Handlers : call[g] \in CallStates /\ touched(g) \in BOOLEAN
  BY DEF CallShape, CallStates
<1>2. call' = [g \in Handlers |-> IF g = h THEN [call[h] EXCEPT !.step = "ok"]
                                  ELSE [call[g] EXCEPT !.dirty = touched(g)]]
  BY DEF Committed
<1> HIDE DEF touched
<1>3. \A g \in Handlers : call'[g] \in CallStates
  BY <1>1, <1>2 DEF CallStates
<1>4. CallShape'
  BY <1>2, <1>3 DEF CallShape
<1>5. call'[h].step = "ok" /\ call'[h].op = call[h].op /\ call'[h].new = call[h].new
        /\ call'[h].auth = call[h].auth
  BY <1>1, <1>2 DEF CallStates
<1>6. \A g \in Handlers : g # h =>
        /\ call'[g].op = call[g].op /\ call'[g].new = call[g].new
        /\ call'[g].auth = call[g].auth /\ call'[g].step = call[g].step
        /\ call'[g].dirty = touched(g)
  BY <1>1, <1>2 DEF CallStates
<1>7. \A g \in Handlers : touched(g) = FALSE =>
        /\ call[g].dirty = FALSE
        /\ InTransaction(call[g]) => Watched(call[g]) \cap Writes(call[h]) = {}
  BY <1>1 DEF touched, CallStates
<1> QED BY <1>4, <1>5, <1>6, <1>7

(* A commit records its token and makes it the only credential.  What was  *)
(* said of attempts stays true: none replaces the token just installed.    *)
LEMMA CommitKeeps ==
  ASSUME NEW p, AdminInv(p), NEW n \in Tokens, NEW f \in AttemptFiles, Keeps(f, n),
         ~Recorded(n), cred' = {n}, Recorded(n)',
         \A t \in Tokens : Recorded(t) => Recorded(t)',
         UNCHANGED <<files, mishap>>
  PROVE  /\ HeldInv' /\ TokensRecorded'
         /\ \A g : \A a : AdminAttempt(a, g) => (g # "bootstrap" => a.source \notin cred')
<1>1. \A g, t : /\ Now(g)' = Now(g) /\ Durable(g)' = Durable(g)
                /\ (Keeps(g, t) => Carries(g, t)') /\ (Keeps(g, t) => Keeps(g, t)')
  BY DEF Now, Durable, Keeps, Carries, IsAttempt
<1>2. HeldInv'
  BY <1>1, AdminFiles DEF HeldInv
<1>3. TokensRecorded'
  BY <1>1 DEF AdminInv, TokensRecorded
<1>4. \A g : \A a : AdminAttempt(a, g) => (g # "bootstrap" => a.source \notin cred')
  BY DEF AdminAttempt
<1> QED BY <1>2, <1>3, <1>4

LEMMA BootstrapCommits ==
  ASSUME NEW p \in Commands, NEW h \in Handlers, AdminInv(p), BootstrapExec(h)
  PROVE  AdminInv(p)'
<1> USE DEF AdminInv
<1> SUFFICES ASSUME NEW c, c = call[h] PROVE AdminInv(p)'
  OBVIOUS
<1>0. UNCHANGED <<rotation, files, mishap, cli, drawn, crashes>>
  BY DEF BootstrapExec, clientVars, bounds
<1>1. c \in CallStates /\ AdminCallOK(c) /\ c.op = "bootstrap" /\ c.step = "exec" /\ c.dirty = FALSE
  BY DEF BootstrapExec, At, CallShape, CallsInv, CallStates
<1>2. c.new \in drawn /\ c.new \in Tokens /\ c.new # None /\ boot = None
        /\ Keeps("bootstrap", c.new)
  BY <1>1, AdminConstantsFacts DEF AdminCallOK, BootstrapOK, ClientShape
<1>3. boot' = c.new /\ cred' = {c.new} /\ \A t \in Tokens : rotation[t] = None
  BY <1>2 DEF BootstrapExec, RecordsInv, OneAdministrator
<1>4. RelayShape' /\ ClientShape' /\ RecordsInv'
  BY <1>0, <1>2, <1>3, AdminConstantsFacts DEF RelayShape, ClientShape, RecordsInv,
     OneAdministrator, Recorded
<1>5. HeldInv' /\ TokensRecorded'
  <2>1. "bootstrap" \in AttemptFiles /\ ~Recorded(c.new) /\ Recorded(c.new)'
          /\ \A t \in Tokens : Recorded(t) => Recorded(t)'
    BY <1>0, <1>2, <1>3, AdminConstantsFacts DEF AttemptFiles, Recorded
  <2> QED BY <2>1, <1>0, <1>2, <1>3, CommitKeeps
<1>6. ASSUME NEW a, NEW f, AdminAttempt(a, f)
      PROVE  AdminAttempt(a, f)'
  BY <1>6, <1>0, <1>2 DEF AdminAttempt
<1>7. AttemptsInv'
  <2> SUFFICES ASSUME NEW f \in AttemptFiles, NEW a \in {files'[f].now, files'[f].durable},
                      IsAttempt(a)
               PROVE  AdminAttempt(a, f)'
    BY DEF AttemptsInv, Now, Durable, IsAttempt
  <2> QED BY <1>0, <1>6 DEF AttemptsInv, Now, Durable
<1>8. /\ CallShape'
      /\ call'[h].step = "ok"
      /\ \A g \in Handlers : /\ call'[g].op = call[g].op /\ call'[g].new = call[g].new
                             /\ call'[g].auth = call[g].auth
      /\ \A g \in Handlers : g # h =>
           /\ call'[g].step = call[g].step
           /\ call'[g].dirty = FALSE /\ InTransaction(call[g])
                => Watched(call[g]) \cap Writes(call[h]) = {}
  BY CommitMoves DEF BootstrapExec
<1>9. \A f, t : Keeps(f, t) => Keeps(f, t)'
  BY <1>0 DEF Keeps, Carries, Now, Durable, IsAttempt
<1>10. CallsInv'
  <2> SUFFICES ASSUME NEW g \in Handlers PROVE AdminCallOK(call[g])'
    BY DEF CallsInv
  <2>0. AdminCallOK(call[g]) /\ call[g] \in CallStates
    BY DEF CallsInv, CallShape
  <2>1. call[g].op # "rotate"
    BY <2>0, <1>2 DEF AdminCallOK, RotateOK
  <2>2. CASE g = h
    BY <2>2, <2>0, <1>0, <1>1, <1>2, <1>3, <1>8 DEF AdminCallOK, BootstrapOK
  <2>3. CASE g # h
    <3>1. call[g].op = "bootstrap" => <<"boot", None>> \in Watched(call[g]) \cap Writes(call[h])
      BY <1>1 DEF Watched, Writes
    <3>2. /\ call[g].op = "bootstrap" => Keeps("bootstrap", call[g].new) /\ call[g].step # "ok"
          /\ call[g].op = "bootstrap" => call[g].new \in Tokens
      BY <2>0, <1>2, AdminConstantsFacts DEF AdminCallOK, BootstrapOK, ClientShape
    <3>3. call[g].op = "bootstrap" /\ call[g].step \in {"credential", "exec"}
            => call'[g].dirty # FALSE
      BY <3>1, <1>8, <2>3 DEF InTransaction
    <3>4. call[g].op = "bootstrap" => BootstrapOK(call[g])'
      BY <3>2, <3>3, <1>8, <1>9, <2>3 DEF BootstrapOK
    <3>5. /\ call'[g].op = call[g].op /\ call'[g].new = call[g].new
          /\ call'[g].step = call[g].step
      BY <1>8, <2>3
    <3> QED BY <2>0, <2>1, <3>4, <3>5, <1>0 DEF AdminCallOK
  <2> QED BY <2>2, <2>3
<1>11. CliOK(cli[p])' /\ DurableOK(cli[p])'
  <2> SUFFICES ASSUME NEW d, d = cli[p] PROVE CliOK(d)' /\ DurableOK(d)'
    BY <1>0
  <2>0. CliOK(d) /\ d \in CliStates
    BY DEF ClientShape
  <2>1. d.cmd # "rotate" /\ d.pc \notin Finishing
    <3>1. d.cmd # "rotate"
      BY <2>0, <1>2 DEF CliOK
    <3>2. ASSUME d.pc \in Finishing PROVE FALSE
      <4>1. d.cmd = "bootstrap"
        BY <2>0, <3>1, <3>2 DEF CliOK, CliStates, Finishing
      <4>2. boot = d.attempt.new /\ d.attempt.new \in drawn
        BY <2>0, <3>2, <4>1 DEF CliOK, CliStagesOK, Confirmed, AdminAttempt, Finishing
      <4> QED BY <4>2, <1>2, AdminConstantsFacts DEF ClientShape
    <3> QED BY <3>1, <3>2
  <2>2. d.pc \in Preparing => Unused(d.attempt.new)'
    <3> SUFFICES ASSUME d.pc \in Preparing PROVE Unused(d.attempt.new)'
      OBVIOUS
    <3>1. Unused(d.attempt.new)
      BY <2>0 DEF CliOK, CliStagesOK
    <3>2. d.attempt.new # boot' /\ rotation[d.attempt.new] = None
      BY <3>1, <1>3 DEF Unused, Recorded
    <3> QED BY <3>1, <3>2, <1>0, <1>8 DEF Unused, Recorded
  <2>3. CliStagesOK(d)'
    BY <2>0, <2>1, <2>2, <1>0, <1>8 DEF CliOK, CliStagesOK, Now, Durable, RecoveryFile
  <2>4. d.pc \notin {"idle", "prepare"} => AdminAttempt(d.attempt, RecoveryFile(d))'
    BY <2>0, <1>6 DEF CliOK, RecoveryFile
  <2>5. DurableOK(d)'
    BY <1>0 DEF DurableOK, RecoveryFile, Now, Durable, IsAttempt
  <2> QED BY <2>0, <2>1, <2>3, <2>4, <2>5, <1>0 DEF CliOK
<1> QED BY <1>4, <1>5, <1>7, <1>8, <1>10, <1>11

(* A rotation that commits replaces the only credential, and its token is  *)
(* one staged in a recovery file.                                          *)
LEMMA RotationCommits ==
  ASSUME NEW p \in Commands, NEW h \in Handlers, AdminInv(p), RotateExec(h)
  PROVE  AdminInv(p)'
<1> USE DEF AdminInv
<1> SUFFICES ASSUME NEW c, c = call[h] PROVE AdminInv(p)'
  OBVIOUS
<1>0. UNCHANGED <<boot, files, mishap, cli, drawn, crashes>>
  BY DEF RotateExec, clientVars, bounds
<1>1. c \in CallStates /\ AdminCallOK(c) /\ c.op = "rotate" /\ c.step = "exec" /\ c.dirty = FALSE
  BY DEF RotateExec, At, CallShape, CallsInv, CallStates
<1>2. /\ c.new \in drawn /\ c.new \in Tokens /\ boot # None /\ c.new # boot
      /\ rotation[c.new] = None /\ c.auth \in cred /\ c.new \notin cred
      /\ c.auth \in Tokens /\ c.auth # None /\ c.auth # c.new /\ c.new # None
      /\ \E f \in RotationFiles : Keeps(f, c.new)
  BY <1>1, AdminConstantsFacts DEF AdminCallOK, RotateOK, ClientShape, RelayShape
<1>3. cred = {c.auth} /\ cred' = {c.new} /\ rotation' = [rotation EXCEPT ![c.new] = c.auth]
  BY <1>2 DEF RotateExec, RecordsInv, OneAdministrator
<1>4. /\ rotation'[c.new] = c.auth
      /\ \A t \in Tokens : t # c.new => rotation'[t] = rotation[t]
  BY <1>2, <1>3 DEF RelayShape
<1>5. RelayShape' /\ ClientShape'
  BY <1>0, <1>2, <1>3 DEF RelayShape, ClientShape
<1>6. /\ \A t \in Tokens : Recorded(t) => Recorded(t)'
      /\ ~Recorded(c.new) /\ Recorded(c.new)'
  BY <1>0, <1>2, <1>4 DEF Recorded
<1>7. RecordsInv'
  <2>1. OneAdministrator' /\ (boot \in drawn \cup {None})'
    BY <1>0, <1>2, <1>3 DEF RecordsInv, OneAdministrator
  <2>3. Recorded(c.new)' /\ Recorded(c.auth)'
    BY <1>2, <1>6 DEF RecordsInv
  <2>4. ASSUME NEW t \in Tokens, rotation'[t] # None
        PROVE rotation'[t] \notin cred' /\ Recorded(rotation[t])' /\ boot' # None /\ t \in drawn'
    <3>1. CASE t = c.new
      BY <3>1, <1>0, <1>2, <1>3, <1>4, <2>3
    <3>2. CASE t # c.new
      <4>1. rotation'[t] = rotation[t] /\ rotation[t] # None /\ rotation[t] \in Tokens
        BY <2>4, <3>2, <1>4 DEF RelayShape
      <4>2. Recorded(rotation[t]) /\ t \in drawn
        BY <4>1 DEF RecordsInv
      <4>3. rotation[t] # c.new
        BY <4>2, <1>6
      <4>4. Recorded(rotation[t])'
        BY <4>1, <4>2, <1>6, <1>0, <1>4 DEF Recorded
      <4> QED BY <4>1, <4>2, <4>3, <4>4, <1>0, <1>2, <1>3
    <3> QED BY <3>1, <3>2
  <2>5. (\A t \in cred : Recorded(t))'
    BY <1>3, <2>3
  <2> QED BY <2>1, <2>4, <2>5 DEF RecordsInv
<1>8. HeldInv' /\ TokensRecorded'
        /\ \A g : \A a : AdminAttempt(a, g) => (g # "bootstrap" => a.source \notin cred')
  BY <1>0, <1>2, <1>3, <1>6, AdminFiles, CommitKeeps
<1>9. ASSUME NEW a, NEW f, AdminAttempt(a, f)
      PROVE  AdminAttempt(a, f)'
  BY <1>9, <1>0, <1>6, <1>8 DEF AdminAttempt
<1>10. AttemptsInv'
  <2> SUFFICES ASSUME NEW f \in AttemptFiles, NEW a \in {files'[f].now, files'[f].durable},
                      IsAttempt(a)
               PROVE  AdminAttempt(a, f)'
    BY DEF AttemptsInv, Now, Durable, IsAttempt
  <2> QED BY <1>0, <1>9 DEF AttemptsInv, Now, Durable
<1>11. /\ CallShape'
       /\ call'[h].step = "ok"
       /\ \A g \in Handlers : /\ call'[g].op = call[g].op /\ call'[g].new = call[g].new
                              /\ call'[g].auth = call[g].auth
       /\ \A g \in Handlers : g # h =>
            /\ call'[g].step = call[g].step
            /\ call'[g].dirty = FALSE => call[g].dirty = FALSE
            /\ call'[g].dirty = FALSE /\ InTransaction(call[g])
                 => Watched(call[g]) \cap Writes(call[h]) = {}
  BY CommitMoves DEF RotateExec
<1>12. \A f, t : Keeps(f, t) => Keeps(f, t)'
  BY <1>0 DEF Keeps, Carries, Now, Durable, IsAttempt
<1>13. CallsInv'
  <2> SUFFICES ASSUME NEW g \in Handlers PROVE AdminCallOK(call[g])'
    BY DEF CallsInv
  <2>0. AdminCallOK(call[g]) /\ call[g] \in CallStates
    BY DEF CallsInv, CallShape
  <2>1. /\ call'[g].op = call[g].op /\ call'[g].new = call[g].new /\ call'[g].auth = call[g].auth
        /\ call[g].op # "none" => call[g].new \in Tokens
    BY <2>0, <1>11 DEF AdminCallOK, ClientShape
  <2>2. CASE g = h
    BY <2>2, <2>0, <1>0, <1>1, <1>2, <1>4, <1>11, AdminConstantsFacts DEF AdminCallOK, RotateOK
  <2>3. CASE g # h
    <3>1. call[g].op = "bootstrap" => BootstrapOK(call[g])'
      BY <2>0, <2>3, <1>0, <1>2, <1>11, <1>12 DEF AdminCallOK, BootstrapOK
    <3>2. call[g].op = "rotate" => RotateOK(call[g])'
      <4> SUFFICES ASSUME call[g].op = "rotate" PROVE RotateOK(call[g])'
        OBVIOUS
      <4>0. RotateOK(call[g]) /\ call[g].new \in Tokens
        BY <2>0, <2>1 DEF AdminCallOK
      <4>1. rotation'[call[g].new] = None => rotation[call[g].new] = None /\ call[g].new # c.new
        BY <4>0, <1>2, <1>4
      <4>2. ASSUME call'[g].dirty = FALSE, call[g].step \in {"old", "exec"}
            PROVE  call[g].new # c.new /\ call[g].auth # c.auth /\ call[g].dirty = FALSE
        <5>1. Watched(call[g]) \cap Writes(call[h]) = {} /\ call[g].dirty = FALSE
          BY <4>2, <1>11, <2>3 DEF InTransaction
        <5>2. /\ <<"credential", call[g].auth>> \in Watched(call[g])
              /\ <<"rotation", call[g].new>> \in Watched(call[g])
              /\ <<"credential", c.auth>> \in Writes(call[h])
              /\ <<"rotation", c.new>> \in Writes(call[h])
          BY <1>1 DEF Watched, Writes
        <5> QED BY <5>1, <5>2
      <4>3. ASSUME call'[g].dirty = FALSE, call[g].step \in {"old", "exec"}
            PROVE  rotation'[call[g].new] = None /\ call[g].step # "exec"
        <5>1. rotation[call[g].new] = None /\ (call[g].step = "exec" => call[g].auth \in cred)
          BY <4>0, <4>2, <4>3 DEF RotateOK
        <5> QED BY <5>1, <4>0, <4>2, <4>3, <1>3, <1>4
      <4>4. call[g].step = "ok" => rotation'[call[g].new] # None
        BY <4>0, <4>1 DEF RotateOK
      <4>5. call'[g].step = call[g].step
        BY <1>11, <2>3
      <4>6. rotation'[call[g].new] = None => (\E f \in RotationFiles : Keeps(f, call[g].new))'
        <5>1. \A f \in RotationFiles : Keeps(f, call[g].new) => Keeps(f, call[g].new)'
          BY <1>12, <2>1 DEF Keeps, Carries
        <5> QED BY <5>1, <4>0, <4>1 DEF RotateOK
      <4> QED BY <4>0, <4>1, <4>3, <4>4, <4>5, <4>6, <2>1, <1>0 DEF RotateOK
    <3>3. call'[g].step = call[g].step
      BY <1>11, <2>3
    <3> QED BY <2>0, <2>1, <3>1, <3>2, <3>3, <1>0 DEF AdminCallOK
  <2> QED BY <2>2, <2>3
<1>14. CliOK(cli[p])' /\ DurableOK(cli[p])'
  <2> SUFFICES ASSUME NEW d, d = cli[p] PROVE CliOK(d)' /\ DurableOK(d)'
    BY <1>0
  <2>0. CliOK(d) /\ d \in CliStates /\ cli'[p] = d
    BY <1>0 DEF ClientShape
  <2>1. d.pc \in Preparing => d.attempt.new # c.new
    BY <2>0 DEF CliOK, CliStagesOK, Unused
  <2>3. d.pc \notin {"idle", "prepare"} => AdminAttempt(d.attempt, RecoveryFile(d))'
    BY <2>0, <1>9 DEF CliOK, RecoveryFile
  <2>4. d.pc \in Preparing => Unused(d.attempt.new)'
    <3> SUFFICES ASSUME d.pc \in Preparing PROVE Unused(d.attempt.new)'
      OBVIOUS
    <3>1. Unused(d.attempt.new) /\ d.attempt.new \in Tokens
      BY <2>0 DEF CliOK, CliStagesOK, AdminAttempt, Attempt, Preparing
    <3> QED BY <3>1, <2>1, <1>0, <1>4, <1>11 DEF Unused, Recorded
  <2>5. d.pc \in Finishing => Confirmed(d)'
    <3> SUFFICES ASSUME d.pc \in Finishing PROVE Confirmed(d)'
      OBVIOUS
    <3>1. Confirmed(d) /\ d.attempt.new \in Tokens
      BY <2>0 DEF CliOK, CliStagesOK, AdminAttempt, Attempt, Finishing
    <3> QED BY <3>1, <1>0, <1>2, <1>4 DEF Confirmed
  <2>6. CliStagesOK(d)'
    <3>1. CliStagesOK(d)
      BY <2>0 DEF CliOK
    <3>2. UNCHANGED files /\ \A g \in Handlers : call'[g].op = call[g].op /\ call'[g].new = call[g].new
      BY <1>0, <1>11
    <3>3. d.pc = "wait" => d.conn \in Handlers
      BY <3>1 DEF CliStagesOK
    <3> QED BY <3>1, <3>2, <3>3, <2>4, <2>5 DEF CliStagesOK, Now, Durable, RecoveryFile
  <2>7. d.cmd = "rotate" /\ d.pc = "prepare" => Recorded(d.auth)'
    <3> SUFFICES ASSUME d.cmd = "rotate", d.pc = "prepare" PROVE Recorded(d.auth)'
      OBVIOUS
    <3>1. d.auth \in Tokens /\ Recorded(d.auth)
      BY <2>0 DEF CliOK
    <3> QED BY <3>1, <1>6
  <2>8. DurableOK(d)'
    BY <1>0 DEF DurableOK, RecoveryFile, Now, Durable, IsAttempt
  <2> QED BY <2>0, <2>3, <2>6, <2>7, <2>8, <1>0 DEF CliOK
<1> QED BY <1>5, <1>7, <1>8, <1>10, <1>11, <1>13, <1>14

-----------------------------------------------------------------------------
(* A step of the command leaves the relay alone.  It may let a durable     *)
(* recovery file go when no call in flight still needs it.                 *)
Needless(f) ==
  IsAttempt(Now(f)) =>
    \/ \A h \in Handlers : call[h].new # Now(f).new
    \/ IF f = "bootstrap" THEN boot = Now(f).new ELSE rotation[Now(f).new] # None

(* What a path holds afterwards, now and for good, it held before, or is   *)
(* an attempt or a token that the invariant allows.                        *)
FilesKept ==
  /\ \A f \in AttemptFiles : Durable(f) = Now(f) =>
       Needless(f) \/ (files'[f].now = Now(f) /\ files'[f].durable = Durable(f))
  /\ \A f \in AttemptFiles : \A a \in {files'[f].now, files'[f].durable} :
       a \in {Now(f), Durable(f)} \/ (IsAttempt(a) => AdminAttempt(a, f))
  /\ \A dst \in Destinations : \A t \in {files'[dst].now, files'[dst].durable} :
       t \in {Now(dst), Durable(dst)} \/ (t \in Tokens => Recorded(t))

LEMMA AttemptStays ==
  ASSUME UNCHANGED <<boot, cred, rotation>>, drawn \subseteq drawn',
         NEW a, NEW f, AdminAttempt(a, f)
  PROVE  AdminAttempt(a, f)'
BY DEF AdminAttempt, Recorded

LEMMA ClientFrame ==
  ASSUME NEW p \in Commands, AdminInv(p), UNCHANGED <<relayVars, call>>,
         drawn \subseteq drawn', drawn' \subseteq Tokens, FilesKept
  PROVE  /\ RelayShape' /\ CallShape' /\ RecordsInv' /\ CallsInv' /\ AttemptsInv'
         /\ TokensRecorded'
<1> USE DEF AdminInv
<1>0. UNCHANGED <<boot, cred, rotation, call>>
  BY DEF relayVars
<1>1. RelayShape' /\ CallShape' /\ RecordsInv'
  BY <1>0 DEF RelayShape, CallShape, RecordsInv, OneAdministrator, Recorded
<1>2. AttemptsInv'
  <2> SUFFICES ASSUME NEW f \in AttemptFiles, NEW a \in {files'[f].now, files'[f].durable},
                      IsAttempt(a)
               PROVE  AdminAttempt(a, f)'
    BY DEF AttemptsInv, Now, Durable, IsAttempt
  <2>1. AdminAttempt(a, f)
    BY DEF AttemptsInv, FilesKept
  <2> QED BY <2>1, <1>0, AttemptStays
<1>3. TokensRecorded'
  <2> SUFFICES ASSUME NEW f \in Destinations, NEW t \in {files'[f].now, files'[f].durable},
                      t \in Tokens
               PROVE  Recorded(t)'
    BY DEF TokensRecorded, Now, Durable
  <2>1. Recorded(t)
    BY DEF TokensRecorded, FilesKept
  <2> QED BY <2>1, <1>0 DEF Recorded
<1>4. ASSUME NEW f \in AttemptFiles, NEW h \in Handlers, Keeps(f, call[h].new)
      PROVE  \/ Keeps(f, call[h].new)'
             \/ IF f = "bootstrap" THEN boot = call[h].new ELSE rotation[call[h].new] # None
  <2>1. f \notin Destinations /\ Durable(f) = Now(f) /\ IsAttempt(Now(f)) /\ Now(f).new = call[h].new
    BY <1>4, AdminFiles DEF Keeps, Carries
  <2>2. CASE files'[f].now = Now(f) /\ files'[f].durable = Durable(f)
    BY <2>1, <2>2, <1>0 DEF Keeps, Carries, Now, Durable, IsAttempt
  <2>3. CASE Needless(f)
    BY <2>1, <2>3 DEF Needless
  <2> QED BY <2>1, <2>2, <2>3 DEF FilesKept
<1>5. CallsInv'
  <2> SUFFICES ASSUME NEW h \in Handlers PROVE AdminCallOK(call[h])'
    BY DEF CallsInv
  <2>1. AdminCallOK(call[h]) /\ call'[h] = call[h]
    BY <1>0 DEF CallsInv
  <2>2. call[h].op = "bootstrap" => BootstrapOK(call[h])'
    <3>1. "bootstrap" \in AttemptFiles
      BY DEF AttemptFiles
    <3>2. call[h].op = "bootstrap" => boot = call[h].new \/ Keeps("bootstrap", call[h].new)'
      BY <2>1, <3>1, <1>4 DEF AdminCallOK, BootstrapOK
    <3> QED BY <3>2, <2>1, <1>0 DEF AdminCallOK, BootstrapOK
  <2>3. call[h].op = "rotate" => RotateOK(call[h])'
    <3>1. ASSUME call[h].op = "rotate", rotation[call[h].new] = None
          PROVE  (\E f \in RotationFiles : Keeps(f, call[h].new))'
      <4>1. PICK f \in RotationFiles : Keeps(f, call[h].new)
        BY <3>1, <2>1 DEF AdminCallOK, RotateOK
      <4>2. Keeps(f, call[h].new)'
        BY <4>1, <3>1, <1>4, AdminFiles
      <4> QED BY <4>2
    <3> QED BY <3>1, <2>1, <1>0 DEF AdminCallOK, RotateOK
  <2> QED BY <2>1, <2>2, <2>3, <1>0 DEF AdminCallOK
<1> QED BY <1>1, <1>2, <1>3, <1>5

LEMMA ClientMoves ==
  ASSUME NEW p \in Commands, NEW d \in CliStates, AdminInv(p),
         cli' = [cli EXCEPT ![p] = d], UNCHANGED <<relayVars, call, crashes>>,
         drawn \subseteq drawn', drawn' \subseteq Tokens, files' \in AdminDirectories,
         mishap' \in {"none", "unsynced", "crashed"}, FilesKept,
         HeldInv', CliOK(d)', DurableOK(d)'
  PROVE  AdminInv(p)'
<1>1. ClientShape' /\ cli'[p] = d
  BY DEF AdminInv, ClientShape
<1>2. /\ RelayShape' /\ CallShape' /\ RecordsInv' /\ CallsInv' /\ AttemptsInv'
      /\ TokensRecorded'
  BY ClientFrame
<1>3. CliOK(cli[p])' /\ DurableOK(cli[p])'
  BY <1>1
<1> QED BY <1>1, <1>2, <1>3 DEF AdminInv

(* Steps that leave the files alone.                                       *)
LEMMA QuietMoves ==
  ASSUME NEW p \in Commands, NEW d \in CliStates, AdminInv(p),
         cli' = [cli EXCEPT ![p] = d], UNCHANGED <<relayVars, call, files, mishap, crashes>>,
         drawn \subseteq drawn', drawn' \subseteq Tokens,
         cli[p].pc # "staged", CliOK(d)'
  PROVE  AdminInv(p)'
<1> USE DEF AdminInv
<1>1. HeldInv'
  BY DEF HeldInv, Carries, Keeps, Now, Durable, IsAttempt, relayVars
<1>2. files' \in AdminDirectories /\ mishap' \in {"none", "unsynced", "crashed"}
  BY DEF ClientShape
<1>3. DurableOK(d)'
  BY DEF DurableOK, RecoveryFile, Now, Durable, IsAttempt
<1>4. FilesKept
  BY DEF FilesKept, Now, Durable
<1> QED BY <1>1, <1>2, <1>3, <1>4, ClientMoves

LEMMA IdleIsOK == Idle \in CliStates /\ CliOK(Idle) /\ CliOK(Idle)' /\ Idle.pc = "idle"
<1>1. Idle \in CliStates /\ Idle.pc = "idle"
  BY DEF Idle, CliStates, Destinations
<1>2. CliOK(Idle)
  BY DEF CliOK, CliStagesOK, Idle, Preparing, Finishing
<1>3. CliOK(Idle)'
  BY DEF CliOK, CliStagesOK, Idle, Preparing, Finishing
<1> QED BY <1>1, <1>2, <1>3

LEMMA QuietExit ==
  ASSUME NEW p \in Commands, AdminInv(p), Exit(p), cli[p].pc # "staged",
         UNCHANGED <<relayVars, call, files, mishap, drawn, crashes>>
  PROVE  AdminInv(p)'
<1>1. drawn' \subseteq Tokens /\ drawn \subseteq drawn'
  BY DEF AdminInv, ClientShape
<1>2. cli' = [cli EXCEPT ![p] = Idle]
  BY DEF Exit
<1> QED BY <1>1, <1>2, IdleIsOK, QuietMoves

LEMMA CommandBegins ==
  ASSUME NEW p \in Commands, AdminInv(p), NEW src \in Destinations, NEW dst \in Destinations,
         BeginBootstrap(p) \/ BeginRotate(p, src, dst)
  PROVE  AdminInv(p)'
<1>0. UNCHANGED <<boot, cred, rotation, call, files, mishap, drawn, crashes>>
        /\ cli[p].pc = "idle" /\ Idle \in CliStates
  BY IdleIsOK DEF BeginBootstrap, BeginRotate, bounds, relayVars
<1>1. drawn' \subseteq Tokens /\ drawn \subseteq drawn'
  BY <1>0 DEF AdminInv, ClientShape
<1>2. CASE BeginBootstrap(p)
  <2> DEFINE d == [Idle EXCEPT !.pc = "prepare", !.cmd = "bootstrap"]
  <2>1. d \in CliStates /\ cli' = [cli EXCEPT ![p] = d]
    BY <1>2, <1>0 DEF BeginBootstrap, CliStates
  <2>2. d.pc = "prepare" /\ d.cmd = "bootstrap" /\ d.auth = None
    BY DEF Idle
  <2> HIDE DEF d
  <2>3. CliOK(d)'
    BY <2>2 DEF CliOK, CliStagesOK, Preparing, Finishing
  <2> QED BY <2>1, <2>3, <1>0, <1>1, QuietMoves DEF relayVars
<1>3. CASE BeginRotate(p, src, dst)
  <2> SUFFICES ASSUME NEW t, t = files[src].now PROVE AdminInv(p)'
    OBVIOUS
  <2> DEFINE d == [Idle EXCEPT !.pc = "prepare", !.cmd = "rotate", !.dst = dst, !.auth = t]
  <2>1. t \in Tokens /\ cli' = [cli EXCEPT ![p] = d]
    BY <1>3 DEF BeginRotate
  <2>2. d \in CliStates /\ d.pc = "prepare" /\ d.cmd = "rotate" /\ d.auth = t
    BY <1>0, <2>1 DEF Idle, CliStates
  <2> HIDE DEF d
  <2>3. Recorded(t) /\ boot # None
    <3>1. Recorded(t)
      BY <2>1 DEF AdminInv, TokensRecorded, Now
    <3> QED BY <3>1, <2>1, AdminConstantsFacts DEF Recorded, AdminInv, RecordsInv
  <2>4. CliOK(d)'
    BY <2>1, <2>2, <2>3, <1>0 DEF CliOK, CliStagesOK, Preparing, Finishing, Recorded
  <2> QED BY <2>1, <2>2, <2>4, <1>0, <1>1, QuietMoves DEF relayVars
<1> QED BY <1>2, <1>3

LEMMA CommandPrepares ==
  ASSUME NEW p \in Commands, AdminInv(p), Prepare(p)
  PROVE  AdminInv(p)'
<1> SUFFICES ASSUME NEW c, c = cli[p], NEW f, f = RecoveryFile(c) PROVE AdminInv(p)'
  OBVIOUS
<1>0. /\ c.pc = "prepare" /\ c \in CliStates /\ CliOK(c) /\ c.cmd \in {"bootstrap", "rotate"}
      /\ UNCHANGED <<boot, cred, rotation, call, files, mishap, crashes>>
  BY DEF Prepare, PrepareResumed, PrepareRefused, PrepareNew, AdminInv, ClientShape, CliOK,
     CliStates, relayVars, bounds
<1>1. f \in AttemptFiles /\ (f = "bootstrap" <=> c.cmd = "bootstrap") /\ File(p) = f
  BY <1>0, AdminFiles DEF RecoveryFile, File, CliStates
<1>2. CASE PrepareResumed(p)
  <2> SUFFICES ASSUME NEW a, a = Now(f) PROVE AdminInv(p)'
    OBVIOUS
  <2> DEFINE d == [c EXCEPT !.pc = "send", !.attempt = a]
  <2>1. IsAttempt(a) /\ Resumable(p, a) /\ cli' = [cli EXCEPT ![p] = d] /\ UNCHANGED drawn
    BY <1>1, <1>2 DEF PrepareResumed, Now, AdminInv, ClientShape
  <2>2. AdminAttempt(a, f) /\ AdminAttempt(a, f)'
    <3>1. AdminAttempt(a, f)
      BY <2>1, <1>1 DEF AdminInv, AttemptsInv
    <3> QED BY <3>1, <2>1, <1>0, AttemptStays
  <2>3. d \in CliStates /\ d.pc = "send" /\ d.attempt = a /\ d.cmd = c.cmd /\ d.auth = c.auth
          /\ RecoveryFile(d) = f
    BY <1>0, <2>2 DEF CliStates, AdminAttempt, Attempt, RecoveryFile
  <2>4. Durable(f) = a
    BY <1>0, <1>1, <2>1 DEF AdminInv, DurableOK
  <2> HIDE DEF d
  <2>5. CliOK(d)'
    BY <2>2, <2>3, <2>4, <1>0 DEF CliOK, CliStagesOK, Preparing, Finishing, Now, Durable, RecoveryFile
  <2>6. drawn' \subseteq Tokens /\ drawn \subseteq drawn'
    BY <2>1 DEF AdminInv, ClientShape
  <2> QED BY <2>1, <2>3, <2>5, <2>6, <1>0, QuietMoves DEF relayVars
<1>3. CASE PrepareRefused(p)
  BY <1>0, <1>3, QuietExit DEF PrepareRefused, relayVars
<1>4. CASE PrepareNew(p)
  <2>1. PICK t \in Tokens \ drawn :
          /\ drawn' = drawn \cup {t}
          /\ cli' = [cli EXCEPT ![p].pc = "stage",
                                ![p].attempt = [source |-> cli[p].auth, new |-> t]]
    BY <1>4 DEF PrepareNew
  <2> DEFINE a == [source |-> c.auth, new |-> t]
             d == [c EXCEPT !.pc = "stage", !.attempt = a]
  <2>2. cli' = [cli EXCEPT ![p] = d] /\ a \in Attempt /\ a.new = t /\ a.source = c.auth
    BY <2>1, <1>0 DEF AdminInv, ClientShape, CliStates, Attempt
  <2> HIDE DEF a
  <2>3. d \in CliStates /\ d.pc = "stage" /\ d.attempt = a /\ d.cmd = c.cmd /\ d.auth = c.auth
          /\ RecoveryFile(d) = f
    BY <1>0, <2>2 DEF CliStates, Attempt, RecoveryFile
  <2> HIDE DEF d
  <2>4. Unused(t) /\ Unused(t)'
    <3>1. boot # t /\ rotation[t] = None
      BY AdminConstantsFacts DEF AdminInv, RecordsInv
    <3>2. \A h \in Handlers : call[h].new # t
      BY AdminConstantsFacts DEF AdminInv, CallsInv, AdminCallOK
    <3> QED BY <3>1, <3>2, <1>0 DEF Unused, Recorded
  <2>5. AdminAttempt(a, f)'
    <3>1. c.cmd = "rotate" => c.auth \in Tokens /\ Recorded(c.auth) /\ boot # None
      BY <1>0 DEF CliOK
    <3> QED BY <3>1, <2>1, <2>2, <2>4, <1>0, <1>1 DEF AdminAttempt, Unused, Recorded, CliOK
  <2>6. CliOK(d)'
    BY <2>2, <2>3, <2>4, <2>5, <1>0 DEF CliOK, CliStagesOK, Preparing, Finishing, RecoveryFile
  <2>7. drawn' \subseteq Tokens /\ drawn \subseteq drawn'
    BY <2>1 DEF AdminInv, ClientShape
  <2> QED BY <2>2, <2>3, <2>6, <2>7, <1>0, QuietMoves DEF relayVars
<1> QED BY <1>2, <1>3, <1>4 DEF Prepare

LEMMA CommandTimesOut ==
  ASSUME NEW p \in Commands, AdminInv(p), Timeout(p)
  PROVE  AdminInv(p)'
BY QuietExit DEF Timeout, relayVars

-----------------------------------------------------------------------------
(* Steps that change the files: what a path holds, and what the disk keeps.*)
LEMMA OneFileChanges ==
  ASSUME NEW f \in AdminPaths, NEW v \in MayHold(f), ClientShape,
         files' = [files EXCEPT ![f].now = v]
  PROVE  /\ files' \in AdminDirectories
         /\ files'[f].now = v /\ files'[f].durable = files[f].durable
         /\ \A g \in AdminPaths : g # f => files'[g] = files[g]
<1>1. files \in [AdminPaths -> [now : AdminContents, durable : AdminContents]]
  BY DEF ClientShape, AdminDirectories
<1>2. v \in AdminContents
  BY DEF MayHold, AdminContents
<1>3. files' \in [AdminPaths -> [now : AdminContents, durable : AdminContents]]
        /\ files'[f].now = v /\ files'[f].durable = files[f].durable
        /\ \A g \in AdminPaths : g # f => files'[g] = files[g]
  BY <1>1, <1>2
<1>4. \A g \in AdminPaths : files'[g].now \in MayHold(g) /\ files'[g].durable \in MayHold(g)
  BY <1>3 DEF ClientShape, AdminDirectories
<1> QED BY <1>3, <1>4 DEF AdminDirectories

LEMMA DirectorySynced ==
  ASSUME ClientShape, files' = SyncDirectory(files)
  PROVE  /\ files' \in AdminDirectories
         /\ \A f \in AdminPaths : files'[f].now = Now(f) /\ files'[f].durable = Now(f)
<1>1. files \in [AdminPaths -> [now : AdminContents, durable : AdminContents]]
        /\ \A f \in AdminPaths : files[f].now \in MayHold(f) /\ files[f].now \in AdminContents
  BY DEF ClientShape, AdminDirectories
<1>2. files' = [f \in AdminPaths |-> [now |-> files[f].now, durable |-> files[f].now]]
  BY <1>1 DEF SyncDirectory
<1>3. \A f \in AdminPaths : files'[f].now = Now(f) /\ files'[f].durable = Now(f)
  BY <1>2 DEF Now
<1>4. files' \in [AdminPaths -> [now : AdminContents, durable : AdminContents]]
  BY <1>1, <1>2
<1> QED BY <1>1, <1>3, <1>4 DEF AdminDirectories, Now

(* A step that changes what `f` holds: the credential, when it was there,  *)
(* is in another file too, and for good unless the step is the mishap.     *)
CarriedElsewhere(f) ==
  \A t \in cred : Carries(f, t) =>
    \E g \in AdminPaths : /\ g # f /\ Carries(g, t)
                          /\ mishap' = "none" => Durable(g) = Now(g)

(* The mishap runs its course, in order.                                   *)
MishapProceeds == /\ mishap' \in {"none", "unsynced", "crashed"}
                  /\ mishap' = "none" => mishap = "none"
                  /\ mishap' # "crashed" => mishap # "crashed"

LEMMA HeldKept ==
  ASSUME HeldInv, UNCHANGED cred, MishapProceeds, NEW f \in AdminPaths,
         \A g \in AdminPaths : g # f => files'[g] = files[g],
         CarriedElsewhere(f)
  PROVE  HeldInv'
<1>1. \A g \in AdminPaths : \A t : g # f /\ Carries(g, t) =>
        Carries(g, t)' /\ (Durable(g) = Now(g) => Keeps(g, t)')
  BY DEF Carries, Keeps, Now, Durable, IsAttempt
<1>2. ASSUME NEW t \in cred, mishap' # "crashed"
      PROVE  (\E g \in AdminPaths : Carries(g, t))'
  <2>1. PICK g \in AdminPaths : Carries(g, t)
    BY <1>2 DEF HeldInv, MishapProceeds
  <2>2. CASE g = f
    BY <2>1, <2>2, <1>1 DEF CarriedElsewhere
  <2> QED BY <2>1, <2>2, <1>1
<1>3. ASSUME NEW t \in cred, mishap' = "none"
      PROVE  (\E g \in AdminPaths : Keeps(g, t))'
  <2>1. PICK g \in AdminPaths : Keeps(g, t)
    BY <1>3 DEF HeldInv, MishapProceeds
  <2>2. CASE g = f
    BY <2>1, <2>2, <1>1, <1>3 DEF CarriedElsewhere, Keeps
  <2> QED BY <2>1, <2>2, <1>1 DEF Keeps
<1> QED BY <1>2, <1>3 DEF HeldInv

(* One file changes, and the command moves on.                             *)
LEMMA FileMoves ==
  ASSUME NEW p \in Commands, NEW d \in CliStates, AdminInv(p),
         NEW f \in AdminPaths, NEW v \in MayHold(f), files' = [files EXCEPT ![f].now = v],
         cli' = [cli EXCEPT ![p] = d], UNCHANGED <<relayVars, call, drawn, crashes>>,
         MishapProceeds, CarriedElsewhere(f),
         f \in AttemptFiles => /\ Needless(f)
                               /\ IsAttempt(v) => /\ AdminAttempt(v, f)
                                                  /\ d.pc = "staged" /\ f = RecoveryFile(d),
         f \in Destinations => (v \in Tokens => Recorded(v)),
         cli[p].pc = "staged" => f = RecoveryFile(cli[p]), CliOK(d)'
  PROVE  AdminInv(p)'
<1>1. /\ files' \in AdminDirectories
      /\ files'[f].now = v /\ files'[f].durable = files[f].durable
      /\ \A g \in AdminPaths : g # f => files'[g] = files[g]
  BY OneFileChanges DEF AdminInv
<1>2. FilesKept
  <2>1. ASSUME NEW g \in AdminPaths, g # f
        PROVE  files'[g].now = Now(g) /\ files'[g].durable = Durable(g)
    BY <2>1, <1>1 DEF Now, Durable
  <2> QED BY <2>1, <1>1, AdminFiles DEF FilesKept, Durable
<1>3. HeldInv'
  BY <1>1, HeldKept DEF AdminInv, relayVars
<1>4. DurableOK(d)'
  <2> SUFFICES ASSUME NEW g \in AttemptFiles, IsAttempt(files'[g].now),
                      ~(d.pc = "staged" /\ g = RecoveryFile(d))
               PROVE  files'[g].durable = files'[g].now
    BY DEF DurableOK, Now, Durable, RecoveryFile, IsAttempt
  <2>1. g # f
    BY <1>1
  <2>2. files'[g] = files[g]
    BY <2>1, <1>1, AdminFiles
  <2> QED BY <2>1, <2>2 DEF AdminInv, DurableOK, Now, Durable
<1>5. drawn' \subseteq Tokens /\ drawn \subseteq drawn'
  BY DEF AdminInv, ClientShape
<1> QED BY <1>1, <1>2, <1>3, <1>4, <1>5, ClientMoves DEF MishapProceeds

(* The directory is synced, and the command moves on.                      *)
LEMMA SyncMoves ==
  ASSUME NEW p \in Commands, NEW d \in CliStates, AdminInv(p), Synced,
         cli' = [cli EXCEPT ![p] = d], UNCHANGED <<relayVars, call, drawn, crashes>>,
         CliOK(d)'
  PROVE  AdminInv(p)'
<1>1. files' \in AdminDirectories
        /\ \A f \in AdminPaths : files'[f].now = Now(f) /\ files'[f].durable = Now(f)
  BY DirectorySynced DEF AdminInv, Synced
<1>2. FilesKept
  BY <1>1, AdminFiles DEF FilesKept
<1>3. mishap' \in {"none", "unsynced", "crashed"} /\ (mishap' # "crashed" => mishap # "crashed")
  BY DEF Synced, AdminInv, ClientShape
<1>4. HeldInv'
  <2>1. \A f \in AdminPaths : \A t : Carries(f, t) => Carries(f, t)' /\ Keeps(f, t)'
    BY <1>1 DEF Carries, Keeps, Now, Durable, IsAttempt
  <2>2. UNCHANGED cred
    BY DEF relayVars
  <2> QED BY <2>1, <2>2, <1>3 DEF AdminInv, HeldInv
<1>5. DurableOK(d)'
  BY <1>1, AdminFiles DEF DurableOK, Now, Durable
<1>6. drawn' \subseteq Tokens /\ drawn \subseteq drawn'
  BY DEF AdminInv, ClientShape
<1> QED BY <1>1, <1>2, <1>3, <1>4, <1>5, <1>6, ClientMoves

-----------------------------------------------------------------------------
LEMMA AttemptIsStaged ==
  ASSUME NEW p \in Commands, AdminInv(p), Stage(p) \/ Staging(p) \/ Staged(p)
  PROVE  AdminInv(p)'
<1> SUFFICES ASSUME NEW c, c = cli[p], NEW f, f = RecoveryFile(c) PROVE AdminInv(p)'
  OBVIOUS
<1>0. /\ c.pc \in Preparing /\ c \in CliStates /\ CliOK(c)
      /\ c.cmd \in {"bootstrap", "rotate"} /\ f \in AttemptFiles /\ f \in AdminPaths
      /\ f \notin Destinations /\ File(p) = f
      /\ UNCHANGED <<boot, cred, rotation, call, drawn, crashes>>
  BY AdminFiles DEF Stage, Staging, Staged, AdminInv, ClientShape, CliOK, Preparing, CliStates,
     relayVars, bounds, RecoveryFile, File
<1>1. AdminAttempt(c.attempt, f) /\ AdminAttempt(c.attempt, f)'
        /\ Unused(c.attempt.new) /\ Unused(c.attempt.new)'
  <2>1. AdminAttempt(c.attempt, f) /\ Unused(c.attempt.new)
    BY <1>0 DEF CliOK, CliStagesOK, Preparing
  <2>2. AdminAttempt(c.attempt, f)'
    BY <2>1, <1>0, AttemptStays
  <2> QED BY <2>1, <2>2, <1>0 DEF Unused, Recorded
<1>2. Torn \in MayHold(f) /\ c.attempt \in MayHold(f) /\ None # Torn /\ IsAttempt(c.attempt)
  BY <1>0, <1>1, AdminConstantsFacts DEF MayHold, AdminAttempt, IsAttempt
<1>3. ASSUME NEW pc \in {"staging", "staged", "send"}, NEW d, d = [c EXCEPT !.pc = pc],
             pc = "staging" => files'[f].now = Torn,
             pc \in {"staged", "send"} => files'[f].now = c.attempt,
             pc = "send" => files'[f].durable = c.attempt
      PROVE  /\ d \in CliStates /\ d.pc = pc /\ d.attempt = c.attempt /\ RecoveryFile(d) = f
             /\ CliOK(d)'
  <2>1. d \in CliStates /\ d.pc = pc /\ d.attempt = c.attempt /\ d.cmd = c.cmd /\ d.auth = c.auth
          /\ RecoveryFile(d) = f
    BY <1>0, <1>3 DEF CliStates, RecoveryFile
  <2>2. CliStagesOK(d)'
    BY <2>1, <1>1, <1>3 DEF CliStagesOK, Preparing, Finishing, Now, Durable, RecoveryFile
  <2> QED BY <2>1, <2>2, <1>0, <1>1 DEF CliOK, RecoveryFile, Preparing
<1>4. CASE Stage(p) /\ files[f].now = None
  <2>1. /\ cli' = [cli EXCEPT ![p] = [c EXCEPT !.pc = "staging"]]
        /\ files' = [files EXCEPT ![f].now = Torn] /\ c.pc = "stage" /\ UNCHANGED mishap
    BY <1>0, <1>4 DEF Stage, Advance, OpenNewFile, AdminInv, ClientShape
  <2>2. files'[f].now = Torn
    BY <2>1, <1>0, <1>2, OneFileChanges DEF AdminInv
  <2>3. ~IsAttempt(Now(f)) /\ ~IsAttempt(Torn)
    BY <1>4 DEF IsAttempt, Now
  <2>4. MishapProceeds /\ CarriedElsewhere(f)
    BY <2>1, <2>3, <1>0 DEF MishapProceeds, CarriedElsewhere, Carries, AdminInv, ClientShape
  <2> QED BY <1>0, <1>2, <1>3, <2>1, <2>2, <2>3, <2>4, FileMoves DEF relayVars, Needless
<1>5. CASE Stage(p) /\ files[f].now # None
  BY <1>0, <1>5, QuietExit DEF Stage, relayVars
<1>6. CASE Staging(p)
  <2>1. /\ cli' = [cli EXCEPT ![p] = [c EXCEPT !.pc = "staged"]]
        /\ files' = [files EXCEPT ![f].now = c.attempt] /\ c.pc = "staging" /\ UNCHANGED mishap
    BY <1>0, <1>6 DEF Staging, Advance, Written, AdminInv, ClientShape
  <2>2. files'[f].now = c.attempt
    BY <2>1, <1>0, <1>2, OneFileChanges DEF AdminInv
  <2>3. ~IsAttempt(Now(f))
    BY <1>0, <2>1 DEF CliOK, CliStagesOK, IsAttempt
  <2>4. MishapProceeds /\ CarriedElsewhere(f)
    BY <2>1, <2>3, <1>0 DEF MishapProceeds, CarriedElsewhere, Carries, AdminInv, ClientShape
  <2> QED BY <1>0, <1>1, <1>2, <1>3, <2>1, <2>2, <2>3, <2>4, FileMoves DEF relayVars, Needless
<1>7. CASE Staged(p)
  <2>1. /\ cli' = [cli EXCEPT ![p] = [c EXCEPT !.pc = "send"]] /\ Synced /\ c.pc = "staged"
    BY <1>0, <1>7 DEF Staged, Advance, AdminInv, ClientShape
  <2>2. files'[f].now = c.attempt /\ files'[f].durable = c.attempt
    BY <1>0, <2>1, DirectorySynced DEF CliOK, CliStagesOK, AdminInv, Synced
  <2> QED BY <1>0, <1>3, <2>1, <2>2, SyncMoves DEF relayVars
<1> QED BY <1>0, <1>4, <1>5, <1>6, <1>7

(* From the relay's answer on, the attempt is confirmed: the token it      *)
(* stands for is the credential or was one, the token it replaces is none. *)
LEMMA ConfirmedIsSpent ==
  ASSUME NEW p \in Commands, AdminInv(p), cli[p].pc \in Finishing,
         NEW c, c = cli[p], NEW f, f = RecoveryFile(c)
  PROVE  /\ c \in CliStates /\ CliOK(c) /\ c.attempt \in Attempt /\ c.attempt.new \in Tokens
         /\ f \in AttemptFiles /\ c.dst \in Destinations /\ File(p) = f
         /\ AdminAttempt(c.attempt, f) /\ Recorded(c.attempt.new)
         /\ c.attempt.source \notin cred
         /\ c.pc # "removed" => Now(f) = c.attempt /\ Durable(f) = c.attempt
         /\ IF f = "bootstrap" THEN boot = c.attempt.new ELSE rotation[c.attempt.new] # None
<1>1. c \in CliStates /\ CliOK(c) /\ c.pc \in Finishing /\ c.dst \in Destinations
  BY DEF AdminInv, ClientShape, CliStates
<1>2. c.cmd \in {"bootstrap", "rotate"}
  BY <1>1 DEF CliOK, CliStates, Finishing
<1>3. f \in AttemptFiles /\ File(p) = f /\ (f = "bootstrap" <=> c.cmd = "bootstrap")
  BY <1>1, <1>2, AdminFiles DEF RecoveryFile, File
<1>4. /\ AdminAttempt(c.attempt, f) /\ Confirmed(c)
      /\ c.pc # "removed" => Now(f) = c.attempt /\ Durable(f) = c.attempt
  BY <1>1 DEF CliOK, CliStagesOK, Finishing
<1>5. c.attempt \in Attempt /\ c.attempt.new \in Tokens
  BY <1>4 DEF AdminAttempt, Attempt
<1>6. IF f = "bootstrap" THEN boot = c.attempt.new ELSE rotation[c.attempt.new] # None
  BY <1>3, <1>4 DEF Confirmed
<1>7. c.attempt.source \notin cred
  BY <1>4, <1>6, AdminConstantsFacts DEF AdminAttempt, AdminInv, RelayShape
<1> QED BY <1>1, <1>3, <1>4, <1>5, <1>6, <1>7 DEF Recorded

(* The command moves on within the finishing steps, to `pc`.               *)
LEMMA FinishingOK ==
  ASSUME NEW p \in Commands, AdminInv(p), cli[p].pc \in Finishing \ {"removed"},
         NEW c, c = cli[p], NEW f, f = RecoveryFile(c),
         NEW pc \in Finishing \ {"finalize"}, NEW d, d = [c EXCEPT !.pc = pc],
         UNCHANGED <<relayVars, drawn>>,
         pc # "removed" => files'[f].now = c.attempt /\ files'[f].durable = c.attempt,
         pc = "writing" => files'[c.dst].now = Torn,
         pc # "writing" => files'[c.dst].now = c.attempt.new
  PROVE  d \in CliStates /\ d.pc = pc /\ CliOK(d)'
<1>0. UNCHANGED <<boot, cred, rotation>>
  BY DEF relayVars
<1>1. CliOK(c) /\ c.pc \in Finishing /\ AdminAttempt(c.attempt, f) /\ c \in CliStates
  BY ConfirmedIsSpent
<1>2. d \in CliStates /\ d.pc = pc /\ d.attempt = c.attempt /\ d.cmd = c.cmd /\ d.auth = c.auth
        /\ d.dst = c.dst /\ RecoveryFile(d) = f
  BY <1>1 DEF CliStates, RecoveryFile, Finishing
<1>3. AdminAttempt(d.attempt, f)'
  BY <1>0, <1>1, <1>2, AttemptStays
<1>4. Confirmed(d)'
  BY <1>0, <1>1, <1>2 DEF CliOK, CliStagesOK, Confirmed
<1>5. CliStagesOK(d)'
  BY <1>2, <1>4 DEF CliStagesOK, Preparing, Finishing, Now, Durable, RecoveryFile
<1> QED BY <1>0, <1>1, <1>2, <1>3, <1>5 DEF CliOK, Finishing, RecoveryFile

LEMMA TokenIsPublished ==
  ASSUME NEW p \in Commands, AdminInv(p),
         Finalize(p) \/ WriteToken(p) \/ SyncToken(p) \/ RemoveAttempt(p)
  PROVE  AdminInv(p)'
<1> SUFFICES ASSUME NEW c, c = cli[p], NEW f, f = RecoveryFile(c) PROVE AdminInv(p)'
  OBVIOUS
<1>0. c.pc \in Finishing \ {"removed"} /\ UNCHANGED <<relayVars, call, drawn, crashes>>
  BY DEF Finalize, WriteToken, SyncToken, RemoveAttempt, Finishing, bounds
<1>1. /\ c \in CliStates /\ CliOK(c) /\ c.attempt \in Attempt /\ c.attempt.new \in Tokens
      /\ f \in AttemptFiles /\ c.dst \in Destinations /\ File(p) = f
      /\ Recorded(c.attempt.new) /\ c.attempt.source \notin cred
      /\ Now(f) = c.attempt /\ Durable(f) = c.attempt
      /\ IF f = "bootstrap" THEN boot = c.attempt.new ELSE rotation[c.attempt.new] # None
  BY <1>0, ConfirmedIsSpent
<1>2. /\ f \in AdminPaths /\ f \notin Destinations /\ c.dst \in AdminPaths
      /\ c.dst \notin AttemptFiles /\ f # c.dst
      /\ None \notin cred /\ Torn \notin cred /\ None \notin Tokens /\ Torn \notin Tokens
      /\ Torn \in MayHold(c.dst) /\ c.attempt.new \in MayHold(c.dst) /\ None \in MayHold(f)
      /\ ~IsAttempt(None)
  BY <1>1, AdminFiles, AdminConstantsFacts DEF MayHold, IsAttempt, AdminInv, RelayShape
<1>3. ASSUME NEW v \in {Torn, c.attempt.new}, files' = [files EXCEPT ![c.dst].now = v],
             NEW pc \in {"writing", "published", "replaced"}, Advance(p, pc), UNCHANGED mishap,
             pc = "writing" <=> v = Torn, Now(c.dst) \notin cred
      PROVE  AdminInv(p)'
  <2> DEFINE d == [c EXCEPT !.pc = pc]
  <2>1. /\ cli' = [cli EXCEPT ![p] = d] /\ v \in MayHold(c.dst) /\ pc \in Finishing \ {"finalize"}
        /\ v \in Tokens => Recorded(v)
    BY <1>1, <1>2, <1>3 DEF Advance, AdminInv, ClientShape, Finishing
  <2>2. files'[c.dst].now = v /\ files'[f] = files[f]
    BY <2>1, <1>2, <1>3, OneFileChanges DEF AdminInv
  <2>3. d \in CliStates /\ d.pc = pc /\ CliOK(d)'
    <3>1. files'[f].now = c.attempt /\ files'[f].durable = c.attempt
      BY <2>2, <1>1 DEF Now, Durable
    <3> QED BY <3>1, <2>1, <2>2, <1>0, <1>3, FinishingOK DEF Finishing
  <2>4. MishapProceeds /\ CarriedElsewhere(c.dst)
    BY <1>1, <1>3 DEF MishapProceeds, CarriedElsewhere, Carries, AdminInv, ClientShape
  <2>5. c.pc # "staged"
    BY <1>0 DEF Finishing
  <2> HIDE DEF d
  <2> QED BY <1>0, <1>2, <1>3, <2>1, <2>3, <2>4, <2>5, FileMoves
<1>4. ASSUME c.pc = "finalize", Advance(p, "remove"), Now(c.dst) = c.attempt.new,
             UNCHANGED <<files, mishap>>
      PROVE  AdminInv(p)'
  <2> DEFINE d == [c EXCEPT !.pc = "remove"]
  <2>1. cli' = [cli EXCEPT ![p] = d] /\ "remove" \in Finishing \ {"finalize"}
    BY <1>4 DEF Advance, AdminInv, ClientShape, Finishing
  <2>2. d \in CliStates /\ CliOK(d)'
    BY <2>1, <1>0, <1>1, <1>4, FinishingOK DEF Now, Durable
  <2>3. drawn' \subseteq Tokens /\ drawn \subseteq drawn'
    BY <1>0 DEF AdminInv, ClientShape
  <2> HIDE DEF d
  <2> QED BY <2>1, <2>2, <2>3, <1>0, <1>4, QuietMoves
<1>5. CASE Finalize(p)
  <2> DEFINE Written1(pc, v) == files' = [files EXCEPT ![c.dst].now = v] /\ Advance(p, pc)
  <2>0. c.pc = "finalize" /\ UNCHANGED mishap
    BY <1>5 DEF Finalize
  <2>1. \/ Now(c.dst) = None /\ Written1("writing", Torn)
        \/ Now(c.dst) = c.attempt.new /\ Advance(p, "remove") /\ UNCHANGED files
        \/ Now(c.dst) = c.attempt.source /\ Written1("replaced", c.attempt.new)
        \/ Exit(p) /\ UNCHANGED files
    BY <1>5 DEF Finalize, Token, Now, OpenNewFile, Written
  <2>2. CASE Now(c.dst) = None /\ Written1("writing", Torn)
    BY <2>0, <2>2, <1>2, <1>3
  <2>3. CASE Now(c.dst) = c.attempt.new /\ Advance(p, "remove") /\ UNCHANGED files
    BY <2>0, <2>3, <1>4
  <2>4. CASE Now(c.dst) = c.attempt.source /\ Written1("replaced", c.attempt.new)
    BY <2>0, <2>4, <1>1, <1>2, <1>3
  <2>5. CASE Exit(p) /\ UNCHANGED files
    BY <2>0, <2>5, <1>0, QuietExit
  <2> QED BY <2>1, <2>2, <2>3, <2>4, <2>5
<1>6. CASE WriteToken(p)
  <2>1. /\ files' = [files EXCEPT ![c.dst].now = c.attempt.new] /\ Advance(p, "published")
        /\ UNCHANGED mishap /\ c.pc = "writing"
    BY <1>6 DEF WriteToken, Written
  <2>2. Now(c.dst) = Torn
    BY <2>1, <1>1 DEF CliOK, CliStagesOK
  <2> QED BY <2>1, <2>2, <1>1, <1>2, <1>3
<1>7. CASE SyncToken(p)
  <2> DEFINE d == [c EXCEPT !.pc = "remove"]
  <2>1. /\ cli' = [cli EXCEPT ![p] = d] /\ Synced /\ c.pc \in {"published", "replaced"}
        /\ "remove" \in Finishing \ {"finalize"}
    BY <1>7 DEF SyncToken, Advance, AdminInv, ClientShape, Finishing
  <2>2. Now(c.dst) = c.attempt.new
    BY <2>1, <1>1 DEF CliOK, CliStagesOK
  <2>3. \A g \in AdminPaths : files'[g].now = Now(g) /\ files'[g].durable = Now(g)
    BY <2>1, DirectorySynced DEF AdminInv, Synced
  <2>4. d \in CliStates /\ CliOK(d)'
    BY <2>1, <2>2, <2>3, <1>0, <1>1, <1>2, FinishingOK
  <2> HIDE DEF d
  <2> QED BY <2>1, <2>4, <1>0, SyncMoves
<1>8. CASE RemoveAttempt(p)
  <2> DEFINE d == [c EXCEPT !.pc = "removed"]
  <2>1. /\ cli' = [cli EXCEPT ![p] = d] /\ files' = [files EXCEPT ![f].now = None]
        /\ c.pc = "remove" /\ "removed" \in Finishing \ {"finalize"}
        /\ mishap' = IF mishap = "none" /\ Durable(c.dst) # c.attempt.new
                     THEN "unsynced" ELSE mishap
    BY <1>1, <1>8 DEF RemoveAttempt, Removed, Advance, AdminInv, ClientShape, Finishing, Durable
  <2>2. Now(c.dst) = c.attempt.new
    BY <2>1, <1>1 DEF CliOK, CliStagesOK
  <2>3. files'[c.dst].now = c.attempt.new
    BY <2>1, <2>2, <1>2, OneFileChanges DEF AdminInv, Now
  <2>4. d \in CliStates /\ d.pc = "removed" /\ CliOK(d)'
    BY <2>1, <2>3, <1>0, FinishingOK
  <2>5. MishapProceeds
    BY <2>1 DEF MishapProceeds, AdminInv, ClientShape
  <2>6. CarriedElsewhere(f)
    <3> SUFFICES ASSUME NEW t \in cred, Carries(f, t)
                 PROVE  /\ c.dst # f /\ Carries(c.dst, t)
                        /\ mishap' = "none" => Durable(c.dst) = Now(c.dst)
      BY <1>2 DEF CarriedElsewhere
    <3>1. t = c.attempt.new
      BY <1>1, <1>2 DEF Carries
    <3> QED BY <3>1, <2>1, <2>2, <1>1, <1>2 DEF Carries
  <2>7. Needless(f)
    BY <1>1 DEF Needless
  <2>8. cli[p].pc # "staged"
    BY <2>1
  <2> HIDE DEF d
  <2> QED BY <1>0, <1>2, <2>1, <2>4, <2>5, <2>6, <2>7, <2>8, FileMoves
<1> QED BY <1>5, <1>6, <1>7, <1>8

LEMMA RemovalIsSynced ==
  ASSUME NEW p \in Commands, AdminInv(p), SyncRemoved(p)
  PROVE  AdminInv(p)'
<1>1. Synced /\ cli' = [cli EXCEPT ![p] = Idle] /\ UNCHANGED <<relayVars, call, drawn, crashes>>
  BY DEF SyncRemoved, Exit, bounds
<1> QED BY <1>1, IdleIsOK, SyncMoves

(* The command that fails removes only what it was creating.               *)
LEMMA CommandFails ==
  ASSUME NEW p \in Commands, AdminInv(p), WriteFails(p)
  PROVE  AdminInv(p)'
<1> SUFFICES ASSUME NEW c, c = cli[p], NEW f, f = RecoveryFile(c) PROVE AdminInv(p)'
  OBVIOUS
<1>0. /\ c \in CliStates /\ CliOK(c) /\ cli' = [cli EXCEPT ![p] = Idle]
      /\ UNCHANGED <<relayVars, call, drawn, mishap, crashes>>
      /\ Idle \in CliStates /\ CliOK(Idle)'
  BY IdleIsOK DEF WriteFails, Exit, AdminInv, ClientShape
<1>1. MishapProceeds /\ ~IsAttempt(None)
  BY <1>0 DEF MishapProceeds, AdminInv, ClientShape, IsAttempt
<1>2. CASE c.pc \in {"staging", "staged"} /\ files' = Removed(files, File(p))
  <2>1. f \in AttemptFiles /\ f \in AdminPaths /\ f \notin Destinations /\ File(p) = f
          /\ None \in MayHold(f)
    BY <1>0, AdminFiles DEF RecoveryFile, File, MayHold
  <2>2. IsAttempt(Now(f)) => Now(f) = c.attempt /\ Unused(c.attempt.new)
    BY <1>0, <1>2 DEF CliOK, CliStagesOK, Preparing, IsAttempt
  <2>3. Needless(f)
    BY <2>2 DEF Needless, Unused
  <2>4. CarriedElsewhere(f)
    BY <2>1, <2>2 DEF CarriedElsewhere, Carries, Unused, AdminInv, RecordsInv
  <2>5. files' = [files EXCEPT ![f].now = None]
    BY <1>2, <2>1 DEF Removed
  <2> QED BY <1>0, <1>1, <2>1, <2>3, <2>4, <2>5, FileMoves
<1>3. CASE c.pc \in {"writing", "published"} /\ files' = Removed(files, cli[p].dst)
  <2>1. /\ f \in AttemptFiles /\ c.dst \in Destinations /\ Now(f) = c.attempt
        /\ Durable(f) = c.attempt /\ c.attempt \in Attempt
    BY <1>3, ConfirmedIsSpent DEF Finishing
  <2>2. /\ f \in AdminPaths /\ f \notin Destinations /\ c.dst \in AdminPaths /\ f # c.dst
        /\ c.dst \notin AttemptFiles /\ None \in MayHold(c.dst) /\ IsAttempt(c.attempt)
        /\ None \notin Tokens /\ Torn \notin cred
    BY <2>1, AdminFiles, AdminConstantsFacts DEF MayHold, IsAttempt, AdminInv, RelayShape
  <2>3. Now(c.dst) \in {Torn, c.attempt.new}
    BY <1>0, <1>3 DEF CliOK, CliStagesOK
  <2>4. CarriedElsewhere(c.dst)
    <3> SUFFICES ASSUME NEW t \in cred, Carries(c.dst, t)
                 PROVE  f # c.dst /\ Carries(f, t) /\ Durable(f) = Now(f)
      BY <2>2 DEF CarriedElsewhere
    <3> QED BY <2>1, <2>2, <2>3 DEF Carries
  <2>5. files' = [files EXCEPT ![c.dst].now = None]
    BY <1>3 DEF Removed
  <2>6. cli[p].pc # "staged"
    BY <1>3
  <2> QED BY <1>0, <1>1, <2>2, <2>4, <2>5, <2>6, FileMoves
<1>4. CASE c.pc \in {"replaced", "removed"} /\ UNCHANGED files
  BY <1>0, <1>4, QuietExit DEF WriteFails
<1> QED BY <1>2, <1>3, <1>4 DEF WriteFails

(* What a crash may bring back: of each path what it held, or what the     *)
(* disk keeps.                                                             *)
LEMMA CrashKeeps ==
  ASSUME ClientShape, files' \in AfterCrash(files)
  PROVE  /\ files' \in AdminDirectories
         /\ \A f \in AdminPaths : /\ files'[f].now \in {Now(f), Durable(f)}
                                  /\ files'[f].durable = files'[f].now
<1>1. PICK lost \in SUBSET Unsynced(files) :
        files' = [f \in DOMAIN files |-> Survivor(files[f], f \in lost)]
  BY DEF AfterCrash
<1>2. DOMAIN files = AdminPaths
        /\ \A f \in AdminPaths : files[f].now \in MayHold(f) /\ files[f].durable \in MayHold(f)
                                   /\ files[f] \in [now : AdminContents, durable : AdminContents]
  BY DEF ClientShape, AdminDirectories
<1>3. ASSUME NEW f \in AdminPaths
      PROVE  /\ files'[f] \in [now : AdminContents, durable : AdminContents]
             /\ files'[f].now \in {Now(f), Durable(f)} /\ files'[f].durable = files'[f].now
  BY <1>1, <1>2 DEF Survivor, Now, Durable
<1>4. files' \in [AdminPaths -> [now : AdminContents, durable : AdminContents]]
  BY <1>1, <1>2, <1>3
<1>5. files' \in AdminDirectories
  BY <1>2, <1>3, <1>4 DEF AdminDirectories, Now, Durable
<1> QED BY <1>3, <1>5

LEMMA MachineCrashes ==
  ASSUME NEW p \in Commands, AdminInv(p), Crash, Commands = {p}
  PROVE  AdminInv(p)'
<1>0. /\ files' \in AfterCrash(files) /\ UNCHANGED <<relayVars, call, drawn>>
      /\ mishap' = IF mishap = "unsynced" THEN "crashed" ELSE mishap
      /\ cli' = [q \in Commands |-> Idle] /\ crashes' = crashes + 1
  BY DEF Crash
<1>1. files' \in AdminDirectories /\ \A f \in AdminPaths : /\ files'[f].now \in {Now(f), Durable(f)}
                                                           /\ files'[f].durable = files'[f].now
  BY <1>0, CrashKeeps DEF AdminInv
<1>2. FilesKept
  BY <1>1, AdminFiles DEF FilesKept
<1>3. /\ drawn' \subseteq Tokens /\ drawn \subseteq drawn' /\ UNCHANGED cred
  BY <1>0 DEF AdminInv, ClientShape, relayVars
<1>4. /\ RelayShape' /\ CallShape' /\ RecordsInv' /\ CallsInv' /\ AttemptsInv'
      /\ TokensRecorded'
  BY <1>0, <1>2, <1>3, ClientFrame
<1>5. ClientShape'
  BY <1>0, <1>1, <1>3, IdleIsOK DEF AdminInv, ClientShape
<1>6. HeldInv'
  <2> SUFFICES ASSUME NEW t \in cred, mishap' # "crashed"
               PROVE  (\E f \in AdminPaths : Carries(f, t) /\ Keeps(f, t))'
    BY <1>3 DEF HeldInv
  <2>1. mishap = "none"
    BY <1>0 DEF AdminInv, ClientShape
  <2>2. PICK f \in AdminPaths : Keeps(f, t)
    BY <2>1 DEF AdminInv, HeldInv
  <2>3. files'[f].now = Now(f) /\ files'[f].durable = Now(f)
    BY <2>2, <1>1 DEF Keeps
  <2> QED BY <2>2, <2>3 DEF Carries, Keeps, Now, Durable, IsAttempt
<1>7. CliOK(cli[p])' /\ cli'[p] = Idle
  BY <1>0, IdleIsOK
<1>8. DurableOK(cli[p])'
  BY <1>1, AdminFiles DEF DurableOK, Now, Durable
<1> QED BY <1>4, <1>5, <1>6, <1>7, <1>8 DEF AdminInv

-----------------------------------------------------------------------------
(* Calls begin and end.                                                    *)
LEMMA CallChanges ==
  ASSUME NEW p \in Commands, NEW h \in Handlers, NEW e \in CallStates, NEW d, AdminInv(p),
         call' = [call EXCEPT ![h] = e], AdminCallOK(e),
         cli' \in [Commands -> CliStates], cli'[p] = d,
         UNCHANGED <<relayVars, files, mishap, drawn, crashes>>,
         d = cli[p] \/ cli[p].pc # "staged", CliOK(d)'
  PROVE  AdminInv(p)'
<1> USE DEF AdminInv
<1>0. UNCHANGED <<boot, cred, rotation, files, mishap, drawn, crashes>>
  BY DEF relayVars
<1>1. RelayShape' /\ ClientShape' /\ RecordsInv' /\ AttemptsInv' /\ TokensRecorded' /\ HeldInv'
  BY <1>0 DEF RelayShape, ClientShape, RecordsInv, OneAdministrator, Recorded, AttemptsInv,
     AdminAttempt, TokensRecorded, HeldInv, Carries, Keeps, Now, Durable, IsAttempt
<1>2. CallShape'
  BY DEF CallShape
<1>3. CallsInv'
  <2> SUFFICES ASSUME NEW g \in Handlers PROVE AdminCallOK(call[g])'
    BY DEF CallsInv
  <2>1. AdminCallOK(call'[g])
    BY DEF CallsInv, CallShape
  <2> QED BY <2>1, <1>0 DEF AdminCallOK, BootstrapOK, RotateOK, Keeps, Carries, Now, Durable,
       IsAttempt
<1>4. DurableOK(d)'
  BY <1>0 DEF DurableOK, RecoveryFile, Now, Durable, IsAttempt
<1>5. CliOK(cli[p])' /\ DurableOK(cli[p])'
  BY <1>4
<1> QED BY <1>1, <1>2, <1>3, <1>5

LEMMA NoCallIsOK == NoCall \in CallStates /\ AdminCallOK(NoCall) /\ NoCall.new = None
BY DEF NoCall, CallStates, AdminCallOK

LEMMA CallSent ==
  ASSUME NEW p \in Commands, AdminInv(p), Send(p)
  PROVE  AdminInv(p)'
<1> SUFFICES ASSUME NEW c, c = cli[p], NEW f, f = RecoveryFile(c) PROVE AdminInv(p)'
  OBVIOUS
<1>1. PICK h \in Handlers :
        /\ At(h, "idle")
        /\ call' = [call EXCEPT ![h] =
             [op |-> c.cmd, auth |-> c.auth, new |-> c.attempt.new,
              step |-> IF c.cmd = "bootstrap" THEN "exists" ELSE "auth",
              attempt |-> 0, dirty |-> FALSE]]
        /\ cli' = [cli EXCEPT ![p].pc = "wait", ![p].conn = h]
  BY DEF Send
<1>0. /\ c.pc = "send" /\ c \in CliStates /\ CliOK(c) /\ cli \in [Commands -> CliStates]
      /\ UNCHANGED <<relayVars, files, mishap, drawn, crashes>>
      /\ UNCHANGED <<boot, cred, rotation>>
  BY DEF Send, bounds, AdminInv, ClientShape, relayVars
<1>2. /\ c.cmd \in {"bootstrap", "rotate"} /\ AdminAttempt(c.attempt, f)
      /\ Now(f) = c.attempt /\ Durable(f) = c.attempt
      /\ IsAttempt(c.attempt) /\ c.attempt.new \in Tokens /\ c.auth \in Tokens \cup {None}
      /\ c.attempt.new \in drawn
  BY <1>0, AdminConstantsFacts
     DEF CliOK, CliStates, CliStagesOK, AdminAttempt, Attempt, IsAttempt
<1>3. AdminAttempt(c.attempt, f)'
  BY <1>0, <1>2, AttemptStays
<1>4. /\ f \in AttemptFiles /\ f \notin Destinations
      /\ c.cmd = "bootstrap" => f = "bootstrap"
      /\ c.cmd = "rotate" => f \in RotationFiles /\ f # "bootstrap"
  BY <1>0, AdminFiles DEF RecoveryFile, CliStates
<1> DEFINE e == [op |-> c.cmd, auth |-> c.auth, new |-> c.attempt.new,
                 step |-> IF c.cmd = "bootstrap" THEN "exists" ELSE "auth",
                 attempt |-> 0, dirty |-> FALSE]
           d == [c EXCEPT !.pc = "wait", !.conn = h]
<1>5. e \in CallStates /\ e.op = c.cmd /\ e.auth = c.auth /\ e.new = c.attempt.new
        /\ e.step = (IF c.cmd = "bootstrap" THEN "exists" ELSE "auth")
  BY <1>2 DEF CallStates
<1>6. d \in CliStates /\ d.pc = "wait" /\ d.conn = h /\ d.cmd = c.cmd /\ d.auth = c.auth
        /\ d.attempt = c.attempt /\ RecoveryFile(d) = f
  BY <1>0 DEF CliStates, RecoveryFile
<1>7. cli' = [cli EXCEPT ![p] = d] /\ call' = [call EXCEPT ![h] = e]
  BY <1>0, <1>1
<1> HIDE DEF e, d
<1>8. cli' \in [Commands -> CliStates] /\ cli'[p] = d /\ call'[h] = e
  BY <1>0, <1>6, <1>7 DEF AdminInv, CallShape
<1>9. AdminCallOK(e)
  <2>0. Keeps(f, c.attempt.new)
    BY <1>2, <1>4 DEF Keeps, Carries
  <2>1. CASE c.cmd = "bootstrap"
    BY <1>2, <1>4, <1>5, <2>0, <2>1 DEF AdminCallOK, BootstrapOK
  <2>2. CASE c.cmd = "rotate"
    BY <1>0, <1>2, <1>4, <1>5, <2>0, <2>2 DEF AdminCallOK, RotateOK, CliOK, AdminAttempt
  <2> QED BY <1>2, <2>1, <2>2
<1>10. CliOK(d)'
  BY <1>0, <1>2, <1>3, <1>5, <1>6, <1>8
     DEF CliOK, CliStagesOK, Preparing, Finishing, Now, Durable, RecoveryFile
<1> QED BY <1>0, <1>5, <1>6, <1>7, <1>8, <1>9, <1>10, CallChanges

LEMMA CallAnswered ==
  ASSUME NEW p \in Commands, AdminInv(p), Replied(p)
  PROVE  AdminInv(p)'
<1> SUFFICES ASSUME NEW c, c = cli[p], NEW f, f = RecoveryFile(c) PROVE AdminInv(p)'
  OBVIOUS
<1>1. PICK h \in Handlers :
        /\ c.pc = "wait" /\ c.conn = h
        /\ call[h].step \in {"ok", "unauthorized", "error"}
        /\ call' = [call EXCEPT ![h] = NoCall]
        /\ cli' = [cli EXCEPT ![p] =
             CASE At(h, "ok") -> [c EXCEPT !.pc = "finalize", !.conn = None]
               [] At(h, "unauthorized") /\ c.auth # c.attempt.new ->
                    [c EXCEPT !.pc = "send", !.conn = None, !.auth = c.attempt.new]
               [] OTHER -> Idle]
        /\ UNCHANGED <<relayVars, files, mishap, drawn, bounds>>
  BY DEF Replied, Waits
<1>0. /\ c \in CliStates /\ CliOK(c) /\ cli \in [Commands -> CliStates]
      /\ UNCHANGED <<relayVars, files, mishap, drawn, crashes>>
      /\ UNCHANGED <<boot, cred, rotation>>
      /\ call[h] \in CallStates /\ AdminCallOK(call[h])
  BY <1>1 DEF bounds, AdminInv, ClientShape, relayVars, CallShape, CallsInv
<1>2. /\ c.cmd \in {"bootstrap", "rotate"} /\ AdminAttempt(c.attempt, f)
      /\ Now(f) = c.attempt /\ Durable(f) = c.attempt
      /\ call[h].op = c.cmd /\ call[h].new = c.attempt.new
      /\ c.attempt.new \in Tokens
  BY <1>0, <1>1 DEF CliOK, CliStates, CliStagesOK, AdminAttempt, Attempt
<1>3. AdminAttempt(c.attempt, f)'
  BY <1>0, <1>2, AttemptStays
<1>4. CASE call[h].step = "ok"
  <2> DEFINE d == [c EXCEPT !.pc = "finalize", !.conn = None]
  <2>1. cli' = [cli EXCEPT ![p] = d]
    BY <1>1, <1>4 DEF At
  <2>2. d \in CliStates /\ d.pc = "finalize" /\ d.cmd = c.cmd /\ d.auth = c.auth
          /\ d.attempt = c.attempt /\ RecoveryFile(d) = f
    BY <1>0 DEF CliStates, RecoveryFile
  <2> HIDE DEF d
  <2>3. Confirmed(d)'
    BY <1>0, <1>2, <1>4, <2>2 DEF Confirmed, AdminCallOK, BootstrapOK, RotateOK
  <2>4. CliOK(d)'
    BY <1>0, <1>1, <1>2, <1>3, <2>2, <2>3
       DEF CliOK, CliStagesOK, Preparing, Finishing, Now, Durable, RecoveryFile
  <2>5. cli' \in [Commands -> CliStates] /\ cli'[p] = d
    BY <1>0, <2>1, <2>2
  <2> QED BY <1>0, <1>1, <2>2, <2>4, <2>5, NoCallIsOK, CallChanges
<1>5. CASE call[h].step = "unauthorized" /\ c.auth # c.attempt.new
  <2> DEFINE d == [c EXCEPT !.pc = "send", !.conn = None, !.auth = c.attempt.new]
  <2>1. cli' = [cli EXCEPT ![p] = d]
    BY <1>1, <1>5 DEF At
  <2>2. d \in CliStates /\ d.pc = "send" /\ d.cmd = c.cmd /\ d.auth = c.attempt.new
          /\ d.attempt = c.attempt /\ RecoveryFile(d) = f
    BY <1>0, <1>2 DEF CliStates, RecoveryFile
  <2> HIDE DEF d
  <2>3. c.cmd = "rotate" /\ boot # None
    BY <1>0, <1>2, <1>5 DEF AdminCallOK, CliOK
  <2>4. CliOK(d)'
    BY <1>0, <1>1, <1>2, <1>3, <2>2, <2>3
       DEF CliOK, CliStagesOK, Preparing, Finishing, Now, Durable, RecoveryFile
  <2>5. cli' \in [Commands -> CliStates] /\ cli'[p] = d
    BY <1>0, <2>1, <2>2
  <2> QED BY <1>0, <1>1, <2>2, <2>4, <2>5, NoCallIsOK, CallChanges
<1>6. CASE call[h].step # "ok" /\ ~(call[h].step = "unauthorized" /\ c.auth # c.attempt.new)
  <2>1. cli' = [cli EXCEPT ![p] = Idle]
    BY <1>1, <1>6 DEF At
  <2>2. cli' \in [Commands -> CliStates] /\ cli'[p] = Idle
    BY <1>0, <2>1, IdleIsOK
  <2> QED BY <1>0, <1>1, <2>2, IdleIsOK, NoCallIsOK, CallChanges
<1> QED BY <1>4, <1>5, <1>6

LEMMA CallDropped ==
  ASSUME NEW p \in Commands, NEW h \in Handlers, AdminInv(p), Abort(h) \/ Discard(h)
  PROVE  AdminInv(p)'
<1> SUFFICES ASSUME NEW c, c = cli[p] PROVE AdminInv(p)'
  OBVIOUS
<1>0. /\ c \in CliStates /\ CliOK(c) /\ cli \in [Commands -> CliStates]
      /\ UNCHANGED <<relayVars, files, mishap, drawn, crashes>>
      /\ UNCHANGED <<boot, cred, rotation>>
      /\ call' = [call EXCEPT ![h] = NoCall]
      /\ call'[h] = NoCall /\ \A g \in Handlers : g # h => call'[g] = call[g]
  BY DEF bounds, AdminInv, ClientShape, relayVars, CallShape, Abort, Discard, clientVars
<1>1. CASE Waits(p, h)
  <2>1. cli' = [q \in Commands |-> IF Waits(q, h) THEN Idle ELSE cli[q]]
    BY <1>1 DEF Abort, Discard
  <2>2. cli' \in [Commands -> CliStates] /\ cli'[p] = Idle
    BY <1>0, <1>1, <2>1, IdleIsOK
  <2>3. c.pc # "staged"
    BY <1>1 DEF Waits
  <2> QED BY <1>0, <2>2, <2>3, IdleIsOK, NoCallIsOK, CallChanges
<1>2. CASE ~Waits(p, h)
  <2>1. cli' \in [Commands -> CliStates] /\ cli'[p] = c
    BY <1>0, <1>2, IdleIsOK DEF Abort, Discard, clientVars
  <2>2. c.pc \in Preparing => Unused(c.attempt.new)'
    <3> SUFFICES ASSUME c.pc \in Preparing PROVE Unused(c.attempt.new)'
      OBVIOUS
    <3>1. Unused(c.attempt.new) /\ c.attempt.new \in Tokens
      BY <1>0 DEF CliOK, CliStagesOK, AdminAttempt, Attempt, Preparing
    <3> QED BY <3>1, <1>0, NoCallIsOK, AdminConstantsFacts DEF Unused, Recorded
  <2>3. c.pc = "wait" => c.conn \in Handlers /\ c.conn # h
    BY <1>0, <1>2 DEF Waits, CliOK, CliStagesOK
  <2>4. Confirmed(c) => Confirmed(c)'
    BY <1>0 DEF Confirmed
  <2>5. CliStagesOK(c)'
    BY <1>0, <2>2, <2>3, <2>4 DEF CliOK, CliStagesOK, Now, Durable, RecoveryFile
  <2>6. \A f : AdminAttempt(c.attempt, f) => AdminAttempt(c.attempt, f)'
    BY <1>0, AttemptStays
  <2>7. Recorded(c.auth) => Recorded(c.auth)'
    BY <1>0 DEF Recorded
  <2>8. CliOK(c)'
    BY <1>0, <2>5, <2>6, <2>7 DEF CliOK, RecoveryFile
  <2> QED BY <1>0, <2>1, <2>8, NoCallIsOK, CallChanges
<1> QED BY <1>1, <1>2

-----------------------------------------------------------------------------
(* The administrator's machine runs one of these commands at a time.       *)
OneCommand == \E p : Commands = {p}

LEMMA AdminInitially ==
  ASSUME NEW p, Commands = {p}, Init
  PROVE  AdminInv(p)
<1> USE DEF Init
<1>1. /\ \A f \in AdminPaths : files[f] = NoFile
      /\ files \in AdminDirectories
  <2>1. files = [f \in AdminPaths |-> NoFile]
    BY DEF AdminPaths
  <2>2. \A f \in AdminPaths : None \in MayHold(f) /\ None \in AdminContents
    BY DEF MayHold, AdminContents
  <2>3. NoFile.now = None /\ NoFile.durable = None
          /\ NoFile \in [now : AdminContents, durable : AdminContents]
    BY DEF NoFile, AdminContents
  <2> QED BY <2>1, <2>2, <2>3 DEF AdminDirectories
<1>2. RelayShape /\ ClientShape /\ CallShape
  BY <1>1, IdleIsOK, NoCallIsOK DEF RelayShape, ClientShape, CallShape
<1>3. \A f \in AdminPaths : Now(f) = None /\ Durable(f) = None
  BY <1>1 DEF Now, Durable, NoFile
<1>4. RecordsInv
  BY DEF RecordsInv, OneAdministrator
<1>5. CallsInv
  BY NoCallIsOK DEF CallsInv
<1>6. AttemptsInv /\ TokensRecorded /\ HeldInv
  BY <1>3, AdminFiles, AdminConstantsFacts DEF AttemptsInv, TokensRecorded, HeldInv, IsAttempt
<1>7. cli[p] = Idle
  OBVIOUS
<1>8. DurableOK(Idle)
  BY <1>3, AdminFiles DEF DurableOK
<1> QED BY <1>2, <1>4, <1>5, <1>6, <1>7, <1>8, IdleIsOK DEF AdminInv

LEMMA AdminStep ==
  ASSUME NEW p, Commands = {p}, AdminInv(p), [Next]_vars
  PROVE  AdminInv(p)'
<1>0. p \in Commands
  OBVIOUS
<1>1. CASE \E q \in Commands : BeginBootstrap(q) \/ CommandStep(q) \/ Timeout(q) \/ WriteFails(q)
  <2>1. BeginBootstrap(p) \/ CommandStep(p) \/ Timeout(p) \/ WriteFails(p)
    BY <1>1
  <2>2. CASE BeginBootstrap(p)
    <3>1. "token" \in Destinations
      BY DEF Destinations
    <3> QED BY <1>0, <2>2, <3>1, CommandBegins
  <2>3. CASE CommandStep(p)
    <3>1. CASE Prepare(p)
      BY <1>0, <3>1, CommandPrepares
    <3>2. CASE Stage(p) \/ Staging(p) \/ Staged(p)
      BY <1>0, <3>2, AttemptIsStaged
    <3>3. CASE Send(p)
      BY <1>0, <3>3, CallSent
    <3>4. CASE Replied(p)
      BY <1>0, <3>4, CallAnswered
    <3>5. CASE Finalize(p) \/ WriteToken(p) \/ SyncToken(p) \/ RemoveAttempt(p)
      BY <1>0, <3>5, TokenIsPublished
    <3>6. CASE SyncRemoved(p)
      BY <1>0, <3>6, RemovalIsSynced
    <3> QED BY <2>3, <3>1, <3>2, <3>3, <3>4, <3>5, <3>6 DEF CommandStep
  <2>4. CASE Timeout(p)
    BY <1>0, <2>4, CommandTimesOut
  <2>5. CASE WriteFails(p)
    BY <1>0, <2>5, CommandFails
  <2> QED BY <2>1, <2>2, <2>3, <2>4, <2>5
<1>2. CASE \E q \in Commands, src, dst \in Destinations : BeginRotate(q, src, dst)
  BY <1>0, <1>2, CommandBegins
<1>3. CASE \E h \in Handlers : HandlerStep(h) \/ Abort(h)
  <2>1. PICK h \in Handlers : HandlerStep(h) \/ Abort(h)
    BY <1>3
  <2>2. CASE \/ Bootstrap(h) \/ CredentialExists(h) \/ Authenticate(h)
             \/ RotateAdminCredential(h) \/ RotationCredentials(h) \/ TxFailed(h)
    BY <2>2, HandlerReads
  <2>3. CASE BootstrapExec(h)
    BY <1>0, <2>3, BootstrapCommits
  <2>4. CASE RotateExec(h)
    BY <1>0, <2>4, RotationCommits
  <2>5. CASE Abort(h) \/ Discard(h)
    BY <1>0, <2>5, CallDropped
  <2> QED BY <2>1, <2>2, <2>3, <2>4, <2>5 DEF HandlerStep
<1>4. CASE Crash
  BY <1>0, <1>4, MachineCrashes
<1>5. CASE UNCHANGED vars
  <2>1. UNCHANGED <<boot, cred, rotation, call, files, mishap, cli, drawn, crashes>>
    BY <1>5 DEF vars, relayVars
  <2>2. /\ RelayShape' /\ ClientShape' /\ CallShape' /\ RecordsInv' /\ AttemptsInv'
        /\ TokensRecorded' /\ HeldInv' /\ CallsInv'
    BY <2>1 DEF AdminInv, RelayShape, ClientShape, CallShape, RecordsInv, OneAdministrator,
       Recorded, CallsInv, AdminCallOK, BootstrapOK, RotateOK, Carries, Keeps, Now, Durable,
       IsAttempt, AttemptsInv, AdminAttempt, TokensRecorded, HeldInv
  <2>3. CliOK(cli[p])' /\ DurableOK(cli[p])'
    BY <2>1 DEF AdminInv, CliOK, CliStagesOK, AdminAttempt, Recorded, Unused, Confirmed, DurableOK,
       Now, Durable, IsAttempt, RecoveryFile
  <2> QED BY <2>2, <2>3 DEF AdminInv
<1> QED BY <1>1, <1>2, <1>3, <1>4, <1>5 DEF Next

(* Every step of the administrator's commands and of the relay's handlers  *)
(* keeps the invariant (cmd/team-relay-admin, Bootstrap and                *)
(* RotateAdminCredential of internal/store/redis.go).                      *)
THEOREM AdminIsTracked ==
  ASSUME NEW p, Commands = {p}
  PROVE  Spec => []AdminInv(p)
<1>1. Init => AdminInv(p)
  BY AdminInitially
<1>2. AdminInv(p) /\ [Next]_vars => AdminInv(p)'
  BY AdminStep
<1> QED BY <1>1, <1>2, PTL DEF Spec

(***************************************************************************)
(* The organisation has one administrator, with one credential, and the    *)
(* administrator's disk holds it as a token or in a recovery file, however *)
(* calls are lost, repeated or raced by their own retries, whatever fails  *)
(* and wherever the machine crashes, but for the case NeverLockedOut names *)
(* (finalizeAdminToken of cmd/team-relay-admin/recovery.go).               *)
(***************************************************************************)
THEOREM CredentialIsKept ==
  ASSUME OneCommand
  PROVE  Spec => []CredentialKept
<1>1. PICK p : Commands = {p}
  BY DEF OneCommand
<1>2. AdminInv(p) => CredentialKept
  <2> SUFFICES ASSUME AdminInv(p) PROVE CredentialKept
    OBVIOUS
  <2>1. TypeOK
    BY ShapeIsTypeOK DEF AdminInv
  <2>2. OneAdministrator
    BY DEF AdminInv, RecordsInv
  <2>3. NeverLockedOut
    <3> SUFFICES ASSUME mishap # "crashed", NEW t \in cred PROVE t \in Held
      BY DEF NeverLockedOut
    <3>1. t \in Tokens
      BY DEF AdminInv, RelayShape
    <3>2. PICK f \in AdminPaths : Carries(f, t)
      BY DEF AdminInv, HeldInv
    <3> QED BY <3>1, <3>2 DEF Held, Carries, AdminPaths, Now
  <2> QED BY <2>1, <2>2, <2>3 DEF CredentialKept
<1>3. Spec => []AdminInv(p)
  BY <1>1, AdminIsTracked
<1> QED BY <1>2, <1>3, PTL

(***************************************************************************)
(* A recovery file is removed only when the relay has committed what it    *)
(* stands for (docs/admin.md: "removes the recovery file only after a      *)
(* confirmed exact response").                                             *)
(***************************************************************************)
LEMMA ConfirmedRemoval ==
  ASSUME NEW p, Commands = {p}, AdminInv(p), Next, NEW f \in AttemptFiles,
         IsAttempt(files[f].now), files'[f].now = None, crashes' = crashes, cli[p].pc # "staged"
  PROVE  boot = files[f].now.new \/ rotation[files[f].now.new] # None
<1> USE DEF AdminInv
<1>1. files[f].now # None /\ files' # files
  BY DEF IsAttempt
<1>2. PICK q \in Commands : CommandStep(q) \/ WriteFails(q)
  <2>1. ~Crash
    BY DEF Crash, ClientShape
  <2>2. \A h \in Handlers : ~(HandlerStep(h) \/ Abort(h))
    BY <1>1 DEF HandlerStep, Bootstrap, CredentialExists, Authenticate, RotateAdminCredential,
       RotationCredentials, TxFailed, BootstrapExec, RotateExec, Discard, Abort, clientVars
  <2>3. \A q \in Commands : ~(BeginBootstrap(q) \/ Timeout(q))
    BY <1>1 DEF BeginBootstrap, Timeout
  <2>4. \A q \in Commands : \A src, dst \in Destinations : ~BeginRotate(q, src, dst)
    BY <1>1 DEF BeginRotate
  <2> QED BY <2>1, <2>2, <2>3, <2>4 DEF Next
<1>3. q = p /\ p \in Commands /\ cli[p] \in CliStates
  BY DEF ClientShape
<1>4. f \in AdminPaths /\ f \notin Destinations /\ DOMAIN files = AdminPaths
        /\ \A dst \in Destinations : dst \in AdminPaths /\ dst # f
  BY AdminFiles DEF ClientShape, AdminDirectories
<1>5. \A v : \A g \in AdminPaths : files' = [files EXCEPT ![g].now = v] => g = f /\ v = None
  BY <1>1, <1>4 DEF ClientShape, AdminDirectories
<1>6. files' # SyncDirectory(files)
  BY <1>1, <1>4 DEF SyncDirectory
<1>7. /\ File(p) \in AttemptFiles /\ File(p) \in AdminPaths /\ File(p) = RecoveryFile(cli[p])
      /\ None # Torn /\ None \notin Attempt /\ None \notin Tokens /\ cli[p].dst \in Destinations
  BY <1>3, AdminFiles, AdminConstantsFacts DEF File, RecoveryFile, CliStates
<1>8. CASE CommandStep(p)
  <2>1. ~Stage(p)
    BY <1>1, <1>5, <1>7 DEF Stage, OpenNewFile
  <2>2. ~Staging(p)
    <3>1. cli[p].pc = "staging" => cli[p].attempt # None
      BY <1>7 DEF CliOK, AdminAttempt
    <3> QED BY <3>1, <1>5, <1>7 DEF Staging, Written
  <2>3. ~Staged(p) /\ ~SyncToken(p) /\ ~SyncRemoved(p)
    BY <1>6 DEF Staged, SyncToken, SyncRemoved, Synced
  <2>4. ~Prepare(p) /\ ~Send(p) /\ ~Replied(p)
    BY <1>1 DEF Prepare, PrepareResumed, PrepareRefused, PrepareNew, Send, Replied
  <2>5. ~Finalize(p) /\ ~WriteToken(p)
    BY <1>1, <1>4, <1>5, <1>7 DEF Finalize, WriteToken, OpenNewFile, Written
  <2>6. RemoveAttempt(p)
    BY <1>8, <2>1, <2>2, <2>3, <2>4, <2>5 DEF CommandStep
  <2>7. f = File(p) /\ cli[p].pc = "remove"
    BY <2>6, <1>5, <1>7 DEF RemoveAttempt, Removed
  <2>8. Now(f) = cli[p].attempt
          /\ IF f = "bootstrap" THEN boot = cli[p].attempt.new
                                ELSE rotation[cli[p].attempt.new] # None
    BY <1>3, <1>7, <2>7, ConfirmedIsSpent DEF Finishing
  <2> QED BY <2>8 DEF Now
<1>9. CASE WriteFails(p)
  <2>1. ~(files' = Removed(files, cli[p].dst))
    BY <1>4, <1>5, <1>7 DEF Removed
  <2>2. cli[p].pc = "staging" /\ files' = Removed(files, File(p))
    BY <1>1, <1>9, <2>1 DEF WriteFails
  <2>3. f = File(p) /\ Now(f) = Torn
    BY <1>5, <1>7, <2>2 DEF Removed, CliOK, CliStagesOK
  <2> QED BY <2>3 DEF Now, IsAttempt
<1> QED BY <1>2, <1>3, <1>8, <1>9

THEOREM RemovalsAreConfirmed ==
  ASSUME OneCommand
  PROVE  Spec => RemovalIsConfirmed
<1>1. PICK q : Commands = {q}
  BY DEF OneCommand
<1>2. Spec => []AdminInv(q)
  BY <1>1, AdminIsTracked
<1> DEFINE R == \A f \in AttemptFiles :
      IsAttempt(files[f].now) /\ files'[f].now = None /\ crashes' = crashes
        /\ (\A p \in Commands : cli[p].pc # "staged")
        => LET t == files[f].now.new IN boot = t \/ rotation[t] # None
<1>3. AdminInv(q) /\ [Next]_vars => [R]_vars
  <2> SUFFICES ASSUME AdminInv(q), Next PROVE R
    OBVIOUS
  <2> QED BY <1>1, ConfirmedRemoval
<1> QED BY <1>2, <1>3, PTL DEF Spec, RemovalIsConfirmed

-----------------------------------------------------------------------------
(***************************************************************************)
(* The types, and the one administrator, hold with nothing assumed of the  *)
(* commands or of what fails: they rest on the relay's transactions alone. *)
(***************************************************************************)
SeriesOK(c) ==
  /\ (c.step = "idle") <=> (c.op = "none")
  /\ c.step \in {"exists", "credential"} => c.op = "bootstrap"
  /\ c.step \in {"auth", "rotation", "old", "unauthorized"} => c.op = "rotate"
  /\ c.op # "none" => c.new \in Tokens
  /\ c.op = "bootstrap" /\ c.step \in {"credential", "exec"} /\ c.dirty = FALSE => boot = None
  /\ c.op = "rotate" /\ c.step = "exec" /\ c.dirty = FALSE => c.auth \in cred /\ c.new \notin cred
Prepared(c) ==
  /\ c.pc # "idle" => c.cmd \in {"bootstrap", "rotate"}
  /\ c.pc \notin {"idle", "prepare"} => c.attempt \in Attempt
TypedInv ==
  /\ RelayShape /\ ClientShape /\ CallShape /\ OneAdministrator
  /\ \A h \in Handlers : SeriesOK(call[h])
  /\ \A p \in Commands : Prepared(cli[p])

LEMMA CallTyped ==
  ASSUME TypedInv, NEW h \in Handlers, NEW e \in CallStates, SeriesOK(e),
         call' = [call EXCEPT ![h] = e],
         UNCHANGED <<boot, cred, rotation, files, mishap, drawn, crashes>>,
         cli' \in [Commands -> CliStates], \A p \in Commands : Prepared(cli'[p])
  PROVE  TypedInv'
<1> USE DEF TypedInv
<1>1. CallShape' /\ RelayShape' /\ ClientShape' /\ OneAdministrator'
  BY DEF CallShape, RelayShape, ClientShape, OneAdministrator
<1>2. \A g \in Handlers : SeriesOK(call'[g])
  BY DEF CallShape
<1>3. \A g \in Handlers : SeriesOK(call[g])'
  BY <1>2 DEF SeriesOK
<1>4. \A p \in Commands : Prepared(cli[p])'
  BY DEF Prepared
<1> QED BY <1>1, <1>3, <1>4

LEMMA ClientTyped ==
  ASSUME TypedInv, NEW p \in Commands, NEW d \in CliStates, Prepared(d),
         cli' = [cli EXCEPT ![p] = d], UNCHANGED <<boot, cred, rotation, call, crashes>>,
         drawn' \subseteq Tokens, files' \in AdminDirectories,
         mishap' \in {"none", "unsynced", "crashed"}
  PROVE  TypedInv'
<1> USE DEF TypedInv
<1>1. CallShape' /\ RelayShape' /\ ClientShape' /\ OneAdministrator'
  BY DEF CallShape, RelayShape, ClientShape, OneAdministrator
<1>2. \A g \in Handlers : SeriesOK(call[g])'
  BY DEF SeriesOK
<1>3. \A q \in Commands : Prepared(cli[q])'
  BY DEF Prepared, ClientShape
<1> QED BY <1>1, <1>2, <1>3

LEMMA HandlerTyped ==
  ASSUME TypedInv, NEW h \in Handlers,
         \/ Bootstrap(h) \/ CredentialExists(h) \/ Authenticate(h)
         \/ RotateAdminCredential(h) \/ RotationCredentials(h) \/ TxFailed(h)
  PROVE  TypedInv'
<1> SUFFICES ASSUME NEW c, c = call[h] PROVE TypedInv'
  OBVIOUS
<1>0. /\ c \in CallStates /\ SeriesOK(c) /\ call \in [Handlers -> CallStates]
      /\ UNCHANGED <<boot, cred, rotation, files, mishap, cli, drawn, crashes>>
      /\ cli' \in [Commands -> CliStates] /\ \A p \in Commands : Prepared(cli'[p])
  BY DEF TypedInv, CallShape, ClientShape, clientVars, relayVars, bounds, Bootstrap,
     CredentialExists, Authenticate, RotateAdminCredential, RotationCredentials, TxFailed
<1>1. ASSUME NEW step, Goto(h, step), [c EXCEPT !.step = step] \in CallStates,
             SeriesOK([c EXCEPT !.step = step])
      PROVE  TypedInv'
  <2> DEFINE e == [c EXCEPT !.step = step]
  <2>1. call' = [call EXCEPT ![h] = e]
    BY <1>0, <1>1 DEF Goto
  <2> QED BY <1>0, <1>1, <2>1, CallTyped
<1>2. ASSUME Retry(h), InTransaction(c)
      PROVE  TypedInv'
  <2> DEFINE e == IF c.attempt = 4 THEN [c EXCEPT !.step = "error"]
                  ELSE [c EXCEPT !.step = FirstStep(c), !.attempt = @ + 1, !.dirty = FALSE]
  <2>1. call' = [call EXCEPT ![h] = e]
    BY <1>2 DEF Retry
  <2>2. c.op \in {"bootstrap", "rotate"}
    BY <1>0, <1>2 DEF InTransaction, SeriesOK, CallStates
  <2>3. e \in CallStates /\ SeriesOK(e)
    <3>1. CASE c.attempt = 4
      BY <1>0, <2>2, <3>1 DEF CallStates, SeriesOK
    <3>2. CASE c.attempt # 4
      <4>1. c.attempt + 1 \in 0..4
        BY <1>0, <3>2 DEF CallStates
      <4> QED BY <1>0, <2>2, <3>2, <4>1 DEF CallStates, SeriesOK, FirstStep
    <3> QED BY <3>1, <3>2
  <2> HIDE DEF e
  <2> QED BY <1>0, <2>1, <2>3, CallTyped
<1>3. CASE Bootstrap(h)
  <2>0. c.op = "bootstrap" /\ None \notin cred
    BY <1>0, <1>3, AdminConstantsFacts DEF Bootstrap, At, SeriesOK, TypedInv, RelayShape
  <2>1. PICK step \in {"credential", "ok", "error"} :
          Goto(h, step) /\ (step = "credential" => boot = None)
    BY <1>3, <2>0 DEF Bootstrap
  <2>2. [c EXCEPT !.step = step] \in CallStates /\ SeriesOK([c EXCEPT !.step = step])
    BY <1>0, <2>0, <2>1 DEF CallStates, SeriesOK
  <2> QED BY <2>1, <2>2, <1>1
<1>4. CASE CredentialExists(h)
  <2>0. c.op = "bootstrap" /\ c.step = "credential"
    BY <1>0, <1>4 DEF CredentialExists, At, SeriesOK
  <2>1. CASE c.new \in cred
    BY <1>2, <1>4, <2>0, <2>1 DEF CredentialExists, InTransaction
  <2>2. CASE c.new \notin cred
    <3>1. [c EXCEPT !.step = "exec"] \in CallStates /\ SeriesOK([c EXCEPT !.step = "exec"])
      BY <1>0, <2>0 DEF CallStates, SeriesOK
    <3> QED BY <1>1, <1>4, <2>2, <3>1 DEF CredentialExists
  <2> QED BY <2>1, <2>2
<1>5. CASE Authenticate(h)
  <2>0. c.op = "rotate"
    BY <1>0, <1>5 DEF Authenticate, At, SeriesOK
  <2>1. PICK step \in {"rotation", "unauthorized"} : Goto(h, step)
    BY <1>5 DEF Authenticate
  <2>2. [c EXCEPT !.step = step] \in CallStates /\ SeriesOK([c EXCEPT !.step = step])
    BY <1>0, <2>0, <2>1 DEF CallStates, SeriesOK
  <2> QED BY <2>1, <2>2, <1>1
<1>6. CASE RotateAdminCredential(h)
  <2>0. c.op = "rotate"
    BY <1>0, <1>6 DEF RotateAdminCredential, At, SeriesOK
  <2>1. PICK step \in {"ok", "unauthorized", "error", "old"} : Goto(h, step)
    BY <1>6 DEF RotateAdminCredential
  <2>2. [c EXCEPT !.step = step] \in CallStates /\ SeriesOK([c EXCEPT !.step = step])
    BY <1>0, <2>0, <2>1 DEF CallStates, SeriesOK
  <2> QED BY <2>1, <2>2, <1>1
<1>7. CASE RotationCredentials(h)
  <2>0. c.op = "rotate" /\ c.step = "old"
    BY <1>0, <1>7 DEF RotationCredentials, At, SeriesOK
  <2>1. CASE c.auth \in cred /\ c.new \notin cred
    <3>1. [c EXCEPT !.step = "exec"] \in CallStates /\ SeriesOK([c EXCEPT !.step = "exec"])
      BY <1>0, <2>0, <2>1 DEF CallStates, SeriesOK
    <3> QED BY <1>1, <1>7, <2>1, <3>1 DEF RotationCredentials
  <2>2. CASE ~(c.auth \in cred /\ c.new \notin cred)
    BY <1>2, <1>7, <2>0, <2>2 DEF RotationCredentials, InTransaction
  <2> QED BY <2>1, <2>2
<1>8. CASE TxFailed(h)
  BY <1>2, <1>8 DEF TxFailed, At, InTransaction
<1> QED BY <1>3, <1>4, <1>5, <1>6, <1>7, <1>8

LEMMA CommitTyped ==
  ASSUME TypedInv, NEW h \in Handlers, BootstrapExec(h) \/ RotateExec(h)
  PROVE  TypedInv'
<1> SUFFICES ASSUME NEW c, c = call[h] PROVE TypedInv'
  OBVIOUS
<1>0. /\ UNCHANGED <<files, mishap, cli, drawn, crashes>> /\ Committed(h)
      /\ c \in CallStates /\ SeriesOK(c) /\ c.step = "exec" /\ c.dirty = FALSE
      /\ CallShape /\ RelayShape /\ OneAdministrator
  BY DEF BootstrapExec, RotateExec, clientVars, bounds, TypedInv, CallShape, At, CallStates
<1>1. ClientShape' /\ \A p \in Commands : Prepared(cli[p])'
  BY <1>0 DEF TypedInv, ClientShape, Prepared
<1>2. /\ CallShape'
      /\ call'[h].step = "ok"
      /\ \A g \in Handlers : /\ call'[g].op = call[g].op /\ call'[g].new = call[g].new
                             /\ call'[g].auth = call[g].auth
      /\ \A g \in Handlers : g # h =>
           /\ call'[g].step = call[g].step
           /\ call'[g].dirty = FALSE => call[g].dirty = FALSE
           /\ call'[g].dirty = FALSE /\ InTransaction(call[g])
                => Watched(call[g]) \cap Writes(c) = {}
  BY <1>0, CommitMoves
<1>3. CASE BootstrapExec(h)
  <2>1. c.op = "bootstrap" /\ c.new \in Tokens /\ cred = {} /\ boot' = c.new /\ cred' = {c.new}
          /\ UNCHANGED rotation
    BY <1>0, <1>3 DEF BootstrapExec, SeriesOK, OneAdministrator
  <2>2. RelayShape' /\ OneAdministrator'
    BY <1>0, <2>1, AdminConstantsFacts DEF RelayShape, OneAdministrator
  <2>3. ASSUME NEW g \in Handlers PROVE SeriesOK(call[g])'
    <3>1. SeriesOK(call[g]) /\ call[g] \in CallStates
      BY <1>0 DEF TypedInv, CallShape
    <3>2. CASE g = h
      BY <1>0, <1>2, <2>1, <3>1, <3>2 DEF SeriesOK
    <3>3. CASE g # h
      <4>1. call[g].op = "bootstrap" => <<"boot", None>> \in Watched(call[g]) \cap Writes(c)
        BY <2>1 DEF Watched, Writes
      <4>2. ~(call[g].op = "bootstrap" /\ call[g].step \in {"credential", "exec"}
                /\ call'[g].dirty = FALSE)
        BY <1>2, <3>3, <4>1 DEF InTransaction
      <4>3. ~(call[g].op = "rotate" /\ call[g].step = "exec" /\ call'[g].dirty = FALSE)
        BY <1>2, <2>1, <3>1, <3>3 DEF SeriesOK
      <4> QED BY <1>2, <3>1, <3>3, <4>2, <4>3 DEF SeriesOK
    <3> QED BY <3>2, <3>3
  <2> QED BY <1>1, <1>2, <2>2, <2>3 DEF TypedInv
<1>4. CASE RotateExec(h)
  <2>1. /\ c.op = "rotate" /\ c.new \in Tokens /\ cred = {c.auth} /\ c.auth \in Tokens
        /\ c.new # c.auth /\ UNCHANGED boot /\ cred' = {c.new} /\ boot # None
        /\ rotation' = [rotation EXCEPT ![c.new] = c.auth]
    BY <1>0, <1>4 DEF RotateExec, SeriesOK, OneAdministrator, RelayShape
  <2>2. RelayShape' /\ OneAdministrator'
    BY <1>0, <2>1 DEF RelayShape, OneAdministrator
  <2>3. ASSUME NEW g \in Handlers PROVE SeriesOK(call[g])'
    <3>1. SeriesOK(call[g]) /\ call[g] \in CallStates
      BY <1>0 DEF TypedInv, CallShape
    <3>2. CASE g = h
      BY <1>0, <1>2, <2>1, <3>1, <3>2 DEF SeriesOK
    <3>3. CASE g # h
      <4>1. call[g].op = "rotate" /\ call[g].auth = c.auth
              => <<"credential", c.auth>> \in Watched(call[g]) \cap Writes(c)
        BY <2>1 DEF Watched, Writes
      <4>2. ~(call[g].op = "rotate" /\ call[g].step = "exec" /\ call'[g].dirty = FALSE)
        BY <1>2, <2>1, <3>1, <3>3, <4>1 DEF InTransaction, SeriesOK
      <4> QED BY <1>2, <2>1, <3>1, <3>3, <4>2 DEF SeriesOK
    <3> QED BY <3>2, <3>3
  <2> QED BY <1>1, <1>2, <2>2, <2>3 DEF TypedInv
<1> QED BY <1>3, <1>4

LEMMA QuietTyped ==
  ASSUME TypedInv, NEW p \in Commands, NEW d \in CliStates, Prepared(d),
         cli' = [cli EXCEPT ![p] = d],
         UNCHANGED <<boot, cred, rotation, call, files, mishap, crashes>>, drawn' \subseteq Tokens
  PROVE  TypedInv'
<1>1. files' \in AdminDirectories /\ mishap' \in {"none", "unsynced", "crashed"}
  BY DEF TypedInv, ClientShape
<1> QED BY <1>1, ClientTyped

LEMMA ClientStepTyped ==
  ASSUME TypedInv, NEW p \in Commands,
         \/ BeginBootstrap(p) \/ (\E src, dst \in Destinations : BeginRotate(p, src, dst))
         \/ Prepare(p) \/ Stage(p) \/ Staging(p) \/ Staged(p)
         \/ Finalize(p) \/ WriteToken(p) \/ SyncToken(p) \/ RemoveAttempt(p) \/ SyncRemoved(p)
         \/ Timeout(p) \/ WriteFails(p)
  PROVE  TypedInv'
<1> SUFFICES ASSUME NEW c, c = cli[p], NEW f, f = File(p) PROVE TypedInv'
  OBVIOUS
<1>0. /\ c \in CliStates /\ Prepared(c) /\ cli \in [Commands -> CliStates] /\ ClientShape
      /\ drawn \subseteq Tokens /\ files \in AdminDirectories
      /\ UNCHANGED <<boot, cred, rotation, call, crashes>>
      /\ f \in AdminPaths /\ f \notin Destinations /\ c.dst \in AdminPaths /\ c.dst \in Destinations
  BY AdminFiles
  DEF TypedInv, ClientShape, CliStates, relayVars, bounds, File, BeginBootstrap, BeginRotate,
     Prepare, PrepareResumed, PrepareRefused, PrepareNew, Stage, Staging, Staged, Finalize,
     WriteToken, SyncToken, RemoveAttempt, SyncRemoved, Timeout, WriteFails
<1>22. mishap' \in {"none", "unsynced", "crashed"}
  <2>1. mishap \in {"none", "unsynced", "crashed"}
    BY <1>0 DEF ClientShape
  <2> QED BY <2>1 DEF BeginBootstrap, BeginRotate, Prepare, PrepareResumed, PrepareRefused,
       PrepareNew, Stage, Staging, Staged, Finalize, WriteToken, SyncToken, RemoveAttempt,
       SyncRemoved, Timeout, WriteFails, Synced
<1>1. Idle \in CliStates /\ Prepared(Idle)
  BY IdleIsOK DEF Prepared, Idle
<1>2. ASSUME Exit(p), files' \in AdminDirectories, UNCHANGED drawn
      PROVE  TypedInv'
  <2>1. cli' = [cli EXCEPT ![p] = Idle]
    BY <1>2 DEF Exit
  <2>2. drawn' \subseteq Tokens
    BY <1>0, <1>2
  <2> QED BY <1>0, <1>22, <1>1, <1>2, <2>1, <2>2, ClientTyped
<1>3. ASSUME NEW pc, Advance(p, pc), [c EXCEPT !.pc = pc] \in CliStates,
             c.pc \notin {"idle", "prepare"}, files' \in AdminDirectories, UNCHANGED drawn
      PROVE  TypedInv'
  <2> DEFINE d == [c EXCEPT !.pc = pc]
  <2>1. cli' = [cli EXCEPT ![p] = d] /\ Prepared(d) /\ d \in CliStates
    BY <1>0, <1>3 DEF Advance, Prepared, CliStates
  <2>2. drawn' \subseteq Tokens
    BY <1>0, <1>3
  <2> HIDE DEF d
  <2> QED BY <1>0, <1>22, <1>3, <2>1, <2>2, ClientTyped
<1>4. ASSUME NEW g \in AdminPaths, NEW v \in MayHold(g), files' = [files EXCEPT ![g].now = v]
      PROVE  files' \in AdminDirectories
  BY <1>0, <1>4, OneFileChanges
<1>5. files' = SyncDirectory(files) => files' \in AdminDirectories
  BY <1>0, DirectorySynced
<1>6. files' = files => files' \in AdminDirectories
  BY <1>0
<1>7. /\ None \in MayHold(f) /\ Torn \in MayHold(f) /\ None \in MayHold(c.dst)
      /\ Torn \in MayHold(c.dst)
      /\ c.pc \notin {"idle", "prepare"} => c.attempt \in MayHold(f)
                                              /\ c.attempt.new \in MayHold(c.dst)
  BY <1>0 DEF MayHold, Prepared, Attempt
<1>21. CASE BeginBootstrap(p)
  <2> DEFINE d == [Idle EXCEPT !.pc = "prepare", !.cmd = "bootstrap"]
  <2>1. d \in CliStates /\ Prepared(d) /\ cli' = [cli EXCEPT ![p] = d]
    BY <1>1, <1>21 DEF BeginBootstrap, CliStates, Prepared, Idle
  <2>2. UNCHANGED <<files, mishap>> /\ drawn' \subseteq Tokens
    BY <1>0, <1>21 DEF BeginBootstrap
  <2> HIDE DEF d
  <2> QED BY <1>0, <2>1, <2>2, QuietTyped
<1>8. CASE \E src, dst \in Destinations : BeginRotate(p, src, dst)
  <2>1. PICK src \in Destinations, dst \in Destinations : BeginRotate(p, src, dst)
    BY <1>8
  <2> SUFFICES ASSUME NEW t, t = files[src].now PROVE TypedInv'
    OBVIOUS
  <2> DEFINE d == [Idle EXCEPT !.pc = "prepare", !.cmd = "rotate", !.dst = dst, !.auth = t]
  <2>2. t \in Tokens /\ cli' = [cli EXCEPT ![p] = d] /\ UNCHANGED <<files, mishap>>
          /\ drawn' \subseteq Tokens
    BY <1>0, <2>1 DEF BeginRotate
  <2>3. d \in CliStates /\ Prepared(d)
    BY <1>1, <2>2 DEF CliStates, Prepared, Idle
  <2> HIDE DEF d
  <2> QED BY <1>0, <2>2, <2>3, QuietTyped
<1>9. CASE Prepare(p)
  <2>0. c.pc = "prepare" /\ UNCHANGED <<files, mishap>>
    BY <1>9 DEF Prepare, PrepareResumed, PrepareRefused, PrepareNew, bounds
  <2>1. CASE PrepareResumed(p)
    <3> SUFFICES ASSUME NEW a, a = files[f].now PROVE TypedInv'
      OBVIOUS
    <3> DEFINE d == [c EXCEPT !.pc = "send", !.attempt = a]
    <3>1. cli' = [cli EXCEPT ![p] = d] /\ IsAttempt(a) /\ drawn' \subseteq Tokens
      BY <1>0, <2>1 DEF PrepareResumed
    <3>2. a \in Attempt
      BY <1>0, <3>1 DEF AdminDirectories, MayHold, IsAttempt
    <3>3. d \in CliStates /\ Prepared(d)
      BY <1>0, <2>0, <3>2 DEF CliStates, Prepared, Attempt
    <3> HIDE DEF d
    <3> QED BY <1>0, <2>0, <3>1, <3>3, QuietTyped
  <2>2. CASE PrepareRefused(p)
    BY <1>0, <1>2, <2>0, <2>2 DEF PrepareRefused
  <2>3. CASE PrepareNew(p)
    <3>1. PICK t \in Tokens : drawn' = drawn \cup {t} /\ cli' = [cli EXCEPT ![p].pc = "stage",
                                ![p].attempt = [source |-> c.auth, new |-> t]]
      BY <2>3 DEF PrepareNew
    <3> DEFINE a == [source |-> c.auth, new |-> t]
               d == [c EXCEPT !.pc = "stage", !.attempt = a]
    <3>2. cli' = [cli EXCEPT ![p] = d] /\ a \in Attempt /\ drawn' \subseteq Tokens
      BY <1>0, <3>1 DEF CliStates, Attempt
    <3> HIDE DEF a
    <3>3. d \in CliStates /\ Prepared(d)
      BY <1>0, <2>0, <3>2 DEF CliStates, Prepared, Attempt
    <3> HIDE DEF d
    <3> QED BY <1>0, <2>0, <3>2, <3>3, QuietTyped
  <2> QED BY <1>9, <2>1, <2>2, <2>3 DEF Prepare
<1>10. \A pc \in {"staging", "staged", "send", "writing", "published", "replaced", "remove", "removed"} :
         [c EXCEPT !.pc = pc] \in CliStates
  BY <1>0 DEF CliStates
<1>11. CASE Stage(p)
  <2>0. c.pc = "stage" /\ UNCHANGED drawn
    BY <1>11 DEF Stage
  <2>1. \/ files' = [files EXCEPT ![f].now = Torn] /\ Advance(p, "staging")
        \/ Exit(p) /\ UNCHANGED files
    BY <1>11 DEF Stage, OpenNewFile
  <2> QED BY <1>0, <1>2, <1>3, <1>4, <1>6, <1>7, <1>10, <2>0, <2>1
<1>12. CASE Staging(p)
  <2>0. c.pc = "staging" /\ UNCHANGED drawn /\ Advance(p, "staged")
          /\ files' = [files EXCEPT ![f].now = c.attempt]
    BY <1>12 DEF Staging, Written
  <2> QED BY <1>0, <1>3, <1>4, <1>7, <1>10, <2>0
<1>13. CASE Staged(p)
  BY <1>3, <1>5, <1>10, <1>13 DEF Staged, Synced
<1>14. CASE Finalize(p)
  <2>0. c.pc = "finalize" /\ UNCHANGED drawn
    BY <1>14 DEF Finalize
  <2>1. \/ files' = [files EXCEPT ![c.dst].now = Torn] /\ Advance(p, "writing")
        \/ UNCHANGED files /\ Advance(p, "remove")
        \/ files' = [files EXCEPT ![c.dst].now = c.attempt.new] /\ Advance(p, "replaced")
        \/ Exit(p) /\ UNCHANGED files
    BY <1>14 DEF Finalize, OpenNewFile, Written
  <2> QED BY <1>0, <1>2, <1>3, <1>4, <1>6, <1>7, <1>10, <2>0, <2>1
<1>15. CASE WriteToken(p)
  <2>0. c.pc = "writing" /\ UNCHANGED drawn /\ Advance(p, "published")
          /\ files' = [files EXCEPT ![c.dst].now = c.attempt.new]
    BY <1>15 DEF WriteToken, Written
  <2> QED BY <1>0, <1>3, <1>4, <1>7, <1>10, <2>0
<1>16. CASE SyncToken(p)
  BY <1>3, <1>5, <1>10, <1>16 DEF SyncToken, Synced
<1>17. CASE RemoveAttempt(p)
  <2>0. c.pc = "remove" /\ UNCHANGED drawn /\ Advance(p, "removed")
          /\ files' = [files EXCEPT ![f].now = None]
    BY <1>17 DEF RemoveAttempt, Removed
  <2> QED BY <1>0, <1>3, <1>4, <1>7, <1>10, <2>0
<1>18. CASE SyncRemoved(p)
  BY <1>0, <1>2, <1>5, <1>18 DEF SyncRemoved, Synced
<1>19. CASE Timeout(p)
  BY <1>0, <1>2, <1>6, <1>19 DEF Timeout
<1>20. CASE WriteFails(p)
  <2>0. Exit(p) /\ UNCHANGED drawn
    BY <1>20 DEF WriteFails
  <2>1. \/ files' = [files EXCEPT ![f].now = None] \/ files' = [files EXCEPT ![c.dst].now = None]
        \/ UNCHANGED files
    BY <1>20 DEF WriteFails, Removed
  <2> QED BY <1>0, <1>2, <1>4, <1>6, <1>7, <2>0, <2>1
<1> QED BY <1>21, <1>8, <1>9, <1>11, <1>12, <1>13, <1>14, <1>15, <1>16, <1>17, <1>18, <1>19, <1>20

LEMMA CallStepTyped ==
  ASSUME TypedInv,
         (\E p \in Commands : Send(p) \/ Replied(p)) \/ (\E h \in Handlers : Abort(h) \/ Discard(h))
  PROVE  TypedInv'
<1>0. /\ cli \in [Commands -> CliStates] /\ call \in [Handlers -> CallStates]
      /\ \A p \in Commands : Prepared(cli[p])
      /\ UNCHANGED <<boot, cred, rotation, files, mishap, drawn, crashes>>
      /\ Idle \in CliStates /\ Prepared(Idle)
  BY IdleIsOK DEF TypedInv, ClientShape, CallShape, Send, Replied, Abort, Discard, relayVars,
     bounds, clientVars, Prepared, Idle
<1>1. NoCall \in CallStates /\ SeriesOK(NoCall)
  BY NoCallIsOK DEF NoCall, SeriesOK
<1>2. ASSUME NEW p \in Commands, Send(p)
      PROVE  TypedInv'
  <2> SUFFICES ASSUME NEW c, c = cli[p] PROVE TypedInv'
    OBVIOUS
  <2>1. PICK h \in Handlers :
          /\ call' = [call EXCEPT ![h] =
               [op |-> c.cmd, auth |-> c.auth, new |-> c.attempt.new,
                step |-> IF c.cmd = "bootstrap" THEN "exists" ELSE "auth",
                attempt |-> 0, dirty |-> FALSE]]
          /\ cli' = [cli EXCEPT ![p].pc = "wait", ![p].conn = h]
    BY <1>2 DEF Send
  <2> DEFINE e == [op |-> c.cmd, auth |-> c.auth, new |-> c.attempt.new,
                   step |-> IF c.cmd = "bootstrap" THEN "exists" ELSE "auth",
                   attempt |-> 0, dirty |-> FALSE]
             d == [c EXCEPT !.pc = "wait", !.conn = h]
  <2>2. c \in CliStates /\ c.pc = "send" /\ c.attempt \in Attempt /\ c.attempt.new \in Tokens
    BY <1>0, <1>2 DEF Send, Prepared, Attempt
  <2>3. c.cmd \in {"bootstrap", "rotate"}
    BY <1>0, <1>2 DEF Send, Prepared
  <2>4. e \in CallStates /\ SeriesOK(e)
    BY <2>2, <2>3 DEF CallStates, CliStates, SeriesOK
  <2>5. d \in CliStates /\ Prepared(d) /\ cli' = [cli EXCEPT ![p] = d]
    BY <1>0, <2>1, <2>2 DEF CliStates, Prepared
  <2> HIDE DEF d, e
  <2>6. cli' \in [Commands -> CliStates] /\ \A q \in Commands : Prepared(cli'[q])
    BY <1>0, <2>5
  <2> QED BY <1>0, <2>1, <2>4, <2>6, CallTyped DEF e
<1>3. ASSUME NEW p \in Commands, Replied(p)
      PROVE  TypedInv'
  <2> SUFFICES ASSUME NEW c, c = cli[p] PROVE TypedInv'
    OBVIOUS
  <2>1. PICK h \in Handlers :
          /\ c.pc = "wait"
          /\ call' = [call EXCEPT ![h] = NoCall]
          /\ cli' = [cli EXCEPT ![p] =
               CASE At(h, "ok") -> [c EXCEPT !.pc = "finalize", !.conn = None]
                 [] At(h, "unauthorized") /\ c.auth # c.attempt.new ->
                      [c EXCEPT !.pc = "send", !.conn = None, !.auth = c.attempt.new]
                 [] OTHER -> Idle]
    BY <1>3 DEF Replied, Waits
  <2>2. /\ c \in CliStates /\ c.attempt \in Attempt /\ c.attempt.new \in Tokens
        /\ c.cmd \in {"bootstrap", "rotate"}
    BY <1>0, <2>1 DEF Prepared, Attempt
  <2>3. /\ [c EXCEPT !.pc = "finalize", !.conn = None] \in CliStates
        /\ Prepared([c EXCEPT !.pc = "finalize", !.conn = None])
        /\ [c EXCEPT !.pc = "send", !.conn = None, !.auth = c.attempt.new] \in CliStates
        /\ Prepared([c EXCEPT !.pc = "send", !.conn = None, !.auth = c.attempt.new])
    BY <2>2 DEF CliStates, Prepared
  <2>4. PICK d \in CliStates : Prepared(d) /\ cli' = [cli EXCEPT ![p] = d]
    <3>1. CASE At(h, "ok")
      BY <2>1, <2>3, <3>1 DEF At
    <3>2. CASE ~At(h, "ok") /\ At(h, "unauthorized") /\ c.auth # c.attempt.new
      BY <2>1, <2>3, <3>2
    <3>3. CASE ~At(h, "ok") /\ ~(At(h, "unauthorized") /\ c.auth # c.attempt.new)
      BY <1>0, <2>1, <3>3
    <3> QED BY <3>1, <3>2, <3>3
  <2>5. cli' \in [Commands -> CliStates] /\ \A q \in Commands : Prepared(cli'[q])
    BY <1>0, <2>4
  <2> QED BY <1>0, <1>1, <2>1, <2>5, CallTyped
<1>4. ASSUME NEW h \in Handlers, Abort(h) \/ Discard(h)
      PROVE  TypedInv'
  <2>1. call' = [call EXCEPT ![h] = NoCall]
    BY <1>4 DEF Abort, Discard
  <2>2. cli' \in [Commands -> CliStates] /\ \A q \in Commands : Prepared(cli'[q])
    BY <1>0, <1>4 DEF Abort, Discard, clientVars
  <2> QED BY <1>0, <1>1, <2>1, <2>2, CallTyped
<1> QED BY <1>2, <1>3, <1>4

LEMMA TypedStep ==
  ASSUME TypedInv, [Next]_vars
  PROVE  TypedInv'
<1>1. ASSUME NEW p \in Commands,
             \/ BeginBootstrap(p) \/ (\E src, dst \in Destinations : BeginRotate(p, src, dst))
             \/ CommandStep(p) \/ Timeout(p) \/ WriteFails(p)
      PROVE  TypedInv'
  <2>1. CASE Send(p) \/ Replied(p)
    BY <2>1, CallStepTyped
  <2>2. CASE ~(Send(p) \/ Replied(p))
    BY <1>1, <2>2, ClientStepTyped DEF CommandStep
  <2> QED BY <2>1, <2>2
<1>2. ASSUME NEW h \in Handlers, HandlerStep(h) \/ Abort(h)
      PROVE  TypedInv'
  <2>1. CASE Abort(h) \/ Discard(h)
    BY <2>1, CallStepTyped
  <2>2. CASE BootstrapExec(h) \/ RotateExec(h)
    BY <2>2, CommitTyped
  <2> QED BY <1>2, <2>1, <2>2, HandlerTyped DEF HandlerStep
<1>3. CASE Crash
  <2>1. /\ ClientShape /\ crashes' \in Nat /\ files' \in AfterCrash(files)
        /\ cli' = [p \in Commands |-> Idle]
        /\ UNCHANGED <<boot, cred, rotation, call, drawn>>
        /\ mishap' \in {"none", "unsynced", "crashed"}
    BY <1>3 DEF TypedInv, ClientShape, Crash, relayVars
  <2>2. ClientShape' /\ \A p \in Commands : Prepared(cli[p])'
    BY <2>1, CrashKeeps, IdleIsOK DEF ClientShape, Prepared, Idle
  <2>3. RelayShape' /\ CallShape' /\ OneAdministrator' /\ \A h \in Handlers : SeriesOK(call[h])'
    BY <2>1 DEF TypedInv, RelayShape, CallShape, OneAdministrator, SeriesOK
  <2> QED BY <2>2, <2>3 DEF TypedInv
<1>4. CASE UNCHANGED vars
  <2>1. UNCHANGED <<boot, cred, rotation, call, files, mishap, cli, drawn, crashes>>
    BY <1>4 DEF vars, relayVars
  <2> QED BY <2>1 DEF TypedInv, RelayShape, ClientShape, CallShape, OneAdministrator, SeriesOK,
        Prepared
<1> QED BY <1>1, <1>2, <1>3, <1>4 DEF Next

LEMMA TypedInitially == Init => TypedInv
<1> SUFFICES ASSUME Init PROVE TypedInv
  OBVIOUS
<1> USE DEF Init
<1>1. files \in AdminDirectories
  <2>1. files = [f \in AdminPaths |-> NoFile]
    BY DEF AdminPaths
  <2>2. \A f \in AdminPaths : None \in MayHold(f) /\ None \in AdminContents
    BY DEF MayHold, AdminContents
  <2>3. NoFile.now = None /\ NoFile.durable = None
          /\ NoFile \in [now : AdminContents, durable : AdminContents]
    BY DEF NoFile, AdminContents
  <2> QED BY <2>1, <2>2, <2>3 DEF AdminDirectories
<1>2. RelayShape /\ ClientShape /\ CallShape /\ OneAdministrator
  BY <1>1, IdleIsOK, NoCallIsOK DEF RelayShape, ClientShape, CallShape, OneAdministrator
<1>3. SeriesOK(NoCall) /\ Prepared(Idle)
  BY DEF SeriesOK, NoCall, Prepared, Idle
<1> QED BY <1>2, <1>3 DEF TypedInv

(***************************************************************************)
(* Bootstrap makes one organisation with one credential, and rotations     *)
(* replace it one for one: for any commands at once, whatever is lost,     *)
(* fails or crashes (Bootstrap and RotateAdminCredential of                *)
(* internal/store/redis.go).  The component's types hold as well.          *)
(***************************************************************************)
THEOREM OneAdministratorAlways == Spec => [](TypeOK /\ OneAdministrator)
<1>1. TypedInv => TypeOK /\ OneAdministrator
  BY ShapeIsTypeOK DEF TypedInv
<1> QED BY <1>1, TypedInitially, TypedStep, PTL DEF Spec
=============================================================================
