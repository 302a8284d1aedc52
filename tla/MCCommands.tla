----------------------------- MODULE MCCommands -----------------------------
(***************************************************************************)
(* The commands that people run, for TLC: the administrator's credential,  *)
(* `team-relay setup`, and the service commands.  They share no state, so  *)
(* each behaviour is one of its `subject`, with the others at rest.  Setup  *)
(* is run for one configuration ("setup") or for two that share a          *)
(* directory ("setups").                                                   *)
(***************************************************************************)
EXTENDS AdminCredential

CONSTANTS t1, t2, t3,   \* the tokens
          k1, k2, k3,   \* the keys
          c1,           \* the configuration of subject "setup"
          Keys, Configs,
          Platforms, MaxPolls, MaxConfig, MaxCommands, MaxExits, MaxLogins

VARIABLES subject, setupFiles, run, enrolled, setupDrawn,
          platform, config, unit, entry, known, active, enabled, leaving,
          proc, session, cmd, outcome, cut, commands, exits, logins

Device  == INSTANCE DeviceSetup WITH files <- setupFiles, drawn <- setupDrawn
Service == INSTANCE ServiceLifecycle

(* An absent or torn file holds no key and no marker.                      *)
ASSUME SetupConstants ==
  /\ None \notin Keys /\ Torn \notin Keys /\ None # Torn
  /\ Device!Complete \notin {None, Torn}
ASSUME AttemptConstants == {None, Torn} \cap Attempt = {}

adminVars == <<relayVars, call, files, mishap, cli, drawn, timeouts, aborts>>
setupVars == <<setupFiles, run, enrolled, setupDrawn>>
serviceVars == <<platform, config, unit, entry, known, active, enabled, leaving,
                 proc, session, cmd, outcome, cut, commands, exits, logins>>
suiteVars == <<subject, adminVars, setupVars, serviceVars, crashes, faults>>

SuiteInit ==
  /\ subject \in {"admin", "setup", "setups", "service"}
  /\ Init /\ Device!Init /\ Service!Init
  /\ subject # "service" => platform = "linux"

(* Tokens, and keys, are interchangeable, so they are drawn in order.      *)
DrawnInOrder == /\ drawn' \in {{}, {t1}, {t1, t2}, Tokens}
                /\ setupDrawn' \in {{}, {k1}, {k1, k2}, Keys}

(***************************************************************************)
(* The bound on an administrator's machine: at most two things go wrong,   *)
(* of different kinds: a lost call, a failing write or sync, a crash.      *)
(***************************************************************************)
FewMishaps == /\ timeouts' + aborts' + faults' + crashes' <= 2
              /\ timeouts' + aborts' <= 1 /\ faults' <= 1 /\ crashes' <= 1

SuiteNext ==
  /\ UNCHANGED subject
  /\ \/ /\ subject = "admin" /\ Next /\ FewMishaps
        /\ UNCHANGED <<setupVars, serviceVars>>
     \/ /\ subject \in {"setup", "setups"} /\ Device!Next
        /\ subject = "setup" => run'.config \in {c1, None}
        /\ UNCHANGED <<adminVars, serviceVars>>
     \/ /\ subject = "service" /\ Service!Next
        /\ UNCHANGED <<adminVars, setupVars, crashes>>
  /\ DrawnInOrder

(* The fairness of each component, in the behaviours it is the subject of. *)
Admins   == subject = "admin"
Setups   == subject = "setup"
Services == subject = "service"

SuiteFairness ==
  /\ \A p \in Commands : WF_vars(Admins /\ CommandStep(p))
  /\ \A p \in Commands : \A dst \in Destinations :
       SF_vars(Admins /\ Rerun(p, dst))
  /\ \A h \in Handlers : WF_vars(Admins /\ HandlerStep(h))
  /\ WF_setupVars(Setups /\ Device!Step)
  /\ SF_setupVars(Setups /\ Device!Setup(c1))
  /\ WF_serviceVars(Services /\ Service!Launch)
  /\ WF_serviceVars(Services /\ Service!Deregister)
  /\ WF_serviceVars(Services /\ Service!Login)

SuiteSpec == SuiteInit /\ [][SuiteNext]_suiteVars /\ SuiteFairness

-----------------------------------------------------------------------------
(***************************************************************************)
(* The token of an enrolled device, the order of publication and the       *)
(* identity of a retry are kept by setup (DeviceSetup).  The token and the *)
(* order: when no other configuration shares the directory (README, 7).    *)
(***************************************************************************)
EnrolmentKept == Device!RetriesKeepIdentity /\ (Setups => Device!EnrolmentKept)

(***************************************************************************)
(* The service is as the last successful command left it, and no command   *)
(* interrupts it for an installation that fails (ServiceLifecycle).        *)
(***************************************************************************)
ServiceAsAsked == Service!ServiceAsAsked

(***************************************************************************)
(* A rotation or a setup that did not finish, for a lost answer, a failure *)
(* or a crash, is finished by rerunning its command; and the record that a *)
(* rerun needs is removed only when the relay has committed.               *)
(***************************************************************************)
RerunsComplete ==
  /\ RemovalIsConfirmed /\ RotationCompletes
  /\ Setups => Device!SetupCompletes

(* A started service runs, after a crash and after a login too.            *)
StartedServiceRuns == Service!StartedServiceRuns
=============================================================================
