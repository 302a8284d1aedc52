\* Credential rotation, device setup and service commands, each with its faults.
CONSTANTS
  None = None
  Torn = Torn
  t1 = t1
  t2 = t2
  t3 = t3
  Tokens = {t1, t2, t3}
  Commands = {p1}
  Handlers = {h1, h2}
  MaxTimeouts = 1
  MaxAborts = 1
  MaxCrashes = 2
  MaxFaults = 2
  k1 = k1
  k2 = k2
  k3 = k3
  Keys = {k1, k2, k3}
  c1 = c1
  Configs = {c1, c2}
  Platforms = {"darwin", "linux"}
  MaxPolls = 3
  MaxConfig = 2
  MaxCommands = 3
  MaxExits = 1
  MaxLogins = 1
SPECIFICATION SuiteSpec
INVARIANTS CredentialKept EnrolmentKept ServiceAsAsked
PROPERTIES RerunsComplete StartedServiceRuns
CHECK_DEADLOCK FALSE
