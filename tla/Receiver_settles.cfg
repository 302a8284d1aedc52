\* Reconciliation ends what a crash left unfinished.
CONSTANTS
  None = None
  Requests = {r1}
  Authorities = {a1, a2}
  Bodies = {text}
  MaxTime = 1
  MaxIDs = 1
  MaxFaults = 0
  MaxTotal = 1
  MaxCrashes = 1
SPECIFICATION FairSpec
PROPERTIES OperationsSettle
CONSTRAINTS DeadlineMatters Unsettled
