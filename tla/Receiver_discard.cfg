\* A stale inbox snapshot, no fault and no crash.
CONSTANTS
  None = None
  Requests = {r1}
  Authorities = {a1}
  Bodies = {text}
  MaxTime = 1
  MaxIDs = 1
  MaxFaults = 0
  MaxTotal = 1
  MaxCrashes = 0
SPECIFICATION Spec
PROPERTIES DiscardIsSafe
