\* A crash between preparing a Deny and sending it, no fault.
CONSTANTS
  None = None
  Requests = {r1}
  Authorities = {a1}
  Bodies = {text}
  MaxTime = 1
  MaxIDs = 1
  MaxFaults = 0
  MaxTotal = 1
  MaxCrashes = 1
SPECIFICATION Spec
PROPERTIES RetriedDecisionsPass
