\* A crash anywhere, the authority changing over the restart; and two
\* prepared decisions, or one and a lost or late call.
CONSTANTS
  None = None
  Requests = {r1}
  Authorities = {a1, a2}
  Bodies = {text}
  MaxTime = 1
  MaxIDs = 2
  MaxFaults = 1
  MaxTotal = 2
  MaxCrashes = 1
SPECIFICATION Spec
SYMMETRY Interchangeable
INVARIANTS StartsOnce RunsAreApproved ResultsSound
CONSTRAINT DeadlineMatters
