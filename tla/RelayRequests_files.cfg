\* One decision identity and one claim, results with and without a file:
\* what is stored, listed and disclosed when submissions race.
CONSTANTS
  None = None
  Requests = {r1}
  Agents = {alice, bob}
  DecisionIDs = {d1}
  Claims = {k1}
  Bodies = {text, report}
  FileBodies = {report}
  Artifacts = {x1, x2}
  Handlers = {h1, h2}
  Lifetimes = {1}
  MaxTime = 0
SPECIFICATION Spec
SYMMETRY Interchangeable
INVARIANTS DisclosureBounded FilesPersisted
