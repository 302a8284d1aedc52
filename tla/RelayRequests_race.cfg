\* Two handlers race on one request: every endpoint, two decision
\* identities, two execution claims, an expiring deadline, revocations.
CONSTANTS
  None = None
  Requests = {r1}
  Agents = {alice, bob}
  DecisionIDs = {d1, d2}
  Claims = {k1, k2}
  Bodies = {text}
  FileBodies = {}
  Artifacts = {}
  Handlers = {h1, h2}
  Lifetimes = {1}
  MaxTime = 1
SPECIFICATION Spec
SYMMETRY Interchangeable
INVARIANTS TypeOK OneDecision OneExecution AckedOutcomesStand
  CancelAnnouncedOnce InboxComplete RetriesSuffice
PROPERTIES RefinesLifecycle NoRevokedApproval
