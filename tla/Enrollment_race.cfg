\* Two setups, two invitations, revocations: six calls by two handlers.
CONSTANTS
  None = None
  Invites = {i1, i2}
  Keys = {k1, k2}
  Members = {m1, m2}
  Devices = {d1, d2}
  Handlers = {h1, h2}
  MaxCalls = 6
SPECIFICATION Spec
SYMMETRY Interchangeable
INVARIANTS EnrolmentSound RevocationSound
PROPERTIES ExactRetrySucceeds
CHECK_DEADLOCK FALSE
