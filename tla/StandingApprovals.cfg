\* Standing approvals in four scenarios; each bounds time and faults further.
CONSTANTS
  r1 = r1
  r2 = r2
  m1 = m1
  c1 = c1
  w1 = w1
  A = A
  B = B
  None = None
  Requests = {r1, r2}
  Member <- MCMember
  Conversation <- MCConversation
  Scopes <- MCScopes
  Authorities = {A, B}
  Levels = {"conversation_30m", "teammate_always", "all_always"}
  Window = 2
  MaxTime = 2
  MaxFaults = 2
  MaxCorrections = 1
SPECIFICATION SuiteSpec
SYMMETRY Interchangeable
INVARIANTS GrantsSound
PROPERTIES ApprovalsSound
CHECK_DEADLOCK FALSE
