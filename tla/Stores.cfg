\* Creation under retries and aging, presence under revocation, two executions.
CONSTANTS
  None = None
  Calls = {p1, p2}
  p2 = p2
  i1 = i1
  i2 = i2
  Ids = {i1, i2}
  k1 = k1
  Keys = {k1, k2}
  x = x
  Contents = {x, y}
  Retention = 3
  Lifetime = 2
  MaxTime = 4
  MaxFaults = 1
  Agents = {a1, a2}
  Listers = {l1}
  Executions = {e1, e2}
  Conversations = {c1, c2}
  Locks = {m1, m2}
  MaxConcurrent = 1
  MaxSession = 1
SPECIFICATION SuiteSpec
INVARIANTS CreationSound DirectorySound TurnsSound
PROPERTIES LossesAreRepaired EveryCallEnds
CHECK_DEADLOCK FALSE
