SPECIFICATION MCSpec
CONSTANTS
  t1 = t1
  t2 = t2
  t3 = t3
  u1 = u1
  u2 = u2
  w1 = w1
  w2 = w2
  r1 = r1
  r2 = r2
  r3 = r3
  again = again
  s1 = s1
  s2 = s2
  c1 = c1
  m1 = m1
  m2 = m2
  NoTask = NoTask
  Nobody = Nobody
  Tasks = {t1, t2, t3, u1, u2}
  Workers = {w1, w2}
  Requests = {r1, r2, r3, again, s1, s2}
  Cancels = {c1}
  Monitors = {m1, m2}
  TaskOf <- MCTaskOf
  PrioOf <- MCPrioOf
  PinOf <- MCPinOf
  ScanLimit = 2
  MaxFaults = 1
  MaxStops = 1
  MaxPasses = 2
  Scopes <- SafetyScopes
INVARIANTS
  TypeOK
  HeldIsKnown
  NoTaskLost
  FinalHasAnswer
  AssignmentAgrees
  NoCopyMade
PROPERTIES
  ContractKept
  FifoKept
CHECK_DEADLOCK FALSE
