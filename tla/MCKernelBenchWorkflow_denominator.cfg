SPECIFICATION MCSpec
CONSTANTS
  a1 = a1
  a2 = a2
  off = off
  b1 = b1
  bad = bad
  k1 = k1
  s1 = s1
  s2 = s2
  NoProblem = NoProblem
  NoUuid = NoUuid
  Tasks = {a1, a2, off, b1, bad, k1}
  Requests <- MCRequests
  Servers = {s1, s2}
  TaskOf <- MCTaskOf
  ServerOf <- MCServerOf
  Forced <- MCForced
  Payload <- MCPayload
  MaxTime = 2
  MaxRestarts = 0
  MaxReruns = 0
  Scopes <- FirstRuns
INVARIANTS
  OneDenominator
CHECK_DEADLOCK FALSE
