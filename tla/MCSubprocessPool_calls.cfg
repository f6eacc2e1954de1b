SPECIFICATION MCFairSpec
CONSTANTS
  c1 = c1
  c2 = c2
  NoProc = 0
  NoCall = NoCall
  Callers = {c1, c2}
  Procs = {1, 2, 3, 4}
  PoolSize = 2
  MaxTasks = 1
  MaxRetries = 1
  MaxCalls = 3
  MaxIdleCrashes = 1
  MaxTaskCrashes = 1
  MaxSpawnFails = 2
  Scopes <- AllScopes
INVARIANTS
  TypeOK
  AtMostOnce
  RightAnswer
  Exclusive
  LiveIsBounded
PROPERTIES
  ContractKept
  CallEnds
  CallServed
CHECK_DEADLOCK FALSE
