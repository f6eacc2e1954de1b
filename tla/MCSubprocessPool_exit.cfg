SPECIFICATION MCFairSpec
CONSTANTS
  c1 = c1
  c2 = c2
  NoProc = 0
  NoCall = NoCall
  Callers = {c1, c2}
  Procs = {1, 2, 3, 4}
  PoolSize = 2
  MaxTasks = 2
  MaxRetries = 1
  MaxCalls = 2
  MaxIdleCrashes = 2
  MaxTaskCrashes = 0
  MaxSpawnFails = 0
  Scopes <- CrashesAtRest
PROPERTIES
  ExitIsRepaired
CHECK_DEADLOCK FALSE
