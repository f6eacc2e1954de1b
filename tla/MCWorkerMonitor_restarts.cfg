SPECIFICATION FairSpec
CONSTANTS
  NoWorker = NoWorker
  NoProc = NoProc
  Workers = {w1}
  Procs = {p1, p2, p3}
  Expected = {w1}
  Persistent = TRUE
  Launched = {}
  KeyTTL = 2
  HeartbeatTimeout = 2
  ProgressTimeout = 1
  TaskCeiling = 2
  InitCeiling = 1
  InitWait = 1
  Cooldown = 1
  Budgets <- OneOfEach
  MaxDone = 1
INVARIANTS
  TypeOK
  OneProcess
  MarkedIsServed
PROPERTIES
  HealthyNotKilled
  ExpectedComesBack
CHECK_DEADLOCK FALSE
