SPECIFICATION Spec
CONSTANTS
  NoWorker = NoWorker
  NoProc = NoProc
  Workers = {w1}
  Procs = {p1, p2}
  Expected = {w1}
  Persistent = TRUE
  Launched = {}
  KeyTTL = 2
  HeartbeatTimeout = 2
  ProgressTimeout = 2
  TaskCeiling = 1
  InitCeiling = 1
  InitWait = 1
  Cooldown = 1
  Budgets <- OneWedge
  MaxDone = 1
PROPERTIES
  FlatIsWedged
CHECK_DEADLOCK FALSE
