SPECIFICATION FairFleetSpec
CONSTANTS
  Tasks = {t1, t2}
  Bridges = {b1, w1}
  Workers = {w1}
  Signalled = {}
  None = None
  MaxRetries = 1
  MaxTasks = 1
  AgentTimeout = 1
  BuildTime = 0
  ClaimTimeout = 2
  ProgressTimeout = 1
  WarnAfter = 1
  DeadAfter = 2
  Mortal = {b1}
  Restarts = FALSE
  Lossy <- Reports
INVARIANTS WorkersKeepTheirTask
PROPERTIES EveryTaskSettles
CHECK_DEADLOCK FALSE
