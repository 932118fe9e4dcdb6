SPECIFICATION Spec
CONSTANTS
  Tasks = {t1}
  Bridges = {b1, b2}
  Workers = {}
  Signalled = {}
  None = None
  MaxRetries = 1
  MaxTasks = 1
  AgentTimeout = 1
  BuildTime = 0
  ClaimTimeout = 2
  ProgressTimeout = 1
  WarnAfter = 1
  DeadAfter = 2
  Mortal = {}
  Restarts = FALSE
  Lossy <- NoCall
INVARIANTS WorksOnOwnTask
CHECK_DEADLOCK FALSE
