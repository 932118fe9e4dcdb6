SPECIFICATION FleetSpec
CONSTANTS
  Tasks = {t1}
  Bridges = {b1, w1}
  Workers = {w1}
  Signalled = {w1}
  None = None
  MaxRetries = 1
  MaxTasks = 1
  AgentTimeout = 2
  BuildTime = 1
  ClaimTimeout = 2
  ProgressTimeout = 1
  WarnAfter = 1
  DeadAfter = 2
  Mortal = {b1, w1}
  Restarts = TRUE
  Lossy <- AllCalls
INVARIANTS TypeOK
PROPERTIES DoneByHolder OwnershipSpec
CHECK_DEADLOCK FALSE
