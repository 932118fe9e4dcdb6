SPECIFICATION RecoverySpec
CONSTANTS
  Tasks = {t1}
  Agents = {a1, a2}
  Handlers = {g1}
  None = None
  Role <- OneRole
  MaxRetries = 1
  MaxTasks = 1
  Calls = {"create", "claim", "heartbeat", "stale", "health", "unregister"}
  PMStatuses = {}
  PMAssignees = {}
  FlakyAgents = {a1}
  ReportedLoads = {0}
  RetryBound = 2
  LoadBound = 1
PROPERTIES SilentClaimsRecovered
CHECK_DEADLOCK FALSE
