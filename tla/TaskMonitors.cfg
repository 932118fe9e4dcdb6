SPECIFICATION Spec
CONSTANTS
  Tasks = {t1}
  Agents = {a1, a2}
  Handlers = {g1}
  None = None
  Role <- OneRole
  MaxRetries = 1
  MaxTasks = 1
  Calls = {"create", "claim", "complete", "register", "unregister", "heartbeat", "stale", "health", "fail"}
  PMStatuses = {"available"}
  PMAssignees = {a1}
  FlakyAgents = {a1}
  ReportedLoads = {0}
  RetryBound = 1
  LoadBound = 1
INVARIANTS OwnedWhileActive
PROPERTIES OwnershipSpec
CHECK_DEADLOCK FALSE
