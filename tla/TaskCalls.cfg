SPECIFICATION Spec
CONSTANTS
  Tasks = {t1}
  Agents = {a1, a2}
  Handlers = {g1, g2}
  None = None
  Role <- OneRole
  MaxRetries = 1
  MaxTasks = 1
  Calls = {"create", "escalate", "release", "delete", "claim", "progress", "complete", "review", "test", "fail", "patch", "restart"}
  PMStatuses = {"available"}
  PMAssignees = {}
  FlakyAgents = {a1}
  ReportedLoads = {0}
  RetryBound = 2
  LoadBound = 2
SYMMETRY Symmetry
INVARIANTS TypeOK OwnedWhileActive
PROPERTIES OwnershipSpec DeliveredByAssignee
CHECK_DEADLOCK FALSE
