SPECIFICATION Spec
CONSTANTS
  Tasks = {t1}
  Agents = {a1}
  Handlers = {g1, g2}
  None = None
  Role <- OneRole
  MaxRetries = 2
  MaxTasks = 1
  Calls = {"create", "claim", "complete", "release"}
  PMStatuses = {}
  PMAssignees = {}
  FlakyAgents = {a1}
  ReportedLoads = {0}
  RetryBound = 3
  LoadBound = 2
SYMMETRY Symmetry
PROPERTIES FinishedNotRequeued
CHECK_DEADLOCK FALSE
