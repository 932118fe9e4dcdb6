SPECIFICATION Spec
CONSTANTS
  Agents = {a1}
  None = None
  Calls = {g1}
  Template <- DevGateReview
  MaxTasks = 3
  MaxCount = 2
  MaxPasses = 0
  Targets = {0, 3}
  Operations = {"start", "complete", "decide", "review", "approve", "fail", "restart"}
  PhaseScans = TRUE
SYMMETRY Symmetry
INVARIANTS CountsEveryFinish
PROPERTIES CompletedStays OpenedInOrder
CHECK_DEADLOCK FALSE
