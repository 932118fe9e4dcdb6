SPECIFICATION Spec
CONSTANTS
  Agents = {a1}
  None = None
  Calls = {g1}
  Template <- DevThenTest
  MaxTasks = 2
  MaxCount = 2
  MaxPasses = 0
  Targets = {}
  Operations = {"start", "complete", "review"}
  PhaseScans = FALSE
SYMMETRY Symmetry
INVARIANTS NextPhaseOpens
CHECK_DEADLOCK FALSE
