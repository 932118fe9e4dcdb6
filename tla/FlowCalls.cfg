SPECIFICATION Spec
CONSTANTS
  Agents = {a1}
  None = None
  Calls = {g1, g2}
  Template <- DevThenTest
  MaxTasks = 3
  MaxCount = 2
  MaxPasses = 0
  Targets = {}
  Operations = {"start", "complete", "review", "reject", "delete"}
  PhaseScans = FALSE
SYMMETRY Symmetry
INVARIANTS TypeOK TotalsMatch
PROPERTIES CompletedStays
CHECK_DEADLOCK FALSE
