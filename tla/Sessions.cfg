SPECIFICATION FairSpec
CONSTANTS
  Callers = {p1, p2}
  Sessions = {s1, s2}
  None = None
  MaxAttempts = 2
  MaxPrompts = 1
INVARIANTS TypeOK NothingForgotten CleanupDeletes
PROPERTIES CallsReturn
CHECK_DEADLOCK FALSE
