SPECIFICATION Spec
CONSTANTS
  Callers = {g1, g2}
  None = none
  MaxSessions = 2
  MaxSignOuts = 2
  MaxOthers = 1
SYMMETRY Symmetry
INVARIANTS
  AnsweredAfterSignOut
  CacheIsCurrent
CHECK_DEADLOCK FALSE
