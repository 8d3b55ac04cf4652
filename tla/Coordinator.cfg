CONSTANTS
  Subs = {a, b}
  MaxCapability = 1
  MaxFaults = 2
  Reentrant = TRUE
  HalfClosed = FALSE
  Bounded = TRUE
SPECIFICATION Spec
SYMMETRY Symmetry
INVARIANTS
  TablesAgree
  NobodyStranded
  NoOrphans
  LiveMeansLive
  NoProtocolFailure
CHECK_DEADLOCK FALSE
