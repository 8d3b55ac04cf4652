SPECIFICATION Spec
CONSTANTS
  LiveIds = {q1, q2}
  MaxPublications = 2
  MaxBodies = 1
  MaxAttempts = 1
  WireCap = 1
SYMMETRY Symmetry
INVARIANTS
  ClientSound
  CommonCut
  ListenersAgree
  ReadYourWrites
PROPERTY ImplementsView
CHECK_DEADLOCK FALSE
