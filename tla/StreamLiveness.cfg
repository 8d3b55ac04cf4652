SPECIFICATION FairSpec
CONSTANTS
  LiveIds = {q1}
  MaxPublications = 2
  MaxBodies = 2
  MaxAttempts = 2
  WireCap = 2
PROPERTIES
  EventuallyCurrent
  ImplementsView
CHECK_DEADLOCK FALSE
