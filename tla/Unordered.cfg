SPECIFICATION UnorderedSpec
CONSTANTS
  LiveIds = {q1}
  MaxPublications = 3
  MaxBodies = 2
  MaxAttempts = 2
INVARIANT PrefixConsistent
PROPERTY RowsGrow
CHECK_DEADLOCK FALSE
