SPECIFICATION FairSpec
CONSTANTS
  MaxOps = 4
PROPERTY ResultsCome
CHECK_DEADLOCK FALSE
