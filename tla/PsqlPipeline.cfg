SPECIFICATION FairSpec
CONSTANTS
  MaxOps = 5
INVARIANTS
  PromisesTruthful
  NoProtocolFailure
  EndTells
PROPERTY SyncSettles
CHECK_DEADLOCK FALSE
