SPECIFICATION FairSpec
CONSTANTS
  Waiters = {w1}
  MaxCapability = 3
  MaxMounts = 2
INVARIANTS
  RefreshSound
  HookTruthful
  WaitersServed
PROPERTY StaleEnds
CHECK_DEADLOCK FALSE
