CONSTANTS
  Subs = {a}
  MaxCapability = 3
  MaxFaults = 3
  Reentrant = FALSE
  HalfClosed = TRUE
  Bounded = TRUE
SPECIFICATION FairSpec
INVARIANTS
  NoRenewalLost
  RenewalsTruthful
PROPERTY EventuallySettled
CHECK_DEADLOCK FALSE
