SPECIFICATION FairSpec
CONSTANTS
  Commands = {c1, c2}
  Nobody = nobody
  MaxRotations = 2
  MaxLogins = 1
  MaxCrashes = 1
  MaxLosses = 1
INVARIANTS
  OneHolder
  NoReplay
  StoreIsNewest
PROPERTY CommandsEnd
CHECK_DEADLOCK FALSE
