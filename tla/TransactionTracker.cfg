SPECIFICATION Spec
CONSTANTS
  Waiters = {w1, w2}
  MaxTxid = 3
  MaxRecentTxids = 2
  Txids <- MCTxids
  Snapshots <- MCSnapshots
SYMMETRY Symmetry
INVARIANTS
  TypeOK
  ResolvedIsApplied
  NobodyForgotten
  TimersArePending
  RecentBounded
PROPERTY ProofsAccumulate
CHECK_DEADLOCK FALSE
