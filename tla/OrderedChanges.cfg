SPECIFICATION Spec
CONSTANTS
  Keys = {k1, k2, k3, k4}
  Values = {v1, v2}
  Null = Null
  MaxChanges = 3
SYMMETRY Symmetry
INVARIANTS MovedBehindAnchor RowsConserved
PROPERTY UnmovedStandStill
CHECK_DEADLOCK FALSE
