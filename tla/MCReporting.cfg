SPECIFICATION PoolSpec
CONSTANTS
  Workers = {w1, w2}
  Count = 1
  Matrix <- NoMatrix
  N <- MCN
  Included <- MCIncluded
  Size <- MCSize
  R = 2
  Drains = TRUE
  None = None
INVARIANTS
  ExitZeroMeansAllPassed
  ExitOneHasReason
PROPERTIES
  AlwaysExits
