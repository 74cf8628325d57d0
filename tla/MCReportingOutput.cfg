SPECIFICATION PoolSpec
CONSTANTS
  Workers = {w1}
  Count = 1
  Matrix <- NoMatrix
  N <- MCN
  Included <- MCIncluded
  Size <- MCSize
  R = 3
  Drains = TRUE
  None = None
INVARIANTS
  OutputInEveryReport
