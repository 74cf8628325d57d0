SPECIFICATION Spec
CONSTANTS
  Workers = {w1, w2}
  Parent <- MCParent
  Files <- MCFiles
  ConfigFiles <- MCConfigFiles
  MaxFailures = 1
  None = None
INVARIANTS
  NeverPanics
