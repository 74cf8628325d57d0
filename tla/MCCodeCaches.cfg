SPECIFICATION Spec
CONSTANTS
  Workers = {w1, w2}
  Scripts = {script}
  Modules = {module}
  Codes = {c1, c2}
  Broken = Broken
  Refused = Refused
  None = None
INVARIANTS
  OneCodePerKey
PROPERTIES
  EveryCallReturns
  ImplementsAnswerOnce
