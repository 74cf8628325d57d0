SPECIFICATION Spec
CONSTANTS
  Workers = {w1, w2}
  Requests = {first, second}
  Keys <- MCKeys
  KeyOf <- MCKeyOf
  DataOf <- Ambiguous
  Bodies = {b1}
  Broken = Broken
  Refused = Refused
  None = None
  first = first
  second = second
INVARIANTS
  OwnAnswer
