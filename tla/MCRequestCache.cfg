SPECIFICATION Spec
CONSTANTS
  Workers = {w1, w2}
  Requests = {first, second}
  Keys <- MCKeys
  KeyOf <- MCKeyOf
  DataOf <- Shared
  Bodies = {b1}
  Broken = Broken
  Refused = Refused
  None = None
  first = first
  second = second
INVARIANTS
  OneAnswerPerKey
  OwnAnswer
  NoFetchOnceStored
  NoLostWaiter
PROPERTIES
  StoredForGood
  EveryCallReturns
  ImplementsAnswerOnce
