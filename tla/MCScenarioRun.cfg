SPECIFICATION Spec
CONSTANTS
  N = 3
  Hooks <- MCHooks
  MaxRetries = 1
INVARIANTS
  TypeOK
  NoSuccessOverFailure
  ReasonIsOnARequest
  AbortedOnlyIfInterrupted
  SuccessReachedTheEnd
  ErrorOutranksFailure
PROPERTIES
  Terminates
