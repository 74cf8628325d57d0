SPECIFICATION Spec
CONSTANTS
  Workers = {w1, w2}
  N = 3
  Included <- MCIncluded
  None = None
INVARIANTS
  ReportedOnce
  CompleteUnlessCanceled
  NoSendAfterClose
PROPERTIES
  StopsWhenCanceled
  EndsWhenRead
