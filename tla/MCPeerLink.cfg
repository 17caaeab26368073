SPECIFICATION FairSpec
CONSTANTS
  l1 = l1  l2 = l2  l3 = l3  l4 = l4
  Links = {l1, l2, l3}
  Threshold = 2
  Retries = 1
  None = None
  MayStopA = TRUE
  MayStopB = TRUE
  MaxBreaks = 1
CHECK_DEADLOCK FALSE
INVARIANTS
  AtMostOnce
  LostOnlyByFailure
PROPERTIES
  NeverForgotten
  FullBatchesArrive
  ThreadsGetOn
