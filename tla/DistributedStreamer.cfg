\* The ranks end.
CHECK_DEADLOCK FALSE
SPECIFICATION FairSpec
CONSTANTS
  N = 3
  Host <- MCHost
  Requests <- MCRequests
  BufferSize = 3
  Alignment = 2
  MaxChunksPerBatch = 2
INVARIANTS
  StreamIsExact
  FailureHasCause
PROPERTY
  EveryRankEnds
