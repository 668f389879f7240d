SPECIFICATION Spec
CONSTANTS
  c1 = c1
  c2 = c2
  c3 = c3
  c4 = c4
  Clients = {c1, c2, c3, c4}
  TaskBytes <- MCTaskBytes
  ObjectBytes <- MCObjectBytes
  WorkerChunk = 5
  Nprocs = 2
  Connections = 0
  Concurrency = 2
  GroupSize = 1
  Margin = 1
  S3Window = 3
  S3Bdp = 1
  MaxEvents = 2
  Setups <- MCSetups
  NextEnv <- MCNextEnv
INVARIANTS
  AnswerIsWhole
  AnsweredIsQuiet
  CacheOutlivesReads
PROPERTIES
  ReadsAreAnswered
