SPECIFICATION PoolFairSpec
CONSTANTS
  Size = 2
  Requests = {q1, q2, q3}
  SpawnFailsAt = {1}
INVARIANTS
  RequestInOnePlace
PROPERTIES
  RequestCompletes
  DestructorReturns
