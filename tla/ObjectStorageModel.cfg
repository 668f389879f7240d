SPECIFICATION ModelFairSpec
CONSTANTS
  p1 = p1
  p2 = p2
  p3 = p3
  weights = weights
  config = config
  Procs = {p1, p2, p3}
  Files = {weights, config}
  MaxAttempts = 2
CHECK_DEADLOCK FALSE
INVARIANTS
  SentinelMeansWhole
  UsersKeepFiles
PROPERTIES
  AttemptsEnd
