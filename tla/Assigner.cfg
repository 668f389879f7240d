SPECIFICATION Spec
CONSTANTS
  Requests <- MCRequests
  NumWorkers = 3
  BlockSize = 2
  MaxBytes = 7
INVARIANTS
  ChecksAreRight
  PlanIsExact
