SPECIFICATION FairSpec
CONSTANTS
  Workloads <- MCWorkloads
  Tasks <- MCTasks
  Files <- MCFiles
  WorkloadOf <- MCWorkloadOf
  FileOf <- MCFileOf
  Layouts <- MCLayouts
  Capacity = 2
  MaxResponses = 2
  OomAt = {"emplace", "fill"}
INVARIANTS
  SuccessIsRead
  WindowCounts
  NothingIsLost
  FailureWaitsForReads
PROPERTIES
  TaskIsReported
  StopEndsThread
