SPECIFICATION Spec
CONSTANTS
  Submissions <- MCSubmissions
  Ranges <- MCRanges
  Tasks <- MCTasks
  Batches <- MCBatches
  Workloads <- MCWorkloads
  Workers = {w1, w2}
  Errors = {"FileAccessError"}
  SubmissionOf <- MCSubmissionOf
  RangeOf <- MCRangeOf
  BatchOf <- MCBatchOf
  WorkloadOf <- MCWorkloadOf
  OwnerOf <- MCOwnerOf
SYMMETRY WorkerSymmetry
INVARIANTS
  DoneFreesBuffers
  ResponsesAreRight
PROPERTY
  ImplementsContract
