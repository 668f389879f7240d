SPECIFICATION FairSpec
CONSTANTS
  Submissions <- LiveSubmissions
  Ranges <- LiveRanges
  Tasks <- LiveTasks
  Batches <- LiveBatches
  Workloads <- LiveWorkloads
  Workers = {w1, w2}
  Errors = {"FileAccessError"}
  SubmissionOf <- LiveSubmissionOf
  RangeOf <- LiveRangeOf
  BatchOf <- LiveBatchOf
  WorkloadOf <- LiveWorkloadOf
  OwnerOf <- LiveOwnerOf
PROPERTIES
  EverySubmissionEnds
  TeardownEnds
