SPECIFICATION Spec
CONSTANTS
  Submitters = {p1, p2, p3}
  Submissions <- MCSubmissions
  Plugins = {"S3", "GCS"}
  FileSystem = "fs"
  None = "none"
INVARIANTS
  DispatchFindsPool
  OnePluginServes
  RejectedOnlyOnConflict
SYMMETRY Symmetry
