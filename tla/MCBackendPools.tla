--------------------------- MODULE MCBackendPools ---------------------------
EXTENDS BackendPools, TLC

MCSubmissions ==
  {[reads |-> r, empties |-> {}] :
     r \in {{"S3"}, {"GCS"}, {"fs"}, {"S3", "GCS"}, {"S3", "fs"}}}
  \cup {[reads |-> {"fs"}, empties |-> {"S3"}],
        [reads |-> {}, empties |-> {"GCS"}]}
Symmetry == Permutations(Submitters)
=============================================================================
