------------------------ MODULE MCObjectStorageModel ------------------------
(* Three processes, of which each may be started twice, and two files. *)
EXTENDS ObjectStorageModel

CONSTANTS p1, p2, p3, weights, config
=============================================================================
