------------------------------ MODULE MCStreamer ------------------------------
(***************************************************************************)
(* Two submissions.  Submission "a" has two ranges; its first range is cut *)
(* into a task of workload 1 and a task of workload 2, so that two workers *)
(* can finish it together.  Submission "b" has one range; workload 4 is    *)
(* empty.                                                                  *)
(***************************************************************************)
EXTENDS Streamer, TLC

MCSubmissions == {"a", "b"}
MCRanges == {"a1", "a2", "b1"}
MCTasks == 1 .. 4
MCBatches == 1 .. 3
MCWorkloads == 1 .. 4
MCSubmissionOf == [r \in MCRanges |-> IF r = "b1" THEN "b" ELSE "a"]
MCRangeOf == <<"a1", "a1", "a2", "b1">>
MCBatchOf == <<1, 2, 2, 3>>
MCWorkloadOf == <<1, 2, 4>>
MCOwnerOf == <<"a", "a", "a", "b">>

(* For liveness: submission "a" alone, beside one without ranges. *)
LiveSubmissions == {"a", "empty"}
LiveRanges == {"a1", "a2"}
LiveTasks == 1 .. 3
LiveBatches == 1 .. 2
LiveWorkloads == 1 .. 3
LiveSubmissionOf == [r \in LiveRanges |-> "a"]
LiveRangeOf == <<"a1", "a1", "a2">>
LiveBatchOf == <<1, 2, 2>>
LiveWorkloadOf == <<1, 2>>
LiveOwnerOf == <<"a", "a", "empty">>

(* Workers are interchangeable. *)
WorkerSymmetry == Permutations(Workers)
=============================================================================
