------------------------ MODULE MCDistributedStreamer ------------------------
(***************************************************************************)
(* Three ranks, two of them on one machine, and two files.  The ids of the *)
(* requests are not their places; a range of the second file has no bytes. *)
(***************************************************************************)
EXTENDS DistributedStreamer

MCHost == [r \in 0 .. 2 |-> IF r = 1 THEN "other" ELSE "first"]

MCRequests ==
  <<[id |-> 2, path |-> "a", ranges |-> <<[offset |-> 0, size |-> 1]>>],
    [id |-> 1, path |-> "b",
     ranges |-> <<[offset |-> 1, size |-> 3], [offset |-> 1, size |-> 0]>>]>>
=============================================================================
