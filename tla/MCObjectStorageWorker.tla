------------------------ MODULE MCObjectStorageWorker ------------------------
(* Two workloads.  In one layout the first has two chunks of a task, one   *)
(* of a task in another file and none of a third task, and the second has  *)
(* one chunk; in the other there are no bytes at all.                      *)
EXTENDS ObjectStorageWorker

MCWorkloads == {1, 2}
MCTasks == {"a", "b", "z", "c"}
MCFiles == {1, 2}
MCWorkloadOf == [t \in MCTasks |-> IF t = "c" THEN 2 ELSE 1]
MCFileOf == [t \in MCTasks |-> IF t = "b" THEN 2 ELSE 1]
MCLayouts == {<<<<"b", "a", "a">>, <<"c">>>>, <<<<>>, <<>>>>}
=============================================================================
