---------------------------- MODULE MCSharedQueue ----------------------------
(* Small instances of SharedQueue. *)
EXTENDS SharedQueue

(* Two responses a consumer can tell apart. *)
MCResponse == {"r1", "r2"}
=============================================================================
