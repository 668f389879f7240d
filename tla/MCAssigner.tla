----------------------------- MODULE MCAssigner -----------------------------
(* All requests of up to three ranges over two files, with offsets and     *)
(* sizes that can be adjacent, and destinations that follow the file or    *)
(* lie apart from it.                                                      *)
EXTENDS Assigner

MCRange ==
  [file : {1, 2}, offset : {0, 1, 3, 4}, size : {0, 1, 3}, gap : {0, 7}]
MCRequests ==
  {[i \in DOMAIN q |-> [file |-> q[i].file, offset |-> q[i].offset,
                        size |-> q[i].size, dst |-> q[i].offset + q[i].gap]] :
     q \in {q \in UNION {[1 .. n -> MCRange] : n \in 1 .. 3} :
             /\ q[1].file = 1
             /\ \A i \in 1 .. Len(q) - 1 : q[i].file <= q[i + 1].file}}
=============================================================================
