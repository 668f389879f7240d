------------------------------ MODULE Partition ------------------------------
(***************************************************************************)
(* partition.py: the ranges of the requests of a distributed streaming are *)
(* divided between the ranks of a group, each rank by itself.              *)
(*                                                                         *)
(* A request is [id, path, ranges], its ranges [offset, size].  The part   *)
(* of a rank is a set of [id, path, ranges, from]: a new FileChunks, and   *)
(* for each of its ranges which range of which request it is.              *)
(***************************************************************************)
EXTENDS Integers, Sequences, SequencesExt, FiniteSetsExt

(* Python's sort is stable. *)
Sorted(items, Less(_, _)) ==
  LET order == SetToSortSeq(DOMAIN items,
                            LAMBDA i, j : \/ Less(items[i], items[j])
                                          \/ /\ ~Less(items[j], items[i])
                                             /\ i < j)
  IN  [k \in DOMAIN items |-> items[order[k]]]

TotalSize(ranges) == FoldLeft(LAMBDA sum, x : sum + x.size, 0, ranges)

(* The ranges of all the requests, each with where it comes from. *)
WorkUnits(requests) ==
  FlattenSeq([i \in DOMAIN requests |->
    [j \in DOMAIN requests[i].ranges |->
       [path |-> requests[i].path,
        offset |-> requests[i].ranges[j].offset,
        size |-> requests[i].ranges[j].size,
        request |-> requests[i].id,
        chunk |-> j]]])

(* Each item goes to the part with the least bytes so far. *)
Distributed(items, n, Size(_)) ==
  LET Give(acc, item) ==
        LET least == CHOOSE i \in 1 .. n :
                       /\ \A j \in 1 .. n : acc.sizes[i] <= acc.sizes[j]
                       /\ \A j \in 1 .. (i - 1) : acc.sizes[i] < acc.sizes[j]
        IN  [parts |-> [acc.parts EXCEPT ![least] = Append(@, item)],
             sizes |-> [acc.sizes EXCEPT ![least] = @ + Size(item)]]
  IN  FoldLeft(Give, [parts |-> [i \in 1 .. n |-> <<>>],
                      sizes |-> [i \in 1 .. n |-> 0]], items).parts

(* Mutant of Rebuilt: the map is made before the ranges are sorted. *)
RebuiltStale(k, units) ==
  {LET found == SelectSeq(units, LAMBDA u : u.path = path)
       mine == Sorted(found,
                      LAMBDA u, v : \/ u.offset < v.offset
                                    \/ u.offset = v.offset /\ u.size < v.size)
   IN  [id |-> <<k, path>>,
        path |-> path,
        ranges |-> [i \in DOMAIN mine |->
                      [offset |-> mine[i].offset, size |-> mine[i].size]],
        from |-> [i \in DOMAIN found |->
                    [request |-> found[i].request, chunk |-> found[i].chunk]]] :
     path \in {u.path : u \in ToSet(units)}}

(* The units of a part by path, in the order of the file: those without    *)
(* bytes before those that begin at the same offset.                       *)
Rebuilt(k, units) ==
  {LET mine == Sorted(SelectSeq(units, LAMBDA u : u.path = path),
                      LAMBDA u, v : \/ u.offset < v.offset
                                    \/ u.offset = v.offset /\ u.size < v.size)
   IN  [id |-> <<k, path>>,
        path |-> path,
        ranges |-> [i \in DOMAIN mine |->
                      [offset |-> mine[i].offset, size |-> mine[i].size]],
        from |-> [i \in DOMAIN mine |->
                    [request |-> mine[i].request, chunk |-> mine[i].chunk]]] :
     path \in {u.path : u \in ToSet(units)}}

PartitionByChunks(requests, n) ==
  LET parts == Distributed(Sorted(WorkUnits(requests),
                                  LAMBDA u, v : u.size > v.size),
                           n, LAMBDA u : u.size)
  IN  [k \in 1 .. n |-> Rebuilt(k, parts[k])]

(* A whole request keeps its id and its ranges. *)
WithSource(request) ==
  [id |-> <<0, request.id>>, path |-> request.path, ranges |-> request.ranges,
   from |-> [i \in DOMAIN request.ranges |->
               [request |-> request.id, chunk |-> i]]]

PartitionByFiles(requests, n) ==
  LET parts == Distributed(Sorted(requests,
                                  LAMBDA a, b : TotalSize(a.ranges)
                                                > TotalSize(b.ranges)),
                           n, LAMBDA a : TotalSize(a.ranges))
  IN  [k \in 1 .. n |-> {WithSource(a) : a \in ToSet(parts[k])}]

PartsFor(policy, requests, n) ==
  IF policy = "files" THEN PartitionByFiles(requests, n)
  ELSE PartitionByChunks(requests, n)

NumberOfChunks(parts) ==
  MapThenSumSet(LAMBDA k : MapThenSumSet(LAMBDA fc : Len(fc.ranges), parts[k]),
                DOMAIN parts)

=============================================================================
