------------------------- MODULE DistributedStreamer -------------------------
(***************************************************************************)
(* distributed_streamer.py: the ranks of a torch.distributed group read a  *)
(* part of the ranges each and broadcast what they have read, in rounds.   *)
(* Nothing agrees on what comes next but the order of the collectives each *)
(* rank calls.                                                             *)
(*                                                                         *)
(* The FileStreamer of a rank yields the ranges of its part in any order.  *)
(* A session streams once.                                                 *)
(***************************************************************************)
EXTENDS Partition

CONSTANTS
  N,                  \* ranks of the world
  Host,               \* the machine of each rank
  Requests,           \* the file_stream_requests, the same in every rank
  BufferSize,         \* BUFFER_BYTESIZE
  Alignment,
  MaxChunksPerBatch   \* MAX_CHUNKS_PER_BATCH

Ranks == 0 .. N - 1

ASSUME LargestFits ==
  \A i \in DOMAIN Requests : \A j \in DOMAIN Requests[i].ranges :
    Requests[i].ranges[j].size <= BufferSize

VARIABLES
  global, \* RUNAI_STREAMER_DIST_GLOBAL: one group, or one for each machine
  policy, \* RUNAI_STREAMER_PARTITION_POLICY
  low,    \* the ranks whose device is low on memory
  plan,   \* what the partition gives to each rank
  rank,   \* the state of each rank
  ops,    \* the collectives each rank has called, in order
  slow    \* history: a timeout expired on a rank that was only slow

vars == <<global, policy, low, plan, rank, ops, slow>>

config == <<global, policy, low, plan>>

Ended == {"done", "failed", "alone"}

AllChunks ==
  UNION {{[request |-> Requests[i].id, chunk |-> j] :
            j \in DOMAIN Requests[i].ranges} : i \in DOMAIN Requests}

(* The bytes of a range of a file. *)
Bytes(path, range) ==
  [i \in 1 .. range.size |-> <<path, range.offset + i - 1>>]

BytesOf(c) ==
  LET a == CHOOSE i \in DOMAIN Requests : Requests[i].id = c.request
  IN  Bytes(Requests[a].path, Requests[a].ranges[c.chunk])

(* The ranks of the distribution group of a rank, in its order. *)
GroupOf(r) ==
  SetToSortSeq(IF global THEN Ranks ELSE {s \in Ranks : Host[s] = Host[r]}, <)

(* What every rank of a group computes alike: the group, what the          *)
(* FileStreamer of this rank yields, each with where it comes from, and    *)
(* the number of chunks of all the parts.                                  *)
PlanOf(r) ==
  LET group == GroupOf(r)
      parts == PartsFor(policy, Requests, Len(group))
      mine == parts[IndexFirstSubSeq(<<r>>, group)]
  IN  [group |-> group,
       items |-> UNION {{[from |-> fc.from[i],
                          data |-> Bytes(fc.path, fc.ranges[i])] :
                           i \in DOMAIN fc.ranges} : fc \in mine},
       total |-> NumberOfChunks(parts)]

Init ==
  /\ global \in BOOLEAN
  /\ policy \in {"chunks", "files"}
  /\ low \in {{}, {0}, Ranks}
  /\ plan = [r \in Ranks |-> PlanOf(r)]
  /\ rank = [r \in Ranks |->
               [pc |-> "stream", fault |-> "no", ready |-> {},
                leftover |-> {}, meta |-> <<>>, data |-> <<>>,
                received |-> <<>>, toRead |-> 0, total |-> 0,
                turn |-> 1, got |-> [c \in AllChunks |-> <<>>]]]
  /\ ops = [r \in Ranks |-> <<>>]
  /\ slow = FALSE

-----------------------------------------------------------------------------
(* Collectives *)

Group(r) == plan[r].group

Op(kind, members, root, meta, data) ==
  [kind |-> kind, members |-> members, root |-> root,
   meta |-> meta, data |-> data]

Alike(a, b) ==
  /\ a.kind = b.kind
  /\ a.members = b.members
  /\ a.root = b.root
  /\ Len(a.data) = Len(b.data)

Call(r, op) == ops' = [ops EXCEPT ![r] = Append(@, op)]

Waiting(r, kind) ==
  /\ rank[r].pc = "wait"
  /\ Last(ops[r]).kind = kind

HasCalled(s, r) ==
  /\ Len(ops[s]) >= Len(ops[r])
  /\ Alike(ops[s][Len(ops[r])], Last(ops[r]))

(* What the rank waits for is there: for a broadcast, the root's call. *)
Completes(r) ==
  LET op == Last(ops[r])
  IN  IF op.kind \in {"meta", "data"} THEN HasCalled(op.root, r)
      ELSE \A s \in ToSet(op.members) : HasCalled(s, r)

(* The call of the root that answers this rank's. *)
FromRoot(r) == ops[Last(ops[r]).root][Len(ops[r])]

(* Some rank this one waits for has not come. *)
Misses(r) == \E s \in ToSet(Last(ops[r]).members) : ~HasCalled(s, r)

(* Some rank has ended before this collective, or called another one. *)
Stuck(r) ==
  \E s \in ToSet(Last(ops[r]).members) :
    IF Len(ops[s]) >= Len(ops[r]) THEN ~HasCalled(s, r)
    ELSE rank[s].pc \in Ended

-----------------------------------------------------------------------------
(* stream_files *)

World == SetToSortSeq(Ranks, <)

(* set_params: the ranks tell each other on which machine they are. *)
StreamFiles(r) ==
  /\ rank[r].pc = "stream"
  /\ rank' = [rank EXCEPT ![r].pc = "wait"]
  /\ Call(r, Op("hosts", World, 0, <<>>, <<>>))
  /\ UNCHANGED <<config, slow>>

(* set_is_distributed: each rank looks at its own device. *)
FallBack(r) ==
  /\ Waiting(r, "hosts")
  /\ Completes(r)
  /\ r \in low
  /\ rank' = [rank EXCEPT ![r].pc = "alone"]
  /\ UNCHANGED <<config, slow, ops>>

(* Every rank creates every group. *)
CreateGroup(r) ==
  /\ Waiting(r, "hosts")
  /\ Completes(r)
  /\ r \notin low
  /\ Call(r, Op("new_group", World, 0, <<>>, <<>>))
  /\ UNCHANGED <<config, slow, rank>>

StartReading(r) ==
  /\ Waiting(r, "new_group")
  /\ Completes(r)
  /\ rank' = [rank EXCEPT
       ![r].pc = "loop",
       ![r].ready = plan[r].items,
       ![r].toRead = plan[r].total]
  /\ UNCHANGED <<config, slow, ops>>

(* Nothing has gone wrong so far, unless a device is low on memory. *)
Undisturbed == ~slow /\ \A r \in Ranks : rank[r].fault = "no"

(* The FileStreamer refuses, or raises later: this rank ends alone. *)
StorageFails(r) ==
  /\ \/ /\ Waiting(r, "new_group")
        /\ Completes(r)
        /\ plan[r].items # {}
     \/ /\ rank[r].pc = "loop"
        /\ rank[r].toRead > 0
        /\ rank[r].leftover = {}
        /\ rank[r].ready # {}
  /\ rank' = [rank EXCEPT ![r].pc = "failed", ![r].fault = "storage"]
  /\ UNCHANGED <<config, slow, ops>>

(* The FileStreamer ends before its last range, without raising.           *)
(* Bound: it does so before anything else goes wrong.                      *)
StorageEnds(r) ==
  /\ Undisturbed
  /\ rank[r].pc = "loop"
  /\ rank[r].toRead > 0
  /\ rank[r].leftover = {}
  /\ rank[r].ready # {}
  /\ rank' = [rank EXCEPT ![r].ready = {}, ![r].fault = "ended"]
  /\ UNCHANGED <<config, slow, ops>>

-----------------------------------------------------------------------------
(* get_chunks *)

AlignedOffset(current) ==
  IF Alignment <= 1 THEN current ELSE current + ((-current) % Alignment)

(* Mutant of NextItem: the item kept from the batch before is forgotten. *)
NextItemFresh(r) == rank[r].ready

(* The item kept from the batch before, or one the FileStreamer yields. *)
NextItem(r) ==
  IF rank[r].leftover # {} THEN rank[r].leftover ELSE rank[r].ready

Placed(data, offset, item) ==
  data \o [i \in 1 .. offset - Len(data) |-> "pad"] \o item.data

Row(item, offset) ==
  [from |-> item.from, offset |-> offset, size |-> Len(item.data)]

(* prefill takes an item: one that does not fit waits for the next batch. *)
Prefill(r) ==
  /\ rank[r].pc = "loop"
  /\ rank[r].toRead > 0
  /\ Len(rank[r].meta) < MaxChunksPerBatch
  /\ \E item \in NextItem(r) :
       LET data == rank[r].data
           offset == AlignedOffset(Len(data))
       IN  IF offset + Len(item.data) > BufferSize
           THEN rank' = [rank EXCEPT ![r].leftover = {item},
                                     ![r].ready = @ \ {item},
                                     ![r].pc = "round"]
           ELSE rank' = [rank EXCEPT ![r].leftover = {},
                                     ![r].ready = @ \ {item},
                                     ![r].data = Placed(data, offset, item),
                                     ![r].meta = Append(@, Row(item, offset))]
  /\ UNCHANGED <<config, slow, ops>>

(* The batch has its most chunks, or the FileStreamer has no more. *)
EndPrefill(r) ==
  /\ rank[r].pc = "loop"
  /\ rank[r].toRead > 0
  /\ Len(rank[r].meta) = MaxChunksPerBatch \/ NextItem(r) = {}
  /\ rank' = [rank EXCEPT ![r].pc = "round"]
  /\ UNCHANGED <<config, slow, ops>>

Root(r) == Group(r)[rank[r].turn]

SendMeta(r) ==
  /\ rank[r].pc = "round"
  /\ rank[r].turn <= Len(Group(r))
  /\ Root(r) = r
  /\ rank' = [rank EXCEPT ![r].pc = "wait",
                          ![r].toRead = @ - Len(rank[r].meta),
                          ![r].total = @ + Len(rank[r].meta)]
  /\ Call(r, Op("meta", Group(r), r, rank[r].meta, <<>>))
  /\ UNCHANGED <<config, slow>>

ReceiveMeta(r) ==
  /\ rank[r].pc = "round"
  /\ rank[r].turn <= Len(Group(r))
  /\ Root(r) # r
  /\ rank' = [rank EXCEPT ![r].pc = "wait"]
  /\ Call(r, Op("meta", Group(r), Root(r), <<>>, <<>>))
  /\ UNCHANGED <<config, slow>>

(* A batch without chunks is not followed by data. *)
NextRoot(r) ==
  /\ Waiting(r, "meta")
  /\ Completes(r)
  /\ FromRoot(r).meta = <<>>
  /\ rank' = [rank EXCEPT ![r].pc = "round", ![r].turn = @ + 1]
  /\ UNCHANGED <<config, slow, ops>>

SendData(r) ==
  /\ Waiting(r, "meta")
  /\ Root(r) = r
  /\ rank[r].meta # <<>>
  /\ Call(r, Op("data", Group(r), r, <<>>, rank[r].data))
  /\ UNCHANGED <<config, slow, rank>>

(* The size to receive is where the last chunk of the batch ends. *)
ReceiveData(r) ==
  /\ Waiting(r, "meta")
  /\ Completes(r)
  /\ Root(r) # r
  /\ LET meta == FromRoot(r).meta
     IN  /\ meta # <<>>
         /\ rank' = [rank EXCEPT ![r].received = meta,
                                 ![r].toRead = @ - Len(meta),
                                 ![r].total = @ + Len(meta)]
         /\ Call(r, Op("data", Group(r), Root(r), <<>>,
                       [i \in 1 .. Last(meta).offset + Last(meta).size |->
                          "pad"]))
  /\ UNCHANGED <<config, slow>>

(* The chunks of a batch are yielded as slices of the buffer. *)
Yield(r) ==
  /\ Waiting(r, "data")
  /\ Completes(r)
  /\ LET meta == IF Root(r) = r THEN rank[r].meta ELSE rank[r].received
         data == FromRoot(r).data
         Slices(c) ==
           LET hits == SelectSeq(meta, LAMBDA m : m.from = c)
           IN  [i \in DOMAIN hits |->
                  SubSeq(data, hits[i].offset + 1,
                         hits[i].offset + hits[i].size)]
     IN  rank' = [rank EXCEPT
           ![r].pc = "round",
           ![r].turn = @ + 1,
           ![r].received = <<>>,
           ![r].got = [c \in AllChunks |-> @[c] \o Slices(c)]]
  /\ UNCHANGED <<config, slow, ops>>

(* No rank had anything to broadcast, and something is missing. *)
EndRound(r) ==
  /\ rank[r].pc = "round"
  /\ rank[r].turn > Len(Group(r))
  /\ rank' = [rank EXCEPT
       ![r].pc = IF rank[r].total = 0 /\ rank[r].toRead > 0 THEN "failed"
                 ELSE "loop",
       ![r].turn = 1,
       ![r].total = 0,
       ![r].data = <<>>,
       ![r].meta = <<>>]
  /\ UNCHANGED <<config, slow, ops>>

-----------------------------------------------------------------------------
(* __exit__, and failures *)

(* The stream has ended, and so does the session. *)
EndStream(r) ==
  /\ rank[r].pc = "loop"
  /\ rank[r].toRead <= 0
  /\ rank' = [rank EXCEPT ![r].pc = "wait"]
  /\ Call(r, Op("barrier", Group(r), 0, <<>>, <<>>))
  /\ UNCHANGED <<config, slow>>

(* The application stops iterating, and leaves the session. *)
Leave(r) ==
  /\ Waiting(r, "data")
  /\ Completes(r)
  /\ rank' = [rank EXCEPT ![r].fault = "left"]
  /\ Call(r, Op("barrier", Group(r), 0, <<>>, <<>>))
  /\ UNCHANGED <<config, slow>>

(* The same by an exception: there is no barrier. *)
LeaveByException(r) ==
  /\ Waiting(r, "data")
  /\ Completes(r)
  /\ rank' = [rank EXCEPT ![r].pc = "failed", ![r].fault = "left"]
  /\ UNCHANGED <<config, slow, ops>>

ExitSession(r) ==
  /\ Waiting(r, "barrier")
  /\ Completes(r)
  /\ rank' = [rank EXCEPT ![r].pc = "done"]
  /\ UNCHANGED <<config, slow, ops>>

(* Mutant of TimesOut: the group is created without the timeout. *)
TimesOutNever(r) ==
  /\ FALSE
  /\ UNCHANGED vars

(* broadcast_timeout: what can no longer complete raises. *)
TimesOut(r) ==
  /\ rank[r].pc = "wait"
  /\ Stuck(r)
  /\ rank' = [rank EXCEPT ![r].pc = "failed"]
  /\ UNCHANGED <<config, slow, ops>>

(* The timeout is of the time alone: a peer that is only slow is enough.   *)
(* Bound: one in a behaviour, before anything else goes wrong; what it     *)
(* leaves behind can expire as well.                                       *)
TimesOutEarly(r) ==
  /\ Undisturbed
  /\ rank[r].pc = "wait"
  /\ ~Stuck(r)
  /\ Misses(r)
  /\ rank' = [rank EXCEPT ![r].pc = "failed"]
  /\ slow' = TRUE
  /\ UNCHANGED <<config, ops>>

-----------------------------------------------------------------------------
Step(r) ==
  \/ StreamFiles(r) \/ FallBack(r) \/ CreateGroup(r) \/ StartReading(r)
  \/ StorageFails(r) \/ StorageEnds(r) \/ Prefill(r) \/ EndPrefill(r)
  \/ SendMeta(r) \/ ReceiveMeta(r) \/ NextRoot(r) \/ SendData(r)
  \/ ReceiveData(r) \/ Yield(r) \/ EndRound(r) \/ EndStream(r) \/ Leave(r)
  \/ LeaveByException(r) \/ ExitSession(r) \/ TimesOut(r)

SomeStep == \E r \in Ranks : Step(r)

Next == SomeStep \/ \E r \in Ranks : TimesOutEarly(r)

Spec == Init /\ [][Next]_vars

(* Some process that can run does, and the timeout of a collective that    *)
(* cannot complete expires.  None has to expire on a rank that is slow.    *)
FairSpec == Spec /\ WF_vars(SomeStep)

-----------------------------------------------------------------------------
(* Properties *)

(* A rank whose stream ended has yielded every range of every request      *)
(* once, under its own request and index, with its own bytes: whoever read *)
(* it, in whichever order and batches it came, whatever happened to others.*)
StreamIsExact ==
  \A r \in Ranks :
    (rank[r].pc = "done" \/ Waiting(r, "barrier")) /\ rank[r].fault # "left" =>
      \A c \in AllChunks : rank[r].got[c] = <<BytesOf(c)>>

(* The ranks call the same collectives in the same order: none fails or    *)
(* waits for a timeout unless storage failed or ended early, an application*)
(* left early, only some of the devices were low on memory, or some rank   *)
(* came to a collective that could complete later than the timeout.        *)
FailureHasCause ==
  (\E r \in Ranks : rank[r].pc = "failed") =>
    \/ \E r \in Ranks : rank[r].fault # "no"
    \/ low \notin {{}, Ranks}
    \/ slow

(* No rank waits forever for one that has ended. *)
EveryRankEnds == <>(\A r \in Ranks : rank[r].pc \in Ended)

=============================================================================
