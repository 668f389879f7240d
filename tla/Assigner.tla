------------------------------- MODULE Assigner -------------------------------
(***************************************************************************)
(* How a submission becomes tasks: Assigner (coalesce, bytes_per_worker,   *)
(* assign) and Batches (BatchItr::consume, build_tasks, handle_request),   *)
(* one action per iteration of their loops, over any request.              *)
(*                                                                         *)
(* A request is the sequence of its ranges, grouped by file as in the      *)
(* vector of FileRanges.  Offsets, sizes and destinations are numbers; a   *)
(* destination is an address in one flat memory.                           *)
(***************************************************************************)
EXTENDS Naturals, Sequences, FiniteSets, SequencesExt

CONSTANTS
  Requests,    \* the requests to plan
  NumWorkers,  \* concurrency of the backend of the request
  BlockSize,   \* block_bytesize of that backend
  MaxBytes     \* largest size_t

ASSUME AssignerAssumption ==
  /\ NumWorkers \in Nat \ {0}
  /\ BlockSize \in Nat \ {0}
  /\ MaxBytes \in Nat
  /\ Requests \subseteq Seq([file : Nat, offset : Nat, size : 0 .. MaxBytes,
                            dst : Nat])
  /\ \A req \in Requests :
       /\ req # <<>>
       /\ \A i, j \in DOMAIN req : i < j => req[i].file <= req[j].file

VARIABLES
  request,    \* the input
  phase,      \* "coalesce", "assign", "build", "done" or "rejected"
  next,       \* coalesce: next range; build: next range of the transfer
  total,      \* total_bytes
  transfers,  \* _transfers, without their tasks
  tr,         \* the transfer being assigned or built
  slices,     \* tasks (FileReadTask) of each transfer
  workload,   \* workload_idx
  consumed,   \* bytes of the transfer that are already assigned
  assigned,   \* bytes assigned to the workload
  cur, left,  \* BatchItr: current task and what is left of it
  rest,       \* bytes of the range that have no task yet
  placed,     \* bytes of the transfer that have a task: both cursors
  tasks       \* the tasks of all batches

coalesceVars == <<total, transfers>>
assignVars == <<slices, workload, consumed, assigned>>
buildVars == <<cur, left, rest, placed, tasks>>
vars == <<request, phase, next, tr, coalesceVars, assignVars, buildVars>>

MinOf(a, b) == IF a < b THEN a ELSE b
MaxOf(a, b) == IF a > b THEN a ELSE b

-----------------------------------------------------------------------------
(* Assigner::bytes_per_worker *)

NumBlocks == total \div BlockSize
NumWorkloads == MaxOf(MinOf(NumBlocks, NumWorkers), 1)
BaseBytes == (NumBlocks \div NumWorkloads) * BlockSize
Remainder == total - NumWorkloads * BaseBytes
Target(w) == IF w = 0 THEN BaseBytes + Remainder ELSE BaseBytes

-----------------------------------------------------------------------------
Init ==
  /\ request \in Requests
  /\ phase = "coalesce"
  /\ next = 1
  /\ total = 0
  /\ transfers = <<>>
  /\ tr = 1
  /\ slices = <<>>
  /\ workload = 0
  /\ consumed = 0
  /\ assigned = 0
  /\ cur = 0
  /\ left = 0
  /\ rest = 0
  /\ placed = 0
  /\ tasks = <<>>

(* Index of a range within its file. *)
IndexInFile(i) ==
  Cardinality({j \in 1 .. i - 1 : request[j].file = request[i].file})

(* Mutant of Extends: only the file offsets are compared. *)
ExtendsInFile(r) ==
  /\ transfers # <<>>
  /\ Last(transfers).file = r.file
  /\ Last(transfers).offset + Last(transfers).size = r.offset

(* The open transfer is the last one, if it is of the same file; it is     *)
(* extended when the range follows it in the file and in memory.           *)
Extends(r) ==
  /\ transfers # <<>>
  /\ Last(transfers).file = r.file
  /\ Last(transfers).offset + Last(transfers).size = r.offset
  /\ Last(transfers).dst + Last(transfers).size = r.dst

(* The byte total stays a size_t. *)
Fits(r) == total <= MaxBytes - r.size

CoalesceRange ==
  LET r == request[next]
      extended == [Last(transfers) EXCEPT !.size = @ + r.size,
                                          !.sizes = Append(@, r.size)]
      opened == [file |-> r.file, offset |-> r.offset, size |-> r.size,
                 dst |-> r.dst, first |-> IndexInFile(next),
                 sizes |-> <<r.size>>]
  IN  /\ phase = "coalesce"
      /\ next <= Len(request)
      /\ Fits(r)
      /\ total' = total + r.size
      /\ transfers' = IF Extends(r) THEN Append(Front(transfers), extended)
                      ELSE Append(transfers, opened)
      /\ next' = next + 1
      /\ UNCHANGED <<request, phase, tr, assignVars, buildVars>>

(* The byte total would overflow: InvalidParameterError. *)
CoalesceOverflows ==
  /\ phase = "coalesce"
  /\ next <= Len(request)
  /\ ~Fits(request[next])
  /\ phase' = "rejected"
  /\ UNCHANGED <<request, next, tr, coalesceVars, assignVars, buildVars>>

StartAssign ==
  /\ phase = "coalesce"
  /\ next > Len(request)
  /\ phase' = "assign"
  /\ slices' = [i \in DOMAIN transfers |-> <<>>]
  /\ UNCHANGED <<request, next, tr, coalesceVars, workload, consumed, assigned,
                 buildVars>>

Assigning ==
  /\ phase = "assign"
  /\ workload < NumWorkers
  /\ tr <= Len(transfers)

(* The workload is full, unless the transfer has no bytes. *)
WorkloadFull == transfers[tr].size > 0 /\ assigned >= Target(workload)

(* The FileReadTask for the next n bytes of transfer t. *)
SliceAt(t, n) ==
  [workload |-> workload, offset |-> t.offset + consumed, size |-> n,
   dst |-> t.dst + consumed]

(* One task: the rest of the transfer or of the workload's share. *)
AssignSlice ==
  LET t == transfers[tr]
      take == MinOf(t.size - consumed, Target(workload) - assigned)
  IN  /\ Assigning
      /\ ~WorkloadFull
      /\ slices' = [slices EXCEPT ![tr] = Append(@, SliceAt(t, take))]
      /\ assigned' = assigned + take
      /\ IF consumed + take = t.size
         THEN tr' = tr + 1 /\ consumed' = 0
         ELSE consumed' = consumed + take /\ UNCHANGED tr
      /\ UNCHANGED <<request, phase, next, coalesceVars, workload, buildVars>>

NextWorkload ==
  /\ Assigning
  /\ WorkloadFull
  /\ workload' = workload + 1
  /\ assigned' = 0
  /\ UNCHANGED <<request, phase, next, tr, coalesceVars, slices, consumed,
                 buildVars>>

(* Batches over the first transfer: the iterator stands on its first task. *)
StartBuild ==
  /\ phase = "assign"
  /\ ~Assigning
  /\ phase' = "build"
  /\ tr' = 1
  /\ next' = 1
  /\ cur' = 1
  /\ left' = slices[1][1].size
  /\ rest' = transfers[1].sizes[1]
  /\ placed' = 0
  /\ UNCHANGED <<request, coalesceVars, assignVars, tasks>>

-----------------------------------------------------------------------------
(* Batches::handle_request: one round of its loop.  The iterator moves on  *)
(* when its task is used up and there are bytes to place.                  *)

(* Mutant of Advances: the iterator moves on without bytes to place. *)
AdvancesAlways == left = 0

Advances == left = 0 /\ rest > 0

(* consume, and what the loops around it do next: another piece of the     *)
(* range, the next range, the next transfer, or nothing.                   *)
Consume ==
  LET c == IF Advances THEN cur + 1 ELSE cur
      l == IF Advances THEN slices[tr][c].size ELSE left
      take == MinOf(l, rest)
      task == [file |-> transfers[tr].file,
               index |-> transfers[tr].first + next - 1,
               batch |-> <<tr, c>>, workload |-> slices[tr][c].workload,
               offset |-> slices[tr][1].offset + placed, size |-> take,
               dst |-> slices[tr][1].dst + placed]
      sameRange == rest > take
      sameTransfer == next < Len(transfers[tr].sizes)
      more == tr < Len(transfers)
  IN  /\ phase = "build"
      /\ tasks' = Append(tasks, task)
      /\ IF sameRange \/ sameTransfer \/ ~more
         THEN /\ cur' = c /\ left' = l - take /\ placed' = placed + take
              /\ UNCHANGED tr
         ELSE /\ cur' = 1 /\ left' = slices[tr + 1][1].size /\ placed' = 0
              /\ tr' = tr + 1
      /\ next' = IF sameRange THEN next
                 ELSE IF sameTransfer THEN next + 1
                 ELSE 1
      /\ rest' = IF sameRange THEN rest - take
                 ELSE IF sameTransfer THEN transfers[tr].sizes[next + 1]
                 ELSE IF more THEN transfers[tr + 1].sizes[1]
                 ELSE 0
      /\ phase' = IF sameRange \/ sameTransfer \/ more THEN phase ELSE "done"
      /\ UNCHANGED <<request, coalesceVars, assignVars>>

Finished == phase \in {"done", "rejected"} /\ UNCHANGED vars

Step == CoalesceRange \/ CoalesceOverflows \/ StartAssign \/ AssignSlice
        \/ NextWorkload \/ StartBuild \/ Consume

Next == Step \/ Finished

Spec == Init /\ [][Next]_vars

-----------------------------------------------------------------------------
(* Properties *)

Bytes(lo, n) == lo .. lo + n - 1

(* The running total of the sizes in a sequence, as the loops of the code  *)
(* count it: before the first item, and after each.                        *)
SumTo(seq) ==
  LET sum[n \in 0 .. Len(seq)] ==
        IF n = 0 THEN 0 ELSE sum[n - 1] + seq[n].size
  IN  sum

SumSizes(seq) == SumTo(seq)[Len(seq)]

(* The checks of the code: a workload_index is one of the workloads of     *)
(* async_request; BatchItr does not run past its last task; at the end of  *)
(* assign every transfer has tasks that cover it; and only a request whose *)
(* bytes cannot be counted is refused.                                     *)
ChecksAreRight ==
  /\ \A i \in DOMAIN slices : \A j \in DOMAIN slices[i] :
       slices[i][j].workload < NumWorkloads
  /\ phase = "build" /\ Advances => cur < Len(slices[tr])
  /\ phase \in {"build", "done"} =>
       \A i \in DOMAIN transfers :
         slices[i] # <<>> /\ SumSizes(slices[i]) = transfers[i].size
  /\ total <= MaxBytes
  /\ phase = "rejected" => SumSizes(request) > MaxBytes

TaskBytes(k) == Bytes(tasks[k].offset, tasks[k].size)

(* The tasks tile n bytes of a file from lo on, in their order: each one   *)
(* begins where those before it end.                                       *)
Tile(ks, lo, n) ==
  /\ UNION {TaskBytes(k) : k \in ks} = Bytes(lo, n)
  /\ \A k \in ks :
       UNION {TaskBytes(m) : m \in {m \in ks : m < k}}
         = lo .. tasks[k].offset - 1

TasksOfRange(i) ==
  {k \in DOMAIN tasks : /\ tasks[k].file = request[i].file
                        /\ tasks[k].index = IndexInFile(i)}
TasksOfBatch(i, j) == {k \in DOMAIN tasks : tasks[k].batch = <<i, j>>}

(* Every range, a range of no bytes too, has tasks, and they tile it: each *)
(* byte is read once, from its place in the file to its place in memory.   *)
RangesAreTiled ==
  phase = "done" =>
    \A i \in DOMAIN request :
      LET r == request[i]
          mine == TasksOfRange(i)
      IN  /\ mine # {}
          /\ \A k \in mine : tasks[k].dst + r.offset = r.dst + tasks[k].offset
          /\ Tile(mine, r.offset, r.size)

(* The tasks of a batch tile, in order, the piece of file and memory       *)
(* assigned to it: Batch::read reads them with one seek into one buffer.   *)
SlicesAreFilled ==
  phase = "done" =>
    \A i \in DOMAIN slices : \A j \in DOMAIN slices[i] :
      LET s == slices[i][j]
          mine == TasksOfBatch(i, j)
      IN  /\ \A k \in mine : tasks[k].dst + s.offset = s.dst + tasks[k].offset
          /\ Tile(mine, s.offset, s.size)

(* The two agree: what the tasks answer for is what the batches read. *)
PlanIsExact == RangesAreTiled /\ SlicesAreFilled

=============================================================================
