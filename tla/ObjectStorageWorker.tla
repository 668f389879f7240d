------------------------- MODULE ObjectStorageWorker -------------------------
(***************************************************************************)
(* One worker thread of the object storage pool: ObjectStorageWorker over  *)
(* CapacityWorker and CapacityQueue, with the plugin client it drives      *)
(* (async_read, completion callbacks, async_read_response, stop).          *)
(*                                                                         *)
(* A workload is cut into chunks when it is enqueued; each chunk has an    *)
(* async handle from a block of consecutive handles, costs one slot of the *)
(* window while its read is in flight and is routed back to its task       *)
(* through the handle.  The worker's own state is private to its thread;   *)
(* reads complete, the client is stopped and the pool is stopped at any    *)
(* moment in between.                                                      *)
(***************************************************************************)
EXTENDS Naturals, Sequences, FiniteSets, FiniteSetsExt

CONSTANTS
  Workloads,     \* workloads, each handed to this worker at most once
  Tasks, Files,
  WorkloadOf,    \* [Tasks -> Workloads]
  FileOf,        \* [Tasks -> Files]: the file_index of the task's batch
  Layouts,       \* what the workloads may be cut into: values of ChunkTask
  Capacity,      \* window size in chunks
  MaxResponses,  \* most events one wait returns
  OomAt          \* where an allocation of enqueue may throw

Success == "Success"
NoReport == "NoReport"
Errors == {"ReadError", "FinishedError", "UnknownError", "ClientError"}
Codes == {Success} \cup Errors

ASSUME ObjectStorageWorkerAssumption ==
  /\ IsFiniteSet(Workloads) /\ IsFiniteSet(Tasks)
  /\ WorkloadOf \in [Tasks -> Workloads]
  /\ FileOf \in [Tasks -> Files]
  /\ Layouts \subseteq [Workloads -> Seq(Tasks)]
  /\ \A l \in Layouts, w \in Workloads :
       \A i \in DOMAIN l[w] : WorkloadOf[l[w][i]] = w
  /\ Capacity \in Nat \ {0}
  /\ MaxResponses \in Nat \ {0}
  /\ OomAt \subseteq {"emplace", "fill"}

VARIABLES
  ChunkTask,   \* [Workloads -> Seq(Tasks)]: the task of each chunk, in order
  taken,       \* workloads the pool has handed to this worker
  dropped,     \* history: workloads whose entry could not be allocated
  reader,      \* the client has been built (_reader)
  queue,       \* the window has been created (_queue)
  live,        \* workloads in _inflight
  base,        \* [Workloads -> first handle of the workload's block]
  counter,     \* _async_handle_counter
  pending,     \* handles of CapacityQueue::_pending
  used,        \* CapacityQueue::_inflight
  remaining,   \* [Tasks -> TaskState::remaining_chunks]
  error,       \* [Tasks -> TaskState::error]
  openTasks,   \* [Workloads -> Inflight::remaining_tasks]
  fileError,   \* [Workloads -> [Files -> Inflight::error_by_file_index]]
  report,      \* [Tasks -> what the task's request was told, or NoReport]
  pc,          \* where the thread is
  after,       \* where it goes on after drain_batch or pump
  events,      \* events of the round being processed
  progressed,  \* the flag of drain_batch
  stopped,     \* the pool's stop flag
  s3stop,      \* how far S3Stop has come
  clientStop,  \* the client's _stop
  responder,   \* the client's responder: "null", "open" or "stopped"
  leaked,      \* an increment of the responder no callback will answer
  doubled,     \* history: a read was refused although it was issued
  outstanding, \* handles whose read is in flight at the storage
  ready,       \* completions waiting in the client's responder
  readOK       \* history: handles whose bytes arrived

TasksOf(w) == {t \in Tasks : WorkloadOf[t] = w}
NumChunks(w) == Len(ChunkTask[w])
ChunksOf(t) == {i \in DOMAIN ChunkTask[WorkloadOf[t]] :
                  ChunkTask[WorkloadOf[t]][i] = t}

windowVars == <<pending, used>>
taskVars == <<live, remaining, error, openTasks, fileError, report>>
clientVars ==
  <<s3stop, clientStop, responder, leaked, doubled, outstanding, ready,
    readOK>>
vars == <<ChunkTask, taken, dropped, reader, queue, base, counter, windowVars,
          taskVars, pc, after, events, progressed, stopped, clientVars>>

Init ==
  /\ ChunkTask \in Layouts
  /\ taken = {}
  /\ dropped = {}
  /\ reader = FALSE
  /\ queue = FALSE
  /\ live = {}
  /\ base = [w \in Workloads |-> 0]
  /\ counter = 1
  /\ pending = <<>>
  /\ used = 0
  /\ remaining = [t \in Tasks |-> 0]
  /\ error = [t \in Tasks |-> Success]
  /\ openTasks = [w \in Workloads |-> 0]
  /\ fileError = [w \in Workloads |-> [f \in Files |-> Success]]
  /\ report = [t \in Tasks |-> NoReport]
  /\ pc = "top"
  /\ after = "top"
  /\ events = <<>>
  /\ progressed = FALSE
  /\ stopped = FALSE
  /\ s3stop = "none"
  /\ clientStop = FALSE
  /\ responder = "null"
  /\ leaked = FALSE
  /\ doubled = FALSE
  /\ outstanding = {}
  /\ ready = <<>>
  /\ readOK = {}

-----------------------------------------------------------------------------
(* Helpers *)

Idle == ~queue \/ (pending = <<>> /\ used = 0)

(* The workload whose block holds handle h: the block with the greatest    *)
(* base up to h, unless h lies past its end.                               *)
Locate(h) ==
  LET below == {w \in live : base[w] <= h}
  IN  {w \in below : /\ \A v \in below : base[v] <= base[w]
                     /\ h - base[w] < NumChunks(w)}

TaskAt(w, h) == ChunkTask[w][h - base[w] + 1]

(* report_workload: Batch::handle_error on every batch, which fails the    *)
(* tasks that are not finished yet; Success stands for "the file's own     *)
(* error, if there is one".                                                *)
Reported(w, code, rep, fileErr) ==
  [t \in Tasks |->
     IF t \notin TasksOf(w) \/ rep[t] # NoReport THEN rep[t]
     ELSE IF code # Success THEN code
     ELSE IF fileErr[FileOf[t]] # Success THEN fileErr[FileOf[t]]
     ELSE NoReport]

(* Mutant of AbortAll: the credit of the reads in flight is not released. *)
AbortAllKeepsCredit(code) ==
  /\ report' = [t \in Tasks |->
                  IF WorkloadOf[t] \in live /\ report[t] = NoReport
                  THEN code ELSE report[t]]
  /\ live' = {}
  /\ pending' = <<>>
  /\ UNCHANGED <<used, remaining, error, openTasks, fileError>>

(* abort_all *)
AbortAll(code) ==
  /\ report' = [t \in Tasks |->
                  IF WorkloadOf[t] \in live /\ report[t] = NoReport
                  THEN code ELSE report[t]]
  /\ live' = {}
  /\ pending' = <<>>
  /\ used' = 0
  /\ UNCHANGED <<remaining, error, openTasks, fileError>>

(* complete_chunk, given the task's error, whether the task is settled and *)
(* how many tasks of the workload that settles.                            *)
SettleChunk(w, t, err, last, settled, u) ==
  LET fileErr == IF last /\ err # Success /\ fileError[w][FileOf[t]] = Success
                 THEN [fileError[w] EXCEPT ![FileOf[t]] = err]
                 ELSE fileError[w]
      rep == IF last /\ err = Success /\ report[t] = NoReport
             THEN [report EXCEPT ![t] = Success] ELSE report
      final == settled > 0 /\ openTasks[w] = settled
  IN  /\ used' = IF u >= 1 THEN u - 1 ELSE 0
      /\ error' = [error EXCEPT ![t] = err]
      /\ remaining' = [remaining EXCEPT ![t] = @ - 1]
      /\ fileError' = [fileError EXCEPT ![w] = fileErr]
      /\ openTasks' = [openTasks EXCEPT ![w] = @ - settled]
      /\ report' = IF final THEN Reported(w, Success, rep, fileErr) ELSE rep
      /\ live' = IF final THEN live \ {w} ELSE live

(* Mutant of CompleteChunk: the last chunk's result is the task's. *)
CompleteChunkLastWins(w, t, ret, u) ==
  SettleChunk(w, t, ret, remaining[t] = 1, IF remaining[t] = 1 THEN 1 ELSE 0, u)

(* Mutant of CompleteChunk: an error settles the task as soon as all its   *)
(* chunks have been submitted.                                             *)
CompleteChunkFailsFast(w, t, ret, u) ==
  LET err == IF error[t] = Success THEN ret ELSE error[t]
      last == remaining[t] = 1 \/ (err # Success /\ pending = <<>>)
  IN  SettleChunk(w, t, err, last, IF last THEN 1 ELSE 0, u)

(* complete_chunk for a chunk of task t of workload w, when u slots of the *)
(* window are in use: the first error wins, the last chunk settles the     *)
(* task, the last task finalizes the workload.                             *)
CompleteChunk(w, t, ret, u) ==
  LET err == IF error[t] = Success THEN ret ELSE error[t]
      last == remaining[t] = 1
  IN  SettleChunk(w, t, err, last, IF last THEN 1 ELSE 0, u)

-----------------------------------------------------------------------------
(* CapacityWorker::execute *)

Take(w) ==
  /\ pc = "top"
  /\ ~stopped
  /\ w \notin taken
  /\ taken' = taken \cup {w}

(* Mutant of Discard: the workload is dropped. *)
DiscardDrops(w) ==
  /\ Take(w)
  /\ ~queue
  /\ UNCHANGED <<ChunkTask, dropped, reader, queue, base, counter, windowVars,
                 taskVars, pc, after, events, progressed, stopped, clientVars>>

(* capacity() or the allocation of the queue throws: the workload is       *)
(* discarded with the code recorded, and the next one tries again.         *)
Discard(w) ==
  /\ Take(w)
  /\ ~queue
  /\ \E code \in {"ClientError", "UnknownError"}, built \in BOOLEAN :
       /\ reader => built
       /\ built => code = "UnknownError"
       /\ reader' = built
       /\ report' = Reported(w, code, report, fileError[w])
  /\ UNCHANGED <<ChunkTask, dropped, queue, base, counter, windowVars, live,
                 remaining, error, openTasks, fileError, pc, after, events,
                 progressed, stopped, clientVars>>

(* A workload without chunks is reported inline. *)
EnqueueEmpty(w) ==
  /\ Take(w)
  /\ NumChunks(w) = 0
  /\ reader' = TRUE
  /\ queue' = TRUE
  /\ report' = [t \in Tasks |-> IF t \in TasksOf(w) THEN Success ELSE report[t]]
  /\ pc' = "loop"
  /\ UNCHANGED <<ChunkTask, dropped, base, counter, windowVars, live,
                 remaining, error, openTasks, fileError, after, events,
                 progressed, stopped, clientVars>>

(* Tasks of the workload that have chunks to wait for. *)
OpenTasks(w) == Cardinality({t \in TasksOf(w) : ChunksOf(t) # {}})

(* enqueue: a block of handles, the workload's entry, its chunks behind    *)
(* those already pending; tasks without bytes are answered at once.        *)
Enqueue(w) ==
  /\ Take(w)
  /\ NumChunks(w) > 0
  /\ reader' = TRUE
  /\ queue' = TRUE
  /\ base' = [base EXCEPT ![w] = counter]
  /\ counter' = counter + NumChunks(w)
  /\ live' = live \cup {w}
  /\ pending' = pending \o [i \in 1 .. NumChunks(w) |-> counter + i - 1]
  /\ remaining' = [t \in Tasks |-> IF t \in TasksOf(w)
                                   THEN Cardinality(ChunksOf(t))
                                   ELSE remaining[t]]
  /\ openTasks' = [openTasks EXCEPT ![w] = OpenTasks(w)]
  /\ report' = [t \in Tasks |-> IF t \in TasksOf(w) /\ ChunksOf(t) = {}
                                THEN Success ELSE report[t]]
  /\ pc' = "loop"
  /\ UNCHANGED <<ChunkTask, dropped, used, error, fileError, after, events,
                 progressed, stopped, clientVars>>

(* An allocation in enqueue throws: abort_all(UnknownError).  When it is   *)
(* the emplace, the workload is not in _inflight and is lost with its      *)
(* owner; later, the abort covers it.                                      *)
EnqueueThrows(w) ==
  /\ Take(w)
  /\ NumChunks(w) > 0
  /\ \E at \in OomAt, z \in SUBSET {t \in TasksOf(w) : ChunksOf(t) = {}} :
       LET failed == {t \in Tasks : WorkloadOf[t] \in live}
                       \cup (IF at = "fill" THEN TasksOf(w) ELSE {})
       IN  /\ report' = [t \in Tasks |->
                IF report[t] # NoReport THEN report[t]
                ELSE IF at = "fill" /\ t \in z THEN Success
                ELSE IF t \in failed THEN "UnknownError"
                ELSE NoReport]
           /\ dropped' = IF at = "emplace" THEN dropped \cup {w} ELSE dropped
  /\ reader' = TRUE
  /\ queue' = TRUE
  /\ base' = [base EXCEPT ![w] = counter]
  /\ counter' = counter + NumChunks(w)
  /\ live' = {}
  /\ pending' = <<>>
  /\ used' = 0
  /\ pc' = "loop"
  /\ UNCHANGED <<ChunkTask, remaining, error, openTasks, fileError, after,
                 events, progressed, stopped, clientVars>>

(* The loop of execute and the drain that follows it. *)
Loop ==
  /\ pc = "loop"
  /\ IF pending # <<>> THEN pc' = "pump" /\ after' = "loop"
     ELSE IF used >= Capacity THEN pc' = "batch" /\ after' = "top"
     ELSE pc' = "top" /\ UNCHANGED after
  /\ UNCHANGED <<ChunkTask, taken, dropped, reader, queue, base, counter,
                 windowVars, taskVars, events, progressed, stopped, clientVars>>

(* worker_routine found no request and the worker busy: Worker::drain. *)
Drain ==
  /\ pc = "top"
  /\ ~Idle
  /\ pc' = "batch"
  /\ after' = "pump"
  /\ UNCHANGED <<ChunkTask, taken, dropped, reader, queue, base, counter,
                 windowVars, taskVars, events, progressed, stopped, clientVars>>

(* The blocking pop returns false on a stopped deque. *)
Exit ==
  /\ pc = "top"
  /\ stopped
  /\ Idle
  /\ pc' = "exit"
  /\ UNCHANGED <<ChunkTask, taken, dropped, reader, queue, base, counter,
                 windowVars, taskVars, after, events, progressed, stopped,
                 clientVars>>

-----------------------------------------------------------------------------
(* pump: try_take and submit *)

(* try_take: an item fits, or nothing is in flight. *)
CanTake == pending # <<>> /\ (used = 0 \/ used + 1 <= Capacity)

(* What submit finds at the front of the window. *)
Front == Head(pending)
FrontWorkload == CHOOSE w \in Locate(Front) : TRUE
FrontTask == TaskAt(FrontWorkload, Front)

Submitting ==
  /\ pc = "pump"
  /\ CanTake
  /\ pending' = Tail(pending)
  /\ UNCHANGED <<ChunkTask, taken, dropped, reader, queue, base, counter, pc,
                 after, events, progressed, stopped, s3stop, clientStop, ready,
                 readOK>>

(* The task already failed: no read is issued. *)
SubmitSkipped ==
  /\ Submitting
  /\ error[FrontTask] # Success
  /\ CompleteChunk(FrontWorkload, FrontTask, error[FrontTask], used + 1)
  /\ UNCHANGED <<responder, leaked, doubled, outstanding>>

(* async_read issues the read. *)
SubmitRead ==
  /\ Submitting
  /\ error[FrontTask] = Success
  /\ ~clientStop
  /\ responder' = IF responder = "null" THEN "open" ELSE responder
  /\ outstanding' = outstanding \cup {Front}
  /\ used' = used + 1
  /\ UNCHANGED <<taskVars, leaked, doubled>>

(* async_read fails: the plugin throws before the read is issued, or the   *)
(* client is stopped and it answers FinishedError although an S3 client    *)
(* has issued the read.                                                    *)
SubmitFails ==
  /\ Submitting
  /\ error[FrontTask] = Success
  /\ responder' = IF responder = "null" THEN "open" ELSE responder
  /\ \E issued \in BOOLEAN :
       /\ issued => clientStop
       /\ outstanding' = IF issued THEN outstanding \cup {Front}
                         ELSE outstanding
       /\ leaked' = (leaked \/ ~issued)
       /\ doubled' = (doubled \/ issued)
  /\ CompleteChunk(FrontWorkload, FrontTask,
                   IF clientStop THEN "FinishedError" ELSE "UnknownError",
                   used + 1)

PumpDone ==
  /\ pc = "pump"
  /\ ~CanTake
  /\ pc' = IF after = "loop" /\ pending # <<>> THEN "batch" ELSE after
  /\ UNCHANGED <<ChunkTask, taken, dropped, reader, queue, base, counter,
                 windowVars, taskVars, after, events, progressed, stopped,
                 clientVars>>

-----------------------------------------------------------------------------
(* drain_batch *)

Return ==
  /\ pc' = after
  /\ after' = IF after = "pump" THEN "top" ELSE after
  /\ events' = <<>>
  /\ progressed' = FALSE

(* Teardown was seen: everything in flight is failed. *)
DrainAborts ==
  /\ pc = "batch"
  /\ stopped
  /\ AbortAll("FinishedError")
  /\ Return
  /\ UNCHANGED <<ChunkTask, taken, dropped, reader, queue, base, counter,
                 stopped, clientVars>>

(* It was not: the thread goes into the client's wait, where a stop of the *)
(* pool does not reach it and only the client can wake it.                 *)
DrainWaits ==
  /\ pc = "batch"
  /\ ~stopped
  /\ pc' = "wait"
  /\ UNCHANGED <<ChunkTask, taken, dropped, reader, queue, base, counter,
                 windowVars, taskVars, after, events, progressed, stopped,
                 clientVars>>

(* The plugin's wait ends with an error of its own. *)
WaitFails ==
  /\ pc = "wait"
  /\ AbortAll("UnknownError")
  /\ Return
  /\ UNCHANGED <<ChunkTask, taken, dropped, reader, queue, base, counter,
                 stopped, clientVars>>

(* The event of a responder that is stopped or has run dry. *)
Sentinel == [handle |-> 0, ret |-> "FinishedError"]
RunDry == ready = <<>> /\ outstanding = {} /\ ~leaked

(* async_response: it blocks until there is something to return. *)
AsyncResponse ==
  /\ pc = "wait"
  /\ \/ /\ responder \in {"null", "stopped"} \/ RunDry
        /\ events' = <<Sentinel>>
        /\ UNCHANGED ready
     \/ /\ responder = "open"
        /\ \E n \in 1 .. Len(ready) :
             /\ n <= MaxResponses
             /\ ready' = SubSeq(ready, n + 1, Len(ready))
             /\ events' \in {SubSeq(ready, 1, n)} \cup
                            (IF /\ n = Len(ready) /\ n < MaxResponses
                                /\ outstanding = {} /\ ~leaked
                             THEN {Append(ready, Sentinel)} ELSE {})
  /\ pc' = "events"
  /\ UNCHANGED <<ChunkTask, taken, dropped, reader, queue, base, counter,
                 windowVars, taskVars, after, progressed, stopped, s3stop,
                 clientStop, responder, leaked, doubled, outstanding, readOK>>

EventIs(located) ==
  /\ pc = "events"
  /\ Head(events).ret # "FinishedError"
  /\ (Locate(Head(events).handle) # {}) = located
  /\ UNCHANGED <<ChunkTask, taken, dropped, reader, queue, base, counter,
                 pending, stopped, clientVars>>

(* The round goes on with the next event, or drain_batch returns. *)
NextEvent(p) ==
  IF Len(events) > 1
  THEN /\ events' = Tail(events)
       /\ progressed' = p
       /\ UNCHANGED <<pc, after>>
  ELSE Return

(* A completion of a block that abort_all erased is dropped. *)
EventLate ==
  /\ EventIs(FALSE)
  /\ NextEvent(progressed)
  /\ UNCHANGED <<used, taskVars>>

EventWorkload == CHOOSE w \in Locate(Head(events).handle) : TRUE
EventTask == TaskAt(EventWorkload, Head(events).handle)

EventCompletes ==
  /\ EventIs(TRUE)
  /\ remaining[EventTask] > 0
  /\ CompleteChunk(EventWorkload, EventTask, Head(events).ret, used)
  /\ NextEvent(TRUE)

(* The ASSERT of complete_chunk throws out of the worker to the pool's     *)
(* loop; the slot has been released.                                       *)
EventAsserts ==
  /\ EventIs(TRUE)
  /\ remaining[EventTask] = 0
  /\ used' = IF used >= 1 THEN used - 1 ELSE 0
  /\ events' = <<>>
  /\ progressed' = FALSE
  /\ pc' = "top"
  /\ UNCHANGED <<after, taskVars>>

(* Mutant of EventSentinel: a round that brought nothing is just over. *)
EventSentinelSpins ==
  /\ pc = "events"
  /\ Head(events).ret = "FinishedError"
  /\ Return
  /\ UNCHANGED <<ChunkTask, taken, dropped, reader, queue, base, counter,
                 windowVars, taskVars, stopped, clientVars>>

(* The sentinel ends the round; if nothing else came with it while chunks  *)
(* are in flight, no more will come.                                       *)
EventSentinel ==
  /\ pc = "events"
  /\ Head(events).ret = "FinishedError"
  /\ IF ~progressed /\ ~Idle
     THEN AbortAll("FinishedError")
     ELSE UNCHANGED <<windowVars, taskVars>>
  /\ Return
  /\ UNCHANGED <<ChunkTask, taken, dropped, reader, queue, base, counter,
                 stopped, clientVars>>

-----------------------------------------------------------------------------
(* The storage answers a read: the callback pushes to the responder. *)

CompleteRead(h, ret) ==
  /\ h \in outstanding
  /\ outstanding' = outstanding \ {h}
  /\ ready' = IF responder = "stopped" THEN ready
              ELSE Append(ready, [handle |-> h, ret |-> ret])
  /\ readOK' = IF ret = Success THEN readOK \cup {h} ELSE readOK
  /\ UNCHANGED <<ChunkTask, taken, dropped, reader, queue, base, counter,
                 windowVars, taskVars, pc, after, events, progressed, stopped,
                 s3stop, clientStop, responder, leaked, doubled>>

(* Mutant of StopResponder: the flag is set and the responder is not       *)
(* stopped.                                                                *)
StopResponderNot ==
  /\ s3stop = "flag"
  /\ s3stop' = "done"
  /\ UNCHANGED <<ChunkTask, taken, dropped, reader, queue, base, counter,
                 windowVars, taskVars, pc, after, events, progressed, stopped,
                 clientStop, responder, leaked, doubled, outstanding, ready,
                 readOK>>

(* ~S3Stop, of this streamer or of another one in the process, stops every *)
(* client there is: the flag first, then the responder.                    *)
StopClient ==
  /\ s3stop = "none"
  /\ s3stop' = "flag"
  /\ clientStop' = reader
  /\ UNCHANGED <<ChunkTask, taken, dropped, reader, queue, base, counter,
                 windowVars, taskVars, pc, after, events, progressed, stopped,
                 responder, leaked, doubled, outstanding, ready, readOK>>

StopResponder ==
  /\ s3stop = "flag"
  /\ s3stop' = "done"
  /\ responder' = IF clientStop /\ responder = "open" THEN "stopped"
                  ELSE responder
  /\ UNCHANGED <<ChunkTask, taken, dropped, reader, queue, base, counter,
                 windowVars, taskVars, pc, after, events, progressed, stopped,
                 clientStop, leaked, doubled, outstanding, ready, readOK>>

(* ~ThreadPool, after this streamer's S3Stop. *)
StopPool ==
  /\ s3stop = "done"
  /\ ~stopped
  /\ stopped' = TRUE
  /\ UNCHANGED <<ChunkTask, taken, dropped, reader, queue, base, counter,
                 windowVars, taskVars, pc, after, events, progressed,
                 clientVars>>

Gone == pc = "exit" /\ UNCHANGED vars

WorkerStep ==
  \/ Loop \/ Drain \/ Exit
  \/ SubmitSkipped \/ SubmitRead \/ SubmitFails \/ PumpDone
  \/ DrainAborts \/ DrainWaits \/ AsyncResponse
  \/ EventLate \/ EventCompletes \/ EventAsserts \/ EventSentinel

Arrive(w) == Discard(w) \/ EnqueueEmpty(w) \/ Enqueue(w) \/ EnqueueThrows(w)

StorageAnswers ==
  \E h \in outstanding, ret \in {Success, "ReadError"} : CompleteRead(h, ret)

Next ==
  \/ WorkerStep \/ WaitFails \/ StorageAnswers
  \/ StopClient \/ StopResponder \/ StopPool \/ Gone
  \/ \E w \in Workloads : Arrive(w)

Spec == Init /\ [][Next]_vars

(* The thread runs and a stop that has begun is finished.  Nothing makes a *)
(* wait fail, and a read that was issued need not be answered.             *)
Fairness == WF_vars(WorkerStep) /\ WF_vars(StopResponder)

(* A storage that answers each read in the end. *)
LiveStorage == WF_vars(StorageAnswers)

FairSpec == Spec /\ Fairness

-----------------------------------------------------------------------------
(* Properties *)

Handles(t) == {base[WorkloadOf[t]] + i - 1 : i \in ChunksOf(t)}
InWindow == {h \in outstanding : Locate(h) # {}}
PendingSet == {pending[i] : i \in DOMAIN pending}

(* A task told Success has every chunk in its buffer and no read of it is  *)
(* still running, whatever was aborted or stopped around it.               *)
SuccessIsRead ==
  \A t \in Tasks : report[t] = Success => Handles(t) \subseteq readOK

(* The window counts the reads whose completion the worker still has to    *)
(* process, and no others: what abort_all left behind neither counts nor   *)
(* waits to be submitted (the ASSERT of submit on an unknown handle).      *)
WindowCounts ==
  /\ \A h \in PendingSet : Locate(h) # {}
  /\ s3stop = "none" =>
       used = Cardinality(InWindow)
              + Cardinality({i \in DOMAIN ready :
                               Locate(ready[i].handle) # {}})
              + Cardinality({i \in DOMAIN events :
                               Locate(events[i].handle) # {}})

(* A workload that was taken and is no longer in flight has been reported, *)
(* task by task, unless its entry could not be allocated; and none is in   *)
(* flight in a worker that looks idle to the pool, which then parks it.    *)
NothingIsLost ==
  /\ \A t \in Tasks :
       WorkloadOf[t] \in taken \ (live \cup dropped) => report[t] # NoReport
  /\ s3stop = "none" /\ pc = "top" /\ Idle => live = {}

(* A task that failed because a read failed is reported only when none of  *)
(* its reads is running: the caller may reuse the buffer.                  *)
FailureWaitsForReads ==
  s3stop = "none" =>
    \A t \in Tasks :
      report[t] = "ReadError" => Handles(t) \cap outstanding = {}

(* In the end every task of a workload that was taken is told something,   *)
(* if its entry could be allocated and the storage answers: also when the  *)
(* client was stopped under the worker, by the end of its own streamer or  *)
(* of another one, unless it issued a read that it refused.                *)
TaskIsReported ==
  LiveStorage =>
    <>[](doubled \/
           \A t \in Tasks :
             WorkloadOf[t] \in taken \ dropped => report[t] # NoReport)

(* The pool can join the thread: if its client was stopped, whatever the   *)
(* storage does with the reads that a thread sleeps on; if it has built    *)
(* the client after the stop, as soon as the storage has answered them.    *)
StopEndsThread ==
  /\ (stopped /\ clientStop) ~> (pc = "exit")
  /\ LiveStorage => (stopped ~> (pc = "exit"))
=============================================================================
