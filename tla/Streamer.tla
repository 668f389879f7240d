------------------------------- MODULE Streamer -------------------------------
(***************************************************************************)
(* A Streamer that reads files: async_request registers a submission and   *)
(* hands its workloads to the filesystem pool, the pool's workers read     *)
(* batch by batch, the last finished task of a range pushes that range's   *)
(* one response, and response() pops it and tells when the submission is   *)
(* done.  Workers, submitting threads, the consumer and the destructor     *)
(* interleave.  The responder is the atomic Responder that SharedQueue     *)
(* implements; the pool's queue is a FIFO here and ThreadPool.tla in       *)
(* detail.                                                                 *)
(***************************************************************************)
EXTENDS Naturals, Sequences, FiniteSets, FiniteSetsExt

CONSTANTS
  Submissions,   \* calls of async_request; each stands for the id it mints
  Ranges,        \* the ranges of all submissions
  Tasks,         \* the parts ranges are cut into, numbered in file order
  Batches,       \* groups of tasks read together, numbered in order
  Workloads,     \* groups of batches dispatched together, numbered in order
  Workers,       \* threads of the filesystem pool
  Errors,        \* codes a failed open, seek or read reports
  SubmissionOf,  \* [Ranges -> Submissions]
  RangeOf,       \* [Tasks -> Ranges]
  BatchOf,       \* [Tasks -> Batches]
  WorkloadOf,    \* [Batches -> Workloads]
  OwnerOf        \* [Workloads -> Submissions]

(* The threads that finish tasks: pool workers, and the thread inside      *)
(* async_request when it drains what it could not dispatch.                *)
Threads == Workers \cup Submissions

Codes == Errors \cup {"Success", "UnknownError", "FinishedError"}

Response == [range : Ranges, ret : Codes]

RangesOf(s) == {r \in Ranges : SubmissionOf[r] = s}
TasksOf(r) == {t \in Tasks : RangeOf[t] = r}
BatchTasks(b) == {t \in Tasks : BatchOf[t] = b}
BatchesOf(w) == {b \in Batches : WorkloadOf[b] = w}
WorkloadsOf(s) == {w \in Workloads : OwnerOf[w] = s}

(* What the Assigner and Batches guarantee: a range, however small, has a  *)
(* task, a batch has a task, and a workload serves one submission.         *)
ASSUME StreamerAssumption ==
  /\ IsFiniteSet(Tasks) /\ IsFiniteSet(Ranges)
  /\ Tasks \subseteq Nat /\ Batches \subseteq Nat /\ Workloads \subseteq Nat
  /\ Workers \cap Submissions = {}
  /\ Errors \cap {"none", "Success", "UnknownError", "FinishedError"} = {}
  /\ SubmissionOf \in [Ranges -> Submissions]
  /\ RangeOf \in [Tasks -> Ranges]
  /\ BatchOf \in [Tasks -> Batches]
  /\ WorkloadOf \in [Batches -> Workloads]
  /\ OwnerOf \in [Workloads -> Submissions]
  /\ \A r \in Ranges : TasksOf(r) # {}
  /\ \A t \in Tasks : OwnerOf[WorkloadOf[BatchOf[t]]] = SubmissionOf[RangeOf[t]]

VARIABLES
  request,    \* [Submissions -> stage of async_request]
  result,     \* [Submissions -> what async_request returned]
  todo,       \* [Submissions -> workloads[next ..], not yet dispatched]
  registry,   \* SubmissionsMgr: [live submissions -> remaining responses]
  deque,      \* the pool's queue of workloads
  pc,         \* [Threads -> stage of the batch loop]
  batches,    \* [Threads -> batches of the workload still to come]
  rest,       \* [Threads -> tasks of the batch not read yet]
  loop,       \* [Threads -> tasks the current notification loop still visits]
  batch,      \* [Threads -> the current batch]
  code,       \* [Threads -> the code that loop reports]
  task,       \* [Threads -> the task being finished]
  verdict,    \* [Tasks -> "none" until _finished is set, then (history) the
              \*  code the task was finished with]
  left,       \* [Ranges -> Request::_tasks]
  ret,        \* [Ranges -> Request::_ret]
  lost,       \* history: ranges whose response could not be queued
  teardown,   \* how far the destructor is
  consumer,   \* "idle", or "consume" between pop() and the registry
  done,       \* history: submissions whose done flag response() returned
  running, responses, stopped, unexpected, delivered, answer  \* responder

requestVars == <<request, result, todo>>
taskVars == <<verdict, left, ret, lost>>
threadVars == <<pc, batches, rest, loop, batch, code, task>>
responderVars == <<running, responses, stopped, unexpected, delivered, answer>>
vars == <<requestVars, registry, deque, threadVars, taskVars, teardown,
          consumer, done, responderVars>>

R == INSTANCE Responder WITH mode <- "PERSISTENT",
                             MaxRunning <- Cardinality(Ranges)

(* The tasks whose _finished is set. *)
finished == {t \in Tasks : verdict[t] # "none"}

NoBatch == 0
NoTask == 0

Init ==
  /\ request = [s \in Submissions |-> "new"]
  /\ result = [s \in Submissions |-> "none"]
  /\ todo = [s \in Submissions |-> WorkloadsOf(s)]
  /\ registry = <<>>
  /\ deque = <<>>
  /\ pc = [a \in Threads |-> "idle"]
  /\ batches = [a \in Threads |-> {}]
  /\ rest = [a \in Threads |-> {}]
  /\ loop = [a \in Threads |-> {}]
  /\ batch = [a \in Threads |-> NoBatch]
  /\ code = [a \in Threads |-> "Success"]
  /\ task = [a \in Threads |-> NoTask]
  /\ verdict = [t \in Tasks |-> "none"]
  /\ left = [r \in Ranges |-> Cardinality(TasksOf(r))]
  /\ ret = [r \in Ranges |-> "Success"]
  /\ lost = {}
  /\ teardown = "open"
  /\ consumer = "idle"
  /\ done = {}
  /\ R!Init
  /\ running = 0

-----------------------------------------------------------------------------
(* async_request *)

(* Verification, the plugin lock, the range count or a batch refused by a  *)
(* workload ends the call before anything is registered.                   *)
Reject(s) ==
  /\ teardown = "open"
  /\ request[s] = "new"
  /\ request' = [request EXCEPT ![s] = "returned"]
  /\ result' = [result EXCEPT ![s] = "Rejected"]
  /\ UNCHANGED <<todo, registry, deque, threadVars, taskVars, teardown,
                 consumer, done, responderVars>>

(* A submission without ranges owes no response and is not registered. *)
EmptyRequest(s) ==
  /\ teardown = "open"
  /\ request[s] = "new"
  /\ RangesOf(s) = {}
  /\ request' = [request EXCEPT ![s] = "returned"]
  /\ result' = [result EXCEPT ![s] = "Success"]
  /\ UNCHANGED <<todo, registry, deque, threadVars, taskVars, teardown,
                 consumer, done, responderVars>>

(* SubmissionsMgr::add. *)
Register(s) ==
  /\ teardown = "open"
  /\ request[s] = "new"
  /\ RangesOf(s) # {}
  /\ registry' = [i \in DOMAIN registry \cup {s} |->
                    IF i = s THEN Cardinality(RangesOf(s)) ELSE registry[i]]
  /\ request' = [request EXCEPT ![s] = "registered"]
  /\ UNCHANGED <<result, todo, deque, threadVars, taskVars, teardown,
                 consumer, done, responderVars>>

(* _responder->increment, before any workload can run. *)
Announce(s) ==
  /\ request[s] = "registered"
  /\ R!Increment(Cardinality(RangesOf(s)))
  /\ request' = [request EXCEPT ![s] = "dispatch"]
  /\ UNCHANGED <<result, todo, registry, deque, threadVars, taskVars,
                 teardown, consumer, done>>

(* One turn of the dispatch loop: an empty workload is skipped. *)
Dispatch(s) ==
  /\ request[s] = "dispatch"
  /\ todo[s] # {}
  /\ LET w == Min(todo[s])
     IN  /\ todo' = [todo EXCEPT ![s] = @ \ {w}]
         /\ deque' = IF BatchesOf(w) = {} THEN deque ELSE Append(deque, w)
  /\ UNCHANGED <<request, result, registry, threadVars, taskVars, teardown,
                 consumer, done, responderVars>>

(* Faulty dispatch: next is past the workload whose push threw. *)
DispatchThrowsPast(s) ==
  /\ request[s] = "dispatch"
  /\ todo[s] # {}
  /\ BatchesOf(Min(todo[s])) # {}
  /\ request' = [request EXCEPT ![s] = "drain"]
  /\ result' = [result EXCEPT ![s] = "UnknownError"]
  /\ todo' = [todo EXCEPT ![s] = @ \ {Min(@)}]
  /\ UNCHANGED <<registry, deque, threadVars, taskVars, teardown,
                 consumer, done, responderVars>>

(* The push of workloads[next] throws and leaves it with the caller: the   *)
(* drain guard takes over with the same index.                             *)
DispatchThrows(s) ==
  /\ request[s] = "dispatch"
  /\ todo[s] # {}
  /\ BatchesOf(Min(todo[s])) # {}
  /\ request' = [request EXCEPT ![s] = "drain"]
  /\ result' = [result EXCEPT ![s] = "UnknownError"]
  /\ UNCHANGED <<todo, registry, deque, threadVars, taskVars, teardown,
                 consumer, done, responderVars>>

Dispatched(s) ==
  /\ request[s] = "dispatch"
  /\ todo[s] = {}
  /\ request' = [request EXCEPT ![s] = "returned"]
  /\ result' = [result EXCEPT ![s] = "Success"]
  /\ UNCHANGED <<todo, registry, deque, threadVars, taskVars, teardown,
                 consumer, done, responderVars>>

(* drain_undispatched: Workload::fail on the next workload that is left. *)
DrainWorkload(s) ==
  /\ request[s] = "drain"
  /\ pc[s] = "idle"
  /\ todo[s] # {}
  /\ LET w == Min(todo[s])
     IN  /\ todo' = [todo EXCEPT ![s] = @ \ {w}]
         /\ batches' = [batches EXCEPT ![s] = BatchesOf(w)]
  /\ pc' = [pc EXCEPT ![s] = "batch"]
  /\ UNCHANGED <<request, result, registry, deque, rest, loop, batch, code,
                 task, taskVars, teardown, consumer, done, responderVars>>

Drained(s) ==
  /\ request[s] = "drain"
  /\ pc[s] = "idle"
  /\ todo[s] = {}
  /\ request' = [request EXCEPT ![s] = "returned"]
  /\ UNCHANGED <<result, todo, registry, deque, threadVars, taskVars,
                 teardown, consumer, done, responderVars>>

-----------------------------------------------------------------------------
(* Workers: ThreadPool::routine, Workload::execute, Batch::execute *)

TakeWorkload(k) ==
  /\ pc[k] = "idle"
  /\ teardown \notin {"deque", "joined"}
  /\ deque # <<>>
  /\ deque' = Tail(deque)
  /\ batches' = [batches EXCEPT ![k] = BatchesOf(Head(deque))]
  /\ pc' = [pc EXCEPT ![k] = "batch"]
  /\ UNCHANGED <<requestVars, registry, rest, loop, batch, code, task,
                 taskVars, teardown, consumer, done, responderVars>>

(* Faulty stop: a worker leaves only when the deque is empty. *)
WorkerExitIfEmpty(k) ==
  /\ pc[k] = "idle"
  /\ teardown = "deque"
  /\ deque = <<>>
  /\ pc' = [pc EXCEPT ![k] = "exit"]
  /\ UNCHANGED <<requestVars, registry, deque, batches, rest, loop, batch,
                 code, task, taskVars, teardown, consumer, done,
                 responderVars>>

(* Deque::pop returns false once the deque is stopped. *)
WorkerExit(k) ==
  /\ pc[k] = "idle"
  /\ teardown = "deque"
  /\ pc' = [pc EXCEPT ![k] = "exit"]
  /\ UNCHANGED <<requestVars, registry, deque, batches, rest, loop, batch,
                 code, task, taskVars, teardown, consumer, done,
                 responderVars>>

(* The next batch: a worker opens its file, a draining submitter goes      *)
(* straight to handle_error(UnknownError).                                 *)
NextBatch(a) ==
  /\ pc[a] = "batch"
  /\ batches[a] # {}
  /\ LET b == Min(batches[a])
         tasks == BatchTasks(b)
     IN  /\ batches' = [batches EXCEPT ![a] = @ \ {b}]
         /\ batch' = [batch EXCEPT ![a] = b]
         /\ \/ /\ a \in Workers
               /\ pc' = [pc EXCEPT ![a] = "open"]
               /\ rest' = [rest EXCEPT ![a] = tasks]
               /\ UNCHANGED <<loop, code>>
            \/ /\ a \in Submissions
               /\ pc' = [pc EXCEPT ![a] = "finish"]
               /\ loop' = [loop EXCEPT ![a] = tasks]
               /\ code' = [code EXCEPT ![a] = "UnknownError"]
               /\ UNCHANGED rest
  /\ UNCHANGED <<requestVars, registry, deque, task, taskVars, teardown,
                 consumer, done, responderVars>>

WorkloadDone(a) ==
  /\ pc[a] = "batch"
  /\ batches[a] = {}
  /\ pc' = [pc EXCEPT ![a] = "idle"]
  /\ batch' = [batch EXCEPT ![a] = NoBatch]
  /\ code' = [code EXCEPT ![a] = "Success"]
  /\ UNCHANGED <<requestVars, registry, deque, batches, rest, loop, task,
                 taskVars, teardown, consumer, done, responderVars>>

(* handle_error(c): visit every task of the batch, finished or not. *)
HandleError(a, c) ==
  /\ code' = [code EXCEPT ![a] = c]
  /\ loop' = [loop EXCEPT ![a] = BatchTasks(batch[a])]
  /\ rest' = [rest EXCEPT ![a] = {}]
  /\ pc' = [pc EXCEPT ![a] = "finish"]

(* The File constructor and seek. *)
OpenFile(k) ==
  /\ pc[k] = "open"
  /\ \/ /\ pc' = [pc EXCEPT ![k] = "read"]
        /\ UNCHANGED <<rest, loop, code>>
     \/ \E e \in Errors : HandleError(k, e)
  /\ UNCHANGED <<requestVars, registry, deque, batches, batch, task, taskVars,
                 teardown, consumer, done, responderVars>>

(* Batch::read starts the next read unless the pool is stopping. *)
StartRead(k) ==
  /\ pc[k] = "read"
  /\ teardown \notin {"flag", "deque", "joined"}
  /\ rest[k] # {}
  /\ pc' = [pc EXCEPT ![k] = "reading"]
  /\ UNCHANGED <<requestVars, registry, deque, batches, rest, loop, batch,
                 code, task, taskVars, teardown, consumer, done,
                 responderVars>>

(* A read returns: the tasks that end at or before the new offset are      *)
(* finished (finished_until), in order.                                    *)
ReadTasks(k) ==
  /\ pc[k] = "reading"
  /\ \E t \in rest[k] :
       /\ loop' = [loop EXCEPT ![k] = {u \in rest[k] : u <= t}]
       /\ rest' = [rest EXCEPT ![k] = {u \in @ : u > t}]
  /\ code' = [code EXCEPT ![k] = "Success"]
  /\ pc' = [pc EXCEPT ![k] = "finish"]
  /\ UNCHANGED <<requestVars, registry, deque, batches, batch, task, taskVars,
                 teardown, consumer, done, responderVars>>

ReadFails(k) ==
  /\ pc[k] = "reading"
  /\ \E e \in Errors : HandleError(k, e)
  /\ UNCHANGED <<requestVars, registry, deque, batches, batch, task, taskVars,
                 teardown, consumer, done, responderVars>>

(* The stop flag is seen between two reads, perhaps within a task: the     *)
(* batch throws FinishedError.                                             *)
ReadStopped(k) ==
  /\ pc[k] \in {"read", "reading"}
  /\ teardown \in {"flag", "deque"}
  /\ HandleError(k, "FinishedError")
  /\ UNCHANGED <<requestVars, registry, deque, batches, batch, task, taskVars,
                 teardown, consumer, done, responderVars>>

BatchRead(k) ==
  /\ pc[k] = "read"
  /\ teardown \notin {"flag", "deque", "joined"}
  /\ rest[k] = {}
  /\ pc' = [pc EXCEPT ![k] = "batch"]
  /\ UNCHANGED <<requestVars, registry, deque, batches, rest, loop, batch,
                 code, task, taskVars, teardown, consumer, done,
                 responderVars>>

-----------------------------------------------------------------------------
(* Notification: Task::finished_request, Request::finished, responder push *)

(* Faulty Request::finished: Success overwrites an earlier error. *)
FinishTaskOverwrites(a) ==
  /\ pc[a] = "finish"
  /\ loop[a] # {}
  /\ LET t == Min(loop[a])
     IN  /\ loop' = [loop EXCEPT ![a] = @ \ {t}]
         /\ IF t \in finished
            THEN UNCHANGED <<pc, task, verdict, ret>>
            ELSE /\ verdict' = [verdict EXCEPT ![t] = code[a]]
                 /\ task' = [task EXCEPT ![a] = t]
                 /\ ret' = [ret EXCEPT ![RangeOf[t]] = code[a]]
                 /\ pc' = [pc EXCEPT ![a] = "sub"]
  /\ UNCHANGED <<requestVars, registry, deque, batches, rest, batch, code,
                 left, lost, teardown, consumer, done, responderVars>>

(* A task that is finished already is skipped; else Request::finished      *)
(* stores an error before it counts the task down.                         *)
FinishTask(a) ==
  /\ pc[a] = "finish"
  /\ loop[a] # {}
  /\ LET t == Min(loop[a])
     IN  /\ loop' = [loop EXCEPT ![a] = @ \ {t}]
         /\ IF t \in finished
            THEN UNCHANGED <<pc, task, verdict, ret>>
            ELSE /\ verdict' = [verdict EXCEPT ![t] = code[a]]
                 /\ task' = [task EXCEPT ![a] = t]
                 /\ ret' = IF code[a] = "Success"
                           THEN ret
                           ELSE [ret EXCEPT ![RangeOf[t]] = code[a]]
                 /\ pc' = [pc EXCEPT ![a] = "sub"]
  /\ UNCHANGED <<requestVars, registry, deque, batches, rest, batch, code,
                 left, lost, teardown, consumer, done, responderVars>>

(* Faulty countdown: the last task but one responds too. *)
CountDownOffByOne(a) ==
  /\ pc[a] = "sub"
  /\ LET r == RangeOf[task[a]]
     IN  /\ left' = [left EXCEPT ![r] = @ - 1]
         /\ pc' = [pc EXCEPT ![a] = IF left[r] <= 2 THEN "push" ELSE "finish"]
  /\ UNCHANGED <<requestVars, registry, deque, batches, rest, loop, batch,
                 code, task, verdict, ret, lost, teardown, consumer, done,
                 responderVars>>

(* _tasks.fetch_sub(1): the thread that takes the last one responds. *)
CountDown(a) ==
  /\ pc[a] = "sub"
  /\ LET r == RangeOf[task[a]]
     IN  /\ left' = [left EXCEPT ![r] = @ - 1]
         /\ pc' = [pc EXCEPT ![a] = IF left[r] = 1 THEN "push" ELSE "finish"]
  /\ UNCHANGED <<requestVars, registry, deque, batches, rest, loop, batch,
                 code, task, verdict, ret, lost, teardown, consumer, done,
                 responderVars>>

Respond(a) ==
  /\ pc[a] = "push"
  /\ LET r == RangeOf[task[a]]
     IN  R!Push([range |-> r, ret |-> ret[r]])
  /\ pc' = [pc EXCEPT ![a] = "finish"]
  /\ UNCHANGED <<requestVars, registry, deque, batches, rest, loop, batch,
                 code, task, taskVars, teardown, consumer, done>>

(* The responder's queue cannot grow: the push throws and the response is  *)
(* lost.  A read that was notifying its tasks ends as any read that fails; *)
(* a loop of handle_error is left, and the rest of the workload with it:   *)
(* the pool's routine and drain_undispatched swallow what was thrown.      *)
RespondThrows(a) ==
  /\ pc[a] = "push"
  /\ lost' = lost \cup {RangeOf[task[a]]}
  /\ task' = [task EXCEPT ![a] = NoTask]
  /\ \/ /\ code[a] = "Success"
        /\ HandleError(a, "UnknownError")
        /\ UNCHANGED <<batches, batch>>
     \/ /\ code[a] # "Success"
        /\ pc' = [pc EXCEPT ![a] = "idle"]
        /\ batches' = [batches EXCEPT ![a] = {}]
        /\ loop' = [loop EXCEPT ![a] = {}]
        /\ batch' = [batch EXCEPT ![a] = NoBatch]
        /\ code' = [code EXCEPT ![a] = "Success"]
        /\ UNCHANGED rest
  /\ UNCHANGED <<requestVars, registry, deque, verdict, left, ret, teardown,
                 consumer, done, responderVars>>

(* The loop ends: after a successful read the batch goes on, after an      *)
(* error it is over.                                                       *)
LoopDone(a) ==
  /\ pc[a] = "finish"
  /\ loop[a] = {}
  /\ pc' = [pc EXCEPT ![a] = IF code[a] = "Success" THEN "read" ELSE "batch"]
  /\ task' = [task EXCEPT ![a] = NoTask]
  /\ UNCHANGED <<requestVars, registry, deque, batches, rest, loop, batch,
                 code, taskVars, teardown, consumer, done, responderVars>>

-----------------------------------------------------------------------------
(* Streamer::response, called by the one consumer.  A response() that ends *)
(* with FinishedError or TimedOut touches neither registry nor queue: it   *)
(* is a stuttering step.                                                   *)

PopResponse ==
  /\ consumer = "idle"
  /\ teardown # "joined"
  /\ R!PopResponse
  /\ consumer' = "consume"
  /\ UNCHANGED <<requestVars, registry, deque, threadVars, taskVars, teardown,
                 done>>

LastPopped == delivered[Len(delivered)]

(* Faulty consume(): done with the last response but one. *)
ConsumeEarly ==
  /\ consumer = "consume"
  /\ consumer' = "idle"
  /\ LET s == SubmissionOf[LastPopped.range]
     IN  /\ s \in DOMAIN registry
         /\ IF registry[s] <= 2
            THEN /\ registry' = [i \in DOMAIN registry \ {s} |-> registry[i]]
                 /\ done' = done \cup {s}
            ELSE /\ registry' = [registry EXCEPT ![s] = @ - 1]
                 /\ UNCHANGED done
  /\ UNCHANGED <<requestVars, deque, threadVars, taskVars, teardown,
                 responderVars>>

(* consume(): the last response erases the submission and sets the flag.   *)
(* The code asserts that the submission is registered: ResponseIsOwed.     *)
Consume ==
  /\ consumer = "consume"
  /\ consumer' = "idle"
  /\ LET s == SubmissionOf[LastPopped.range]
     IN  /\ s \in DOMAIN registry
         /\ IF registry[s] = 1
            THEN /\ registry' = [i \in DOMAIN registry \ {s} |-> registry[i]]
                 /\ done' = done \cup {s}
            ELSE /\ registry' = [registry EXCEPT ![s] = @ - 1]
                 /\ UNCHANGED done
  /\ UNCHANGED <<requestVars, deque, threadVars, taskVars, teardown,
                 responderVars>>

-----------------------------------------------------------------------------
(* ~Streamer, called when no async_request is in progress *)

StopResponder ==
  /\ teardown = "open"
  /\ \A s \in Submissions : request[s] \in {"new", "returned"}
  /\ R!Stop
  /\ teardown' = "responder"
  /\ UNCHANGED <<requestVars, registry, deque, threadVars, taskVars, consumer,
                 done>>

(* ~ThreadPool: first the stop flag, then Deque::stop, then the joins. *)
StopFlag ==
  /\ teardown = "responder"
  /\ teardown' = "flag"
  /\ UNCHANGED <<requestVars, registry, deque, threadVars, taskVars, consumer,
                 done, responderVars>>

StopDeque ==
  /\ teardown = "flag"
  /\ teardown' = "deque"
  /\ UNCHANGED <<requestVars, registry, deque, threadVars, taskVars, consumer,
                 done, responderVars>>

Join ==
  /\ teardown = "deque"
  /\ \A k \in Workers : pc[k] = "exit"
  /\ consumer = "idle"
  /\ teardown' = "joined"
  /\ UNCHANGED <<requestVars, registry, deque, threadVars, taskVars, consumer,
                 done, responderVars>>

Gone == teardown = "joined" /\ UNCHANGED vars

-----------------------------------------------------------------------------
RequestStep(s) ==
  \/ Announce(s) \/ Dispatch(s) \/ DispatchThrows(s) \/ Dispatched(s)
  \/ DrainWorkload(s) \/ Drained(s)

ThreadStep(a) ==
  \/ NextBatch(a) \/ WorkloadDone(a)
  \/ FinishTask(a) \/ CountDown(a) \/ Respond(a) \/ RespondThrows(a)
  \/ LoopDone(a)

WorkerStep(k) ==
  \/ TakeWorkload(k) \/ WorkerExit(k) \/ OpenFile(k) \/ StartRead(k)
  \/ ReadTasks(k) \/ ReadFails(k) \/ ReadStopped(k) \/ BatchRead(k)

DestructorStep == StopFlag \/ StopDeque \/ Join

Next ==
  \/ \E s \in Submissions :
       Reject(s) \/ EmptyRequest(s) \/ Register(s) \/ RequestStep(s)
  \/ \E a \in Threads : ThreadStep(a)
  \/ \E k \in Workers : WorkerStep(k)
  \/ PopResponse \/ Consume
  \/ StopResponder \/ DestructorStep \/ Gone

Spec == Init /\ [][Next]_vars

(* A call that began and a worker with work go on; the destructor goes on  *)
(* once begun; the caller keeps calling response(), as every client of the *)
(* library does until its submissions are done.  Nothing makes the caller  *)
(* submit or destroy.                                                      *)
Fairness ==
  /\ \A s \in Submissions : WF_vars(RequestStep(s))
  /\ \A a \in Threads : WF_vars(ThreadStep(a))
  /\ \A k \in Workers : WF_vars(WorkerStep(k))
  /\ WF_vars(PopResponse)
  /\ WF_vars(Consume)
  /\ WF_vars(DestructorStep)

FairSpec == Spec /\ Fairness

-----------------------------------------------------------------------------
(* Properties *)

(* The buffers of a submission reported done are the caller's again: no    *)
(* worker has a read in flight for it, none is still to start one.         *)
DoneFreesBuffers ==
  \A s \in done :
    /\ \A k \in Workers : pc[k] \in {"read", "reading"} =>
         \A t \in rest[k] : SubmissionOf[RangeOf[t]] # s
    /\ \A t \in Tasks : SubmissionOf[RangeOf[t]] = s => t \in finished

(* ASSERT in SubmissionsMgr::consume, and the error of push: a response    *)
(* that is queued, or popped and not yet consumed, was expected by the     *)
(* responder and belongs to a live submission that still counts at least   *)
(* that many, also when dispatch fails half way.                           *)
ResponseIsOwed ==
  /\ ~unexpected
  /\ \A s \in Submissions :
       LET queued == {i \in DOMAIN responses :
                        SubmissionOf[responses[i].range] = s}
           popped == IF /\ consumer = "consume"
                        /\ SubmissionOf[LastPopped.range] = s
                     THEN 1 ELSE 0
           owed == Cardinality(queued) + popped
       IN  owed > 0 => s \in DOMAIN registry /\ owed <= registry[s]

(* A response says Success only when every task of its range succeeded,    *)
(* and otherwise a code that one of its tasks was finished with, also when *)
(* several workers finish tasks of the range at once.                      *)
ResponseIsTruthful ==
  \A i \in DOMAIN responses :
    LET verdicts == {verdict[t] : t \in TasksOf(responses[i].range)}
    IN  IF verdicts = {"Success"}
        THEN responses[i].ret = "Success"
        ELSE responses[i].ret \in verdicts \ {"Success"}

(* Each response that is queued is owed to the caller and true. *)
ResponsesAreRight == ResponseIsOwed /\ ResponseIsTruthful

(* A submission that was registered is reported done, whether its reads    *)
(* succeed, fail or were never dispatched, unless the streamer is torn     *)
(* down first or a response of this very submission found no memory: then  *)
(* the drain is best effort, as async_request says, and so is a worker.    *)
EverySubmissionEnds ==
  \A s \in Submissions :
    (request[s] = "dispatch") ~>
      (s \in done \/ teardown # "open" \/ lost \cap RangesOf(s) # {})

(* The destructor returns: every worker leaves, wherever it was. *)
TeardownEnds == (teardown = "responder") ~> (teardown = "joined")

(* The responses the caller's response() has fully returned. *)
Consumed ==
  LET n == Len(delivered) - (IF consumer = "consume" THEN 1 ELSE 0)
  IN  {delivered[i].range : i \in 1 .. n}

(* async_request committed to the submission. *)
Accepted(s) == request[s] # "new" /\ result[s] # "Rejected"

(* The streamer implements the contract: one response per range of an      *)
(* accepted submission, none of any other, done with the last, whatever    *)
(* fails in dispatch, open or read.                                        *)
Contract ==
  INSTANCE SubmissionContract WITH
    accepted <- {s \in Submissions : Accepted(s) /\ RangesOf(s) # {}},
    owed <- {r \in Ranges \ Consumed : Accepted(SubmissionOf[r])}
ImplementsContract == Contract!Spec
=============================================================================
