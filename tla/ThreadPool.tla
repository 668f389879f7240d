------------------------------ MODULE ThreadPool ------------------------------
(***************************************************************************)
(* utils::ThreadPool and its Deque (cpp/utils/threadpool/threadpool.h),    *)
(* from the constructor that spawns the threads to the joins of the        *)
(* destructor.  A pool is built with a Handler (each thread pops a request *)
(* and handles it) or with a WorkerFactory (each thread keeps requests in  *)
(* flight and interleaves them); perWorker tells which.  The semaphore     *)
(* post of Deque::push and those of Deque::stop are outside the mutex and  *)
(* are steps of their own.                                                 *)
(***************************************************************************)
EXTENDS Naturals, Sequences, FiniteSets

CONSTANTS
  Size,         \* number of threads
  Requests,     \* requests pushed, each once, each by a thread of its own
  SpawnFailsAt  \* threads (1 .. Size) whose creation may throw

ASSUME ThreadPoolAssumption ==
  /\ Size \in Nat \ {0}
  /\ IsFiniteSet(Requests)
  /\ SpawnFailsAt \subseteq 1 .. Size

Threads == 1 .. Size

VARIABLES
  perWorker,  \* which constructor built the pool
  phase,      \* where the pool's owner is
  spawned,    \* threads created so far
  stopPosts,  \* posts Deque::stop still has to make
  sem,        \* Deque::_sem
  deque,      \* Deque::_deque
  dequeStopped, \* Deque::_stopped
  unposted,   \* requests pushed whose post is still to come
  pushed,     \* history: requests pushed so far
  pc,         \* [Threads -> stage of routine / worker_routine]
  inflight,   \* [Threads -> requests the thread holds]
  completed   \* history: [Requests -> times the request was completed]

threadPoolVars ==
  <<perWorker, phase, spawned, stopPosts, sem, deque, dequeStopped, unposted,
    pushed, pc, inflight, completed>>

PoolInit ==
  /\ perWorker \in BOOLEAN
  /\ phase = "building"
  /\ spawned = 0
  /\ stopPosts = 0
  /\ sem = 0
  /\ deque = <<>>
  /\ dequeStopped = FALSE
  /\ unposted = {}
  /\ pushed = {}
  /\ pc = [t \in Threads |-> "none"]
  /\ inflight = [t \in Threads |-> {}]
  /\ completed = [q \in Requests |-> 0]

queueVars == <<sem, deque, dequeStopped, unposted, pushed, completed>>
poolVars == <<perWorker, phase, spawned, stopPosts>>

-----------------------------------------------------------------------------
(* The constructor: threads start running as they are created. *)

Spawn ==
  /\ phase = "building"
  /\ spawned < Size
  /\ spawned' = spawned + 1
  /\ pc' = [pc EXCEPT ![spawned + 1] = "top"]
  /\ UNCHANGED <<perWorker, phase, stopPosts, queueVars, inflight>>

Built ==
  /\ phase = "building"
  /\ spawned = Size
  /\ phase' = "built"
  /\ UNCHANGED <<perWorker, spawned, stopPosts, queueVars, pc, inflight>>

(* std::thread throws: the members are destroyed, _threads first, and      *)
(* ~Thread joins; ~ThreadPool does not run.                                *)
SpawnThrows ==
  /\ phase = "building"
  /\ spawned + 1 \in SpawnFailsAt
  /\ phase' = "unwinding"
  /\ UNCHANGED <<perWorker, spawned, stopPosts, queueVars, pc, inflight>>

Unwound ==
  /\ phase = "unwinding"
  /\ \A t \in 1 .. spawned : pc[t] = "exit"
  /\ phase' = "thrown"
  /\ UNCHANGED <<perWorker, spawned, stopPosts, queueVars, pc, inflight>>

(* The next submission builds a fresh pool. *)
Rebuild ==
  /\ phase = "thrown"
  /\ phase' = "building"
  /\ spawned' = 0
  /\ pc' = [t \in Threads |-> "none"]
  /\ UNCHANGED <<perWorker, stopPosts, queueVars, inflight>>

-----------------------------------------------------------------------------
(* Deque::push *)

PushRequest(q) ==
  /\ phase = "built"
  /\ q \notin pushed
  /\ pushed' = pushed \cup {q}
  /\ deque' = Append(deque, q)
  /\ unposted' = unposted \cup {q}
  /\ UNCHANGED <<poolVars, sem, dequeStopped, pc, inflight, completed>>

PostRequest(q) ==
  /\ q \in unposted
  /\ unposted' = unposted \ {q}
  /\ sem' = sem + 1
  /\ UNCHANGED <<poolVars, deque, dequeStopped, pushed, pc, inflight,
                 completed>>

-----------------------------------------------------------------------------
(* The threads *)

(* Mutant of Take: the request is copied, not popped. *)
TakeCopies(t) ==
  /\ ~dequeStopped
  /\ deque # <<>>
  /\ inflight' = [inflight EXCEPT ![t] = @ \cup {Head(deque)}]
  /\ pc' = [pc EXCEPT ![t] = "execute"]
  /\ UNCHANGED <<poolVars, sem, deque, dequeStopped, unposted, pushed,
                 completed>>

(* The critical section of pop and try_pop: the front request is taken and *)
(* handed to the handler or the worker.                                    *)
Take(t) ==
  /\ ~dequeStopped
  /\ deque # <<>>
  /\ deque' = Tail(deque)
  /\ inflight' = [inflight EXCEPT ![t] = @ \cup {Head(deque)}]
  /\ pc' = [pc EXCEPT ![t] = "execute"]
  /\ UNCHANGED <<poolVars, sem, dequeStopped, unposted, pushed, completed>>

(* Mutant of Top: a worker parks without asking whether it is idle. *)
TopParks(t) ==
  /\ pc[t] = "top"
  /\ pc' = [pc EXCEPT ![t] = "wait"]
  /\ UNCHANGED <<poolVars, sem, deque, dequeStopped, unposted, pushed,
                 inflight, completed>>

(* Top of the loop: the handler's routine goes straight to the blocking    *)
(* pop, a worker first tries without blocking.                             *)
Top(t) ==
  /\ pc[t] = "top"
  /\ IF perWorker /\ sem > 0
     THEN /\ sem' = sem - 1
          /\ pc' = [pc EXCEPT ![t] = "try"]
     ELSE /\ UNCHANGED sem
          /\ pc' = [pc EXCEPT ![t] =
                      IF inflight[t] # {} THEN "drain" ELSE "wait"]
  /\ UNCHANGED <<poolVars, deque, dequeStopped, unposted, pushed, inflight,
                 completed>>

TryPop(t) == pc[t] = "try" /\ Take(t)

(* try_pop on a stopped deque gives its token back; the worker goes on to  *)
(* drain, or to the blocking pop when it is idle.                          *)
TryPopStopped(t) ==
  /\ pc[t] = "try"
  /\ dequeStopped
  /\ sem' = sem + 1
  /\ pc' = [pc EXCEPT ![t] = IF inflight[t] # {} THEN "drain" ELSE "wait"]
  /\ UNCHANGED <<poolVars, deque, dequeStopped, unposted, pushed, inflight,
                 completed>>

Wait(t) ==
  /\ pc[t] = "wait"
  /\ sem > 0
  /\ sem' = sem - 1
  /\ pc' = [pc EXCEPT ![t] = "pop"]
  /\ UNCHANGED <<poolVars, deque, dequeStopped, unposted, pushed, inflight,
                 completed>>

Pop(t) == pc[t] = "pop" /\ Take(t)

PopStopped(t) ==
  /\ pc[t] = "pop"
  /\ dequeStopped
  /\ pc' = [pc EXCEPT ![t] = "exit"]
  /\ UNCHANGED <<poolVars, queueVars, inflight>>

(* The thread completes the requests in C and goes back to the top. *)
Complete(t, C) ==
  /\ completed' = [q \in Requests |->
                     IF q \in C THEN completed[q] + 1 ELSE completed[q]]
  /\ inflight' = [inflight EXCEPT ![t] = @ \ C]
  /\ pc' = [pc EXCEPT ![t] = "top"]
  /\ UNCHANGED <<poolVars, sem, deque, dequeStopped, unposted, pushed>>

(* The handler completes its request.  Worker::execute may return with any *)
(* part of what it holds still in flight.  An exception from either is     *)
(* swallowed and ends the turn, not the loop.                              *)
Execute(t) ==
  /\ pc[t] = "execute"
  /\ IF perWorker
     THEN \E C \in SUBSET inflight[t] : Complete(t, C)
     ELSE Complete(t, inflight[t])

(* Mutant of Drain: a set stop flag makes drain return at once, with the   *)
(* requests still in flight.                                               *)
DrainReturnsOnStop(t) ==
  /\ pc[t] = "drain"
  /\ \E C \in SUBSET inflight[t] :
       /\ C = {} <=> phase \in {"flag", "deque"}
       /\ Complete(t, C)

(* Worker::drain waits for completions; when it found the stop flag set it *)
(* aborts everything in flight instead, which is one of the choices.       *)
Drain(t) ==
  /\ pc[t] = "drain"
  /\ \E C \in SUBSET inflight[t] :
       /\ C # {}
       /\ Complete(t, C)

ThreadStep(t) ==
  \/ Top(t) \/ TryPop(t) \/ TryPopStopped(t) \/ Wait(t) \/ Pop(t)
  \/ PopStopped(t) \/ Execute(t) \/ Drain(t)

-----------------------------------------------------------------------------
(* The destructor, when nobody is pushing: stop flag, Deque::stop, joins. *)

SetStopped ==
  /\ phase = "built"
  /\ unposted = {}
  /\ phase' = "flag"
  /\ UNCHANGED <<perWorker, spawned, stopPosts, queueVars, pc, inflight>>

StopDeque ==
  /\ phase = "flag"
  /\ phase' = "deque"
  /\ dequeStopped' = TRUE
  /\ stopPosts' = spawned
  /\ UNCHANGED <<perWorker, spawned, sem, deque, unposted, pushed, pc,
                 inflight, completed>>

StopDequePost ==
  /\ phase = "deque"
  /\ stopPosts > 0
  /\ stopPosts' = stopPosts - 1
  /\ sem' = sem + 1
  /\ UNCHANGED <<perWorker, phase, spawned, deque, dequeStopped, unposted,
                 pushed, pc, inflight, completed>>

Joined ==
  /\ phase = "deque"
  /\ stopPosts = 0
  /\ \A t \in Threads : pc[t] = "exit"
  /\ phase' = "joined"
  /\ UNCHANGED <<perWorker, spawned, stopPosts, queueVars, pc, inflight>>

Gone == phase = "joined" /\ UNCHANGED threadPoolVars

OwnerStep ==
  \/ Spawn \/ Built \/ SpawnThrows \/ Unwound \/ Rebuild
  \/ StopDeque \/ StopDequePost \/ Joined

PoolNext ==
  \/ OwnerStep \/ SetStopped \/ Gone
  \/ \E q \in Requests : PushRequest(q) \/ PostRequest(q)
  \/ \E t \in Threads : ThreadStep(t)

PoolSpec == PoolInit /\ [][PoolNext]_threadPoolVars

(* Threads that can go on do, and so does an owner inside the constructor  *)
(* or the destructor.                                                      *)
PoolFairness ==
  /\ WF_threadPoolVars(OwnerStep)
  /\ \A q \in Requests : WF_threadPoolVars(PostRequest(q))
  /\ \A t \in Threads : WF_threadPoolVars(ThreadStep(t))

PoolFairSpec == PoolSpec /\ PoolFairness

-----------------------------------------------------------------------------
(* Properties *)

(* A request pushed is in the deque, held by one thread, or completed, and *)
(* only in one of these and once.                                          *)
RequestInOnePlace ==
  \A q \in Requests :
    LET queued == {i \in DOMAIN deque : deque[i] = q}
        held == {t \in Threads : q \in inflight[t]}
    IN  Cardinality(queued) + Cardinality(held) + completed[q]
          = IF q \in pushed THEN 1 ELSE 0

(* A pushed request is completed, unless the pool is stopped first. *)
RequestCompletes ==
  \A q \in Requests :
    (q \in pushed) ~> (completed[q] > 0 \/ phase # "built")

(* The destructor's joins return. *)
DestructorReturns == (phase = "flag") ~> (phase = "joined")
=============================================================================
