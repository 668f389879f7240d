# A TLA+ model of the Run:ai Model Streamer

The streamer reads model files from a file system or an object storage into
buffers of its caller, with many reads in flight, and tells the caller range by
range what has arrived. This directory models the C++ library under `src/cpp`
with its storage plugins, and the Python layer under `src/py` that packs files
into a buffer, spreads them over the ranks of a distributed job and downloads
models for several processes. It is checked with TLC on small instances, and part
of it is proved with TLAPS for every instance.

## 1. The system

    SafetensorsStreamer / ObjectStorageModel              Python
       |
    DistributedStreamer --collectives-- other ranks
       |
    FileStreamer + FilesRequestsIterator   (buffer, generator, credentials)
       |  C API: runai_start, runai_request, runai_response, runai_list_files
    -- | ------------------------------------------------------- C++ ---------
       v
    Streamer --Workload--> BackendPools --> ThreadPool --> file workers
       |  registry              |                |
       |  (SubmissionsMgr)      |           ObjectStorageWorker
       |                        |                |  window, chunks
       v                        v                v
    Responder (SharedQueue) <--Response--   plugin client (S3, GCS, Azure)
                                                 |  parts, pool, counters
                                  ClientMgr, backend handle, cache library

| Component | State | Operations | Interacts by |
|---|---|---|---|
| `Streamer` (`streamer/impl/streamer`) | registry, responder, pools, credentials | `async_request`, `response`, `set_credentials`, `list_files`, destructor | called by submitting threads and one consumer; owns all others |
| `SubmissionsMgr` | live submissions, responses each still owes | `add`, `consume` | `async_request` adds, `response` consumes |
| `SharedQueue` = the responder | responses, number expected, stopped, semaphore | `increment`, `push`, `pop`, `stop` | workers push, the consumer pops, teardown stops |
| `Assigner`, `Batches` | plan of one submission | `coalesce`, `assign`, `build_tasks` | pure functions of a request, called by `async_request` |
| `Request`, `Task`, `Batch`, `Workload` | tasks left per range, first error, finished flags | `finished`, `finished_until`, `handle_error`, `execute`, `fail` | shared by the workers of one submission |
| `ThreadPool`, `Deque` | queue of workloads, semaphore, threads | `push`, `pop`, `try_pop`, `stop`, constructors, destructor | runs a handler per request, or a worker per thread |
| `ObjectStorageWorker`, `CapacityWorker`, `CapacityQueue` | window of chunks in flight, workloads in flight | `execute`, `drain`, `enqueue`, `submit`, `drain_batch`, `abort_all` | drives a plugin client; driven by its thread |
| `BackendPools` | the pools, the plugin the streamer is locked to | `lock_object_plugin`, `push` | called by concurrent submitters |
| `S3ClientWrapper`, `ClientMgr`, `S3Stop`, `S3Cleanup` | backend handle and clients of the process | `pop`, `push`, `stop`, `clear` | shared by all streamers of the process |
| plugin clients (`s3`, `gcs`, `azure`) | parts of reads in flight, counters, responder | `async_read`, callbacks, `async_read_response`, `stop`, `list_files` | called through a C interface by workers and listers |
| `AzCacheProviderLoader` | a library handle shared by a weak reference | constructor, `read`, destructor | owned by Azure clients, used by their pool |
| `FileStreamer`, `FilesRequestsIterator` | buffer, active request, submission, chunk indices, credentials | `list_files`, `stream_files`, `get_chunks`, draining | calls the C API; its generator is resumed by the application |
| `DistributedStreamer`, `partition` | group, own part, staging buffer, chunks still missing | `stream_files`, `get_chunks` (prefill, broadcast), exit | collectives with the other ranks |
| `ObjectStorageModel` | lock file, sentinel, directory | constructor, `pull_files`, exit | other processes of the machine, by `flock` |

What is hard in it:

- **Order of steps outside locks.** `push` and `stop` of both queues post their
  semaphore after they leave the mutex; `lock_object_plugin` reads without the
  mutex; `ClientMgr::pop` leaves the lock to create a client; the last owner of the
  cache library destroys it outside the lock that guards the weak reference.
- **Partial failure.** A submission whose dispatch throws half way, a pool that
  cannot start its threads, a workload whose entry cannot be allocated, one chunk
  or part of many that fails, a rank that fails while the others broadcast: in each
  case somebody already waits for answers.
- **Late answers.** Reads that were given up complete later, between those of
  other workloads; a generator that is abandoned leaves reads that write to its
  buffer.
- **Teardown** at any moment: while a consumer sleeps, workers read, a client is
  being made, another streamer uses the same client manager.
- **Crashes** of a process that downloads a model for others.
- **Edges**: files and ranges of no bytes, shares of no bytes, a full or empty
  window, a memory limit that is just the largest range, a byte total that does
  not fit `size_t`.

`PROJECT.json` lists the hazards at their lines with the properties that cover
them.

## 2. Modules

| Module | Models | Composes |
|---|---|---|
| `Responder` | what a `SharedQueue` promises, each operation atomic | |
| `SharedQueue` | the queue with mutex and semaphore | implements `Responder` |
| `SubmissionContract` | what the library promises of a submission | |
| `Streamer` | `async_request`, file system workers, `response`, destructor | uses `Responder`; implements `SubmissionContract` |
| `ThreadPool` | pool and deque, from constructor to joins | the queue that `Streamer` treats as a FIFO |
| `ObjectStorageWorker` | one thread of an object storage pool and its client | |
| `Assigner` | from ranges to tasks | supplies what `Streamer` assumes of tasks and batches |
| `BackendPools` | pools and plugin lock under concurrent submitters | |
| `ClientConfig` | from an application's credentials to what a client uses, per plugin | |
| `BackendClients` | clients of the process, several streamers | uses `ClientConfig` |
| `AzCacheProvider` | the cache library of a process | |
| `PluginClient` | clients of one plugin: parts, pool, counters, window, stop | uses `AzCacheProvider` |
| `Listing` | `list_files` through every storage, under concurrent change | |
| `FileStreamer` | Python session, packing, generator, credentials, C API | uses `Listing`; its C++ streamer is what `SubmissionContract` promises |
| `Partition` | `partition.py` as functions | |
| `DistributedStreamer` | ranks, groups, broadcast rounds | uses `Partition` |
| `ObjectStorageModel` | download of a model by several processes | |
| `QueueProofs` | theorems about `SharedQueue` and `ThreadPool` | |
| `LockProofs` | theorems about `BackendPools` and `ObjectStorageModel` | |
| `StreamerProofs`, `ObjectStorageWorkerProofs`, `AssignerProofs`, `BackendClientsProofs`, `PluginClientProofs` | theorems about the module they are named for | |
| `FileStreamerProofs` | theorems about `FileStreamer` and `Listing` | |
| `MC*` | instances for TLC | |

The comment above a definition says what it stands for; `PROJECT.json` gives the
source lines. A definition whose comment begins with *Mutant of* is a plausible
bug in the definition it names; it is in no specification and serves to show that
a property would notice.

**SharedQueue.** One action per critical section of `shared_queue.h`; the post
after it is an action of its own (`PushPost`, `StopPost`). `pop` has four stages:
`PopEnter` (stopped?), `PopFinished` (drained? only in `FINISH_ON_DRAIN`), the wait
(`PopWait`, `PopTimedOut`) and `PopTake`. `mode` is an argument of the constructor:
`Init` chooses it, nothing changes it. There is one consumer, as the code requires.
The bandwidth statistics of `push` are left out.

**Streamer.** `async_request` is `Reject`, `EmptyRequest` or `Register`, `Announce`,
`Dispatch` per workload and `Dispatched`; `DispatchThrows` leads to the drain of
what is left (`DrainWorkload`, `Drained`), run by the submitter's own thread with
the same batch code as a worker's. A worker takes a workload, goes through its
batches (`OpenFile`, `StartRead`, `ReadTasks`, `ReadFails`, `ReadStopped`), and
finishes tasks one by one: `FinishTask` (flag and error), `CountDown`
(`fetch_sub`) and `Respond` are separate because two workers can share a range.
The push of a response may throw (`RespondThrows`): a read goes on as one that failed,
a loop of `handle_error` is left, and who called it, the pool's routine or
`drain_undispatched`, swallows what was thrown. `lost` remembers the ranges whose
response this cost.
`response` is `PopResponse` and `Consume`, since the pop and the registry have
different locks. Submissions, ranges, tasks, batches and workloads are constants
with the relations that `Assigner` establishes. A `response` that
ends with `TimedOut` or `FinishedError` changes nothing and is a stuttering step.

**ThreadPool.** `perWorker` says which constructor built the pool. A thread is in
`Deque::pop`, `Deque::try_pop`, `execute` or `drain`; which requests a `drain`
completes is left to the worker (any of those it holds). A thread that cannot be
created sends the constructor to "unwinding", where the threads already made are
joined.

**ObjectStorageWorker.** A workload is a sequence of chunks, each with the handle
that `enqueue` gives it; sizes do not matter once the chunks are cut. `Discard`
(no client or no window), `Enqueue`, `EnqueueEmpty` and `EnqueueThrows` are the
arrivals, `Loop`/`Submit...`/`PumpDone` the pump, and the drain is one of `DrainAborts`
(the pool is stopped) and `DrainWaits`: from there the thread is in the client's wait,
where a stop of the pool does not reach it, until the wait returns completions or the
end (`AsyncResponse`, then `Event...` one by one) or fails (`WaitFails`). A stop can
come at any point of this. The client is modelled as the worker uses it: a read is
issued, refused, or both while a stop is under way (`s3/client/client.cc`; `doubled`
remembers it); completions arrive in any order or never; `async_read_response` of a
client that is stopped or has nothing running says so, and wakes who waits. A storage
error is one value, `"ReadError"`.

**Assigner.** One action per iteration of the loops of `coalesce`, `assign` and
`build_tasks`, with the code's arithmetic; `MaxBytes` is the largest `size_t`. `Consume`
is one round of `Batches::handle_request`, with what the loops around it do next.

**BackendPools.** Each access to `_ready_plugin`, `_plugin_mutex`, `_plugin`, the pool
pointers and the once flag is a step. A submission is the set of backends it reads,
and those of its files without ranges, which do not count.

**ClientConfig.** Functions, one per step of the way a credential takes: `Credentials`,
`Params::to_config`, the members of each plugin's client (with the environment it
reads), `verify_credentials`, and what the requests of a client then use. S3 compares
all members; Azure compares them after the environment was merged; GCS says that
any client will do.

**BackendClients.** Clients are addresses that can be reused after `clear`.
`ClientMgr::pop` is `PopReuse` or the creation outside the lock followed by the
registration; `S3Stop` stops every client, `S3Cleanup` clears those not in use.
Every plugin in the repository has the shutdown policy `ON_PROCESS_EXIT`, so the
backend handle, once made, stays.

**PluginClient.** A read is `BeginRead`, one `SubmitPart` per part (`NumParts`:
one for S3, `length / chunk` for GCS and Azure, the last part takes the rest), and
`EndRead`, which looks at `_stop` again. A part is queued, running, and then read
(`PartReads`: count down) or failed (`PartFails`: exchange `is_success`). An object may
end inside a range (`ObjectBytes`): S3, GCS and the Azure cache refuse a part they cannot
read whole, Azure without a cache ignores the length of what it got (`LengthUnchecked`)
and refuses only a part that begins past the end, so `arrived` may lack bytes. The answer
is a step of its own (`Reply`), and so is the end of the task object (`EndTask`), which
for Azure holds the last reference to a cache loader. A worker's `async_read_response`
takes one answer (`WaitOne`), a batch (`WaitMany`) or learns that nothing is running or
that the client was stopped (`WaitFinished`). `stop` is `StopFlag` and `StopResponder`.
What the window advertises is the process's and not the client's
(`g_max_inflight_bytes`); `Window` is the worker's division of it by its own chunk.

**AzCacheProvider.** Loaders, the `CacheLibHandle` they share, and the library's
`shutdown`, which runs in the destructor of a handle: after the mutex was released
when the last owner goes, and inside the constructor of a client that fails.

**Listing.** One page per step; other writers put and delete between pages. The keys of
an instance are described by what a listing can tell about them: in the prefix, below
a further `/`, a directory marker, matched by a pattern. Keys are numbered in the order
of their names, which is the order of an object storage's pages. `results` says how often
each key is in the answer: nothing downstream depends on the order of the entries.

**FileStreamer.** A file has the two parallel sequences of offsets and sizes; the buffer
maps each byte to the byte of a file it holds. The iterator's queue of files only loses
files at its head, so `queue` is the first file that is left. `Packing` is the loop of
`next_request`, as the function from a file to what the request is after it; `Order`,
`FlatSizes`, `FlatOffsets` and `RangeDsts` are the flat C arrays, and `SubmitRequest` takes
them apart as `submit_request` does. `gen` is the
state of the generator: suspended at a `yield`, running, draining in its `finally`
after an exception or a close, or leaving a request whose response was `None`.
`runai_response` gives `None` for every response that says `FinishedError`: the range
of an object storage whose client was stopped by another streamer (`Codes`) is one,
and the loop then returns without an exception (`NextChunkNone`), drains up to the next
`None` (`DrainResponse`) and goes on to the next request. `cut` remembers it. Each
`stream_files` is given credentials of its own; `asked` is what the session's calls were
given, in the order of their first use.
The application keeps to the protocol: it starts a stream when the generator before
has ended or was closed, iterates what it started, and leaves the session after an
exception of a submission.

**Partition, DistributedStreamer.** The partition is what the code computes, with its
stable sorts and the choice of the emptiest part. A rank's calls of collectives are a
sequence, `ops`; the n-th call of a rank belongs to the n-th of the others and completes
if they are alike. A broadcast completes in a receiver when the root has called; the
root does not wait (an abstraction: gloo and NCCL may make it wait, which adds no order
between ranks that the receivers do not already see). The 4-column metadata are
records; alignment padding is bytes of its own. A timeout measures time and not
progress: besides a collective that can never complete (`TimesOut`), a rank may give up one
whose other ranks are only slow (`TimesOutEarly`). The `FileStreamer` of a rank may fail
(`StorageFails`) or end before its last range (`StorageEnds`). A slow rank and an early end
come before anything else goes wrong (`Undisturbed`, a bound), and any number of failures
and early exits may follow.

**ObjectStorageModel.** One action per call of `flock`, test of the sentinel, removal of
a file, write of a file (first partial, then whole). The conversion from exclusive to
shared lock is two steps, as in Linux. A process may raise or be killed anywhere.


## 3. Runs

| Run | Instance | What it shows |
|---|---|---|
| `queue` | both modes, 2 producers, 2 stoppers, 3 responses | tokens and responses match at every interleaving; a pop never sleeps on a drained queue and returns once there is a response or a stop; refinement of `Responder` |
| `streamer` | 2 submissions, 3 ranges, 4 tasks, 4 workloads (one empty), 2 workers | done only when buffers are free; truthful results; refinement of `SubmissionContract` |
| `streamer_live` | 1 submission of 2 ranges over 2 workloads, 1 without ranges | every registered submission is done unless a response was lost to a failed allocation; the destructor ends |
| `thread_pool` | 2 threads, 3 requests, both constructors, a first thread that fails | a request is in one place; it completes; the destructor ends |
| `worker` | 2 workloads of 4 chunks, or of none, window 2, rounds of up to 2 events | the window counts what is in flight; nothing is lost; Success means read; a failure waits for the reads of its task; every task is reported if the storage answers; the thread ends after a stop, also when the storage does not answer and the client was stopped under its wait |
| `assigner` | every request of up to 3 ranges over 2 files from 4 offsets, 3 sizes and 2 kinds of destination; 3 workers, blocks of 2 bytes, `size_t` up to 7 | ranges are tiled exactly; a batch is one contiguous read; the checks of the code are right |
| `pools` | 3 submitters, 2 plugins, file system, mixed and empty submissions | the plugin lock is sound |
| `clients` | 2 streamers that come and go, 2 workers, 1 lister, 3 addresses, 3 plugins' rules for credentials | clients are accounted for, each used by one; reads are made with the streamer's own credentials |
| `plugin` | 12 setups of up to 3 clients of S3, GCS or Azure; reads of 5 and 2 bytes in one or two parts, of objects of 7 bytes and of 3; Azure with cache library A, B or none | a read is answered once, with Success only when all its parts were read and what the object has of it was written; a quiet client has answered; the cache library lives as long as it is used; every read ends |
| `file_streamer` | 13 setups of 2 sessions of 2 streams: memory limits -1, 0, too small, 3 and 2, empty files and ranges, none, A or B as credentials of each stream with boto3 off, finding others or none, listings of 6 keys in pages of 2 | what the application is handed is what the file holds, each range once; no buffer is reused under a read; the limit holds; the listing is right; an iteration ends |
| `object_model` | 3 processes with 2 attempts each, 2 files | one process pulls at a time; a sentinel means a whole model; users never see it change |
| `distributed` | 3 ranks on 2 machines, 3 ranges, a buffer of 3 bytes, alignment 2, batches of 2 chunks, both partition policies and both kinds of group | every rank yields every range once with the right bytes; a rank fails or waits for a timeout only when storage failed or ended early, an application left, a device alone was low on memory or a rank was slower than the timeout; whatever happens, every rank ends |

**Bounds.** Two threads are needed for a race and a third in `pools` for a submitter that
comes after a race was decided. In `Streamer` a range cut between two workers, a workload with
two tasks in one batch, an empty workload and a second submission are the smallest instance in
which a range can be finished by two threads, a batch can fail after one of its tasks was
finished, and responses of two submissions mix. `MaxRunning` limits how many responses a queue
ever expects, `MaxLive` how many streamers exist at a time; a slot of a streamer is reused
without limit. In `ObjectStorageWorker` each workload arrives once, which bounds the handle
counter; one task has two chunks and one has none, so a task can fail with a chunk still in
flight. The sizes of `Assigner` include 0, a size below, at and above the block size, and
totals above `MaxBytes`. In `PluginClient` the longer read is larger than two chunks, so that
its last part takes a remainder, an object of 3 bytes ends inside the second of its two parts,
and the environment changes once (`NextEnv`), from one cache library to another. In
`FileStreamer`, `MaxStreams` and `MaxSessions` are 2: a buffer, a set of credentials or a
suspended generator can be left over from one and met by the next; other writers touch a key
once while a listing runs. In `ObjectStorageModel`, `MaxAttempts` is 2, so that a process can
be killed and come back, among two others that wait with different locks. Three ranks in
`DistributedStreamer` give a group of two with its own leader beside a group of one. Symmetry
is used only where nothing in the module distinguishes the elements and no liveness is
checked.

**Fairness.** Weak fairness of what the operating system schedules: a thread that is inside an
operation goes on. It is never assumed that a caller submits, pops, stops or destroys, with
one exception: in `Streamer`, the caller keeps calling `response()`, as the contract of the
library asks. In `SharedQueue` the consumer must finish a `pop` it began. In
`ObjectStorageWorker` the thread and the call of a stop go on. That the storage answers each
read in the end (the SDKs have time limits), with success or an error, is `LiveStorage`:
`TaskIsReported` assumes it, and so does the part of `StopEndsThread` about a client that
nobody stopped; when the client was stopped the thread ends without it. That a wait fails is
never assumed. In `PluginClient` the threads of the pool read their parts, with success or an
error. In `ThreadPool` a thread goes on, which includes that `drain` completes what it holds.
In `FileStreamer` an iteration that was begun is carried on by the application (`Progress`),
not begun; what follows a `None` is excused, since the drain may then wait for a response that
never comes. In `ObjectStorageModel` each process goes on with what it is doing; it need not
try again. In `DistributedStreamer` some rank that can go on does, which suffices since a rank
that cannot waits for another; the timeout of a collective that cannot complete is among these
steps, that of a slow one is not. No strong fairness is used.

Deadlock is checked in every run but those of `FileStreamer`, `ObjectStorageModel` and
`DistributedStreamer`: there the application may simply have nothing more to do.

## 4. Proofs

Eight modules hold the theorems; each result below is for every value of the constants
that the named assumption of the module admits. `QueueProofs` has two parts, on the
responder queue and on the pool and its deque; so has `LockProofs`, on the plugin lock and
on the lock file of a download. To share a module, the two models of a part use different
names (`PoolSpec` and `ModelSpec` beside `Spec`).

`QueueProofs`, on `SharedQueue`, for any finite sets of producers and stoppers, any responses,
both modes and any `MaxRunning`:

- `TypeCorrect`: types.
- `TokensCorrect`: `TokensMatchResponses`. With `TypeOK` it is inductive. Before a
  stop the semaphore's value, the posts still to come and the token a consumer
  holds add up to the queued responses; after it there is one more, until the
  consumer has returned. The posts still to come are the cardinality of the sets
  `posting` and `stopping`, hence `FiniteSetTheorems`.
- `TakeCorrect`: the assertion in `pop`, from `TokensCorrect`.
- `AccountingCorrect`: expected, queued and delivered responses add up.
- `NeverWaitsOnDrainedCorrect`: what `finished()` saw stays true until the consumer
  itself pops, since only it takes responses away.
- `Refinement`: `Spec => ImplementsResponder`. Critical sections map to the atomic
  operations, posts and waits to stuttering.

`StreamerProofs`, for any submissions, ranges, tasks, batches, workloads and workers that
`StreamerAssumption` admits (finite sets, indexes that are natural numbers, error codes
that are none of the reserved ones): `TypeCorrect`, `DoneIsSafe` (`DoneFreesBuffers`),
`ResponsesCorrect` (`ResponsesAreRight`) and `ContractHolds`, that `Streamer` implements
`SubmissionContract`. The invariant has three layers, each proved from those before it:

- `Work`: every workload is undispatched, in the deque or with one thread; every batch
  with one thread; a task that is finished was taken from all of these (`BatchesAreSplit`,
  `CurrentIsOwn`, `TasksAreInBatch`, `FinishedWasTaken`). This is why the two visits of a
  task, by the read and by `handle_error` or by the drain of a failed dispatch, never
  finish it twice.
- `Answers`: `left` of a range is the number of its tasks that no thread has subtracted
  yet (`Countdown`), so one thread alone sees zero (`LastResponds`) and pushes the one
  response of the range (`AnsweredOnce`), whose code is that of some failed task or of
  none (`CodesAreTrue`). A task that is finished and not yet subtracted counts as open,
  which is what the pause between noting its code and the countdown of its request needs.
- `Accounts`: the registry has the submissions that still have a range not consumed, with
  the number of these (`RegistryIsLive`), and the responder expects exactly what was
  announced and neither queued nor popped (`RunningIsExpected`).

All of it holds whatever `RespondThrows` loses: a lost response is one that is expected for
ever, so its submission is never done, and no other is done in its place.

`DoneIsSafe` then reads: done means that all ranges are consumed, hence answered, hence
their tasks are finished, hence in no batch that anybody reads. For the refinement,
`MappedState` says which accepted submissions and ranges the contract sees, and
`StepMaps` that `Register` accepts, `Consume` delivers and all other steps stutter.

`QueueProofs`, on `ThreadPool`, for any number of threads, any finite set of requests and any
threads that cannot be created: `OnePlace`, that is `RequestInOnePlace`. The counts of the
property are no induction hypothesis a prover can use, so the invariant says the same by
equality: no request is twice in the deque (`QueuedOnce`) or in two threads (`HeldOnce`), one
that is in either is not completed, and one that is in neither was completed once if it was
ever pushed (`CompletedOnce`). `PushIInv`, `TakeIInv` and `CompleteIInv` are the three steps
that move a request; all others are covered by `Frame`.

`ObjectStorageWorkerProofs`, for any finite sets of workloads and tasks, any layout of their
chunks, any window, size of a wait and allocation failures that
`ObjectStorageWorkerAssumption` admits, and any stop before, in or after a wait:
`TypeCorrect`, `SuccessMeansRead` (`SuccessIsRead`), `FailuresWait` (`FailureWaitsForReads`),
`NothingLost` (`NothingIsLost`) and `WindowIsExact` (`WindowCounts`). The invariant has four
layers:

- `Places`: workloads have blocks of handles that do not overlap, and a handle is pending,
  at the storage, in the responder or in the round of events, and there once.
- `Counts`: a live workload has as many open tasks as it has tasks with chunks to settle,
  and at least one; what is left of a task (`remaining`) is the number of its chunks that
  are under way.
- `ReportsAreRight`: what has been told about a task, and that a workload which left was
  reported task by task.
- `UsedIsFlying`: the window counts the handles that are under way and still belong to a
  workload.

The weight is in `Counts`. While nobody stops the clients the count is exact. When a stop
overlaps a submission, the client may issue a read and refuse it: the worker settles the
chunk, and its completion, should it still be drained, would settle it a second time. The
count may then be too small, and a task be reported while reads of it go on. It is still
never reported a success: such a task has an error (`SettledTwice`), and what is pending of
it fails in the same pump, so that the count never falls below what is pending. Writing
this proof showed that `EnqueueThrows`, as first modelled, had a `CASE` whose guards
overlapped; it is now the order of the code's allocations.

`PluginClientProofs`, for any plugin, clients, sizes of tasks, objects and chunks, pools and
cache libraries: `AnswersAreWhole` (`AnswerIsWhole`), `AnsweredAreQuiet` (`AnsweredIsQuiet`) and
`CacheOutlives` (`CacheOutlivesReads`). Three layers:

- `Requests`: the parts of a read are submitted in order, and the deque holds parts that no
  thread has started, each once.
- `Answers`: there is a set of parts that were read such that the counter is the number of
  parts minus its cardinality and the bytes that arrived are what the object has of them; each
  of them was one the storage could serve (`Readable`), and a part that failed is not in it
  (`HaveBeenRead`). So as long as a part is under way the counter is positive, and
  when it is 1 no part failed (`RunningCounts`): the callback of the last part that is read
  and that of the first that fails cannot both find themselves entitled to answer
  (`NoAnswerYet`). The counter is 0 only when the set is that of all parts, whose bytes are
  the range (`PartsCoverRange`: the arithmetic of the split, with its floor of one part and
  the rest in the last). So a Success means that what the object has of the range was
  written, which is the whole range when the plugin checks lengths, and for Azure without a
  cache only says that every part begins inside the blob.
- `Libraries`: a client that refers to its loader, or left a task in the pool that does,
  owns the loader's handle (`LoaderIsKept`); two handles that are open and owned are never
  of the same library (`HandlesAreApart`), so the `shutdown()` that ends one of them is not
  that of a library somebody reads through.

A constructor that throws releases its handle after the mutex. The last part of the argument
is that no handle of the same library can be made in between: a constructor throws although
there is a handle only when the environment has changed to a library that cannot be loaded
(`Frozen`), and it changes once (`ChangeEnv` in `AzCacheProvider`). An environment that
changes back at that moment is outside the model and outside the theorem.

`LockProofs`, on `BackendPools`, for any submitters and submissions and any finite set of
plugins: `TypeCorrect`, `DispatchCorrect`, `PluginCorrect`, `OnePoolCorrect`,
`RejectionCorrect` and the action property `LockCorrect`. None of these is inductive.
`IInv` adds: who is between lock and unlock is the holder of the mutex
(`MutexHeld`); what is left of a submission after `Classify` is one backend
(`SingleBackend`); the lock is built in the order pool, plugin, ready, and the state
of the holder says how far it is (`LockOrder`); one thread at most is in the
function of `call_once` (`OnceOrder`). `StepIInv` shows that every action keeps it.
The assumption `BackendPoolsAssumption` says that the plugins are finitely many,
differ from the file system and from `None`, and that submissions are made of
backends; TLC evaluates it in `pools`.

`BackendClientsProofs`, for any streamers, workers, listers, addresses and plugins:
`ClientsCorrect`, that is `ClientsAreAccounted`. Its first part, that the last streamer
leaves no client behind, is not inductive: `clear` may give up. The invariant says why it
may: a client that is not unused is in the wrapper of a user (`InOnePlace`), that user's
streamer lives and has its `S3Cleanup` (`WorksForLiving`, `MembersOrder`), so whenever there
are clients somebody will clear them (`ClientsHaveOwner`). `CleanUpIInv` is the step where
these meet.

`CredentialsCorrect`, that is `CredentialsAreTheStreamers`, follows from two invariants on
top of these. A user at work wants what its streamer was given, or nothing if that came
later (`WantsOwn`), because credentials are set once in the life of a streamer and reset when
nobody works for it. The client it has uses what it wants (`HasWanted`): one that was made
for it does, and one that is reused was verified. What `verify_credentials` compares is less
than what a client is made from, so each plugin has a lemma that it is enough
(`S3VerifiedUses`, `AzureVerifiedUses`; GCS has no credentials of an application). Azure's
needs that no parameter is the empty string, since `verify_credentials` compares after the
environment was merged and `to_config` skips what is missing (`NoNulls`).

`LockProofs`, on `ObjectStorageModel`, for any processes, files and number of attempts:
`ModelTypeCorrect`, `LockExcludes`, `SentinelIsTrue`, `UsersAreSafe` and the action property
`CompleteStays`. The invariant they follow from, `IInv`, says besides types and the
exclusion of locks: a process that is about to clean, pull or write the sentinel holds
the exclusive lock and there is no sentinel (`Absent`); one that goes on to the shared
lock or uses the model has seen or written it (`Present`); what a puller has finished is
in the directory (`Pulled`); while it pulls, the directory has nothing but the model's
files (`OnlyStored`), which is why a sentinel written at the end is beside a whole model
(`SentinelMeansWhole`). The weight of the argument is the conversion of the lock, where a
process holds nothing for a moment: it survives because only the absence of a sentinel
makes anybody clean, and nobody removes a sentinel but by cleaning.

`AssignerProofs`, for any requests whose ranges come file by file, any number of workers
and any block size: `ChecksCorrect` (`ChecksAreRight`) and `PlanCorrect` (`PlanIsExact`).
The invariant has a layer for each loop, and all of them count bytes from the first range
of the request on, so that the arithmetic of one layer is that of the next:

- `Coalesced`: the transfers so far cover the ranges so far, each a run of ranges that
  are adjacent in the file and in memory (`Covers`), and `total` is the sum of their sizes.
- `Assigned`: the slices of a transfer tile it in order (`SlicesCover`), and what has been
  handed out is the shares of the workloads before this one and `assigned` of its own
  (`Share`). That the last workload is reached no sooner than the last byte is where the
  remainder of the division goes to workload 0 (`Target`): the shares of all workloads are
  the total, so `workload_index` stays below the number of workloads and no transfer is
  left short at the end.
- `Built`: the cursors of `BatchItr` and of the range stand at the same byte of the transfer
  (`placed`), so a range that has bytes left finds a slice that has some, or a next slice.
  `RangeTiled` says that the tasks of a range tile what of it was placed, and `SliceFilled`
  that those of a slice fill what of it was used.

`FileStreamerProofs`, for any files, ranges (empty ones and none), memory limits, credentials,
keys and pages, and any number of sessions and streams: `ListingCorrect` (`ListingIsExact`),
`WritesCorrect` (`WritesAreInLiveBuffer`), `ChunksCorrect` (`ChunksAreTheRanges`),
`StreamCorrect` (`StreamIsComplete`) and `CredentialsCorrect` (`CredentialsReachReads`). What
a `None` cuts short (`cut`) is excused in the second and the third, and in the fourth as far
as it says that nothing is missing; that no range is yielded twice, and what the reads are
made with, hold after a `None` too. The lemmas come first. Sums and the flat arrays: the
destinations that the cursor gives are apart and end at the total (`RangeEnds`,
`RangesApart`), the pair of a file and an index finds its range again (`RangeFacts`). Packing:
`RequestAfter` says what the request is after each file of the queue, and `PackedStep` that
one more file keeps it. A request is empty only when no file has a range left, which needs
that the limit is no smaller than the largest range (`LimitFacts`): an empty request means the
end of the stream to the caller. Then the invariant, which has four parts: that of a listing
(`ListInv`), what holds in any session (`Once`), what holds until a response was `None`
(`Streaming`) and the credentials (`Credentialed`).

- `ListInv`: with `Pages`, what was found is what lies before the last page, and an
  untouched key that is not found comes after all that were (`FirstComeFirst`: a page is the
  first keys that remain).
- `Once`: a response is of a range that was not yielded yet, or of an earlier submission, which
  `request_ready_chunks` tells by the number of the submission; and chunks after `next` were not
  yielded. This survives a drain that stops short and leaves responses to the next request.
- `Streaming` is the rest. `RequestIsCut`: the request is, of each file, the ranges between
  `chunkIndex` and `next`, and it fits in the buffer. `Advanced` of it is `next` again
  (`AdvancedIsNext`), so the indices of the following request begin where this one ends.
- `CountIsExact`: what was yielded is everything before the request and as many ranges of
  it as responses were consumed.
- `NothingIsLost`: every range of the submission is in flight, answered or consumed, so the
  loop and the draining wait for exactly the responses that come.
- `ViewsAreYielded`: a chunk the application holds is a range that is owed no longer, so
  nothing in flight overlaps it.
- `Quiet`: when no generator is active, nothing is in flight. This is what the `finally`
  of `request_ready_chunks` is for: without it `StreamFiles` would not keep `NothingIsLost`.
- `Credentialed`: what the C++ streamer has, and with boto3 what the session has resolved, is
  `InForce`: a function of what the calls of this session were given, in their order. Without
  boto3 it is the first that was not empty (`LeastGiven`, `SomeGiven`), with it what the first
  call that touched S3 gave or found; one more call changes neither (`AskedOnceMore`).

Writing this proof took two strengthenings that no property states: that an idle listing has
found nothing, and that there is no active generator before the first stream.

**Induction.** The library's induction theorems cannot be used: they take the property as
an operator. Where a lemma needs induction (over the prefixes of a sequence, over the files
of a queue), the two modules above state it for a set of numbers and prove it from the
well-foundedness of the order on the naturals (`Induction`). The sums, the flat arrays and
the packing are recursive functions, for each of which a lemma says that it is defined and
what its steps are (`SumIsDefined`, `FlatIsDefined`, `PackingIsDefined`); with these facts no
proof looks at a recursive definition again.

Only model-checked:

- liveness (`PopReturns`, `EverySubmissionEnds`, `TeardownEnds`, `RequestCompletes`,
  `DestructorReturns`, `TaskIsReported`, `StopEndsThread`, `ReadsAreAnswered`,
  `GeneratorReturns`, `AttemptsEnd`, `EveryRankEnds`), since the prover does not reason
  about fairness;
- `StreamIsExact` and `FailureHasCause` of `DistributedStreamer`: not proved, not known to be
  unprovable. Both need the exactness of the plan first (every chunk in exactly one slot),
  and `Partition` computes the plan with the stable sorts and folds of the community
  modules, about whose values no library theorem says anything and the prover has no
  induction; it would have to be restated as ordered lists built by least elements. On top
  of that comes an invariant of the exchange between the ranks (what a sender has left, what
  a root has sent, what a receiver has counted). Until then both hold on the instance of
  the run `distributed` only.

The inductive invariants were model-checked on the instances of the runs before they were
proved.

## 5. Where code and documentation differ

Where a property excuses one of these, or a model leaves it out, the entry says so.

1. A comment in `backend_pools.cc` (lines 61-65) relies on the constructor of
   `ThreadPool` throwing when a thread cannot be created. From the second thread on it
   hangs instead: the first is joined by unwinding, and nobody stopped the deque it
   waits on. The instance of `thread_pool` has a first thread that fails; give it
   a second one that does (`SpawnThrows`) and `Unwound` is never enabled.
2. `S3Client::async_read` may issue a read and then return `FinishedError` because a
   stop came in between. The chunk is then completed by the error and again by its
   event, against the assertion in `object_storage_worker.cc:261`. The model has both;
   with a window of 3 TLC meets the assertion (`EventAsserts`). `TaskIsReported` excuses
   behaviours in which it happened (`doubled`), since tasks are then counted twice.
3. `S3Stop` of one streamer stops all clients of the process. Reads of another, running
   streamer end with `FinishedError`, which `streamer.cc:159-160`, `streamer.h:62` and
   `file_streamer.py:209` promise only on teardown. `FileStreamer` takes the response for
   teardown: `request_ready_chunks` returns without an exception, so the stream may end with
   ranges missing; the response is not counted, so the drain may wait for one that never
   comes; and the drain itself ends at the next one, although "the submission must be drained
   however this generator ends" (`file_streamer.py:250`), with reads left that write to a
   buffer the next stream frees. `StreamIsComplete`, `WritesAreInLiveBuffer`,
   `ChunksAreTheRanges` and `GeneratorReturns` excuse a session after its first `None`
   (`cut`). The FileStreamer of a rank that ends so makes all ranks of a distributed stream
   raise "No chunks to read".
4. When the first allocation of `ObjectStorageWorker::enqueue` (`_inflight.emplace`)
   throws, the workload is in no entry, `abort_all` does not see it and its responses
   never come, although the comment there says "this one included"; `NothingIsLost`
   excepts exactly these workloads (`dropped`).
5. A backend handle that is never dropped serves a later streamer for another kind of
   storage with the plugin of the first.
6. When the path of the Azure cache library changes from A to B and back while a client
   of the first A lives, two handles of one library exist, and the end of the first
   shuts the library down under the second (`azcache_provider_loader.h:55-57`).
   `NextEnv` changes the path once and never back.
7. `file_streamer.py:90` says the credentials are resolved once. Without a boto3 session,
   the default, `s3_session` stays `None` and they are resolved on every call; and a
   `stream_files` with credentials B after one with A, or after a listing that resolved
   them, silently keeps the first. `CredentialsReachReads` states this: reads use what is
   in force in the session, not what their own stream was given.
8. Azure does not look at what `DownloadTo` returns (`async_azure_client.h:51`), and the SDK
   clips a range to the end of the blob: a read of more than the blob has, without the
   cache, is answered Success with part of its destination not written, where
   `tests/cases/testcases.py:394` asks for a failure.
   `AnswerIsWhole` says what does hold.
9. A push of a response may fail for lack of memory; `drain_undispatched` and the pool's
   routine swallow it, and the submission is never done (`streamer.cc:344-346` says so:
   the drain is best effort). `EverySubmissionEnds` excuses submissions that lost a response.

Other edges met while modelling. A reused client is not checked for its chunk size;
`AnsweredIsQuiet` rests on the worker's chunk being no larger than the client's.
`RUNAI_STREAMER_CONCURRENCY` or a process group of size zero divides by zero. GCS
answers `verify_credentials` with TRUE whatever the credentials. In `FileStreamer`, a second
`stream_files` before the first was iterated, or a generator that is closed before it
began, frees a buffer that reads still fill, and an old suspended generator resumed
later drains the submission of the new stream; the models' application does neither.
In `ObjectStorageModel`, an application that swallows the exception of a pull inside the
`with` block and leaves it cleanly gets a sentinel beside partial files; the model's
application lets exceptions through. In `DistributedStreamer` a rank whose device alone
is short of memory falls back alone while the others time out in `new_group`; the model
has it, and `FailureHasCause` counts it as a cause. An application that stops iterating
calls a barrier while others broadcast, who time out.

## 6. Not modelled

- **Safetensors** (`safetensors_streamer`): parsing of headers and making of tensors
  from views, pure functions of bytes and third-party types. What it asks of the file
  streamer, ranges per file, is the input of `FileStreamer`.
- **Python bindings** (`libstreamer`) and the vendors' SDK helpers: conversions of
  arguments for ctypes and calls of boto3 and others, without state of their own; what
  comes back of a listing is in `Listing`.
- **Configuration, environment, logging, file descriptors, dynamic loading**: input and
  output; values they yield are constants of the models.
- **Mocks** (`s3_mock` and others): test code.
- Inside the SDKs: request building, retries, time limits. A read is answered, with
  success or an error.
- Allocation failures other than those of `ObjectStorageWorker::enqueue`, of the push of a
  response by the file system workers and of a dispatch; torn reads of a
  `shared_ptr` (`s3/client/client.cc:318`); wrap-around of 64-bit counters.
- Several streams per distributed session, processes that pull different files of one
  model, and a root of a broadcast that waits for its receivers.

## 7. Plan

1. *Done*: responder queue, streamer, thread pool, object storage worker, assigner, backend
   pools, backend clients and the credentials of each plugin, plugin clients with the cache
   library, listing, Python file streamer and C API, and model download, all with proofs of
   their safety properties; distributed streamer, model-checked.
2. *Left, proofs*: `FailureHasCause` and `StreamIsExact` of `DistributedStreamer`, round by
   round, from an invariant that the calls of the ranks of a group are prefixes of one
   sequence.
3. *Left, models*: several streams in one distributed session; the header of a
   safetensors file as functions.
