---------------------------- MODULE PluginClient ----------------------------
(***************************************************************************)
(* The clients of one storage plugin (S3, GCS or Azure): obj_request_read, *)
(* obj_wait_for_completions and obj_cancel_all_reads, the thread pool that *)
(* reads the parts of a range, the callback that joins them into one       *)
(* response, the in-flight window a client advertises, and the destruction *)
(* of a client.  A client of Azure may read through a cache library, which *)
(* all clients of the process share (AzCacheProvider).                     *)
(*                                                                         *)
(* Each client serves one worker, which cuts its task into reads.  Reads   *)
(* complete, fail and are cancelled at any moment in between.              *)
(***************************************************************************)
EXTENDS Integers, Sequences, FiniteSets, FiniteSetsExt

CONSTANTS
  Clients,      \* addresses of clients, each made and destroyed once
  TaskBytes,    \* [Clients -> bytes of the task of the client's worker]
  ObjectBytes,  \* [Clients -> bytes of the task's object, from its offset on]
  WorkerChunk,  \* _chunk_bytesize of the worker
  Nprocs,       \* hardware_concurrency()
  Connections,  \* RUNAI_STREAMER_S3_MAX_CONNECTIONS, 0 if unset
  Concurrency,  \* RUNAI_STREAMER_CONCURRENCY
  GroupSize,    \* RUNAI_STREAMER_PROCESS_GROUP_SIZE
  Margin,       \* inflight_window_margin()
  S3Window,     \* RUNAI_STREAMER_S3_MAX_INFLIGHT_MIB in bytes, 0 if unset
  S3Bdp,        \* bytes in flight at the target throughput of S3
  MaxEvents,    \* events the worker asks for in one wait
  Setups,       \* the processes: plugin, clients, their chunk sizes, and the
                \* environment and the libraries of the cache
  NextEnv       \* the environment it may change to, once

VARIABLES
  kind,       \* the plugin
  pc,         \* of a client and its worker
  chunk,      \* _chunk_bytesize of a client
  advertised, \* g_max_inflight_bytes; 0 stands for SIZE_MAX
  window,     \* the window of the worker, in chunks
  begun,      \* reads the worker has begun
  nextPart,   \* the next part of the read being submitted
  stop,       \* how far stop() has come: "none", "flag", "done"
  responder,  \* _responder
  queue,      \* the deque of a client's pool
  counter,    \* counter of a read
  isSuccess,  \* is_success of a read
  part,       \* the state of each part of a read
  arrived,    \* history: the bytes of a read that were written
  answers,    \* history: what callbacks pushed for a read
  delivered,  \* what the worker learnt of a read
  events,     \* events of the obj_wait_for_completions under way
  env, libs, handles, shared, loader, clientRef, down,
  unwinding, dying \* see AzCacheProvider

poolVars == <<queue, part, arrived>>
readVars == <<counter, isSuccess, answers, delivered>>
workerVars == <<window, begun, nextPart, events>>
cacheVars == <<env, libs, handles, shared, loader, clientRef, down,
               unwinding, dying>>
vars == <<kind, pc, chunk, advertised, stop, responder, poolVars, readVars,
          workerVars, cacheVars>>

Cache == INSTANCE AzCacheProvider

Codes == {"Success", "FileAccessError", "FileTruncatedError", "EofError"}

(* The chunks ObjectStorageWorker::enqueue cuts a task into. *)
NumReads(c) == (TaskBytes[c] + WorkerChunk - 1) \div WorkerChunk
Reads == UNION {{c} \X (1 .. NumReads(c)) : c \in Clients}
Offset(r) == (r[2] - 1) * WorkerChunk
Length(r) == Min({TaskBytes[r[1]] - Offset(r), WorkerChunk})
Bytes(r) == Offset(r) .. Offset(r) + Length(r) - 1
ReadsOf == [c \in Clients |-> {r \in Reads : r[1] = c}]

ASSUME PluginClientAssumption ==
  /\ WorkerChunk \in Nat \ {0}
  /\ \A s \in Setups :
       /\ s.kind \in {"s3", "gcs", "azure"}
       /\ s.clients \subseteq Clients
       /\ s.chunk \in [Clients -> Nat \ {0}]
  /\ TaskBytes \in [Clients -> Nat \ {0}]
  /\ ObjectBytes \in [Clients -> Nat]
  /\ {Nprocs, Connections, S3Window, S3Bdp} \subseteq Nat
  /\ {Concurrency, GroupSize, Margin, MaxEvents} \subseteq Nat \ {0}

(* ClientConfiguration: the threads of a client's pool; at least one, even *)
(* when the workers outnumber the processors.                              *)
Threads(wanted) == Max({IF Nprocs = 0 THEN 8 ELSE 1, wanted})
GcsMaxConcurrency ==
  IF Connections # 0 THEN Connections
  ELSE Threads((Nprocs * 2) \div Concurrency)
AzureMaxConcurrency == Threads((Nprocs * 2) \div (Concurrency * GroupSize))
MaxConcurrency ==
  IF kind = "gcs" THEN GcsMaxConcurrency ELSE AzureMaxConcurrency

(* The window a client with chunk size k advertises, in bytes. *)
S3InflightWindow(k) ==
  IF S3Window # 0 THEN S3Window ELSE Max({S3Bdp * Margin, 2 * k})
MaxInflightBytes(k) ==
  IF kind = "s3" THEN S3InflightWindow(k)
  ELSE Max({Margin * MaxConcurrency * k, 2 * k})

(* Mutant of Window: no floor of one chunk. *)
WindowUnfloored(bytes) == bytes \div WorkerChunk

(* ObjectStorageWorker::capacity: the window in chunks. *)
Window(bytes) == Max({1, bytes \div WorkerChunk})

Cached(c) == kind = "azure" /\ Cache!Enabled(c)

(* Mutant of NumParts: a part more for the rest, were there none. *)
NumPartsRest(r) ==
  IF kind = "s3" \/ Cached(r[1]) THEN 1 ELSE Length(r) \div chunk[r[1]] + 1

(* How many parts a client reads a range in: the S3 client in one, an      *)
(* Azure client with a cache in one, the others in parts of its own chunk  *)
(* size, the last with the rest.                                           *)
GcsNumParts(r) == Max({1, Length(r) \div chunk[r[1]]})
AzureNumParts(r) ==
  IF Cached(r[1]) THEN 1 ELSE Max({1, Length(r) \div chunk[r[1]]})
NumParts(r) ==
  CASE kind = "s3" -> 1
    [] kind = "gcs" -> GcsNumParts(r)
    [] kind = "azure" -> AzureNumParts(r)
PartBytes(r, i) ==
  LET first == Offset(r) + (i - 1) * chunk[r[1]]
  IN  IF i = NumParts(r) THEN {b \in Bytes(r) : b >= first}
      ELSE first .. first + chunk[r[1]] - 1

(* What the object has of a range, and of a part of it. *)
Held(r) == {b \in Bytes(r) : b < ObjectBytes[r[1]]}
HeldPart(r, i) == {b \in PartBytes(r, i) : b < ObjectBytes[r[1]]}

Parts(r) == DOMAIN part[r]
PartsIn(c, states) ==
  UNION {{<<r, i>> : i \in {j \in Parts(r) : part[r][j] \in states}} :
           r \in ReadsOf[c]}
(* A task that has answered: its object, and a loader, may still be there. *)
Answered(c) == IF Cached(c) THEN "ending" ELSE "done"
Busy == {"running", "ending"} \cup Codes

Init ==
  /\ \E s \in Setups :
       /\ kind = s.kind
       /\ pc = [c \in Clients |-> IF c \in s.clients THEN "none" ELSE "gone"]
       /\ chunk = s.chunk
       /\ Cache!Init(s.env, s.libs)
  /\ advertised = 0
  /\ window = [c \in Clients |-> 0]
  /\ begun = [c \in Clients |-> 0]
  /\ nextPart = [c \in Clients |-> 1]
  /\ stop = [c \in Clients |-> "none"]
  /\ responder = [c \in Clients |->
       [made |-> FALSE, running |-> 0, queue |-> <<>>, stopped |-> FALSE]]
  /\ queue = [c \in Clients |-> <<>>]
  /\ counter = [r \in Reads |-> 0]
  /\ isSuccess = [r \in Reads |-> TRUE]
  /\ part = [r \in Reads |-> <<>>]
  /\ arrived = [r \in Reads |-> {}]
  /\ answers = [r \in Reads |-> <<>>]
  /\ delivered = [r \in Reads |-> "none"]
  /\ events = [c \in Clients |-> 0]

-----------------------------------------------------------------------------
(* obj_create_client, when the manager has no client to reuse *)

(* The client is there; its window is advertised for the process. *)
Made(c) ==
  /\ pc' = [pc EXCEPT ![c] = "made"]
  /\ advertised' = MaxInflightBytes(chunk[c])
  /\ UNCHANGED <<kind, chunk, stop, responder, poolVars, readVars, workerVars>>

Create(c) ==
  /\ pc[c] = "none"
  /\ kind # "azure"
  /\ Made(c)
  /\ UNCHANGED cacheVars

CreateAzure(c) ==
  /\ pc[c] = "none"
  /\ kind = "azure"
  /\ Cache!MakeLoader(c)
  /\ Made(c)

(* The loader throws and with it the constructor: no client. *)
CreateAzureThrows(c) ==
  /\ pc[c] = "none"
  /\ kind = "azure"
  /\ Cache!MakeLoaderThrows(c)
  /\ pc' = [pc EXCEPT ![c] = "gone"]
  /\ UNCHANGED <<kind, chunk, advertised, stop, responder, poolVars, readVars,
                 workerVars>>

(* capacity() of the worker: what obj_get_backend_config advertises by now *)
(* may come from a client made later.                                      *)
ReadWindow(c) ==
  /\ pc[c] = "made"
  /\ window' = [window EXCEPT ![c] = Window(advertised)]
  /\ pc' = [pc EXCEPT ![c] = "idle"]
  /\ UNCHANGED <<kind, chunk, advertised, stop, responder, poolVars, readVars,
                 begun, nextPart, events, cacheVars>>

-----------------------------------------------------------------------------
(* async_read *)

InFlight(c) ==
  {r \in ReadsOf[c] : r[2] <= begun[c] /\ delivered[r] = "none"}
Current(c) == <<c, begun[c]>>

(* The responder is made, or expects one response more. *)
BeginRead(c) ==
  /\ pc[c] = "idle"
  /\ begun[c] < NumReads(c)
  /\ Cardinality(InFlight(c)) < window[c]
  /\ begun' = [begun EXCEPT ![c] = @ + 1]
  /\ responder' = [responder EXCEPT ![c].made = TRUE, ![c].running = @ + 1]
  /\ LET r == <<c, begun[c] + 1>>
     IN  counter' = [counter EXCEPT ![r] = NumParts(r)]
  /\ nextPart' = [nextPart EXCEPT ![c] = 1]
  /\ pc' = [pc EXCEPT ![c] = "submit"]
  /\ UNCHANGED <<kind, chunk, advertised, stop, poolVars, isSuccess, answers,
                 delivered, window, events, cacheVars>>

(* An iteration of the loop; the S3 client has no loop and submits its one *)
(* part even when it is stopped.                                           *)
SubmitPart(c) ==
  LET r == Current(c)
      i == nextPart[c]
  IN  /\ pc[c] = "submit"
      /\ i <= NumParts(r)
      /\ kind = "s3" \/ stop[c] = "none"
      /\ IF kind = "s3"
         THEN /\ part' = [part EXCEPT ![r] = Append(@, "running")]
              /\ UNCHANGED queue
         ELSE /\ part' = [part EXCEPT ![r] = Append(@, "queued")]
              /\ queue' = [queue EXCEPT ![c] = Append(@, <<r, i>>)]
      /\ nextPart' = [nextPart EXCEPT ![c] = i + 1]
      /\ UNCHANGED <<kind, pc, chunk, advertised, stop, responder, arrived,
                     readVars, window, begun, events, cacheVars>>

(* The return of async_read; the worker settles a read that was refused.   *)
EndRead(c) ==
  LET r == Current(c)
  IN  /\ pc[c] = "submit"
      /\ nextPart[c] > NumParts(r) \/ (kind # "s3" /\ stop[c] # "none")
      /\ delivered' = IF stop[c] # "none"
                      THEN [delivered EXCEPT ![r] = "FinishedError"]
                      ELSE delivered
      /\ pc' = [pc EXCEPT ![c] = "idle"]
      /\ UNCHANGED <<kind, chunk, advertised, stop, responder, poolVars,
                     counter, isSuccess, answers, workerVars, cacheVars>>

-----------------------------------------------------------------------------
(* A part: ReadObjectTask, DownloadBlobTask or GetObjectAsync *)

StartPart(c) ==
  /\ queue[c] # <<>>
  /\ pc[c] \notin {"closing", "gone"}
  /\ Cardinality(PartsIn(c, Busy)) < MaxConcurrency
  /\ LET r == Head(queue[c])[1]
         i == Head(queue[c])[2]
     IN  part' = [part EXCEPT ![r][i] = "running"]
  /\ queue' = [queue EXCEPT ![c] = Tail(@)]
  /\ UNCHANGED <<kind, pc, chunk, advertised, stop, responder, arrived,
                 readVars, workerVars, cacheVars>>

(* How a read of a part may fail: S3 tells a body of the wrong length from *)
(* an error, Azure a range past the end (HTTP 416); the stream of GCS and  *)
(* the cache have one code for a short read and for an error.              *)
S3Errors == {"FileAccessError", "FileTruncatedError"}
GcsErrors == {"FileAccessError"}
AzureErrors == {"FileAccessError", "EofError"}
CacheErrors == {"FileAccessError"}
PartErrors(c) ==
  CASE kind = "s3" -> S3Errors
    [] kind = "gcs" -> GcsErrors
    [] Cached(c) -> CacheErrors
    [] OTHER -> AzureErrors

(* Which parts the storage can serve.  S3 checks the length of the body,   *)
(* GCS and the cache that of what they read, so the object has to hold all *)
(* of the part.  Azure ignores what DownloadTo returns, and the SDK clips  *)
(* the range to the end of the blob: only a range that begins past the end *)
(* is refused.                                                             *)
LengthUnchecked(c) == kind = "azure" /\ ~Cached(c)
Readable(r, i) ==
  IF LengthUnchecked(r[1]) THEN HeldPart(r, i) # {}
  ELSE HeldPart(r, i) = PartBytes(r, i)

(* The callback of a part that was read: the last one replies. *)
PartReads(r, i) ==
  /\ i \in Parts(r)
  /\ part[r][i] = "running"
  /\ Readable(r, i)
  /\ arrived' = [arrived EXCEPT ![r] = @ \cup HeldPart(r, i)]
  /\ counter' = [counter EXCEPT ![r] = @ - 1]
  /\ part' = [part EXCEPT ![r][i] =
                IF counter[r] = 1 THEN "Success" ELSE Answered(r[1])]
  /\ UNCHANGED <<kind, pc, chunk, advertised, stop, responder, queue,
                 isSuccess, answers, delivered, workerVars, cacheVars>>

(* Mutant of PartFails: a failed part is counted like one that was read. *)
PartFailsCounts(r, i) ==
  \E code \in PartErrors(r[1]) :
    /\ i \in Parts(r)
    /\ part[r][i] = "running"
    /\ isSuccess' = [isSuccess EXCEPT ![r] = FALSE]
    /\ counter' = [counter EXCEPT ![r] = @ - 1]
    /\ part' = [part EXCEPT ![r][i] =
                  IF isSuccess[r] THEN code ELSE Answered(r[1])]
    /\ UNCHANGED <<kind, pc, chunk, advertised, stop, responder, queue,
                   arrived, answers, delivered, workerVars, cacheVars>>

(* The callback of a part that failed: the first one replies, and the      *)
(* counter is left alone, so that no success follows.                      *)
PartFails(r, i) ==
  \E code \in PartErrors(r[1]) :
    /\ i \in Parts(r)
    /\ part[r][i] = "running"
    /\ isSuccess' = [isSuccess EXCEPT ![r] = FALSE]
    /\ part' = [part EXCEPT ![r][i] =
                  IF isSuccess[r] THEN code ELSE Answered(r[1])]
    /\ UNCHANGED <<kind, pc, chunk, advertised, stop, responder, queue,
                   arrived, counter, answers, delivered, workerVars, cacheVars>>

(* responder->push of the callback. *)
Reply(r, i) ==
  LET c == r[1]
  IN  /\ i \in Parts(r)
      /\ part[r][i] \in Codes
      /\ responder' =
           IF responder[c].stopped \/ responder[c].running = 0 THEN responder
           ELSE [responder EXCEPT
                   ![c].queue = Append(@, [read |-> r, ret |-> part[r][i]]),
                   ![c].running = @ - 1]
      /\ answers' = [answers EXCEPT ![r] = Append(@, part[r][i])]
      /\ part' = [part EXCEPT ![r][i] = Answered(c)]
      /\ UNCHANGED <<kind, pc, chunk, advertised, stop, queue, arrived,
                     counter, isSuccess, delivered, workerVars, cacheVars>>

(* The task object is destroyed, and its reference to a cache loader with  *)
(* it.                                                                     *)
EndTask(r, i) ==
  /\ i \in Parts(r)
  /\ part[r][i] = "ending"
  /\ part' = [part EXCEPT ![r][i] = "done"]
  /\ UNCHANGED <<kind, pc, chunk, advertised, stop, responder, queue, arrived,
                 readVars, workerVars, cacheVars>>

-----------------------------------------------------------------------------
(* obj_wait_for_completions *)

Waiting(c) == pc[c] = "wait" \/ (pc[c] = "idle" /\ InFlight(c) # {})

(* async_read_response returns a response, which the worker applies; a     *)
(* late one, for a read it gave up, it drops.                              *)
Pop(c) ==
  /\ Waiting(c)
  /\ ~responder[c].stopped
  /\ responder[c].queue # <<>>
  /\ LET e == Head(responder[c].queue)
     IN  delivered' = IF delivered[e.read] = "none"
                      THEN [delivered EXCEPT ![e.read] = e.ret] ELSE delivered
  /\ responder' = [responder EXCEPT ![c].queue = Tail(@)]
  /\ UNCHANGED <<kind, chunk, advertised, stop, poolVars, counter, isSuccess,
                 answers, window, begun, nextPart, cacheVars>>

(* S3 and GCS retrieve a single event. *)
WaitOne(c) ==
  /\ kind # "azure"
  /\ Pop(c)
  /\ UNCHANGED <<pc, events>>

(* Azure collects events until it has as many as it was asked for, and     *)
(* blocks for each.                                                        *)
WaitMany(c) ==
  LET more == events[c] + 1 < MaxEvents
  IN  /\ kind = "azure"
      /\ Pop(c)
      /\ pc' = [pc EXCEPT ![c] = IF more THEN "wait" ELSE "idle"]
      /\ events' = [events EXCEPT ![c] = IF more THEN @ + 1 ELSE 0]

(* The sentinel: the responder was stopped or is drained.  A worker that   *)
(* got no event before it gives up everything it has.                      *)
WaitFinished(c) ==
  /\ Waiting(c)
  /\ \/ responder[c].stopped
     \/ responder[c].running = 0 /\ responder[c].queue = <<>>
  /\ IF pc[c] = "idle"
     THEN /\ begun' = [begun EXCEPT ![c] = NumReads(c)]
          /\ delivered' = [r \in Reads |->
               IF r[1] = c /\ delivered[r] = "none" THEN "FinishedError"
               ELSE delivered[r]]
     ELSE UNCHANGED <<begun, delivered>>
  /\ pc' = [pc EXCEPT ![c] = "idle"]
  /\ events' = [events EXCEPT ![c] = 0]
  /\ UNCHANGED <<kind, chunk, advertised, stop, responder, poolVars, counter,
                 isSuccess, answers, window, nextPart, cacheVars>>

-----------------------------------------------------------------------------
(* obj_cancel_all_reads, and the end of a client *)

Alive(c) == pc[c] \notin {"none", "closing", "gone"}

StopFlag(c) ==
  /\ Alive(c)
  /\ stop[c] = "none"
  /\ stop' = [stop EXCEPT ![c] = "flag"]
  /\ UNCHANGED <<kind, pc, chunk, advertised, responder, poolVars, readVars,
                 workerVars, cacheVars>>

(* The responder is stopped if stop() sees one. *)
StopResponder(c) ==
  /\ Alive(c)
  /\ stop[c] = "flag"
  /\ stop' = [stop EXCEPT ![c] = "done"]
  /\ responder' = [responder EXCEPT ![c].stopped = responder[c].made]
  /\ UNCHANGED <<kind, pc, chunk, advertised, poolVars, readVars, workerVars,
                 cacheVars>>

(* The client is deleted, by clear or as a stale one: no wrapper has it,   *)
(* so its worker has its answers.  ~AzureClient stops; then the reference  *)
(* to the loader goes, and the pool is stopped.                            *)
Close(c) ==
  /\ pc[c] = "idle"
  /\ stop[c] # "flag"
  /\ InFlight(c) = {}
  /\ pc' = [pc EXCEPT ![c] = "closing"]
  /\ IF kind = "azure"
     THEN /\ stop' = [stop EXCEPT ![c] = "done"]
          /\ responder' = [responder EXCEPT ![c].stopped = responder[c].made]
     ELSE UNCHANGED <<stop, responder>>
  /\ clientRef' = [clientRef EXCEPT ![c] = FALSE]
  /\ UNCHANGED <<kind, chunk, advertised, poolVars, readVars, workerVars, env,
                 libs, handles, shared, loader, down, unwinding, dying>>

(* The threads of the pool are joined and its deque is dropped; what the   *)
(* S3 SDK has under way it may still call back.                            *)
Join(c) ==
  /\ pc[c] = "closing"
  /\ kind # "s3" => PartsIn(c, Busy) = {}
  /\ part' = [r \in Reads |->
       IF r[1] # c THEN part[r]
       ELSE [i \in Parts(r) |-> IF part[r][i] = "queued" THEN "dropped"
                                ELSE part[r][i]]]
  /\ queue' = [queue EXCEPT ![c] = <<>>]
  /\ pc' = [pc EXCEPT ![c] = "gone"]
  /\ UNCHANGED <<kind, chunk, advertised, stop, responder, arrived, readVars,
                 workerVars, cacheVars>>

(* The last reference to a loader goes: a task of the pool may have it.    *)
TasksOf(c) == PartsIn(c, {"queued"} \cup Busy)

DestroyLoader(c) ==
  /\ TasksOf(c) = {}
  /\ Cache!DestroyLoader(c)
  /\ UNCHANGED <<kind, pc, chunk, advertised, stop, responder, poolVars,
                 readVars, workerVars>>

CacheNext ==
  /\ kind = "azure"
  /\ Cache!ChangeEnv \/ Cache!Unwind \/ Cache!Shutdown
  /\ UNCHANGED <<kind, pc, chunk, advertised, stop, responder, poolVars,
                 readVars, workerVars>>

-----------------------------------------------------------------------------
WorkerNext(c) ==
  ReadWindow(c) \/ BeginRead(c) \/ SubmitPart(c) \/ EndRead(c) \/ WaitOne(c)
    \/ WaitMany(c) \/ WaitFinished(c)

PoolNext(c) ==
  \/ StartPart(c)
  \/ \E r \in ReadsOf[c] : \E i \in Parts(r) :
       PartReads(r, i) \/ PartFails(r, i) \/ Reply(r, i) \/ EndTask(r, i)

OwnerNext(c) ==
  Create(c) \/ CreateAzure(c) \/ CreateAzureThrows(c) \/ StopFlag(c)
    \/ StopResponder(c) \/ Close(c) \/ Join(c) \/ DestroyLoader(c)

Done == \A c \in Clients : pc[c] = "gone" /\ TasksOf(c) = {}

Next ==
  \/ \E c \in Clients : WorkerNext(c) \/ PoolNext(c) \/ OwnerNext(c)
  \/ CacheNext
  \/ Done /\ UNCHANGED vars

(* The workers and the pools are threads that run while they have          *)
(* something to do, and a storage answers or fails every request it was    *)
(* sent.  No client is made, stopped or closed by necessity.               *)
ThreadsNext ==
  \E c \in Clients : WorkerNext(c) \/ PoolNext(c) \/ StopResponder(c)

Spec == Init /\ [][Next]_vars /\ WF_vars(ThreadsNext)

-----------------------------------------------------------------------------
(* Properties *)

Succeeded(r) == \E n \in DOMAIN answers[r] : answers[r][n] = "Success"

(* However its parts interleave, a read is answered at most once, and with *)
(* Success only when every byte the object has of its range was written:   *)
(* the answer of the last part that was read and that of the first that    *)
(* failed exclude each other.  The object has the whole range, except that *)
(* an Azure blob read without a cache may end inside the last part.        *)
AnswerIsWhole ==
  \A r \in Reads :
    /\ Len(answers[r]) <= 1
    /\ Succeeded(r) =>
         /\ arrived[r] = Held(r)
         /\ IF LengthUnchecked(r[1])
            THEN \A i \in 1 .. NumParts(r) : HeldPart(r, i) # {}
            ELSE Held(r) = Bytes(r)

(* Once a read is answered nothing writes to its buffer any more, so that  *)
(* the worker may report the range and the caller reuse its memory.  GCS   *)
(* and Azure answer at the first part that fails, so this rests on the     *)
(* worker's chunks being no larger than the client's.                      *)
AnsweredIsQuiet ==
  \A r \in Reads :
    answers[r] # <<>> /\ chunk[r[1]] >= WorkerChunk =>
      \A i \in Parts(r) : part[r][i] \notin {"queued", "running"}

(* A part that is read through the cache has a loader, and the library has *)
(* not been shut down since the loader's handle was made: neither the end  *)
(* of the client nor that of another client takes it away.                 *)
CacheOutlivesReads ==
  \A r \in Reads : \A i \in Parts(r) :
    Cached(r[1]) /\ part[r][i] = "running" => Cache!Usable(r[1])

(* Every read of a worker ends: with the answer of the storage, or because *)
(* the client was stopped.                                                 *)
ReadsAreAnswered ==
  \A c \in Clients :
    (pc[c] = "idle") ~>
      (~Alive(c) \/ \A r \in ReadsOf[c] : delivered[r] # "none")

=============================================================================
