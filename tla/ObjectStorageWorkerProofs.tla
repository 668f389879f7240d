---------------------- MODULE ObjectStorageWorkerProofs ----------------------
(***************************************************************************)
(* Theorems about ObjectStorageWorker, for any workloads, tasks, layouts   *)
(* of chunks, window, size of a wait and allocation failures that satisfy  *)
(* ObjectStorageWorkerAssumption.  The invariant comes in four layers:     *)
(* where handles are (Places), how the chunks of a task are counted        *)
(* (Counts), what was told about tasks (Reports), and what the window      *)
(* counts (Window).                                                        *)
(***************************************************************************)
EXTENDS ObjectStorageWorker, FiniteSetTheorems, TLAPS

Outcomes == {Success, "ReadError"}
ReadyEvents == [handle : Nat \ {0}, ret : Outcomes]
Stages == {"top", "loop", "pump", "batch", "wait", "events", "exit"}

TypeOK ==
  /\ ChunkTask \in Layouts
  /\ taken \subseteq Workloads /\ dropped \subseteq taken
     /\ live \subseteq taken
  /\ reader \in BOOLEAN /\ queue \in BOOLEAN
  /\ base \in [Workloads -> Nat] /\ counter \in Nat \ {0}
  /\ pending \in Seq(Nat \ {0}) /\ used \in Nat
  /\ remaining \in [Tasks -> Nat] /\ openTasks \in [Workloads -> Nat]
  /\ error \in [Tasks -> Codes] /\ fileError \in [Workloads -> [Files -> Codes]]
  /\ report \in [Tasks -> Codes \cup {NoReport}]
  /\ pc \in Stages /\ after \in {"top", "loop", "pump"}
  /\ events \in Seq(ReadyEvents \cup {Sentinel}) /\ progressed \in BOOLEAN
  /\ stopped \in BOOLEAN /\ clientStop \in BOOLEAN
  /\ leaked \in BOOLEAN /\ doubled \in BOOLEAN
  /\ s3stop \in {"none", "flag", "done"}
  /\ responder \in {"null", "open", "stopped"}
  /\ outstanding \subseteq Nat \ {0} /\ ready \in Seq(ReadyEvents)
  /\ readOK \subseteq Nat

-----------------------------------------------------------------------------
(* First layer: where handles are *)

Block(w) == base[w] .. base[w] + NumChunks(w) - 1
InBlock(h, w) == base[w] <= h /\ h < base[w] + NumChunks(w)
ReadyHandles == {ready[i].handle : i \in DOMAIN ready}
EventHandles == {events[i].handle : i \in DOMAIN events}
Underway == PendingSet \cup outstanding \cup ReadyHandles \cup EventHandles

(* Blocks of handles do not overlap, and new handles are above all others. *)
BlocksApart ==
  /\ \A w \in live : base[w] # 0 /\ NumChunks(w) > 0 /\ w \notin dropped
  /\ \A w \in Workloads : base[w] # 0 =>
       /\ w \in taken
       /\ base[w] + NumChunks(w) <= counter
       /\ \A v \in Workloads :
            base[v] # 0 /\ v # w => \/ base[v] + NumChunks(v) <= base[w]
                                    \/ base[w] + NumChunks(w) <= base[v]
  /\ \A h \in Underway : h < counter

(* A handle is pending, at the storage, in the responder or in the round   *)
(* of events, and there once.                                              *)
OnePlace ==
  /\ \A i, j \in DOMAIN pending : pending[i] = pending[j] => i = j
  /\ \A i, j \in DOMAIN ready : ready[i].handle = ready[j].handle => i = j
  /\ \A i, j \in DOMAIN events : events[i].handle = events[j].handle => i = j
  /\ PendingSet \cap (outstanding \cup ReadyHandles \cup EventHandles) = {}
  /\ outstanding \cap (ReadyHandles \cup EventHandles) = {}
  /\ ReadyHandles \cap EventHandles = {}

(* A round of events ends with its sentinel, and Success means read. *)
EventsAreTrue ==
  /\ pc = "events" <=> events # <<>>
  /\ \A i \in DOMAIN events : events[i] = Sentinel => i = Len(events)
  /\ \A i \in DOMAIN ready : ready[i].ret = Success
         => ready[i].handle \in readOK
  /\ \A i \in DOMAIN events :
       events[i].ret = Success => events[i].handle \in readOK

StopsInOrder ==
  /\ s3stop = "none" => ~clientStop /\ responder # "stopped"
  /\ live # {} => queue

Places == BlocksApart /\ OnePlace /\ EventsAreTrue /\ StopsInOrder

-----------------------------------------------------------------------------
(* Second layer: the chunks of a task *)

LiveTasks == {t \in Tasks : WorkloadOf[t] \in live}
Unsettled(t) == Handles(t) \cap Underway
PendingOf(t) == Handles(t) \cap PendingSet
Unread(t) == {h \in Handles(t) : h \notin readOK \/ h \in Underway}
Unfinished(w) == {t \in TasksOf(w) : remaining[t] > 0}

PendingIsLive == \A h \in PendingSet : \E w \in live : InBlock(h, w)

(* The open tasks of a workload are those with chunks left to settle. *)
OpenIsUnfinished ==
  \A w \in live : openTasks[w] = Cardinality(Unfinished(w)) /\ openTasks[w] > 0

(* A chunk of t was settled although its read goes on (async_read issued   *)
(* it and answered FinishedError): then the client is stopped, and what    *)
(* is pending of t fails in the same pump.                                 *)
SettledTwice(t) ==
  /\ clientStop
  /\ error[t] # Success
  /\ remaining[t] >= Cardinality(PendingOf(t))
  /\ PendingOf(t) # {} => pc = "pump" /\ CanTake

RemainingCounts ==
  \A t \in LiveTasks :
    /\ remaining[t] >= Cardinality(Unsettled(t)) \/ SettledTwice(t)
    /\ s3stop = "none" => remaining[t] = Cardinality(Unsettled(t))
    /\ error[t] = Success => remaining[t] >= Cardinality(Unread(t))

Counts == PendingIsLive /\ OpenIsUnfinished /\ RemainingCounts

-----------------------------------------------------------------------------
(* Third layer: what was told about the tasks *)

ReportsAreRight ==
  /\ \A t \in Tasks : WorkloadOf[t] \notin taken => report[t] = NoReport
  /\ \A t \in Tasks :
       WorkloadOf[t] \in taken \ (live \cup dropped) => report[t] # NoReport
  /\ \A t \in LiveTasks : remaining[t] = 0 =>
       \/ report[t] # NoReport
       \/ fileError[WorkloadOf[t]][FileOf[t]] # Success
  /\ SuccessIsRead
  /\ s3stop = "none" =>
       \A t \in Tasks : report[t] = "ReadError" =>
         /\ WorkloadOf[t] \notin live /\ base[WorkloadOf[t]] # 0
         /\ Handles(t) \cap outstanding = {}

-----------------------------------------------------------------------------
(* Fourth layer: the window *)

Flying ==
  {h \in outstanding \cup ReadyHandles \cup EventHandles :
     \E w \in live : InBlock(h, w)}

UsedIsFlying == s3stop = "none" => used = Cardinality(Flying)

IInv == TypeOK /\ Places /\ Counts /\ ReportsAreRight /\ UsedIsFlying

-----------------------------------------------------------------------------
(* Lemmas about chunks, handles and blocks *)

(* A layout gives every workload a sequence of its own tasks. *)
LEMMA ChunksAreOwn ==
  ASSUME TypeOK, NEW w \in Workloads
  PROVE  /\ ChunkTask[w] \in Seq(Tasks)
         /\ NumChunks(w) \in Nat /\ DOMAIN ChunkTask[w] = 1 .. NumChunks(w)
         /\ \A i \in 1 .. NumChunks(w) :
              /\ ChunkTask[w][i] \in Tasks
              /\ WorkloadOf[ChunkTask[w][i]] = w
<1>1. /\ ChunkTask \in [Workloads -> Seq(Tasks)]
      /\ \A i \in DOMAIN ChunkTask[w] : WorkloadOf[ChunkTask[w][i]] = w
  BY ObjectStorageWorkerAssumption DEF ObjectStorageWorkerAssumption, TypeOK
<1>2. ChunkTask[w] \in Seq(Tasks)
  BY <1>1
<1> QED  BY <1>1, <1>2 DEF NumChunks

(* The handles of a task are those of its workload's block that lead back  *)
(* to it.                                                                  *)
LEMMA HandlesLeadBack ==
  ASSUME TypeOK, NEW t \in Tasks
  PROVE  /\ WorkloadOf[t] \in Workloads /\ Handles(t) \subseteq Nat
         /\ \A h \in Nat : h \in Handles(t) <=>
              InBlock(h, WorkloadOf[t]) /\ TaskAt(WorkloadOf[t], h) = t
<1> PICK w \in Workloads : w = WorkloadOf[t]
  BY ObjectStorageWorkerAssumption DEF ObjectStorageWorkerAssumption
<1>1. base[w] \in Nat /\ NumChunks(w) \in Nat
      /\ DOMAIN ChunkTask[w] = 1 .. NumChunks(w)
  BY ChunksAreOwn DEF TypeOK
<1>2. Handles(t) = {base[w] + i - 1 : i \in ChunksOf(t)}
  BY DEF Handles
<1>3. \A i : i \in ChunksOf(t) <=>
        i \in 1 .. NumChunks(w) /\ ChunkTask[w][i] = t
  BY <1>1 DEF ChunksOf
<1>4. Handles(t) \subseteq Nat
  BY <1>1, <1>2, <1>3
<1>5. ASSUME NEW h \in Nat, h \in Handles(t)
      PROVE  InBlock(h, w) /\ TaskAt(w, h) = t
  <2>1. PICK i \in 1 .. NumChunks(w) :
          h = base[w] + i - 1 /\ ChunkTask[w][i] = t
    BY <1>2, <1>3, <1>5
  <2>2. h - base[w] + 1 = i
    BY <1>1, <2>1
  <2> QED  BY <1>1, <2>1, <2>2 DEF InBlock, TaskAt
<1>6. ASSUME NEW h \in Nat, InBlock(h, w), TaskAt(w, h) = t
      PROVE  h \in Handles(t)
  <2>1. h - base[w] + 1 \in 1 .. NumChunks(w)
    BY <1>1, <1>6 DEF InBlock
  <2>2. h - base[w] + 1 \in ChunksOf(t)
    BY <1>3, <1>6, <2>1 DEF TaskAt
  <2>3. h = base[w] + (h - base[w] + 1) - 1
    BY <1>1
  <2> QED  BY <1>2, <2>2, <2>3
<1> QED  BY <1>4, <1>5, <1>6

(* Every handle of a block is a handle of one task of the workload. *)
LEMMA BlockHasTasks ==
  ASSUME TypeOK, NEW w \in Workloads, NEW h \in Nat, InBlock(h, w)
  PROVE  /\ TaskAt(w, h) \in Tasks /\ WorkloadOf[TaskAt(w, h)] = w
         /\ h \in Handles(TaskAt(w, h))
<1>1. h - base[w] + 1 \in 1 .. NumChunks(w)
  <2>1. base[w] \in Nat /\ NumChunks(w) \in Nat
    BY ChunksAreOwn DEF TypeOK
  <2> QED  BY <2>1 DEF InBlock
<1>2. TaskAt(w, h) \in Tasks /\ WorkloadOf[TaskAt(w, h)] = w
  BY <1>1, ChunksAreOwn DEF TaskAt
<1> QED  BY <1>2, HandlesLeadBack

(* Sets of handles of a task are finite. *)
LEMMA HandlesAreFinite ==
  ASSUME TypeOK, NEW t \in Tasks, NEW S, S \subseteq Handles(t)
  PROVE  IsFiniteSet(S) /\ Cardinality(S) \in Nat
<1> PICK w \in Workloads : w = WorkloadOf[t]
  BY HandlesLeadBack
<1>1. base[w] \in Nat /\ NumChunks(w) \in Nat
  BY ChunksAreOwn DEF TypeOK
<1>2. S \subseteq base[w] .. base[w] + NumChunks(w)
  BY <1>1, HandlesLeadBack DEF InBlock
<1>3. IsFiniteSet(base[w] .. base[w] + NumChunks(w))
  BY <1>1, FS_Interval
<1> QED  BY <1>2, <1>3, FS_Subset, FS_CardinalityType

(* A handle is located in the live workload whose block holds it. *)
LEMMA LocateIs ==
  ASSUME TypeOK, BlocksApart, NEW h \in Nat
  PROVE  /\ Locate(h) = {w \in live : InBlock(h, w)}
         /\ \A v, w \in live : InBlock(h, v) /\ InBlock(h, w) => v = w
<1>1. \A w \in live : w \in Workloads /\ base[w] \in Nat /\ NumChunks(w) \in Nat
                      /\ base[w] # 0
  BY ChunksAreOwn DEF TypeOK, BlocksApart
<1>2. \A v, w \in live : v = w \/ base[v] + NumChunks(v) <= base[w]
                               \/ base[w] + NumChunks(w) <= base[v]
  BY <1>1 DEF BlocksApart
<1>3. \A v, w \in live : InBlock(h, v) /\ InBlock(h, w) => v = w
  BY <1>1, <1>2 DEF InBlock
<1>4. ASSUME NEW w \in live
      PROVE  w \in Locate(h) <=> InBlock(h, w)
  <2>1. CASE InBlock(h, w)
    <3>1. \A v \in live : base[v] <= h => base[v] <= base[w]
      BY <1>1, <1>2, <2>1 DEF InBlock
    <3>2. h - base[w] < NumChunks(w)
      BY <1>1, <2>1 DEF InBlock
    <3> QED  BY <2>1, <3>1, <3>2 DEF Locate, InBlock
  <2>2. CASE w \in Locate(h)
    <3>1. base[w] <= h /\ h - base[w] < NumChunks(w)
      BY <2>2 DEF Locate
    <3> QED  BY <1>1, <2>2, <3>1 DEF InBlock
  <2> QED  BY <2>1, <2>2
<1> QED  BY <1>3, <1>4 DEF Locate

(* A live handle leads to its workload and task. *)
LEMMA RoutedBack ==
  ASSUME TypeOK, BlocksApart, NEW h \in Nat, NEW w \in live, InBlock(h, w)
  PROVE  /\ (CHOOSE v \in Locate(h) : TRUE) = w
         /\ TaskAt(w, h) \in LiveTasks /\ WorkloadOf[TaskAt(w, h)] = w
         /\ h \in Handles(TaskAt(w, h))
<1>1. Locate(h) = {w}
  BY LocateIs
<1>2. w \in Workloads
  BY DEF TypeOK
<1> QED  BY <1>1, <1>2, BlockHasTasks DEF LiveTasks

(* Different tasks have different handles while their workloads live. *)
LEMMA HandlesApart ==
  ASSUME TypeOK, BlocksApart, NEW s \in LiveTasks, NEW t \in LiveTasks, s # t
  PROVE  Handles(s) \cap Handles(t) = {}
<1> SUFFICES ASSUME NEW h \in Handles(s), h \in Handles(t) PROVE FALSE
  OBVIOUS
<1>1. /\ h \in Nat /\ InBlock(h, WorkloadOf[s]) /\ TaskAt(WorkloadOf[s], h) = s
      /\ InBlock(h, WorkloadOf[t]) /\ TaskAt(WorkloadOf[t], h) = t
  BY HandlesLeadBack DEF LiveTasks
<1>2. WorkloadOf[s] = WorkloadOf[t]
  BY <1>1, LocateIs DEF LiveTasks
<1> QED  BY <1>1, <1>2

(* Handles that are underway are numbers. *)
LEMMA UnderwayIsNat ==
  ASSUME TypeOK
  PROVE  Underway \subseteq Nat /\ 0 \notin PendingSet \cup outstanding
<1>1. PendingSet \subseteq Nat /\ 0 \notin PendingSet
  <2>1. pending \in Seq(Nat \ {0})
    BY DEF TypeOK
  <2> QED  BY <2>1 DEF PendingSet
<1>2. ReadyHandles \subseteq Nat
  <2>1. ready \in Seq(ReadyEvents)
    BY DEF TypeOK
  <2>2. \A e \in ReadyEvents : e.handle \in Nat
    BY DEF ReadyEvents
  <2> QED  BY <2>1, <2>2 DEF ReadyHandles
<1>3. EventHandles \subseteq Nat
  <2>1. events \in Seq(ReadyEvents \cup {Sentinel})
    BY DEF TypeOK
  <2>2. \A e \in ReadyEvents \cup {Sentinel} : e.handle \in Nat
    BY DEF ReadyEvents, Sentinel
  <2> QED  BY <2>1, <2>2 DEF EventHandles
<1>4. outstanding \subseteq Nat /\ 0 \notin outstanding
  BY DEF TypeOK
<1> QED  BY <1>1, <1>2, <1>3, <1>4 DEF Underway

-----------------------------------------------------------------------------
(* First layer: steps that move handles *)

(* What a step does to handles if it touches no sequence of them. *)
LEMMA PlacesFrame ==
  ASSUME TypeOK, Places,
         UNCHANGED <<ChunkTask, dropped, base, counter, live, pending, events,
                     outstanding, ready, readOK>>,
         taken \subseteq taken',
         (pc # "events" /\ pc' # "events") \/ UNCHANGED pc,
         queue => queue',
         s3stop' = "none"
           => s3stop = "none" /\ ~clientStop' /\ responder' # "stopped"
  PROVE  /\ Places'
         /\ PendingSet' = PendingSet /\ Underway' = Underway
<1>1. PendingSet' = PendingSet /\ Underway' = Underway
  BY DEF PendingSet, Underway, ReadyHandles, EventHandles
<1>2. \A w \in Workloads : NumChunks(w)' = NumChunks(w)
  BY DEF NumChunks
<1>3. BlocksApart'
  BY <1>1, <1>2 DEF BlocksApart, Places, TypeOK
<1>4. OnePlace'
  BY <1>1 DEF OnePlace, Places, ReadyHandles, EventHandles
<1>5. EventsAreTrue' /\ StopsInOrder'
  BY DEF EventsAreTrue, StopsInOrder, Places
<1> QED  BY <1>1, <1>3, <1>4, <1>5 DEF Places

(* The front of the window is taken off, its read issued or not. *)
LEMMA FrontPlaces ==
  ASSUME TypeOK, Places, pending # <<>>, pc = "pump",
         pending' = Tail(pending),
         outstanding' = outstanding \/ outstanding' = outstanding \cup {Front},
         UNCHANGED <<ChunkTask, taken, dropped, queue, base, counter, events,
                     pc, ready, readOK, s3stop, clientStop>>,
         live' \subseteq live,
         responder' \in {"open", responder}
  PROVE  /\ Places' /\ Front \in PendingSet /\ Front \notin outstanding
         /\ PendingSet' = PendingSet \ {Front}
         /\ outstanding' = outstanding => Underway' = Underway \ {Front}
         /\ outstanding' # outstanding => Underway' = Underway
<1>1. /\ Len(pending) \in Nat /\ Len(pending) > 0
      /\ DOMAIN pending = 1 .. Len(pending) /\ Front = pending[1]
      /\ DOMAIN pending' = 1 .. Len(pending) - 1
      /\ \A i \in 1 .. Len(pending) - 1 : pending'[i] = pending[i + 1]
  BY DEF TypeOK, Front
<1>2. \A i, j \in DOMAIN pending : pending[i] = pending[j] => i = j
  BY DEF Places, OnePlace
<1>3. Front \in PendingSet
  BY <1>1 DEF PendingSet
<1>4. PendingSet' = PendingSet \ {Front}
  <2>1. ASSUME NEW h, h \in PendingSet' PROVE h \in PendingSet /\ h # Front
    <3> PICK i \in 1 .. Len(pending) - 1 : h = pending'[i]
      BY <1>1, <2>1 DEF PendingSet
    <3>1. h = pending[i + 1] /\ i + 1 \in DOMAIN pending /\ 1 \in DOMAIN pending
      BY <1>1
    <3>2. i + 1 # 1
      OBVIOUS
    <3> QED  BY <1>1, <1>2, <3>1, <3>2 DEF PendingSet
  <2>2. ASSUME NEW h, h \in PendingSet, h # Front PROVE h \in PendingSet'
    <3> PICK i \in DOMAIN pending : h = pending[i]
      BY <2>2 DEF PendingSet
    <3>1. i # 1 /\ i - 1 \in DOMAIN pending'
      BY <1>1, <2>2
    <3>2. pending'[i - 1] = h
      BY <1>1, <3>1
    <3> QED  BY <3>1, <3>2 DEF PendingSet
  <2> QED  BY <2>1, <2>2
<1>5. ReadyHandles' = ReadyHandles /\ EventHandles' = EventHandles
  BY DEF ReadyHandles, EventHandles
<1>6. Front \notin outstanding \cup ReadyHandles \cup EventHandles
  BY <1>3 DEF Places, OnePlace
<1>7. OnePlace'
  <2>1. \A i, j \in DOMAIN pending' : pending'[i] = pending'[j] => i = j
    <3> SUFFICES ASSUME NEW i \in DOMAIN pending', NEW j \in DOMAIN pending',
                        pending'[i] = pending'[j]
                 PROVE  i = j
      OBVIOUS
    <3>1. /\ i \in Nat /\ j \in Nat
          /\ i + 1 \in DOMAIN pending /\ j + 1 \in DOMAIN pending
          /\ pending[i + 1] = pending[j + 1]
      BY <1>1
    <3>2. i + 1 = j + 1
      BY <1>2, <3>1
    <3> QED  BY <3>1, <3>2
  <2> QED  BY <1>4, <1>5, <1>6, <2>1 DEF OnePlace, Places
<1>8. /\ outstanding' = outstanding => Underway' = Underway \ {Front}
      /\ outstanding' # outstanding => Underway' = Underway
  BY <1>3, <1>4, <1>5, <1>6 DEF Underway
<1>9. BlocksApart'
  <2>1. \A w \in Workloads : NumChunks(w)' = NumChunks(w)
    BY DEF NumChunks
  <2>2. Underway' \subseteq Underway
    BY <1>8
  <2>3. \A w \in live : w \in Workloads
    BY DEF TypeOK
  <2> QED  BY <2>1, <2>2, <2>3 DEF BlocksApart, Places
<1>10. EventsAreTrue'
  BY DEF EventsAreTrue, Places
<1>11. StopsInOrder'
  BY DEF StopsInOrder, Places
<1> QED  BY <1>3, <1>4, <1>6, <1>7, <1>8, <1>9, <1>10, <1>11
         DEF Places

(* What the first event of a round is. *)
LEMMA FirstEvent ==
  ASSUME TypeOK, Places, pc = "events"
  PROVE  /\ Len(events) \in Nat /\ Len(events) > 0
         /\ DOMAIN events = 1 .. Len(events) /\ Head(events) = events[1]
         /\ events[1] \in ReadyEvents \cup {Sentinel}
         /\ events[1].ret # "FinishedError" => events[1] \in ReadyEvents
         /\ events[1].ret = "FinishedError" => Len(events) = 1
         /\ Head(events).handle \in EventHandles
<1>1. events \in Seq(ReadyEvents \cup {Sentinel}) /\ events # <<>>
  BY DEF TypeOK, Places, EventsAreTrue
<1>2. /\ Len(events) \in Nat /\ Len(events) > 0
      /\ DOMAIN events = 1 .. Len(events) /\ Head(events) = events[1]
      /\ events[1] \in ReadyEvents \cup {Sentinel}
  BY <1>1
<1>3. \A e \in ReadyEvents : e.ret # "FinishedError"
  BY DEF ReadyEvents, Outcomes, Success
<1>4. events[1].ret = "FinishedError" => Len(events) = 1
  BY <1>2, <1>3 DEF Places, EventsAreTrue
<1>5. events[1].ret # "FinishedError" => events[1] \in ReadyEvents
  BY <1>2 DEF Sentinel
<1>6. Head(events).handle \in EventHandles
  BY <1>2 DEF EventHandles
<1> QED  BY <1>2, <1>4, <1>5, <1>6

(* One event is processed: its handle is in no place any more. *)
LEMMA EventPlaces ==
  ASSUME TypeOK, Places, pc = "events", Head(events).ret # "FinishedError",
         NEW p, NextEvent(p),
         UNCHANGED <<ChunkTask, taken, dropped, queue, base, counter, pending,
                     ready, outstanding, readOK, s3stop, clientStop,
                     responder>>,
         live' \subseteq live
  PROVE  /\ Places' /\ Head(events).handle \in EventHandles
         /\ Head(events).handle \in Nat \ {0} /\ Head(events).ret \in Outcomes
         /\ Head(events).ret = Success => Head(events).handle \in readOK
         /\ PendingSet' = PendingSet
         /\ EventHandles' = EventHandles \ {Head(events).handle}
         /\ Underway' = Underway \ {Head(events).handle}
<1>1. /\ Len(events) \in Nat /\ Len(events) > 0
      /\ DOMAIN events = 1 .. Len(events) /\ Head(events) = events[1]
      /\ events[1] \in ReadyEvents /\ Head(events).handle \in EventHandles
  BY FirstEvent
<1> PICK h : h = Head(events).handle
  OBVIOUS
<1>2. h \in Nat \ {0} /\ Head(events).ret \in Outcomes
  BY <1>1 DEF ReadyEvents
<1>3. Head(events).ret = Success => h \in readOK
  BY <1>1 DEF Places, EventsAreTrue
<1>4. /\ DOMAIN events' = 1 .. Len(events) - 1
      /\ \A i \in 1 .. Len(events) - 1 : events'[i] = events[i + 1]
      /\ Len(events') = Len(events) - 1
      /\ events' # <<>> <=> Len(events) > 1
      /\ pc' = "events" <=> Len(events) > 1
  <2>1. CASE Len(events) > 1
    <3>1. events' = Tail(events) /\ pc' = pc
      BY <2>1 DEF NextEvent
    <3>2. events \in Seq(ReadyEvents \cup {Sentinel})
      BY DEF TypeOK
    <3> QED  BY <1>1, <2>1, <3>1, <3>2
  <2>2. CASE Len(events) = 1
    <3>1. events' = <<>> /\ pc' = after
      BY <2>2 DEF NextEvent, Return
    <3>2. after # "events"
      BY DEF TypeOK
    <3>3. Len(events') = 0 /\ DOMAIN events' = {} /\ 1 .. Len(events) - 1 = {}
      BY <2>2, <3>1
    <3> QED  BY <2>2, <3>1, <3>2, <3>3
  <2>3. Len(events) > 1 \/ Len(events) = 1
    BY <1>1
  <2> QED  BY <2>1, <2>2, <2>3
<1>5. \A i, j \in DOMAIN events : events[i].handle = events[j].handle => i = j
  BY DEF Places, OnePlace
<1>6. EventHandles' = EventHandles \ {h}
  <2>1. ASSUME NEW g, g \in EventHandles' PROVE g \in EventHandles /\ g # h
    <3> PICK i \in 1 .. Len(events) - 1 : g = events'[i].handle
      BY <1>4, <2>1 DEF EventHandles
    <3>1. g = events[i + 1].handle /\ i + 1 \in DOMAIN events
          /\ 1 \in DOMAIN events
      BY <1>1, <1>4
    <3>2. i + 1 # 1
      OBVIOUS
    <3> QED  BY <1>1, <1>5, <3>1, <3>2 DEF EventHandles
  <2>2. ASSUME NEW g, g \in EventHandles, g # h PROVE g \in EventHandles'
    <3> PICK i \in DOMAIN events : g = events[i].handle
      BY <2>2 DEF EventHandles
    <3>1. i # 1 /\ i - 1 \in DOMAIN events'
      BY <1>1, <1>4, <2>2
    <3>2. events'[i - 1].handle = g
      BY <1>1, <1>4, <3>1
    <3> QED  BY <3>1, <3>2 DEF EventHandles
  <2> QED  BY <2>1, <2>2
<1>7. PendingSet' = PendingSet /\ ReadyHandles' = ReadyHandles
  BY DEF PendingSet, ReadyHandles
<1>8. h \notin PendingSet \cup outstanding \cup ReadyHandles
  BY <1>1 DEF Places, OnePlace
<1>9. Underway' = Underway \ {h}
  BY <1>6, <1>7, <1>8 DEF Underway
<1>10. OnePlace'
  <2>1. \A i, j \in DOMAIN events' : events'[i].handle = events'[j].handle
            => i = j
    <3> SUFFICES ASSUME NEW i \in DOMAIN events', NEW j \in DOMAIN events',
                        events'[i].handle = events'[j].handle
                 PROVE  i = j
      OBVIOUS
    <3>1. /\ i \in Nat /\ j \in Nat
          /\ i + 1 \in DOMAIN events /\ j + 1 \in DOMAIN events
          /\ events[i + 1].handle = events[j + 1].handle
      BY <1>1, <1>4
    <3>2. i + 1 = j + 1
      BY <1>5, <3>1
    <3> QED  BY <3>1, <3>2
  <2> QED  BY <1>6, <1>7, <2>1 DEF OnePlace, Places
<1>11. BlocksApart'
  <2>1. \A w \in Workloads : NumChunks(w)' = NumChunks(w)
    BY DEF NumChunks
  <2>2. \A w \in live : w \in Workloads
    BY DEF TypeOK
  <2> QED  BY <1>9, <2>1, <2>2 DEF BlocksApart, Places
<1>12. EventsAreTrue'
  <2>1. \A i \in DOMAIN events' :
          /\ events'[i] = Sentinel => i = Len(events')
          /\ events'[i].ret = Success => events'[i].handle \in readOK
    <3> SUFFICES ASSUME NEW i \in DOMAIN events'
                 PROVE  /\ events'[i] = Sentinel => i = Len(events')
                        /\ events'[i].ret = Success
                             => events'[i].handle \in readOK
      OBVIOUS
    <3>1. i \in Nat /\ i + 1 \in DOMAIN events /\ events'[i] = events[i + 1]
      BY <1>1, <1>4
    <3> QED  BY <1>1, <1>4, <3>1 DEF Places, EventsAreTrue
  <2>2. \A i \in DOMAIN ready :
          ready[i].ret = Success => ready[i].handle \in readOK
    BY DEF Places, EventsAreTrue
  <2> QED  BY <1>4, <2>1, <2>2 DEF EventsAreTrue
<1>13. StopsInOrder'
  BY DEF StopsInOrder, Places
<1> QED  BY <1>1, <1>2, <1>3, <1>6, <1>7, <1>9, <1>10, <1>11, <1>12, <1>13
         DEF Places

(* The round ends: what is left of its events is dropped. *)
LEMMA RoundEndsPlaces ==
  ASSUME TypeOK, Places, events' = <<>>, pc' # "events",
         UNCHANGED <<ChunkTask, taken, dropped, queue, base, counter, ready,
                     outstanding, readOK, s3stop, clientStop, responder>>,
         live' \subseteq live, pending' \in {pending, <<>>}
  PROVE  /\ Places' /\ EventHandles' = {}
         /\ pending' = pending => PendingSet' = PendingSet
         /\ pending' = <<>> => PendingSet' = {}
         /\ Underway' = PendingSet' \cup outstanding \cup ReadyHandles
<1>1. EventHandles' = {} /\ ReadyHandles' = ReadyHandles
  BY DEF EventHandles, ReadyHandles
<1>2. /\ pending' = pending => PendingSet' = PendingSet
      /\ pending' = <<>> => PendingSet' = {}
  BY DEF PendingSet
<1>3. Underway' = PendingSet' \cup outstanding \cup ReadyHandles
  BY <1>1 DEF Underway
<1>4. BlocksApart'
  <2>1. \A w \in Workloads : NumChunks(w)' = NumChunks(w)
    BY DEF NumChunks
  <2>2. \A w \in live : w \in Workloads
    BY DEF TypeOK
  <2>3. Underway' \subseteq Underway
    BY <1>2, <1>3 DEF Underway
  <2> QED  BY <2>1, <2>2, <2>3 DEF BlocksApart, Places
<1>5. OnePlace'
  <2>1. \A i, j \in DOMAIN pending' : pending'[i] = pending'[j] => i = j
    BY DEF Places, OnePlace
  <2>2. \A i, j \in DOMAIN ready' : ready'[i].handle = ready'[j].handle => i = j
    BY DEF Places, OnePlace
  <2>3. PendingSet' \subseteq PendingSet
    BY <1>2
  <2> QED  BY <1>1, <2>1, <2>2, <2>3 DEF OnePlace, Places
<1>6. EventsAreTrue'
  BY DEF EventsAreTrue, Places
<1>7. StopsInOrder'
  BY DEF StopsInOrder, Places
<1> QED  BY <1>1, <1>2, <1>3, <1>4, <1>5, <1>6, <1>7 DEF Places

(* The storage answers a read. *)
LEMMA CompleteReadPlaces ==
  ASSUME TypeOK, Places, NEW h \in outstanding,
         NEW ret \in {Success, "ReadError"}, CompleteRead(h, ret)
  PROVE  /\ Places' /\ PendingSet' = PendingSet
         /\ EventHandles' = EventHandles
         /\ responder # "stopped" =>
              /\ ReadyHandles' = ReadyHandles \cup {h}
              /\ Underway' = Underway
         /\ responder = "stopped" =>
              /\ ReadyHandles' = ReadyHandles
              /\ Underway' = Underway \ {h}
<1> DEFINE e == [handle |-> h, ret |-> ret]
<1>1. /\ outstanding' = outstanding \ {h} /\ readOK \subseteq readOK'
      /\ ret = Success => h \in readOK'
      /\ UNCHANGED <<ChunkTask, taken, dropped, reader, queue, base, counter,
                     live, pending, pc, events, s3stop, clientStop, responder>>
  BY DEF CompleteRead, windowVars, taskVars
<1>2. h \in Underway /\ h \notin PendingSet \cup ReadyHandles \cup EventHandles
  BY DEF Underway, Places, OnePlace
<1>3. PendingSet' = PendingSet /\ EventHandles' = EventHandles
  BY <1>1 DEF PendingSet, EventHandles
<1>4. ready \in Seq(ReadyEvents) /\ Len(ready) \in Nat
      /\ DOMAIN ready = 1 .. Len(ready)
  BY DEF TypeOK
<1>5. responder # "stopped" =>
        /\ ready' = Append(ready, e)
        /\ DOMAIN ready' = 1 .. Len(ready) + 1
        /\ \A i \in 1 .. Len(ready) : ready'[i] = ready[i]
        /\ ready'[Len(ready) + 1] = e
  <2> SUFFICES ASSUME responder # "stopped"
               PROVE  /\ ready' = Append(ready, e)
                      /\ DOMAIN ready' = 1 .. Len(ready) + 1
                      /\ \A i \in 1 .. Len(ready) : ready'[i] = ready[i]
                      /\ ready'[Len(ready) + 1] = e
    OBVIOUS
  <2>1. ready' = Append(ready, e)
    BY DEF CompleteRead
  <2>2. e \in ReadyEvents
    BY DEF ReadyEvents, Outcomes, TypeOK
  <2> HIDE DEF e
  <2> QED  BY <1>4, <2>1, <2>2
<1>6. responder = "stopped" => ready' = ready
  BY DEF CompleteRead
<1>7. e.handle = h /\ e.ret = ret
  OBVIOUS
<1> HIDE DEF e
<1>8. CASE responder = "stopped"
  <2>1. ReadyHandles' = ReadyHandles
    BY <1>6, <1>8 DEF ReadyHandles
  <2>2. Underway' = Underway \ {h}
    BY <1>1, <1>2, <1>3, <2>1 DEF Underway
  <2>3. BlocksApart'
    <3>1. \A w \in Workloads : NumChunks(w)' = NumChunks(w)
      BY <1>1 DEF NumChunks
    <3>2. \A w \in live : w \in Workloads
      BY DEF TypeOK
    <3> QED  BY <1>1, <2>2, <3>1, <3>2 DEF BlocksApart, Places
  <2>4. OnePlace'
    BY <1>1, <1>3, <1>6, <1>8, <2>1 DEF OnePlace, Places
  <2>5. EventsAreTrue' /\ StopsInOrder'
    BY <1>1, <1>6, <1>8 DEF EventsAreTrue, StopsInOrder, Places
  <2> QED  BY <1>3, <1>8, <2>1, <2>2, <2>3, <2>4, <2>5 DEF Places
<1>9. CASE responder # "stopped"
  <2>1. ReadyHandles' = ReadyHandles \cup {h}
    <3>1. ASSUME NEW g \in ReadyHandles' PROVE g \in ReadyHandles \cup {h}
      <4> PICK i \in DOMAIN ready' : g = ready'[i].handle
        BY <3>1 DEF ReadyHandles
      <4>1. i \in 1 .. Len(ready) \/ i = Len(ready) + 1
        BY <1>4, <1>5, <1>9
      <4> QED  BY <1>4, <1>5, <1>7, <1>9, <4>1 DEF ReadyHandles
    <3>2. ASSUME NEW g \in ReadyHandles PROVE g \in ReadyHandles'
      <4> PICK i \in 1 .. Len(ready) : g = ready[i].handle
        BY <1>4, <3>2 DEF ReadyHandles
      <4>1. i \in DOMAIN ready' /\ g = ready'[i].handle
        BY <1>4, <1>5, <1>9
      <4> QED  BY <4>1 DEF ReadyHandles
    <3>3. h \in ReadyHandles'
      <4>1. Len(ready) + 1 \in DOMAIN ready'
        BY <1>4, <1>5, <1>9
      <4> QED  BY <1>5, <1>7, <1>9, <4>1 DEF ReadyHandles
    <3> QED  BY <3>1, <3>2, <3>3
  <2>2. Underway' = Underway
    BY <1>1, <1>2, <1>3, <2>1 DEF Underway
  <2>3. BlocksApart'
    <3>1. \A w \in Workloads : NumChunks(w)' = NumChunks(w)
      BY <1>1 DEF NumChunks
    <3>2. \A w \in live : w \in Workloads
      BY DEF TypeOK
    <3> QED  BY <1>1, <2>2, <3>1, <3>2 DEF BlocksApart, Places
  <2>4. \A i, j \in DOMAIN ready' :
          ready'[i].handle = ready'[j].handle => i = j
    <3> SUFFICES ASSUME NEW i \in DOMAIN ready', NEW j \in DOMAIN ready',
                        ready'[i].handle = ready'[j].handle
                 PROVE  i = j
      OBVIOUS
    <3>1. /\ i \in 1 .. Len(ready) \/ i = Len(ready) + 1
          /\ j \in 1 .. Len(ready) \/ j = Len(ready) + 1
      BY <1>4, <1>5, <1>9
    <3>2. \A k \in 1 .. Len(ready) : ready'[k].handle # h
      BY <1>2, <1>4, <1>5, <1>9 DEF ReadyHandles
    <3>3. ready'[Len(ready) + 1].handle = h
      BY <1>5, <1>7, <1>9
    <3>4. \A k, l \in 1 .. Len(ready) :
            ready'[k].handle = ready'[l].handle => k = l
      BY <1>4, <1>5, <1>9 DEF Places, OnePlace
    <3> QED  BY <3>1, <3>2, <3>3, <3>4
  <2>5. OnePlace'
    BY <1>1, <1>2, <1>3, <2>1, <2>4 DEF OnePlace, Places
  <2>6. \A i \in DOMAIN ready' :
          ready'[i].ret = Success => ready'[i].handle \in readOK'
    <3> SUFFICES ASSUME NEW i \in DOMAIN ready', ready'[i].ret = Success
                 PROVE  ready'[i].handle \in readOK'
      OBVIOUS
    <3>1. i \in 1 .. Len(ready) \/ i = Len(ready) + 1
      BY <1>4, <1>5, <1>9
    <3>2. ASSUME i \in 1 .. Len(ready)
          PROVE  ready'[i].handle \in readOK'
      <4>1. ready'[i] = ready[i] /\ i \in DOMAIN ready
        BY <1>4, <1>5, <1>9, <3>2
      <4> QED  BY <1>1, <4>1 DEF Places, EventsAreTrue
    <3>3. ASSUME i = Len(ready) + 1
          PROVE  ready'[i].handle \in readOK'
      BY <1>1, <1>5, <1>7, <1>9, <3>3
    <3> QED  BY <3>1, <3>2, <3>3
  <2>7. EventsAreTrue' /\ StopsInOrder'
    BY <1>1, <2>6 DEF EventsAreTrue, StopsInOrder, Places
  <2> QED  BY <1>3, <1>9, <2>1, <2>2, <2>3, <2>5, <2>7 DEF Places
<1> QED  BY <1>8, <1>9

(* A wait returns events: what was ready is now in the round of events,    *)
(* the sentinel, whose handle is none's, behind it.                        *)
LEMMA ResponsePlaces ==
  ASSUME TypeOK, Places, AsyncResponse
  PROVE  /\ Places' /\ PendingSet' = PendingSet
         /\ Underway' \ {0} = Underway
         /\ ReadyHandles' \cup EventHandles' \subseteq ReadyHandles \cup {0}
         /\ ReadyHandles \subseteq ReadyHandles' \cup EventHandles'
<1>1. /\ pc = "wait" /\ pc' = "events"
      /\ UNCHANGED <<ChunkTask, taken, dropped, reader, queue, base, counter,
                     live, pending, s3stop, clientStop, responder, outstanding,
                     readOK>>
  BY DEF AsyncResponse, windowVars, taskVars
<1>2. events = <<>> /\ EventHandles = {}
  BY <1>1 DEF Places, EventsAreTrue, EventHandles
<1>3. ready \in Seq(ReadyEvents) /\ Len(ready) \in Nat
      /\ DOMAIN ready = 1 .. Len(ready)
      /\ \A i \in 1 .. Len(ready) :
           ready[i].handle \in Nat \ {0} /\ ready[i] # Sentinel
  <2>1. ready \in Seq(ReadyEvents)
    BY DEF TypeOK
  <2>2. \A e \in ReadyEvents : e.handle \in Nat \ {0} /\ e # Sentinel
    BY DEF ReadyEvents, Sentinel
  <2> QED  BY <2>1, <2>2
<1>4. PendingSet' = PendingSet /\ 0 \notin PendingSet \cup outstanding
  <2>1. pending \in Seq(Nat \ {0}) /\ 0 \notin outstanding
    BY DEF TypeOK
  <2> QED  BY <1>1, <2>1 DEF PendingSet
<1>5. Sentinel.handle = 0 /\ Sentinel.ret # Success
  BY DEF Sentinel, Success
<1> DEFINE Split(n) ==
        /\ DOMAIN ready' = 1 .. Len(ready) - n
        /\ \A i \in 1 .. Len(ready) - n : ready'[i] = ready[i + n]
        /\ Len(events') >= n /\ Len(events') <= n + 1 /\ Len(events') > 0
        /\ Len(events') \in Nat
        /\ DOMAIN events' = 1 .. Len(events')
        /\ \A i \in 1 .. n : events'[i] = ready[i]
        /\ Len(events') = n + 1 => events'[n + 1] = Sentinel
<1>6. \E n \in 0 .. Len(ready) : Split(n)
  <2>1. CASE events' = <<Sentinel>> /\ ready' = ready
    <3>1. /\ Len(events') = 1 /\ DOMAIN events' = 1 .. 1
          /\ events'[1] = Sentinel
      BY <2>1
    <3>2. 0 \in 0 .. Len(ready)
      BY <1>3
    <3>3. /\ DOMAIN ready' = 1 .. Len(ready) - 0
          /\ \A i \in 1 .. Len(ready) - 0 : ready'[i] = ready[i + 0]
      BY <1>3, <2>1
    <3> QED  BY <3>1, <3>2, <3>3
  <2>2. ASSUME NEW n \in 1 .. Len(ready),
               ready' = SubSeq(ready, n + 1, Len(ready)),
               events' = SubSeq(ready, 1, n)
        PROVE  Split(n)
    <3>1. /\ Len(events') = n /\ DOMAIN events' = 1 .. n
          /\ \A i \in 1 .. n : events'[i] = ready[i]
      BY <1>3, <2>2
    <3>2. /\ DOMAIN ready' = 1 .. Len(ready) - n
          /\ \A i \in 1 .. Len(ready) - n : ready'[i] = ready[i + n]
      BY <1>3, <2>2
    <3> QED  BY <1>3, <3>1, <3>2
  <2>3. ASSUME ready' = SubSeq(ready, Len(ready) + 1, Len(ready)),
               events' = Append(ready, Sentinel), Len(ready) > 0
        PROVE  Split(Len(ready))
    <3>1. /\ Len(events') = Len(ready) + 1
          /\ DOMAIN events' = 1 .. Len(ready) + 1
          /\ \A i \in 1 .. Len(ready) : events'[i] = ready[i]
          /\ events'[Len(ready) + 1] = Sentinel
      BY <1>3, <2>3
    <3>2. /\ DOMAIN ready' = 1 .. Len(ready) - Len(ready)
          /\ \A i \in 1 .. Len(ready) - Len(ready) :
               ready'[i] = ready[i + Len(ready)]
      BY <1>3, <2>3
    <3>3. Len(ready) \in 0 .. Len(ready)
      BY <1>3
    <3> QED  BY <1>3, <3>1, <3>2, <3>3
  <2>4. \/ events' = <<Sentinel>> /\ ready' = ready
        \/ \E n \in 1 .. Len(ready) :
             /\ ready' = SubSeq(ready, n + 1, Len(ready))
             /\ \/ events' = SubSeq(ready, 1, n)
                \/ n = Len(ready) /\ events' = Append(ready, Sentinel)
    BY DEF AsyncResponse
  <2>5. CASE events' = <<Sentinel>> /\ ready' = ready
    BY <1>3, <2>1, <2>5
  <2>6. ASSUME NEW n \in 1 .. Len(ready),
               ready' = SubSeq(ready, n + 1, Len(ready)),
               \/ events' = SubSeq(ready, 1, n)
               \/ n = Len(ready) /\ events' = Append(ready, Sentinel)
        PROVE  \E m \in 0 .. Len(ready) : Split(m)
    <3> HIDE DEF Split
    <3>1. n \in 0 .. Len(ready) /\ Len(ready) \in 0 .. Len(ready)
          /\ Len(ready) > 0
      BY <1>3
    <3>2. CASE events' = SubSeq(ready, 1, n)
      BY <2>2, <2>6, <3>1, <3>2
    <3>3. CASE n = Len(ready) /\ events' = Append(ready, Sentinel)
      BY <2>3, <2>6, <3>1, <3>3
    <3> QED  BY <2>6, <3>2, <3>3
  <2> HIDE DEF Split
  <2> QED  BY <2>4, <2>5, <2>6
<1>7. PICK n \in 0 .. Len(ready) : Split(n)
  BY <1>6
<1>8. /\ n \in Nat /\ Len(events') \in Nat
      /\ Len(events') = n \/ Len(events') = n + 1
      /\ \A i \in 1 .. n : i \in 1 .. Len(ready)
      /\ \A i \in 1 .. Len(ready) - n : i + n \in 1 .. Len(ready)
  <2>1. n \in Nat /\ n <= Len(ready)
    BY <1>3
  <2>2. Len(events') >= n /\ Len(events') <= n + 1 /\ Len(events') \in Nat
    BY <1>7
  <2> QED  BY <1>3, <2>1, <2>2
<1>9. ReadyHandles' \cup EventHandles' \subseteq ReadyHandles \cup {0}
  <2>1. ASSUME NEW g \in ReadyHandles' PROVE g \in ReadyHandles
    <3> PICK i \in 1 .. Len(ready) - n : g = ready'[i].handle
      BY <1>7, <2>1 DEF ReadyHandles
    <3>1. g = ready[i + n].handle /\ i + n \in DOMAIN ready
      BY <1>3, <1>7, <1>8
    <3> QED  BY <3>1 DEF ReadyHandles
  <2>2. ASSUME NEW g \in EventHandles' PROVE g \in ReadyHandles \cup {0}
    <3> PICK i \in 1 .. Len(events') : g = events'[i].handle
      BY <1>7, <2>2 DEF EventHandles
    <3>1. i \in 1 .. n \/ (i = n + 1 /\ Len(events') = n + 1)
      BY <1>8
    <3>2. CASE i \in 1 .. n
      <4>1. g = ready[i].handle /\ i \in DOMAIN ready
        BY <1>3, <1>7, <1>8, <3>2
      <4> QED  BY <4>1 DEF ReadyHandles
    <3>3. CASE i = n + 1 /\ Len(events') = n + 1
      BY <1>5, <1>7, <3>3
    <3> QED  BY <3>1, <3>2, <3>3
  <2> QED  BY <2>1, <2>2
<1>10. ReadyHandles \subseteq ReadyHandles' \cup EventHandles'
  <2> SUFFICES ASSUME NEW i \in 1 .. Len(ready)
               PROVE  ready[i].handle \in ReadyHandles' \cup EventHandles'
    BY <1>3 DEF ReadyHandles
  <2>1. CASE i <= n
    <3>1. i \in 1 .. n /\ i \in 1 .. Len(events')
      BY <1>8, <2>1
    <3>2. i \in DOMAIN events' /\ events'[i] = ready[i]
      BY <1>7, <3>1
    <3> QED  BY <3>2 DEF EventHandles
  <2>2. CASE i > n
    <3>1. i - n \in 1 .. Len(ready) - n /\ (i - n) + n = i
      BY <1>3, <1>8, <2>2
    <3>2. i - n \in DOMAIN ready' /\ ready'[i - n] = ready[i]
      BY <1>7, <3>1
    <3> QED  BY <3>2 DEF ReadyHandles
  <2> QED  BY <1>8, <2>1, <2>2
<1>11. 0 \notin ReadyHandles
  BY <1>3 DEF ReadyHandles
<1>12. Underway' \ {0} = Underway
  BY <1>1, <1>2, <1>4, <1>9, <1>10, <1>11 DEF Underway
<1>13. \A i, j \in 1 .. Len(ready) : ready[i].handle = ready[j].handle => i = j
  BY <1>3 DEF Places, OnePlace
<1>14. OnePlace'
  <2>1. \A i, j \in DOMAIN ready' :
          ready'[i].handle = ready'[j].handle => i = j
    <3> SUFFICES ASSUME NEW i \in 1 .. Len(ready) - n,
                        NEW j \in 1 .. Len(ready) - n,
                        ready'[i].handle = ready'[j].handle
                 PROVE  i = j
      BY <1>7
    <3>1. ready[i + n].handle = ready[j + n].handle
      BY <1>7
    <3>2. i + n = j + n
      BY <1>8, <1>13, <3>1
    <3> QED  BY <1>8, <3>2
  <2>2. \A i, j \in DOMAIN events' :
          events'[i].handle = events'[j].handle => i = j
    <3> SUFFICES ASSUME NEW i \in 1 .. Len(events'),
                        NEW j \in 1 .. Len(events'),
                        events'[i].handle = events'[j].handle
                 PROVE  i = j
      BY <1>7
    <3>1. \A k \in 1 .. Len(events') :
            \/ k \in 1 .. n /\ events'[k].handle = ready[k].handle
            \/ k = n + 1 /\ events'[k].handle = 0
      <4> TAKE k \in 1 .. Len(events')
      <4>1. k \in 1 .. n \/ (k = n + 1 /\ Len(events') = n + 1)
        BY <1>8
      <4> QED  BY <1>5, <1>7, <4>1
    <3>2. \A k \in 1 .. n : ready[k].handle # 0
      BY <1>3, <1>8
    <3> QED  BY <1>8, <1>13, <3>1, <3>2
  <2>3. ReadyHandles' \cap EventHandles' = {}
    <3> SUFFICES ASSUME NEW i \in 1 .. Len(ready) - n,
                        NEW j \in 1 .. Len(events'),
                        ready'[i].handle = events'[j].handle
                 PROVE  FALSE
      BY <1>7 DEF ReadyHandles, EventHandles
    <3>1. ready'[i].handle = ready[i + n].handle /\ i + n \in 1 .. Len(ready)
          /\ ready[i + n].handle # 0
      BY <1>3, <1>7, <1>8
    <3>2. \/ j \in 1 .. n /\ events'[j].handle = ready[j].handle
          \/ j = n + 1 /\ events'[j].handle = 0
      BY <1>5, <1>7, <1>8
    <3>3. j \in 1 .. n /\ i + n = j
      BY <1>8, <1>13, <3>1, <3>2
    <3> QED  BY <1>8, <3>3
  <2>4. /\ PendingSet \cap (outstanding \cup ReadyHandles) = {}
        /\ outstanding \cap ReadyHandles = {}
    BY DEF Places, OnePlace
  <2>5. \A i, j \in DOMAIN pending' : pending'[i] = pending'[j] => i = j
    BY <1>1 DEF Places, OnePlace
  <2> QED  BY <1>1, <1>4, <1>9, <2>1, <2>2, <2>3, <2>4, <2>5 DEF OnePlace
<1>15. BlocksApart'
  <2>1. \A w \in Workloads : NumChunks(w)' = NumChunks(w)
    BY <1>1 DEF NumChunks
  <2>2. \A w \in live : w \in Workloads
    BY DEF TypeOK
  <2>3. \A g \in Underway' : g < counter
    <3>1. 0 < counter
      BY DEF TypeOK
    <3> QED  BY <1>12, <3>1 DEF Places, BlocksApart
  <2> QED  BY <1>1, <2>1, <2>2, <2>3 DEF BlocksApart, Places
<1>16. EventsAreTrue'
  <2>1. /\ pc' = "events" /\ events' # <<>>
    <3>1. Len(events') > 0
      BY <1>7
    <3> QED  BY <1>1, <3>1
  <2>2. \A i \in 1 .. n : events'[i] = ready[i] /\ ready[i] # Sentinel
    BY <1>3, <1>7, <1>8
  <2>3. \A i \in 1 .. Len(events') :
          i \in 1 .. n \/ (i = n + 1 /\ i = Len(events'))
    BY <1>8
  <2>4. \A i \in DOMAIN events' : events'[i] = Sentinel => i = Len(events')
    BY <1>7, <2>2, <2>3
  <2>5. \A i \in 1 .. Len(ready) :
          ready[i].ret = Success => ready[i].handle \in readOK
    BY <1>3 DEF Places, EventsAreTrue
  <2>6. \A i \in DOMAIN events' :
          events'[i].ret = Success => events'[i].handle \in readOK'
    <3> SUFFICES ASSUME NEW i \in 1 .. Len(events'), events'[i].ret = Success
                 PROVE  events'[i].handle \in readOK
      BY <1>1, <1>7
    <3>1. i \in 1 .. n
      BY <1>5, <1>7, <2>3
    <3> QED  BY <1>8, <2>2, <2>5, <3>1
  <2>7. \A i \in DOMAIN ready' :
          ready'[i].ret = Success => ready'[i].handle \in readOK'
    <3> SUFFICES ASSUME NEW i \in 1 .. Len(ready) - n
                 PROVE  ready'[i].ret = Success => ready'[i].handle \in readOK
      BY <1>1, <1>7
    <3> QED  BY <1>7, <1>8, <2>5
  <2> QED  BY <2>1, <2>4, <2>6, <2>7 DEF EventsAreTrue
<1>17. StopsInOrder'
  BY <1>1 DEF StopsInOrder, Places
<1> QED  BY <1>4, <1>9, <1>10, <1>12, <1>14, <1>15, <1>16, <1>17 DEF Places

(* A new block of handles is above and apart from the blocks there are. *)
LEMMA NewBlock ==
  ASSUME TypeOK, BlocksApart, NEW w \in Workloads, w \notin taken,
         NumChunks(w) > 0,
         ChunkTask' = ChunkTask, taken' = taken \cup {w},
         base' = [base EXCEPT ![w] = counter],
         counter' = counter + NumChunks(w)
  PROVE  /\ base[w] = 0 /\ base'[w] = counter
         /\ \A v \in Workloads \ {w} : base'[v] = base[v]
         /\ counter < counter'
         /\ \A v \in Workloads : base'[v] # 0 =>
              /\ v \in taken'
              /\ base'[v] + NumChunks(v)' <= counter'
              /\ \A u \in Workloads :
                   base'[u] # 0 /\ u # v =>
                     \/ base'[u] + NumChunks(u)' <= base'[v]
                     \/ base'[v] + NumChunks(v)' <= base'[u]
<1>1. /\ counter \in Nat \ {0} /\ base \in [Workloads -> Nat]
      /\ \A v \in Workloads :
           NumChunks(v) \in Nat /\ NumChunks(v)' = NumChunks(v)
  <2>1. \A v \in Workloads : NumChunks(v) \in Nat
    BY ChunksAreOwn
  <2>2. \A v \in Workloads : NumChunks(v)' = NumChunks(v)
    BY DEF NumChunks
  <2> QED  BY <2>1, <2>2 DEF TypeOK
<1>2. base[w] = 0
  BY DEF BlocksApart
<1>3. base'[w] = counter /\ \A v \in Workloads \ {w} : base'[v] = base[v]
  BY <1>1
<1>4. counter < counter'
  BY <1>1
<1>5. \A v \in Workloads \ {w} : base[v] # 0 =>
        v \in taken /\ base[v] + NumChunks(v) <= counter
  BY DEF BlocksApart
<1>6. ASSUME NEW v \in Workloads, base'[v] # 0
      PROVE  v \in taken' /\ base'[v] + NumChunks(v)' <= counter'
  <2>1. CASE v = w
    BY <1>1, <1>3, <2>1
  <2>2. CASE v # w
    <3>1. base'[v] = base[v] /\ base[v] + NumChunks(v) <= counter /\ v \in taken
      BY <1>3, <1>5, <1>6, <2>2
    <3> QED  BY <1>1, <1>4, <3>1
  <2> QED  BY <2>1, <2>2
<1>7. ASSUME NEW v \in Workloads, NEW u \in Workloads,
             base'[v] # 0, base'[u] # 0, u # v
      PROVE  \/ base'[u] + NumChunks(u)' <= base'[v]
             \/ base'[v] + NumChunks(v)' <= base'[u]
  <2>1. CASE v # w /\ u # w
    BY <1>1, <1>3, <1>7, <2>1 DEF BlocksApart
  <2>2. CASE v = w
    BY <1>1, <1>3, <1>5, <1>7, <2>2
  <2>3. CASE u = w
    BY <1>1, <1>3, <1>5, <1>7, <2>3
  <2> QED  BY <2>1, <2>2, <2>3
<1> QED  BY <1>2, <1>3, <1>4, <1>6, <1>7

(* A workload is enqueued: its handles are pending, behind the others. *)
LEMMA EnqueuePlaces ==
  ASSUME TypeOK, Places, NEW w \in Workloads, Enqueue(w)
  PROVE  /\ Places' /\ base[w] = 0 /\ base'[w] = counter
         /\ \A v \in Workloads \ {w} : base'[v] = base[v]
         /\ PendingSet' = PendingSet \cup counter .. counter + NumChunks(w) - 1
         /\ Underway' = Underway \cup counter .. counter + NumChunks(w) - 1
         /\ \A h \in counter .. counter + NumChunks(w) - 1 : h \notin Underway
<1>1. /\ w \notin taken /\ NumChunks(w) > 0
      /\ ChunkTask' = ChunkTask /\ taken' = taken \cup {w}
      /\ base' = [base EXCEPT ![w] = counter]
      /\ counter' = counter + NumChunks(w)
      /\ live' = live \cup {w} /\ queue' = TRUE
      /\ pending' = pending \o [i \in 1 .. NumChunks(w) |-> counter + i - 1]
      /\ pc = "top" /\ pc' = "loop"
      /\ UNCHANGED <<dropped, events, outstanding, ready, readOK, s3stop,
                     clientStop, responder>>
  BY DEF Enqueue, Take, clientVars
<1> PICK n \in Nat \ {0} : n = NumChunks(w)
  BY <1>1, ChunksAreOwn
<1> PICK c \in Nat \ {0} : c = counter
  BY DEF TypeOK
<1> DEFINE New == [i \in 1 .. n |-> c + i - 1]
<1>2. /\ pending \in Seq(Nat \ {0}) /\ New \in Seq(Nat \ {0}) /\ Len(New) = n
      /\ \A i \in 1 .. n : New[i] = c + i - 1
  <2>1. pending \in Seq(Nat \ {0})
    BY DEF TypeOK
  <2>2. \A i \in 1 .. n : c + i - 1 \in Nat \ {0}
    OBVIOUS
  <2> QED  BY <2>1, <2>2
<1>3. pending' = pending \o New
  BY <1>1
<1> HIDE DEF New
<1> PICK m \in Nat : m = Len(pending)
  BY <1>2
<1>4. /\ DOMAIN pending = 1 .. m /\ DOMAIN pending' = 1 .. m + n
      /\ \A i \in 1 .. m : pending'[i] = pending[i]
      /\ \A i \in 1 .. n : pending'[m + i] = c + i - 1
  <2>1. Len(pending') = m + n /\ DOMAIN pending' = 1 .. m + n
    BY <1>2, <1>3
  <2>2. \A i \in 1 .. m : pending'[i] = pending[i]
    BY <1>2, <1>3
  <2>3. \A i \in 1 .. n : pending'[m + i] = New[i]
    BY <1>2, <1>3
  <2> QED  BY <1>2, <2>1, <2>2, <2>3
<1>5. PendingSet' = PendingSet \cup c .. c + n - 1
  <2>1. ASSUME NEW h \in PendingSet' PROVE h \in PendingSet \cup c .. c + n - 1
    <3> PICK i \in 1 .. m + n : h = pending'[i]
      BY <1>4, <2>1 DEF PendingSet
    <3>1. CASE i \in 1 .. m
      BY <1>4, <3>1 DEF PendingSet
    <3>2. CASE i > m
      <4>1. i - m \in 1 .. n /\ m + (i - m) = i
        BY <3>2
      <4>2. h = c + (i - m) - 1
        BY <1>4, <4>1
      <4> QED  BY <4>1, <4>2
    <3> QED  BY <3>1, <3>2
  <2>2. ASSUME NEW h \in PendingSet PROVE h \in PendingSet'
    <3> PICK i \in 1 .. m : h = pending[i]
      BY <1>4, <2>2 DEF PendingSet
    <3>1. i \in DOMAIN pending' /\ pending'[i] = h
      BY <1>4
    <3> QED  BY <3>1 DEF PendingSet
  <2>3. ASSUME NEW h \in c .. c + n - 1 PROVE h \in PendingSet'
    <3>1. h - c + 1 \in 1 .. n /\ m + (h - c + 1) \in 1 .. m + n
      OBVIOUS
    <3>2. pending'[m + (h - c + 1)] = c + (h - c + 1) - 1
      BY <1>4, <3>1
    <3>3. c + (h - c + 1) - 1 = h
      OBVIOUS
    <3> QED  BY <1>4, <3>1, <3>2, <3>3 DEF PendingSet
  <2> QED  BY <2>1, <2>2, <2>3
<1>6. ReadyHandles' = ReadyHandles /\ EventHandles' = EventHandles
  BY <1>1 DEF ReadyHandles, EventHandles
<1>7. Underway' = Underway \cup c .. c + n - 1
  BY <1>1, <1>5, <1>6 DEF Underway
<1>8. \A h \in Underway : h \in Nat /\ h < c
  BY UnderwayIsNat DEF Places, BlocksApart
<1>9. \A h \in c .. c + n - 1 : h \notin Underway
  BY <1>8
<1>10. OnePlace'
  <2>1. \A i, j \in DOMAIN pending' : pending'[i] = pending'[j] => i = j
    <3> SUFFICES ASSUME NEW i \in 1 .. m + n, NEW j \in 1 .. m + n,
                        pending'[i] = pending'[j]
                 PROVE  i = j
      BY <1>4
    <3>1. \A k \in 1 .. m + n :
            \/ k \in 1 .. m /\ pending'[k] = pending[k] /\ pending[k] < c
               /\ pending[k] \in Nat
            \/ k \notin 1 .. m /\ pending'[k] = c + (k - m) - 1
      <4> TAKE k \in 1 .. m + n
      <4>1. CASE k \in 1 .. m
        <5>1. pending[k] \in Underway
          BY <1>4, <4>1 DEF Underway, PendingSet
        <5> QED  BY <1>4, <1>8, <4>1, <5>1
      <4>2. CASE k \notin 1 .. m
        <5>1. k - m \in 1 .. n /\ m + (k - m) = k
          BY <4>2
        <5> QED  BY <1>4, <4>2, <5>1
      <4> QED  BY <4>1, <4>2
    <3>2. CASE i \in 1 .. m /\ j \in 1 .. m
      BY <1>4, <3>2 DEF Places, OnePlace
    <3>3. CASE i \notin 1 .. m \/ j \notin 1 .. m
      BY <3>1, <3>3
    <3> QED  BY <3>2, <3>3
  <2>2. outstanding \cup ReadyHandles \cup EventHandles \subseteq Underway
    BY DEF Underway
  <2>3. /\ \A i, j \in DOMAIN ready : ready[i].handle = ready[j].handle => i = j
        /\ \A i, j \in DOMAIN events :
             events[i].handle = events[j].handle => i = j
        /\ PendingSet \cap (outstanding \cup ReadyHandles \cup EventHandles)
             = {}
        /\ outstanding \cap (ReadyHandles \cup EventHandles) = {}
        /\ ReadyHandles \cap EventHandles = {}
    BY DEF Places, OnePlace
  <2> QED  BY <1>1, <1>5, <1>6, <1>9, <2>1, <2>2, <2>3 DEF OnePlace
<1>11. /\ base[w] = 0 /\ base'[w] = counter
       /\ \A v \in Workloads \ {w} : base'[v] = base[v]
       /\ counter < counter'
       /\ \A v \in Workloads : base'[v] # 0 =>
            /\ v \in taken'
            /\ base'[v] + NumChunks(v)' <= counter'
            /\ \A u \in Workloads :
                 base'[u] # 0 /\ u # v =>
                   \/ base'[u] + NumChunks(u)' <= base'[v]
                   \/ base'[v] + NumChunks(v)' <= base'[u]
  BY <1>1, NewBlock DEF Places
<1>12. BlocksApart'
  <2>1. \A v \in live' :
          base'[v] # 0 /\ NumChunks(v)' > 0 /\ v \notin dropped'
    <3> TAKE v \in live'
    <3>1. NumChunks(v)' = NumChunks(v)
      BY <1>1 DEF NumChunks
    <3>2. CASE v = w
      BY <1>1, <1>11, <3>1, <3>2 DEF TypeOK
    <3>3. CASE v # w
      BY <1>1, <1>11, <3>1, <3>3 DEF TypeOK, Places, BlocksApart
    <3> QED  BY <3>2, <3>3
  <2>2. \A h \in Underway' : h < counter'
    <3>1. \A h \in Underway : h < c + n
      BY <1>8
    <3> QED  BY <1>1, <1>7, <3>1
  <2> QED  BY <1>11, <2>1, <2>2 DEF BlocksApart
<1>13. EventsAreTrue'
  BY <1>1 DEF EventsAreTrue, Places
<1>14. StopsInOrder'
  BY <1>1 DEF StopsInOrder, Places
<1> QED  BY <1>5, <1>7, <1>9, <1>10, <1>11, <1>12, <1>13, <1>14 DEF Places

(* An allocation of enqueue throws: nothing is pending or live any more. *)
LEMMA ThrowPlaces ==
  ASSUME TypeOK, Places, NEW w \in Workloads, EnqueueThrows(w)
  PROVE  /\ Places' /\ base[w] = 0
         /\ \A v \in Workloads \ {w} : base'[v] = base[v]
         /\ PendingSet' = {}
         /\ Underway' = outstanding \cup ReadyHandles \cup EventHandles
<1>1. /\ w \notin taken /\ NumChunks(w) > 0
      /\ ChunkTask' = ChunkTask /\ taken' = taken \cup {w}
      /\ base' = [base EXCEPT ![w] = counter]
      /\ counter' = counter + NumChunks(w)
      /\ live' = {} /\ queue' = TRUE /\ pending' = <<>>
      /\ pc = "top" /\ pc' = "loop"
      /\ UNCHANGED <<events, outstanding, ready, readOK, s3stop, clientStop,
                     responder>>
  BY DEF EnqueueThrows, Take, clientVars
<1>2. PendingSet' = {}
  BY <1>1 DEF PendingSet
<1>3. ReadyHandles' = ReadyHandles /\ EventHandles' = EventHandles
  BY <1>1 DEF ReadyHandles, EventHandles
<1>4. Underway' = outstanding \cup ReadyHandles \cup EventHandles
  BY <1>1, <1>2, <1>3 DEF Underway
<1>5. OnePlace'
  BY <1>1, <1>2, <1>3 DEF OnePlace, Places
<1>6. /\ base[w] = 0 /\ base'[w] = counter
      /\ \A v \in Workloads \ {w} : base'[v] = base[v]
      /\ counter < counter'
      /\ \A v \in Workloads : base'[v] # 0 =>
           /\ v \in taken'
           /\ base'[v] + NumChunks(v)' <= counter'
           /\ \A u \in Workloads :
                base'[u] # 0 /\ u # v =>
                  \/ base'[u] + NumChunks(u)' <= base'[v]
                  \/ base'[v] + NumChunks(v)' <= base'[u]
  BY <1>1, NewBlock DEF Places
<1>7. BlocksApart'
  <2>1. \A h \in Underway : h < counter
    BY DEF Places, BlocksApart
  <2>2. \A h \in Underway' : h \in Nat /\ h < counter'
    <3>1. counter \in Nat /\ counter' \in Nat
      <4>1. counter \in Nat /\ NumChunks(w) \in Nat
        BY ChunksAreOwn DEF TypeOK
      <4> QED  BY <1>1, <4>1
    <3> QED  BY <1>4, <1>6, <2>1, <3>1, UnderwayIsNat DEF Underway
  <2> QED  BY <1>1, <1>6, <2>2 DEF BlocksApart
<1>8. EventsAreTrue' /\ StopsInOrder'
  BY <1>1 DEF EventsAreTrue, StopsInOrder, Places
<1> QED  BY <1>2, <1>4, <1>5, <1>6, <1>7, <1>8 DEF Places

-----------------------------------------------------------------------------
(* complete_chunk *)

(* The unfinished tasks of a workload can be counted. *)
LEMMA UnfinishedIsFinite ==
  ASSUME NEW w
  PROVE  /\ IsFiniteSet(Unfinished(w)) /\ Cardinality(Unfinished(w)) \in Nat
         /\ Cardinality(Unfinished(w)) = 0 <=> Unfinished(w) = {}
<1>1. IsFiniteSet(Tasks) /\ Unfinished(w) \subseteq Tasks
  BY ObjectStorageWorkerAssumption
     DEF ObjectStorageWorkerAssumption, Unfinished, TasksOf
<1> QED  BY <1>1, FS_Subset, FS_CardinalityType, FS_EmptySet

(* What complete_chunk does to the counts: the task has a chunk less, the  *)
(* first error stays, and the workload leaves with its last open task.     *)
LEMMA Settles ==
  ASSUME TypeOK, OpenIsUnfinished, NEW t \in LiveTasks, remaining[t] > 0,
         NEW ret \in Codes, NEW u \in Nat,
         CompleteChunk(WorkloadOf[t], t, ret, u)
  PROVE  /\ remaining' \in [Tasks -> Nat] /\ remaining'[t] = remaining[t] - 1
         /\ \A s \in Tasks \ {t} :
              remaining'[s] = remaining[s] /\ error'[s] = error[s]
         /\ error' \in [Tasks -> Codes]
         /\ error'[t] = (IF error[t] = Success THEN ret ELSE error[t])
         /\ used' \in Nat /\ used' = (IF u >= 1 THEN u - 1 ELSE 0)
         /\ openTasks' \in [Workloads -> Nat]
         /\ \/ live' = live
            \/ /\ live' = live \ {WorkloadOf[t]}
               /\ \A s \in TasksOf(WorkloadOf[t]) : remaining'[s] = 0
         /\ OpenIsUnfinished'
<1> PICK w \in live : w = WorkloadOf[t]
  BY DEF LiveTasks
<1>1. /\ w \in Workloads /\ t \in Tasks /\ remaining \in [Tasks -> Nat]
      /\ openTasks \in [Workloads -> Nat] /\ error \in [Tasks -> Codes]
      /\ live \subseteq Workloads
  BY DEF TypeOK, LiveTasks
<1> PICK err \in Codes : err = IF error[t] = Success THEN ret ELSE error[t]
  BY <1>1
<1> PICK settled \in {0, 1} : settled = IF remaining[t] = 1 THEN 1 ELSE 0
  OBVIOUS
<1> DEFINE final == settled > 0 /\ openTasks[w] = settled
<1>2. /\ used' = IF u >= 1 THEN u - 1 ELSE 0
      /\ error' = [error EXCEPT ![t] = err]
      /\ remaining' = [remaining EXCEPT ![t] = @ - 1]
      /\ openTasks' = [openTasks EXCEPT ![w] = @ - settled]
      /\ live' = IF final THEN live \ {w} ELSE live
  BY DEF CompleteChunk, SettleChunk
<1>3. /\ remaining' \in [Tasks -> Nat] /\ remaining'[t] = remaining[t] - 1
      /\ \A s \in Tasks \ {t} :
           remaining'[s] = remaining[s] /\ error'[s] = error[s]
      /\ error' \in [Tasks -> Codes] /\ error'[t] = err
  BY <1>1, <1>2
<1>4. used' \in Nat /\ used' = IF u >= 1 THEN u - 1 ELSE 0
  BY <1>2
<1>5. /\ openTasks[w] = Cardinality(Unfinished(w)) /\ openTasks[w] > 0
      /\ t \in Unfinished(w) /\ openTasks[w] \in Nat
  BY <1>1 DEF OpenIsUnfinished, Unfinished, TasksOf
<1>6. /\ openTasks'[w] = openTasks[w] - settled
      /\ openTasks' \in [Workloads -> Nat]
      /\ \A v \in Workloads \ {w} : openTasks'[v] = openTasks[v]
  <2>1. openTasks[w] - settled \in Nat
    BY <1>5
  <2> QED  BY <1>1, <1>2, <2>1
<1>7. \A v \in Workloads \ {w} : Unfinished(v)' = Unfinished(v)
  BY <1>3 DEF Unfinished, TasksOf
<1>8. Cardinality(Unfinished(w)') = openTasks'[w]
  <2>1. CASE settled = 0
    <3>1. remaining[t] # 1 /\ remaining'[t] > 0
      BY <1>1, <1>3, <2>1
    <3>2. Unfinished(w)' = Unfinished(w)
      BY <1>3, <1>5, <3>1 DEF Unfinished, TasksOf
    <3> QED  BY <1>5, <1>6, <2>1, <3>2
  <2>2. CASE settled = 1
    <3>1. remaining'[t] = 0
      BY <1>1, <1>3, <2>2
    <3>2. Unfinished(w)' = Unfinished(w) \ {t}
      BY <1>3, <3>1 DEF Unfinished, TasksOf
    <3>3. Cardinality(Unfinished(w) \ {t}) = Cardinality(Unfinished(w)) - 1
      BY <1>5, UnfinishedIsFinite, FS_RemoveElement
    <3> QED  BY <1>5, <1>6, <2>2, <3>2, <3>3
  <2> QED  BY <2>1, <2>2
<1>9. ASSUME final
      PROVE  \A s \in TasksOf(w) : remaining'[s] = 0
  <2>1. openTasks'[w] = 0
    BY <1>5, <1>6, <1>9
  <2>2. IsFiniteSet(Unfinished(w)')
    <3>1. IsFiniteSet(Tasks) /\ Unfinished(w)' \subseteq Tasks
      BY ObjectStorageWorkerAssumption
         DEF ObjectStorageWorkerAssumption, Unfinished, TasksOf
    <3> QED  BY <3>1, FS_Subset
  <2>3. Unfinished(w)' = {}
    BY <1>8, <2>1, <2>2, FS_EmptySet
  <2> QED  BY <1>3, <2>3 DEF Unfinished, TasksOf
<1>10. OpenIsUnfinished'
  <2> SUFFICES ASSUME NEW v \in live'
               PROVE  /\ openTasks'[v] = Cardinality(Unfinished(v)')
                      /\ openTasks'[v] > 0
    BY DEF OpenIsUnfinished
  <2>1. v \in live /\ v \in Workloads
    BY <1>1, <1>2
  <2>2. CASE v = w
    <3>1. ~final
      BY <1>2, <2>2
    <3> QED  BY <1>5, <1>6, <1>8, <2>2, <3>1
  <2>3. CASE v # w
    BY <1>6, <1>7, <2>1, <2>3 DEF OpenIsUnfinished
  <2> QED  BY <2>2, <2>3
<1> QED  BY <1>2, <1>3, <1>4, <1>6, <1>9, <1>10

(* What complete_chunk tells: a task that lost its last chunk is told      *)
(* Success or leaves its error with its file, and only the workload's last *)
(* task brings the errors out.                                             *)
LEMMA SettleReports ==
  ASSUME TypeOK, NEW t \in LiveTasks, remaining[t] > 0,
         NEW ret \in Codes, NEW u \in Nat,
         CompleteChunk(WorkloadOf[t], t, ret, u)
  PROVE  /\ fileError' \in [Workloads -> [Files -> Codes]]
         /\ report' \in [Tasks -> Codes \cup {NoReport}]
         /\ \A s \in Tasks : report[s] # NoReport => report'[s] = report[s]
         /\ \A s \in Tasks : report[s] = NoReport /\ report'[s] # NoReport =>
              \/ /\ s = t /\ report'[s] = Success
                 /\ remaining'[t] = 0 /\ error'[t] = Success
              \/ /\ s \in TasksOf(WorkloadOf[t]) /\ report'[s] # Success
                 /\ live' = live \ {WorkloadOf[t]}
         /\ \A s \in Tasks : fileError[WorkloadOf[s]][FileOf[s]] # Success =>
              fileError'[WorkloadOf[s]][FileOf[s]] # Success
         /\ remaining'[t] = 0 =>
              \/ report'[t] # NoReport
              \/ fileError'[WorkloadOf[t]][FileOf[t]] # Success
         /\ live' # live => \A s \in TasksOf(WorkloadOf[t]) :
              \/ report'[s] # NoReport
              \/ fileError'[WorkloadOf[t]][FileOf[s]] = Success
<1> PICK w \in live : w = WorkloadOf[t]
  BY DEF LiveTasks
<1>1. /\ w \in Workloads /\ t \in Tasks /\ remaining \in [Tasks -> Nat]
      /\ error \in [Tasks -> Codes] /\ FileOf \in [Tasks -> Files]
      /\ fileError \in [Workloads -> [Files -> Codes]]
      /\ report \in [Tasks -> Codes \cup {NoReport}]
      /\ WorkloadOf \in [Tasks -> Workloads]
  BY ObjectStorageWorkerAssumption
     DEF ObjectStorageWorkerAssumption, TypeOK, LiveTasks
<1>2. Success \in Codes /\ Success # NoReport /\ NoReport \notin Codes
  BY DEF Codes, Success, NoReport, Errors
<1> PICK err \in Codes : err = IF error[t] = Success THEN ret ELSE error[t]
  BY <1>1
<1> PICK last \in BOOLEAN : last = (remaining[t] = 1)
  OBVIOUS
<1> PICK settled \in {0, 1} : settled = IF remaining[t] = 1 THEN 1 ELSE 0
  OBVIOUS
<1> PICK fe : fe = IF last /\ err # Success /\ fileError[w][FileOf[t]] = Success
                   THEN [fileError[w] EXCEPT ![FileOf[t]] = err]
                   ELSE fileError[w]
  OBVIOUS
<1> PICK rep : rep = IF last /\ err = Success /\ report[t] = NoReport
                     THEN [report EXCEPT ![t] = Success] ELSE report
  OBVIOUS
<1> PICK final \in BOOLEAN : final = (settled > 0 /\ openTasks[w] = settled)
  OBVIOUS
<1>3. /\ error' = [error EXCEPT ![t] = err]
      /\ remaining' = [remaining EXCEPT ![t] = @ - 1]
      /\ fileError' = [fileError EXCEPT ![w] = fe]
      /\ report' = IF final THEN Reported(w, Success, rep, fe) ELSE rep
      /\ live' = IF final THEN live \ {w} ELSE live
  BY DEF CompleteChunk, SettleChunk
<1>4. error'[t] = err /\ (remaining'[t] = 0 <=> last)
  <2>1. error'[t] = err /\ remaining'[t] = remaining[t] - 1
    BY <1>1, <1>3
  <2>2. remaining'[t] = 0 <=> remaining[t] = 1
    BY <1>1, <2>1
  <2>3. last <=> remaining[t] = 1
    OBVIOUS
  <2> QED  BY <2>1, <2>2, <2>3
<1>5. /\ fe \in [Files -> Codes]
      /\ \A f \in Files : fileError[w][f] # Success => fe[f] # Success
      /\ last /\ err # Success => fe[FileOf[t]] # Success
  <2>1. fileError[w] \in [Files -> Codes] /\ FileOf[t] \in Files
    BY <1>1
  <2> QED  BY <1>2, <2>1
<1>6. /\ fileError' \in [Workloads -> [Files -> Codes]] /\ fileError'[w] = fe
      /\ \A v \in Workloads \ {w} : fileError'[v] = fileError[v]
  BY <1>1, <1>3, <1>5
<1>7. /\ rep \in [Tasks -> Codes \cup {NoReport}]
      /\ \A s \in Tasks : report[s] # NoReport => rep[s] = report[s]
      /\ \A s \in Tasks : report[s] = NoReport /\ rep[s] # NoReport =>
           s = t /\ rep[s] = Success /\ last /\ err = Success
      /\ last /\ err = Success => rep[t] # NoReport
  BY <1>1, <1>2
<1>8. \A s \in Tasks :
        /\ ~final => report'[s] = rep[s]
        /\ final =>
             report'[s] = IF s \notin TasksOf(w) \/ rep[s] # NoReport
                          THEN rep[s]
                          ELSE IF fe[FileOf[s]] # Success THEN fe[FileOf[s]]
                          ELSE NoReport
  BY <1>3 DEF Reported
<1>9. report' \in [Tasks -> Codes \cup {NoReport}]
  <2>1. \A s \in Tasks : report'[s] \in Codes \cup {NoReport}
    <3> TAKE s \in Tasks
    <3>1. rep[s] \in Codes \cup {NoReport} /\ fe[FileOf[s]] \in Codes
      BY <1>1, <1>5, <1>7
    <3> QED  BY <1>8, <3>1
  <2>2. CASE final
    BY <1>3, <2>1, <2>2 DEF Reported
  <2>3. CASE ~final
    BY <1>3, <1>7, <2>3
  <2> QED  BY <2>2, <2>3
<1>10. \A s \in Tasks : rep[s] # NoReport => report'[s] = rep[s]
  BY <1>8
<1>11. ASSUME NEW s \in Tasks, rep[s] = NoReport, report'[s] # NoReport
       PROVE  s \in TasksOf(w) /\ report'[s] # Success /\ final
  BY <1>8, <1>11
<1>12. final => live' # live /\ live' = live \ {w}
  BY <1>3
<1>13. \A s \in Tasks : fileError[WorkloadOf[s]][FileOf[s]] # Success =>
         fileError'[WorkloadOf[s]][FileOf[s]] # Success
  <2> TAKE s \in Tasks
  <2>1. WorkloadOf[s] \in Workloads /\ FileOf[s] \in Files
    BY <1>1
  <2> QED  BY <1>5, <1>6, <2>1
<1>14. remaining'[t] = 0 => \/ report'[t] # NoReport
                            \/ fileError'[WorkloadOf[t]][FileOf[t]] # Success
  BY <1>1, <1>4, <1>5, <1>6, <1>7, <1>10
<1>15. live' # live => \A s \in TasksOf(w) :
         \/ report'[s] # NoReport \/ fileError'[w][FileOf[s]] = Success
  <2> SUFFICES ASSUME live' # live, NEW s \in TasksOf(w), report'[s] = NoReport
               PROVE  fe[FileOf[s]] = Success
    BY <1>6
  <2>1. final /\ s \in Tasks
    BY <1>3 DEF TasksOf
  <2>2. rep[s] = NoReport
    BY <1>8, <2>1
  <2>3. fe[FileOf[s]] \in Codes
    BY <1>1, <1>5, <2>1
  <2> QED  BY <1>2, <1>8, <2>1, <2>2, <2>3
<1>16. \A s \in Tasks : report[s] # NoReport => report'[s] = report[s]
  BY <1>7, <1>10
<1>17. ASSUME NEW s \in Tasks, report[s] = NoReport, report'[s] # NoReport
       PROVE  \/ /\ s = t /\ report'[s] = Success
                 /\ remaining'[t] = 0 /\ error'[t] = Success
              \/ /\ s \in TasksOf(w) /\ report'[s] # Success
                 /\ live' = live \ {w}
  <2>1. CASE rep[s] # NoReport
    BY <1>4, <1>7, <1>10, <1>17, <2>1
  <2>2. CASE rep[s] = NoReport
    BY <1>11, <1>12, <1>17, <2>2
  <2> QED  BY <2>1, <2>2
<1> QED  BY <1>6, <1>9, <1>13, <1>14, <1>15, <1>16, <1>17

-----------------------------------------------------------------------------
(* Second layer: steps that change the counts *)

(* Sizes of sets of handles of one task. *)
LEMMA HandleSets ==
  ASSUME TypeOK, NEW t \in Tasks, NEW T, T \subseteq Handles(t)
  PROVE  /\ IsFiniteSet(T) /\ Cardinality(T) \in Nat
         /\ T = {} => Cardinality(T) = 0
         /\ \A h \in T : /\ Cardinality(T) >= 1
                         /\ Cardinality(T \ {h}) = Cardinality(T) - 1
         /\ \A S : S \subseteq T => /\ Cardinality(S) \in Nat
                                    /\ Cardinality(S) <= Cardinality(T)
<1>1. IsFiniteSet(T) /\ Cardinality(T) \in Nat
  BY HandlesAreFinite
<1>2. T = {} => Cardinality(T) = 0
  BY FS_EmptySet
<1>3. ASSUME NEW h \in T
      PROVE  /\ Cardinality(T) >= 1
             /\ Cardinality(T \ {h}) = Cardinality(T) - 1
  <2>1. Cardinality(T \ {h}) = Cardinality(T) - 1
    BY <1>1, FS_RemoveElement
  <2>2. Cardinality(T) # 0
    BY <1>1, FS_EmptySet
  <2> QED  BY <1>1, <2>1, <2>2
<1>4. \A S : S \subseteq T => /\ Cardinality(S) \in Nat
                              /\ Cardinality(S) <= Cardinality(T)
  BY <1>1, FS_Subset, FS_CardinalityType
<1> QED  BY <1>1, <1>2, <1>3, <1>4

(* Handles of live tasks are in their workload's block, and not 0. *)
LEMMA LiveHandles ==
  ASSUME TypeOK, BlocksApart, NEW t \in LiveTasks
  PROVE  /\ t \in Tasks /\ WorkloadOf[t] \in live
         /\ \A h \in Handles(t) :
              h \in Nat \ {0} /\ InBlock(h, WorkloadOf[t])
<1>1. t \in Tasks /\ WorkloadOf[t] \in live /\ WorkloadOf[t] \in Workloads
  BY DEF LiveTasks, TypeOK
<1>2. base[WorkloadOf[t]] \in Nat /\ base[WorkloadOf[t]] # 0
  BY <1>1 DEF TypeOK, BlocksApart
<1>3. \A h \in Handles(t) : h \in Nat /\ InBlock(h, WorkloadOf[t])
  BY <1>1, HandlesLeadBack
<1> QED  BY <1>1, <1>2, <1>3 DEF InBlock

(* A pending handle belongs to a live task that has chunks left. *)
LEMMA PendingIsOpen ==
  ASSUME TypeOK, Places, Counts, NEW h \in PendingSet
  PROVE  /\ (CHOOSE v \in Locate(h) : TRUE) \in live
         /\ TaskAt(CHOOSE v \in Locate(h) : TRUE, h) \in LiveTasks
         /\ WorkloadOf[TaskAt(CHOOSE v \in Locate(h) : TRUE, h)]
              = (CHOOSE v \in Locate(h) : TRUE)
         /\ h \in Unsettled(TaskAt(CHOOSE v \in Locate(h) : TRUE, h))
         /\ remaining[TaskAt(CHOOSE v \in Locate(h) : TRUE, h)] > 0
<1>1. PICK w \in live : InBlock(h, w)
  BY DEF Counts, PendingIsLive
<1>2. h \in Nat /\ h \in Underway
  BY UnderwayIsNat DEF Underway
<1>3. /\ (CHOOSE v \in Locate(h) : TRUE) = w
      /\ TaskAt(w, h) \in LiveTasks /\ WorkloadOf[TaskAt(w, h)] = w
      /\ h \in Handles(TaskAt(w, h))
  BY <1>1, <1>2, RoutedBack DEF Places
<1> PICK t \in LiveTasks : t = TaskAt(w, h)
  BY <1>3
<1>4. h \in Unsettled(t) /\ h \in PendingOf(t)
  BY <1>2, <1>3 DEF Unsettled, PendingOf
<1>5. t \in Tasks /\ remaining[t] \in Nat
  BY DEF LiveTasks, TypeOK
<1>6. Unsettled(t) \subseteq Handles(t) /\ PendingOf(t) \subseteq Handles(t)
  BY DEF Unsettled, PendingOf
<1>7. /\ Cardinality(Unsettled(t)) \in Nat /\ Cardinality(Unsettled(t)) >= 1
      /\ Cardinality(PendingOf(t)) \in Nat /\ Cardinality(PendingOf(t)) >= 1
  BY <1>4, <1>5, <1>6, HandleSets
<1>8. \/ remaining[t] >= Cardinality(Unsettled(t))
      \/ remaining[t] >= Cardinality(PendingOf(t))
  BY DEF Counts, RemainingCounts, SettledTwice
<1>9. remaining[t] > 0
  BY <1>5, <1>7, <1>8
<1> QED  BY <1>3, <1>4, <1>9

(* Steps after which nothing is live and nothing pending. *)
LEMMA CountsEmpty ==
  ASSUME live' = {}, PendingSet' = {}
  PROVE  Counts'
BY DEF Counts, PendingIsLive, OpenIsUnfinished, RemainingCounts, LiveTasks

(* Steps that settle no chunk: a handle of a live task may be dropped only *)
(* once the clients are stopped.                                           *)
LEMMA CountsFrame ==
  ASSUME TypeOK, Places, Counts,
         UNCHANGED <<ChunkTask, base, live, remaining, error, openTasks>>,
         PendingSet' \subseteq PendingSet,
         \A h \in Underway' : h \in Underway \/ h = 0,
         readOK \subseteq readOK',
         clientStop => clientStop',
         s3stop' = "none" => s3stop = "none",
         s3stop' = "none" =>
           \A w \in live, h \in Underway : InBlock(h, w) => h \in Underway',
         clientStop /\ pc = "pump" /\ CanTake => pc' = pc /\ CanTake'
  PROVE  Counts'
<1>1. /\ \A w : InBlock(0, w)' = InBlock(0, w) /\ TasksOf(w)' = TasksOf(w)
      /\ \A w, h : InBlock(h, w)' = InBlock(h, w)
      /\ \A t : Handles(t)' = Handles(t) /\ LiveTasks' = LiveTasks
  BY DEF InBlock, NumChunks, TasksOf, Handles, ChunksOf, LiveTasks
<1>2. PendingIsLive'
  BY <1>1 DEF Counts, PendingIsLive
<1>3. OpenIsUnfinished'
  BY DEF Counts, OpenIsUnfinished, Unfinished, TasksOf
<1>4. ASSUME NEW t \in LiveTasks
      PROVE  /\ remaining'[t] >= Cardinality(Unsettled(t)') \/ SettledTwice(t)'
             /\ s3stop' = "none" => remaining'[t] = Cardinality(Unsettled(t)')
             /\ error'[t] = Success => remaining'[t] >= Cardinality(Unread(t)')
  <2>1. /\ t \in Tasks /\ WorkloadOf[t] \in live /\ remaining[t] \in Nat
        /\ \A h \in Handles(t) : h # 0 /\ InBlock(h, WorkloadOf[t])
    BY LiveHandles DEF Places, TypeOK
  <2>2. /\ Unsettled(t)' \subseteq Unsettled(t)
        /\ PendingOf(t)' \subseteq PendingOf(t)
        /\ Unread(t)' \subseteq Unread(t)
        /\ s3stop' = "none" => Unsettled(t)' = Unsettled(t)
    BY <1>1, <2>1 DEF Unsettled, PendingOf, Unread
  <2>3. /\ Unsettled(t) \subseteq Handles(t)
           /\ PendingOf(t) \subseteq Handles(t)
        /\ Unread(t) \subseteq Handles(t)
    BY DEF Unsettled, PendingOf, Unread
  <2>4. /\ Cardinality(Unsettled(t)) \in Nat
           /\ Cardinality(Unsettled(t)') \in Nat
        /\ Cardinality(Unsettled(t)') <= Cardinality(Unsettled(t))
        /\ Cardinality(PendingOf(t)) \in Nat
           /\ Cardinality(PendingOf(t)') \in Nat
        /\ Cardinality(PendingOf(t)') <= Cardinality(PendingOf(t))
        /\ Cardinality(Unread(t)) \in Nat /\ Cardinality(Unread(t)') \in Nat
        /\ Cardinality(Unread(t)') <= Cardinality(Unread(t))
    BY <2>1, <2>2, <2>3, HandleSets
  <2>5. /\ remaining[t] >= Cardinality(Unsettled(t)) \/ SettledTwice(t)
        /\ s3stop = "none" => remaining[t] = Cardinality(Unsettled(t))
        /\ error[t] = Success => remaining[t] >= Cardinality(Unread(t))
    BY DEF Counts, RemainingCounts
  <2>6. SettledTwice(t) => SettledTwice(t)'
    <3> SUFFICES ASSUME SettledTwice(t) PROVE SettledTwice(t)'
      OBVIOUS
    <3>1. remaining'[t] >= Cardinality(PendingOf(t)')
      BY <2>1, <2>4 DEF SettledTwice
    <3>2. PendingOf(t)' # {} => pc' = "pump" /\ CanTake'
      BY <2>2 DEF SettledTwice
    <3> QED  BY <3>1, <3>2 DEF SettledTwice
  <2>7. remaining[t] >= Cardinality(Unsettled(t)) =>
          remaining'[t] >= Cardinality(Unsettled(t)')
    BY <2>1, <2>4
  <2>8. s3stop' = "none" => remaining'[t] = Cardinality(Unsettled(t)')
    BY <2>2, <2>5
  <2>9. error'[t] = Success => remaining'[t] >= Cardinality(Unread(t)')
    BY <2>1, <2>4, <2>5
  <2> QED  BY <2>5, <2>6, <2>7, <2>8, <2>9
<1>5. RemainingCounts'
  BY <1>1, <1>4 DEF RemainingCounts
<1> QED  BY <1>2, <1>3, <1>5 DEF Counts

(* A chunk is settled: its handle h is underway no more, or its read was   *)
(* issued by a stopped client and goes on.                                 *)
LEMMA CountsSettle ==
  ASSUME TypeOK, Places, Counts,
         NEW t \in LiveTasks, NEW h \in Unsettled(t), remaining[t] > 0,
         NEW ret \in Codes, NEW u \in Nat,
         CompleteChunk(WorkloadOf[t], t, ret, u),
         UNCHANGED <<ChunkTask, base, readOK, s3stop, clientStop>>,
         PendingSet' = PendingSet \ {h},
         \/ /\ Underway' = Underway \ {h}
            /\ ret = Success => h \in readOK
         \/ /\ Underway' = Underway /\ clientStop /\ h \in PendingSet
            /\ pc = "pump" /\ ret # Success /\ error[t] = Success,
         pc = "pump" => /\ pc' = pc /\ h \in PendingSet /\ CanTake
                        /\ PendingSet' # {} => CanTake',
         s3stop = "none" => ~clientStop
  PROVE  /\ Counts'
         /\ remaining'[t] = 0 /\ error'[t] = Success
              => Handles(t) \subseteq readOK
         /\ s3stop = "none" =>
              \A w \in live \ live', g \in Underway' : ~InBlock(g, w)
<1>1. /\ \A w, g : InBlock(g, w)' = InBlock(g, w)
      /\ \A w : TasksOf(w)' = TasksOf(w)
      /\ \A s : Handles(s)' = Handles(s)
  BY DEF InBlock, NumChunks, TasksOf, Handles, ChunksOf
<1>2. /\ t \in Tasks /\ WorkloadOf[t] \in live /\ h \in Handles(t)
      /\ h \in Underway /\ remaining[t] \in Nat /\ error[t] \in Codes
  BY DEF LiveTasks, Unsettled, TypeOK
<1>3. /\ remaining' \in [Tasks -> Nat] /\ remaining'[t] = remaining[t] - 1
      /\ \A s \in Tasks \ {t} :
           remaining'[s] = remaining[s] /\ error'[s] = error[s]
      /\ error'[t] = (IF error[t] = Success THEN ret ELSE error[t])
      /\ \/ live' = live
         \/ /\ live' = live \ {WorkloadOf[t]}
            /\ \A s \in TasksOf(WorkloadOf[t]) : remaining'[s] = 0
      /\ OpenIsUnfinished'
  BY Settles DEF Counts
<1> DEFINE Right(s) ==
      /\ remaining'[s] >= Cardinality(Unsettled(s)') \/ SettledTwice(s)'
      /\ s3stop' = "none" => remaining'[s] = Cardinality(Unsettled(s)')
      /\ error'[s] = Success => remaining'[s] >= Cardinality(Unread(s)')
<1>4. ASSUME NEW s \in LiveTasks, s # t
      PROVE  Right(s)
  <2>1. s \in Tasks /\ h \notin Handles(s)
    BY <1>2, <1>4, HandlesApart DEF Places, LiveTasks
  <2>2. /\ Unsettled(s)' = Unsettled(s) /\ PendingOf(s)' = PendingOf(s)
        /\ Unread(s)' = Unread(s)
    BY <1>1, <2>1 DEF Unsettled, PendingOf, Unread
  <2>3. remaining'[s] = remaining[s] /\ error'[s] = error[s]
    BY <1>3, <1>4, <2>1
  <2>4. /\ remaining[s] >= Cardinality(Unsettled(s)) \/ SettledTwice(s)
        /\ s3stop = "none" => remaining[s] = Cardinality(Unsettled(s))
        /\ error[s] = Success => remaining[s] >= Cardinality(Unread(s))
    BY DEF Counts, RemainingCounts
  <2>5. SettledTwice(s) => SettledTwice(s)'
    <3> SUFFICES ASSUME SettledTwice(s) PROVE SettledTwice(s)'
      OBVIOUS
    <3>1. PendingOf(s)' # {} => pc' = "pump" /\ CanTake'
      <4>1. PendingOf(s)' # {} => PendingSet' # {}
        BY DEF PendingOf
      <4> QED  BY <2>2, <4>1 DEF SettledTwice
    <3> QED  BY <2>2, <2>3, <3>1 DEF SettledTwice
  <2> QED  BY <2>2, <2>3, <2>4, <2>5
<1>5. Right(t)
  <2>1. /\ Unsettled(t) \subseteq Handles(t)
           /\ PendingOf(t) \subseteq Handles(t)
        /\ Unread(t) \subseteq Handles(t)
    BY DEF Unsettled, PendingOf, Unread
  <2>2. /\ PendingOf(t)' = PendingOf(t) \ {h}
        /\ PendingOf(t) \subseteq Unsettled(t)
    BY <1>1 DEF PendingOf, Unsettled, Underway
  <2>3. /\ Cardinality(Unsettled(t)) \in Nat
        /\ Cardinality(Unsettled(t) \ {h}) = Cardinality(Unsettled(t)) - 1
        /\ Cardinality(PendingOf(t)) \in Nat
        /\ h \in PendingOf(t) =>
             Cardinality(PendingOf(t) \ {h}) = Cardinality(PendingOf(t)) - 1
        /\ Cardinality(PendingOf(t)) <= Cardinality(Unsettled(t))
        /\ Cardinality({}) = 0
    BY <1>2, <2>1, <2>2, HandleSets, FS_EmptySet
  <2>4. /\ remaining[t] >= Cardinality(Unsettled(t)) \/ SettledTwice(t)
        /\ s3stop = "none" => remaining[t] = Cardinality(Unsettled(t))
        /\ error[t] = Success => remaining[t] >= Cardinality(Unread(t))
    BY DEF Counts, RemainingCounts
  <2>5. CASE /\ Underway' = Underway \ {h}
             /\ ret = Success => h \in readOK
    <3>1. /\ Unsettled(t)' = Unsettled(t) \ {h}
          /\ h \in readOK => Unread(t)' = Unread(t) \ {h}
          /\ h \in Unread(t)
      BY <1>1, <1>2, <2>5 DEF Unsettled, Unread
    <3>2. /\ Cardinality(Unread(t)) \in Nat
          /\ Cardinality(Unread(t) \ {h}) = Cardinality(Unread(t)) - 1
      BY <1>2, <2>1, <3>1, HandleSets
    <3>3. /\ remaining[t] >= Cardinality(Unsettled(t)) =>
               remaining'[t] >= Cardinality(Unsettled(t)')
          /\ s3stop' = "none" => remaining'[t] = Cardinality(Unsettled(t)')
      BY <1>2, <1>3, <2>3, <2>4, <3>1
    <3>4. error'[t] = Success => remaining'[t] >= Cardinality(Unread(t)')
      <4> SUFFICES ASSUME error'[t] = Success
                   PROVE  remaining'[t] >= Cardinality(Unread(t)')
        OBVIOUS
      <4>1. error[t] = Success /\ ret = Success
        BY <1>3
      <4>2. Unread(t)' = Unread(t) \ {h}
        BY <2>5, <3>1, <4>1
      <4> QED  BY <1>2, <1>3, <2>4, <3>2, <4>1, <4>2
    <3>5. SettledTwice(t) => SettledTwice(t)'
      <4> SUFFICES ASSUME SettledTwice(t) PROVE SettledTwice(t)'
        OBVIOUS
      <4>1. clientStop' /\ error'[t] # Success
        BY <1>3 DEF SettledTwice
      <4>2. PendingOf(t)' # {} => pc' = "pump" /\ CanTake'
        <5>1. PendingOf(t)' # {} => PendingSet' # {} /\ PendingOf(t) # {}
          BY <2>2 DEF PendingOf
        <5> QED  BY <5>1 DEF SettledTwice
      <4>3. remaining'[t] >= Cardinality(PendingOf(t)')
        <5>1. CASE h \in PendingOf(t)
          BY <1>2, <1>3, <2>2, <2>3, <5>1 DEF SettledTwice
        <5>2. CASE h \notin PendingOf(t)
          <6>1. pc # "pump"
            BY <1>2, <5>2 DEF PendingOf
          <6>2. PendingOf(t) = {} /\ PendingOf(t)' = {}
            BY <2>2, <6>1 DEF SettledTwice
          <6> QED  BY <1>2, <1>3, <2>3, <6>2
        <5> QED  BY <5>1, <5>2
      <4> QED  BY <4>1, <4>2, <4>3 DEF SettledTwice
    <3> QED  BY <2>4, <3>3, <3>4, <3>5
  <2>6. CASE /\ Underway' = Underway /\ clientStop /\ h \in PendingSet
             /\ pc = "pump" /\ ret # Success /\ error[t] = Success
    <3>1. clientStop' /\ error'[t] # Success /\ s3stop' # "none"
      BY <1>3, <2>6
    <3>2. h \in PendingOf(t)
      BY <1>2, <2>6 DEF PendingOf
    <3>3. remaining'[t] >= Cardinality(PendingOf(t)')
      BY <1>2, <1>3, <2>2, <2>3, <2>4, <3>2 DEF SettledTwice
    <3>4. pc = "pump"
      BY <2>6
    <3>5. PendingOf(t)' # {} => pc' = "pump" /\ CanTake'
      <4>1. PendingOf(t)' # {} => PendingSet' # {}
        BY DEF PendingOf
      <4> QED  BY <3>4, <4>1
    <3>6. SettledTwice(t)'
      BY <3>1, <3>3, <3>5 DEF SettledTwice
    <3> QED  BY <3>1, <3>6
  <2> QED  BY <2>5, <2>6
<1>6. \A s \in LiveTasks : Right(s)
  BY <1>4, <1>5
<1>7. live' \subseteq live /\ LiveTasks' \subseteq LiveTasks
  BY <1>3 DEF LiveTasks
<1>8. RemainingCounts'
  BY <1>6, <1>7 DEF RemainingCounts
<1>9. PendingIsLive'
  <2> SUFFICES ASSUME NEW g \in PendingSet'
               PROVE  \E w \in live' : InBlock(g, w)'
    BY DEF PendingIsLive
  <2>1. PICK w \in live : InBlock(g, w)
    BY DEF Counts, PendingIsLive
  <2>2. CASE w \in live'
    BY <1>1, <2>1, <2>2
  <2>3. CASE w \notin live'
    <3>1. w = WorkloadOf[t] /\ \A s \in TasksOf(w) : remaining'[s] = 0
      BY <1>3, <2>3
    <3>2. g \in Nat /\ g \in Underway'
      BY UnderwayIsNat DEF Underway
    <3> PICK s \in LiveTasks : s = TaskAt(w, g)
      BY <2>1, <3>2, RoutedBack DEF Places
    <3>3. WorkloadOf[s] = w /\ g \in Handles(s) /\ s \in Tasks
      BY <2>1, <3>2, RoutedBack DEF Places, LiveTasks
    <3>4. remaining'[s] = 0
      BY <3>1, <3>3 DEF TasksOf
    <3>5. /\ Unsettled(s)' \subseteq Handles(s) /\ g \in Unsettled(s)'
          /\ PendingOf(s)' \subseteq Handles(s) /\ g \in PendingOf(s)'
      BY <1>1, <3>2, <3>3 DEF Unsettled, PendingOf
    <3>6. /\ Cardinality(Unsettled(s)') \in Nat
             /\ Cardinality(Unsettled(s)') >= 1
          /\ Cardinality(PendingOf(s)') \in Nat
             /\ Cardinality(PendingOf(s)') >= 1
      BY <3>3, <3>5, HandleSets
    <3>7. remaining'[s] >= Cardinality(Unsettled(s)') \/ SettledTwice(s)'
      BY <1>6
    <3> QED  BY <3>4, <3>6, <3>7 DEF SettledTwice
  <2> QED  BY <2>2, <2>3
<1>10. ASSUME remaining'[t] = 0, error'[t] = Success
       PROVE  Handles(t) \subseteq readOK
  <2>1. Cardinality(Unread(t)') <= 0
    BY <1>5, <1>10
  <2>2. Unread(t)' \subseteq Handles(t)
    BY <1>1 DEF Unread
  <2>3. Unread(t)' = {}
    <3>1. \A g \in Unread(t)' : Cardinality(Unread(t)') \in Nat
                               /\ Cardinality(Unread(t)') >= 1
      BY <1>2, <2>2, HandleSets
    <3> QED  BY <2>1, <3>1
  <2> QED  BY <1>1, <2>3 DEF Unread
<1>11. ASSUME s3stop = "none", NEW w \in live \ live', NEW g \in Underway',
              InBlock(g, w)
       PROVE  FALSE
  <2>1. w = WorkloadOf[t] /\ \A s \in TasksOf(w) : remaining'[s] = 0
    BY <1>3
  <2>2. g \in Nat /\ g \in Underway
    BY UnderwayIsNat
  <2> PICK s \in LiveTasks : s = TaskAt(w, g)
    BY <1>11, <2>2, RoutedBack DEF Places
  <2>3. WorkloadOf[s] = w /\ g \in Handles(s) /\ s \in Tasks
    BY <1>11, <2>2, RoutedBack DEF Places, LiveTasks
  <2>4. Unsettled(s)' \subseteq Handles(s) /\ g \in Unsettled(s)'
    BY <1>1, <2>3 DEF Unsettled
  <2>5. Cardinality(Unsettled(s)') >= 1 /\ Cardinality(Unsettled(s)') \in Nat
    BY <2>3, <2>4, HandleSets
  <2>6. remaining'[s] = Cardinality(Unsettled(s)')
    BY <1>6, <1>11
  <2>7. remaining'[s] = 0
    BY <2>1, <2>3 DEF TasksOf
  <2> QED  BY <2>5, <2>6, <2>7
<1> QED  BY <1>3, <1>8, <1>9, <1>10, <1>11 DEF Counts

(* Sets in a one-to-one correspondence have the same size. *)
LEMMA SameSize ==
  ASSUME NEW S, NEW T, IsFiniteSet(S), NEW f \in [S -> T],
         \A a, b \in S : f[a] = f[b] => a = b,
         \A y \in T : \E x \in S : f[x] = y
  PROVE  IsFiniteSet(T) /\ Cardinality(T) = Cardinality(S)
<1>1. f \in Injection(S, T) /\ f \in Surjection(S, T)
  BY DEF Injection, Surjection, IsInjective
<1>2. ExistsBijection(S, T)
  BY <1>1 DEF ExistsBijection, Bijection
<1> QED  BY <1>2, FS_Bijection

(* Enqueueing counts a task's chunks, and its handles are as many. *)
LEMMA NewHandles ==
  ASSUME TypeOK, NEW w \in Workloads, ChunkTask' = ChunkTask,
         base'[w] = counter, NEW t \in TasksOf(w)
  PROVE  /\ Handles(t)' \subseteq counter .. counter + NumChunks(w) - 1
         /\ IsFiniteSet(Handles(t)')
         /\ Cardinality(Handles(t)') = Cardinality(ChunksOf(t))
         /\ Cardinality(ChunksOf(t)) \in Nat
         /\ Cardinality(ChunksOf(t)) > 0 <=> ChunksOf(t) # {}
<1> PICK n \in Nat : n = NumChunks(w)
  BY ChunksAreOwn
<1> PICK c \in Nat \ {0} : c = counter
  BY DEF TypeOK
<1>1. WorkloadOf[t] = w /\ t \in Tasks
  BY DEF TasksOf
<1>2. ChunksOf(t) \subseteq 1 .. n
  BY <1>1, ChunksAreOwn DEF ChunksOf
<1>3. IsFiniteSet(ChunksOf(t)) /\ Cardinality(ChunksOf(t)) \in Nat
  <2>1. IsFiniteSet(1 .. n)
    BY FS_Interval
  <2> QED  BY <1>2, <2>1, FS_Subset, FS_CardinalityType
<1>4. Cardinality(ChunksOf(t)) > 0 <=> ChunksOf(t) # {}
  BY <1>3, FS_EmptySet
<1>5. Handles(t)' = {c + i - 1 : i \in ChunksOf(t)}
  BY <1>1 DEF Handles, ChunksOf
<1>6. Handles(t)' \subseteq c .. c + n - 1
  BY <1>2, <1>5
<1> DEFINE f == [i \in ChunksOf(t) |-> c + i - 1]
<1>7. /\ f \in [ChunksOf(t) -> Handles(t)']
      /\ \A i, j \in ChunksOf(t) : f[i] = f[j] => i = j
      /\ \A h \in Handles(t)' : \E i \in ChunksOf(t) : f[i] = h
  BY <1>2, <1>5
<1> HIDE DEF f
<1>8. IsFiniteSet(Handles(t)')
      /\ Cardinality(Handles(t)') = Cardinality(ChunksOf(t))
  BY <1>3, <1>7, SameSize
<1> QED  BY <1>3, <1>4, <1>6, <1>8

(* The chunks of a new workload are all unsettled; those of the others     *)
(* stay what they were.                                                    *)
LEMMA EnqueueCounts ==
  ASSUME TypeOK, Places, Counts, NEW w \in Workloads, Enqueue(w)
  PROVE  Counts'
<1>1. /\ w \notin taken /\ w \notin live /\ pc = "top"
      /\ ChunkTask' = ChunkTask /\ live' = live \cup {w}
      /\ UNCHANGED <<error, clientStop, s3stop, readOK>>
      /\ remaining' = [t \in Tasks |-> IF t \in TasksOf(w)
                                       THEN Cardinality(ChunksOf(t))
                                       ELSE remaining[t]]
      /\ openTasks' = [openTasks EXCEPT ![w] = OpenTasks(w)]
      /\ NumChunks(w) > 0
  BY DEF Enqueue, Take, clientVars, TypeOK
<1> PICK n \in Nat \ {0} : n = NumChunks(w)
  BY <1>1, ChunksAreOwn
<1> PICK c \in Nat \ {0} : c = counter
  BY DEF TypeOK
<1> PICK New : New = c .. c + n - 1
  OBVIOUS
<1>2. /\ base'[w] = c /\ \A v \in Workloads \ {w} : base'[v] = base[v]
      /\ PendingSet' = PendingSet \cup New /\ Underway' = Underway \cup New
      /\ New \cap Underway = {}
  BY EnqueuePlaces
<1>3. /\ \A v \in live : v \in Workloads \ {w}
      /\ \A v \in Workloads \ {w} : \A g : InBlock(g, v)' = InBlock(g, v)
      /\ \A g \in New : InBlock(g, w)'
  <2>1. \A v \in live : v \in Workloads \ {w}
    BY <1>1 DEF TypeOK
  <2>2. \A v : NumChunks(v)' = NumChunks(v)
    BY <1>1 DEF NumChunks
  <2>3. \A v \in Workloads \ {w} : \A g : InBlock(g, v)' = InBlock(g, v)
    BY <1>2, <2>2 DEF InBlock
  <2>4. \A g \in New : InBlock(g, w)'
    BY <1>2, <2>2 DEF InBlock
  <2> QED  BY <2>1, <2>3, <2>4
<1>4. \A t \in TasksOf(w) :
        /\ t \in Tasks /\ Handles(t)' \subseteq New
        /\ Cardinality(Handles(t)') = Cardinality(ChunksOf(t))
        /\ Cardinality(ChunksOf(t)) \in Nat
        /\ Cardinality(ChunksOf(t)) > 0 <=> ChunksOf(t) # {}
        /\ IsFiniteSet(Handles(t)')
        /\ remaining'[t] = Cardinality(ChunksOf(t))
  BY <1>1, <1>2, NewHandles DEF TasksOf
<1>5. \A t \in Tasks : t \notin TasksOf(w) =>
        remaining'[t] = remaining[t] /\ WorkloadOf[t] \in Workloads \ {w}
  BY <1>1, ObjectStorageWorkerAssumption
     DEF ObjectStorageWorkerAssumption, TasksOf
<1>6. PendingIsLive'
  <2> SUFFICES ASSUME NEW g \in PendingSet'
               PROVE  \E v \in live' : InBlock(g, v)'
    BY DEF PendingIsLive
  <2>1. CASE g \in New
    BY <1>1, <1>3, <2>1
  <2>2. CASE g \in PendingSet
    <3>1. PICK v \in live : InBlock(g, v)
      BY <2>2 DEF Counts, PendingIsLive
    <3> QED  BY <1>1, <1>3, <3>1
  <2> QED  BY <1>2, <2>1, <2>2
<1>7. OpenIsUnfinished'
  <2> SUFFICES ASSUME NEW v \in live'
               PROVE  /\ openTasks'[v] = Cardinality(Unfinished(v)')
                      /\ openTasks'[v] > 0
    BY DEF OpenIsUnfinished
  <2>1. openTasks \in [Workloads -> Nat]
    BY DEF TypeOK
  <2>2. CASE v = w
    <3>1. Unfinished(w)' = {t \in TasksOf(w) : ChunksOf(t) # {}}
      BY <1>4 DEF Unfinished, TasksOf
    <3>2. openTasks'[w] = Cardinality(Unfinished(w)')
      BY <1>1, <2>1, <3>1 DEF OpenTasks
    <3>3. Unfinished(w)' # {}
      <4>1. /\ 1 \in DOMAIN ChunkTask[w] /\ ChunkTask[w][1] \in Tasks
            /\ WorkloadOf[ChunkTask[w][1]] = w
        BY ChunksAreOwn
      <4> QED  BY <3>1, <4>1 DEF ChunksOf, TasksOf
    <3>4. /\ IsFiniteSet(Unfinished(w)') /\ Cardinality(Unfinished(w)') \in Nat
      <4>1. IsFiniteSet(Tasks) /\ Unfinished(w)' \subseteq Tasks
        BY ObjectStorageWorkerAssumption
           DEF ObjectStorageWorkerAssumption, Unfinished, TasksOf
      <4> QED  BY <4>1, FS_Subset, FS_CardinalityType
    <3>5. Cardinality(Unfinished(w)') # 0
      BY <3>3, <3>4, FS_EmptySet
    <3> QED  BY <2>2, <3>2, <3>4, <3>5
  <2>3. CASE v # w
    <3>1. v \in live /\ v \in Workloads /\ openTasks'[v] = openTasks[v]
      BY <1>1, <1>3, <2>1, <2>3
    <3>2. \A t \in TasksOf(v) : remaining'[t] = remaining[t]
      BY <1>5, <2>3 DEF TasksOf
    <3>3. Unfinished(v)' = Unfinished(v)
      BY <3>2 DEF Unfinished, TasksOf
    <3> QED  BY <3>1, <3>3 DEF Counts, OpenIsUnfinished
  <2> QED  BY <2>2, <2>3
<1>8. ASSUME NEW t \in LiveTasks'
      PROVE  /\ remaining'[t] >= Cardinality(Unsettled(t)') \/ SettledTwice(t)'
             /\ s3stop' = "none" => remaining'[t] = Cardinality(Unsettled(t)')
             /\ error'[t] = Success => remaining'[t] >= Cardinality(Unread(t)')
  <2>1. CASE t \in TasksOf(w)
    <3>1. Unsettled(t)' = Handles(t)'
      BY <1>2, <1>4, <2>1 DEF Unsettled
    <3>2. Unread(t)' \subseteq Handles(t)'
      BY DEF Unread
    <3>3. Cardinality(Unread(t)') <= Cardinality(Handles(t)')
      BY <1>4, <2>1, <3>2, FS_Subset
    <3>4. Cardinality(Unread(t)') \in Nat
      BY <1>4, <2>1, <3>2, FS_Subset, FS_CardinalityType
    <3> QED  BY <1>4, <2>1, <3>1, <3>3, <3>4
  <2>2. CASE t \notin TasksOf(w)
    <3>1. /\ t \in LiveTasks /\ t \in Tasks /\ WorkloadOf[t] \in Workloads \ {w}
          /\ remaining'[t] = remaining[t] /\ WorkloadOf[t] \in live
      BY <1>1, <1>5, <2>2 DEF LiveTasks, TasksOf
    <3>2. Handles(t)' = Handles(t)
      BY <1>1, <1>2, <3>1 DEF Handles, ChunksOf
    <3>3. Handles(t) \cap New = {}
      <4>1. base[WorkloadOf[t]] + NumChunks(WorkloadOf[t]) <= c
        BY <3>1 DEF Places, BlocksApart
      <4>2. /\ base[WorkloadOf[t]] \in Nat /\ NumChunks(WorkloadOf[t]) \in Nat
            /\ \A g \in Handles(t) : g \in Nat /\ InBlock(g, WorkloadOf[t])
        BY <3>1, ChunksAreOwn, LiveHandles DEF TypeOK, Places
      <4> QED  BY <4>1, <4>2 DEF InBlock
    <3>4. /\ Unsettled(t)' = Unsettled(t) /\ PendingOf(t)' = PendingOf(t)
          /\ Unread(t)' = Unread(t)
      BY <1>1, <1>2, <3>2, <3>3 DEF Unsettled, PendingOf, Unread
    <3>5. /\ remaining[t] >= Cardinality(Unsettled(t)) \/ SettledTwice(t)
          /\ s3stop = "none" => remaining[t] = Cardinality(Unsettled(t))
          /\ error[t] = Success => remaining[t] >= Cardinality(Unread(t))
      BY <3>1 DEF Counts, RemainingCounts
    <3>6. SettledTwice(t) => SettledTwice(t)'
      BY <1>1, <3>1, <3>4 DEF SettledTwice
    <3> QED  BY <1>1, <3>1, <3>4, <3>5, <3>6
  <2> QED  BY <2>1, <2>2
<1>9. RemainingCounts'
  BY <1>8 DEF RemainingCounts
<1> QED  BY <1>6, <1>7, <1>9 DEF Counts

-----------------------------------------------------------------------------
(* Third layer: steps that tell tasks something *)

(* A handle of a live block is not one of a task whose workload is gone. *)
LEMMA DeadApart ==
  ASSUME TypeOK, BlocksApart, NEW t \in Tasks, WorkloadOf[t] \notin live,
         base[WorkloadOf[t]] # 0, NEW w \in live, NEW h \in Nat, InBlock(h, w)
  PROVE  h \notin Handles(t)
<1> SUFFICES ASSUME h \in Handles(t) PROVE FALSE
  OBVIOUS
<1> PICK v \in Workloads : v = WorkloadOf[t]
  BY HandlesLeadBack
<1>1. InBlock(h, v) /\ v # w
  BY HandlesLeadBack
<1>2. /\ w \in Workloads /\ base[w] # 0 /\ base[v] \in Nat /\ base[w] \in Nat
      /\ NumChunks(v) \in Nat /\ NumChunks(w) \in Nat
  BY ChunksAreOwn DEF TypeOK, BlocksApart
<1>3. base[v] + NumChunks(v) <= base[w] \/ base[w] + NumChunks(w) <= base[v]
  BY <1>1, <1>2 DEF BlocksApart
<1> QED  BY <1>1, <1>2, <1>3 DEF InBlock

(* Steps that tell nobody anything: a read may be issued for a live task. *)
LEMMA ReportsFrame ==
  ASSUME TypeOK, Places, ReportsAreRight,
         UNCHANGED <<ChunkTask, taken, dropped, base, live, remaining,
                     fileError, report>>,
         readOK \subseteq readOK',
         s3stop' = "none" => s3stop = "none",
         \A h \in outstanding' :
           h \in outstanding \/ (h \in Nat /\ \E w \in live : InBlock(h, w))
  PROVE  ReportsAreRight'
<1>1. \A t \in Tasks : Handles(t)' = Handles(t)
  BY DEF Handles, ChunksOf
<1>2. SuccessIsRead'
  BY <1>1 DEF ReportsAreRight, SuccessIsRead
<1>3. ASSUME s3stop' = "none", NEW t \in Tasks, report'[t] = "ReadError"
      PROVE  /\ WorkloadOf[t] \notin live' /\ base'[WorkloadOf[t]] # 0
             /\ Handles(t)' \cap outstanding' = {}
  <2>1. /\ WorkloadOf[t] \notin live /\ base[WorkloadOf[t]] # 0
        /\ Handles(t) \cap outstanding = {}
    BY <1>3 DEF ReportsAreRight
  <2>2. Handles(t) \cap outstanding' = {}
    BY <2>1, DeadApart DEF Places
  <2> QED  BY <1>1, <2>1, <2>2
<1> QED  BY <1>2, <1>3 DEF ReportsAreRight, LiveTasks

(* Steps that fail whatever is live, with a code no read has. *)
LEMMA ReportsAbort ==
  ASSUME TypeOK, Places, ReportsAreRight,
         NEW code \in {"FinishedError", "UnknownError"},
         UNCHANGED <<ChunkTask, taken, dropped, base, readOK, outstanding,
                     s3stop>>,
         live' = {},
         report' = [t \in Tasks |->
                      IF WorkloadOf[t] \in live /\ report[t] = NoReport
                      THEN code ELSE report[t]]
  PROVE  ReportsAreRight'
<1>1. \A t \in Tasks : Handles(t)' = Handles(t)
  BY DEF Handles, ChunksOf
<1>2. code # Success /\ code # NoReport /\ code # "ReadError"
  BY DEF Success, NoReport
<1>3. \A t \in Tasks : \/ report'[t] = report[t]
                       \/ report'[t] = code /\ WorkloadOf[t] \in live
  OBVIOUS
<1>4. \A t \in Tasks : WorkloadOf[t] \in live => report'[t] # NoReport
  BY <1>2
<1>5. SuccessIsRead'
  BY <1>1, <1>2, <1>3 DEF ReportsAreRight, SuccessIsRead
<1>6. \A t \in Tasks : WorkloadOf[t] \notin taken => report'[t] = NoReport
  BY <1>3 DEF ReportsAreRight, TypeOK
<1>7. \A t \in Tasks : WorkloadOf[t] \in taken \ dropped
          => report'[t] # NoReport
  BY <1>2, <1>3, <1>4 DEF ReportsAreRight
<1>8. s3stop = "none" => \A t \in Tasks : report'[t] = "ReadError" =>
        base[WorkloadOf[t]] # 0 /\ Handles(t) \cap outstanding = {}
  BY <1>2, <1>3 DEF ReportsAreRight
<1> QED  BY <1>1, <1>5, <1>6, <1>7, <1>8 DEF ReportsAreRight, LiveTasks

(* A chunk is settled. *)
LEMMA ReportsSettle ==
  ASSUME TypeOK, Places, Counts, ReportsAreRight,
         NEW t \in LiveTasks, remaining[t] > 0,
         NEW ret \in Codes, NEW u \in Nat,
         CompleteChunk(WorkloadOf[t], t, ret, u),
         UNCHANGED <<ChunkTask, taken, dropped, base, readOK, s3stop>>,
         s3stop = "none" => outstanding' = outstanding,
         outstanding' \subseteq Underway',
         remaining'[t] = 0 /\ error'[t] = Success
           => Handles(t) \subseteq readOK,
         s3stop = "none" =>
           \A w \in live \ live', g \in Underway' : ~InBlock(g, w)
  PROVE  ReportsAreRight'
<1> PICK w \in live : w = WorkloadOf[t]
  BY DEF LiveTasks
<1>1. \A s \in Tasks : Handles(s)' = Handles(s)
  BY DEF Handles, ChunksOf
<1>2. /\ t \in Tasks /\ w \in Workloads /\ w \in taken /\ base[w] # 0
      /\ w \notin dropped /\ remaining'[t] = remaining[t] - 1
      /\ \A s \in Tasks \ {t} : remaining'[s] = remaining[s]
      /\ live' = live \/ (live' = live \ {w}
                          /\ \A s \in TasksOf(w) : remaining'[s] = 0)
  BY Settles DEF LiveTasks, TypeOK, Places, BlocksApart, Counts
<1>3. /\ \A s \in Tasks : report[s] # NoReport => report'[s] = report[s]
      /\ \A s \in Tasks : report[s] = NoReport /\ report'[s] # NoReport =>
           \/ s = t /\ report'[s] = Success
              /\ remaining'[t] = 0 /\ error'[t] = Success
           \/ s \in TasksOf(w) /\ report'[s] # Success /\ live' = live \ {w}
      /\ \A s \in Tasks : fileError[WorkloadOf[s]][FileOf[s]] # Success =>
           fileError'[WorkloadOf[s]][FileOf[s]] # Success
      /\ remaining'[t] = 0 => report'[t] # NoReport
                              \/ fileError'[w][FileOf[t]] # Success
      /\ live' # live => \A s \in TasksOf(w) :
           report'[s] # NoReport \/ fileError'[w][FileOf[s]] = Success
  BY SettleReports
<1>4. ASSUME NEW s \in LiveTasks, remaining'[s] = 0
      PROVE  \/ report'[s] # NoReport
             \/ fileError'[WorkloadOf[s]][FileOf[s]] # Success
  <2>1. CASE s = t
    BY <1>3, <1>4, <2>1
  <2>2. CASE s # t
    <3>1. s \in Tasks /\ remaining[s] = 0
      BY <1>2, <1>4, <2>2 DEF LiveTasks
    <3>2. report[s] # NoReport \/ fileError[WorkloadOf[s]][FileOf[s]] # Success
      BY <3>1 DEF ReportsAreRight
    <3> QED  BY <1>3, <3>1, <3>2
  <2> QED  BY <2>1, <2>2
<1>5. ASSUME live' # live
      PROVE  \A s \in TasksOf(w) : report'[s] # NoReport
  <2> TAKE s \in TasksOf(w)
  <2>1. s \in LiveTasks /\ remaining'[s] = 0 /\ WorkloadOf[s] = w
    BY <1>2, <1>5 DEF LiveTasks, TasksOf
  <2> QED  BY <1>3, <1>4, <1>5, <2>1
<1>6. \A s \in Tasks : WorkloadOf[s] \notin taken => report'[s] = NoReport
  BY <1>2, <1>3 DEF ReportsAreRight, TasksOf
<1>7. \A s \in Tasks :
        WorkloadOf[s] \in taken \ (live' \cup dropped) => report'[s] # NoReport
  <2> TAKE s \in Tasks
  <2>1. CASE WorkloadOf[s] \in live
    <3> SUFFICES ASSUME WorkloadOf[s] \notin live' PROVE report'[s] # NoReport
      OBVIOUS
    <3>1. WorkloadOf[s] = w /\ live' # live
      BY <1>2, <2>1
    <3> QED  BY <1>5, <3>1 DEF TasksOf
  <2>2. CASE WorkloadOf[s] \notin live
    BY <1>3, <2>2 DEF ReportsAreRight
  <2> QED  BY <2>1, <2>2
<1>8. SuccessIsRead'
  <2> SUFFICES ASSUME NEW s \in Tasks, report'[s] = Success
               PROVE  Handles(s) \subseteq readOK
    BY <1>1 DEF SuccessIsRead
  <2>1. CASE report[s] # NoReport
    BY <1>3, <2>1 DEF ReportsAreRight, SuccessIsRead
  <2>2. CASE report[s] = NoReport
    <3>1. report'[s] # NoReport
      BY DEF Success, NoReport
    <3> QED  BY <1>3, <2>2, <3>1
  <2> QED  BY <2>1, <2>2
<1>9. ASSUME s3stop = "none", NEW s \in Tasks, report'[s] = "ReadError"
      PROVE  /\ WorkloadOf[s] \notin live' /\ base[WorkloadOf[s]] # 0
             /\ Handles(s) \cap outstanding' = {}
  <2>1. CASE report[s] # NoReport
    <3>1. report[s] = "ReadError"
      BY <1>3, <1>9, <2>1
    <3> QED  BY <1>2, <1>9, <3>1 DEF ReportsAreRight
  <2>2. CASE report[s] = NoReport
    <3>1. report'[s] # NoReport /\ report'[s] # Success
      BY <1>9 DEF Success, NoReport
    <3>2. WorkloadOf[s] = w /\ live' = live \ {w} /\ w \in live \ live'
      BY <1>3, <2>2, <3>1 DEF TasksOf
    <3>3. \A g \in Handles(s) : InBlock(g, w)
      BY <3>2, HandlesLeadBack
    <3> QED  BY <1>2, <1>9, <3>2, <3>3
  <2> QED  BY <2>1, <2>2
<1>10. \A s \in LiveTasks' : s \in LiveTasks
  BY <1>2 DEF LiveTasks
<1> QED  BY <1>1, <1>4, <1>6, <1>7, <1>8, <1>9, <1>10 DEF ReportsAreRight

-----------------------------------------------------------------------------
(* Fourth layer: steps that change the window *)

(* The reads in flight are what is underway and not pending. *)
LEMMA FlyingIs ==
  ASSUME OnePlace
  PROVE  Flying = {h \in Underway \ PendingSet : \E w \in live : InBlock(h, w)}
BY DEF OnePlace, Underway, Flying

(* They can be counted. *)
LEMMA FlyingIsFinite ==
  ASSUME TypeOK, Places
  PROVE  IsFiniteSet(Flying) /\ Cardinality(Flying) \in Nat
<1>1. counter \in Nat
  BY DEF TypeOK
<1>2. Flying \subseteq 0 .. counter
  <2>1. Flying \subseteq Underway
    BY DEF Flying, Underway
  <2> QED  BY <1>1, <2>1, UnderwayIsNat DEF Places, BlocksApart
<1>3. IsFiniteSet(0 .. counter)
  BY <1>1, FS_Interval
<1> QED  BY <1>2, <1>3, FS_Subset, FS_CardinalityType

(* Steps that leave the reads in flight as they are. *)
LEMMA WindowFrame ==
  ASSUME Places, Places', UsedIsFlying,
         s3stop' = "none" =>
           /\ s3stop = "none" /\ used' = used
           /\ \A h : /\ h \in Underway' \ PendingSet'
                     /\ \E w \in live' : InBlock(h, w)'
                     <=> /\ h \in Underway \ PendingSet
                         /\ \E w \in live : InBlock(h, w)
  PROVE  UsedIsFlying'
<1>1. Flying = {h \in Underway \ PendingSet : \E w \in live : InBlock(h, w)}
  BY FlyingIs DEF Places
<1>2. Flying' = {h \in Underway' \ PendingSet' :
                  \E w \in live' : InBlock(h, w)'}
  BY DEF Places, OnePlace, Underway, Flying
<1>3. s3stop' = "none" => Flying' = Flying
  BY <1>1, <1>2
<1> QED  BY <1>3 DEF UsedIsFlying

-----------------------------------------------------------------------------
(* Every step keeps the invariant: pump *)

(* The chunk at the front of the window belongs to an open task. *)
LEMMA FrontIsOpen ==
  ASSUME IInv, Submitting
  PROVE  /\ Front \in PendingSet /\ Front \in Nat
         /\ FrontWorkload \in live /\ InBlock(Front, FrontWorkload)
         /\ FrontTask \in LiveTasks /\ WorkloadOf[FrontTask] = FrontWorkload
         /\ Front \in Unsettled(FrontTask) /\ remaining[FrontTask] > 0
         /\ FrontTask \in Tasks
<1>1. pending # <<>> /\ pending \in Seq(Nat \ {0})
  BY DEF Submitting, CanTake, IInv, TypeOK
<1>2. Front \in PendingSet /\ Front \in Nat
  BY <1>1 DEF PendingSet, Front
<1>3. /\ FrontWorkload \in live /\ FrontTask \in LiveTasks
      /\ WorkloadOf[FrontTask] = FrontWorkload
      /\ Front \in Unsettled(FrontTask) /\ remaining[FrontTask] > 0
  BY <1>2, PendingIsOpen DEF IInv, FrontWorkload, FrontTask
<1>4. FrontTask \in Tasks /\ Front \in Handles(FrontTask)
  BY <1>3 DEF LiveTasks, Unsettled
<1>5. InBlock(Front, FrontWorkload)
  BY <1>2, <1>3, <1>4, HandlesLeadBack DEF IInv
<1> QED  BY <1>2, <1>3, <1>4, <1>5

(* A chunk is settled in submit: skipped, or its read failed. *)
LEMMA SubmitSettles ==
  ASSUME IInv, Submitting, NEW ret \in Codes, ret # Success,
         CompleteChunk(FrontWorkload, FrontTask, ret, used + 1),
         \/ outstanding' = outstanding
         \/ /\ outstanding' = outstanding \cup {Front} /\ clientStop
            /\ error[FrontTask] = Success,
         responder' \in {"open", responder},
         leaked' \in BOOLEAN, doubled' \in BOOLEAN
  PROVE  IInv'
<1> PICK t \in LiveTasks : t = FrontTask
  BY FrontIsOpen
<1> PICK h \in Nat : h = Front
  BY FrontIsOpen
<1>1. /\ TypeOK /\ Places /\ Counts /\ ReportsAreRight /\ UsedIsFlying
      /\ used \in Nat
  BY DEF IInv, TypeOK
<1>2. /\ h \in PendingSet /\ h \in Unsettled(t) /\ remaining[t] > 0
      /\ WorkloadOf[t] = FrontWorkload /\ InBlock(h, FrontWorkload)
      /\ FrontWorkload \in live
  BY FrontIsOpen
<1>3. CompleteChunk(WorkloadOf[t], t, ret, used + 1)
  BY <1>2
<1>4. /\ pc = "pump" /\ CanTake /\ pending # <<>> /\ pending' = Tail(pending)
      /\ UNCHANGED <<ChunkTask, taken, dropped, reader, queue, base, counter,
                     pc, after, events, progressed, stopped, s3stop,
                     clientStop, ready, readOK>>
  BY DEF Submitting, CanTake
<1>5. /\ remaining' \in [Tasks -> Nat] /\ error' \in [Tasks -> Codes]
      /\ used' = used /\ openTasks' \in [Workloads -> Nat]
      /\ live' \subseteq live
  <2>1. used + 1 \in Nat /\ used + 1 >= 1 /\ (used + 1) - 1 = used
    BY <1>1
  <2> QED  BY <1>1, <1>2, <1>3, <2>1, Settles DEF Counts
<1>6. /\ fileError' \in [Workloads -> [Files -> Codes]]
      /\ report' \in [Tasks -> Codes \cup {NoReport}]
  <2>1. used + 1 \in Nat
    BY <1>1
  <2> QED  BY <1>1, <1>2, <1>3, <2>1, SettleReports
<1>7. TypeOK'
  <2>1. pending \in Seq(Nat \ {0})
    BY <1>1 DEF TypeOK
  <2>2. pending' \in Seq(Nat \ {0})
    BY <1>4, <2>1
  <2>3. outstanding' \subseteq Nat \ {0}
    BY <1>1, <1>2, UnderwayIsNat DEF TypeOK
  <2>4. responder' \in {"null", "open", "stopped"}
    BY <1>1 DEF TypeOK
  <2> QED  BY <1>1, <1>4, <1>5, <1>6, <2>2, <2>3, <2>4 DEF TypeOK
<1>8. /\ Places' /\ h \notin outstanding /\ PendingSet' = PendingSet \ {h}
      /\ outstanding' = outstanding => Underway' = Underway \ {h}
      /\ outstanding' # outstanding => Underway' = Underway
  BY <1>1, <1>4, <1>5, FrontPlaces
<1>9. PendingSet' # {} => CanTake'
  <2>1. PendingSet' # {} => pending' # <<>>
    BY DEF PendingSet
  <2> QED  BY <1>4, <1>5, <2>1 DEF CanTake
<1>10. s3stop = "none" => ~clientStop
  BY <1>1 DEF Places, StopsInOrder
<1>11. /\ Counts'
       /\ remaining'[t] = 0 /\ error'[t] = Success
            => Handles(t) \subseteq readOK
       /\ s3stop = "none" =>
            \A w \in live \ live', g \in Underway' : ~InBlock(g, w)
  <2>1. \/ Underway' = Underway \ {h} /\ (ret = Success => h \in readOK)
        \/ /\ Underway' = Underway /\ clientStop /\ h \in PendingSet
           /\ pc = "pump" /\ ret # Success /\ error[t] = Success
    BY <1>2, <1>4, <1>8
  <2>2. used + 1 \in Nat
    BY <1>1
  <2>3. pc = "pump" => /\ pc' = pc /\ h \in PendingSet /\ CanTake
                       /\ PendingSet' # {} => CanTake'
    BY <1>2, <1>4, <1>9
  <2> QED  BY <1>1, <1>2, <1>3, <1>4, <1>8, <1>10, <2>1, <2>2, <2>3,
              CountsSettle
<1>12. ReportsAreRight'
  <2>1. used + 1 \in Nat
    BY <1>1
  <2>2. outstanding' \subseteq Underway'
    BY DEF Underway
  <2>3. s3stop = "none" => outstanding' = outstanding
    BY <1>10
  <2> QED  BY <1>1, <1>2, <1>3, <1>4, <1>11, <2>1, <2>2, <2>3, ReportsSettle
<1>13. UsedIsFlying'
  <2>1. ASSUME s3stop' = "none"
        PROVE  /\ s3stop = "none" /\ used' = used
               /\ \A g : /\ g \in Underway' \ PendingSet'
                         /\ \E w \in live' : InBlock(g, w)'
                         <=> /\ g \in Underway \ PendingSet
                             /\ \E w \in live : InBlock(g, w)
    <3>1. Underway' \ PendingSet' = Underway \ PendingSet
      BY <1>2, <1>4, <1>8, <1>10, <2>1
    <3>2. \A g, w : InBlock(g, w)' = InBlock(g, w)
      BY <1>4 DEF InBlock, NumChunks
    <3> QED  BY <1>4, <1>5, <1>11, <2>1, <3>1, <3>2
  <2> QED  BY <1>1, <1>8, <2>1, WindowFrame
<1> QED  BY <1>7, <1>8, <1>11, <1>12, <1>13 DEF IInv

(* A task that failed is not read any further. *)
LEMMA SubmitSkippedStep ==
  ASSUME IInv, SubmitSkipped
  PROVE  IInv'
<1>1. /\ error[FrontTask] # Success /\ responder' = responder
      /\ leaked' = leaked /\ doubled' = doubled /\ outstanding' = outstanding
      /\ CompleteChunk(FrontWorkload, FrontTask, error[FrontTask], used + 1)
      /\ Submitting
  BY DEF SubmitSkipped
<1>2. /\ error[FrontTask] \in Codes
      /\ leaked \in BOOLEAN /\ doubled \in BOOLEAN
  BY <1>1, FrontIsOpen DEF IInv, TypeOK
<1> QED  BY <1>1, <1>2, SubmitSettles

(* async_read fails. *)
LEMMA SubmitFailsStep ==
  ASSUME IInv, SubmitFails
  PROVE  IInv'
<1> PICK ret : ret = IF clientStop THEN "FinishedError" ELSE "UnknownError"
  OBVIOUS
<1>1. ret \in Codes /\ ret # Success
  BY DEF Codes, Errors, Success
<1>2. /\ Submitting /\ error[FrontTask] = Success
      /\ responder' \in {"open", responder}
      /\ CompleteChunk(FrontWorkload, FrontTask, ret, used + 1)
      /\ leaked' \in BOOLEAN /\ doubled' \in BOOLEAN
      /\ \/ outstanding' = outstanding
         \/ outstanding' = outstanding \cup {Front} /\ clientStop
  BY DEF SubmitFails, IInv, TypeOK
<1> QED  BY <1>1, <1>2, SubmitSettles

(* A read is issued and takes a slot of the window. *)
LEMMA SubmitReadStep ==
  ASSUME IInv, SubmitRead
  PROVE  IInv'
<1>1. /\ TypeOK /\ Places /\ Counts /\ ReportsAreRight /\ UsedIsFlying
      /\ used \in Nat
  BY DEF IInv, TypeOK
<1> PICK h \in Nat : h = Front
  BY FrontIsOpen DEF SubmitRead
<1>2. h \in PendingSet /\ FrontWorkload \in live /\ InBlock(h, FrontWorkload)
  BY FrontIsOpen DEF SubmitRead
<1>3. /\ pc = "pump" /\ CanTake /\ pending # <<>> /\ pending' = Tail(pending)
      /\ ~clientStop /\ outstanding' = outstanding \cup {h} /\ used' = used + 1
      /\ responder' \in {"open", responder}
      /\ UNCHANGED <<ChunkTask, taken, dropped, reader, queue, base, counter,
                     pc, after, events, progressed, stopped, s3stop,
                     clientStop, ready, readOK, leaked, doubled, live, remaining,
                     error, openTasks, fileError, report>>
  BY DEF SubmitRead, Submitting, CanTake, taskVars
<1>4. TypeOK'
  <2>1. pending \in Seq(Nat \ {0})
    BY <1>1 DEF TypeOK
  <2>2. pending' \in Seq(Nat \ {0})
    BY <1>3, <2>1
  <2>3. outstanding' \subseteq Nat \ {0}
    BY <1>1, <1>2, <1>3, UnderwayIsNat DEF TypeOK
  <2>4. responder' \in {"null", "open", "stopped"} /\ used' \in Nat
    BY <1>1, <1>3 DEF TypeOK
  <2> QED  BY <1>1, <1>3, <2>2, <2>3, <2>4 DEF TypeOK
<1>5. /\ Places' /\ h \notin outstanding /\ PendingSet' = PendingSet \ {h}
      /\ Underway' = Underway
  <2>1. /\ Places' /\ h \notin outstanding /\ PendingSet' = PendingSet \ {h}
        /\ outstanding' # outstanding => Underway' = Underway
    BY <1>1, <1>3, FrontPlaces
  <2> QED  BY <1>3, <2>1
<1>6. Counts'
  BY <1>1, <1>3, <1>5, CountsFrame
<1>7. ReportsAreRight'
  BY <1>1, <1>2, <1>3, ReportsFrame
<1>8. UsedIsFlying'
  <2>1. h \notin Flying
    BY <1>1, <1>2 DEF Flying, Places, OnePlace
  <2>2. Flying' = Flying \cup {h}
    <3>1. ReadyHandles' = ReadyHandles /\ EventHandles' = EventHandles
      BY <1>3 DEF ReadyHandles, EventHandles
    <3>2. \A g, w : InBlock(g, w)' = InBlock(g, w)
      BY <1>3 DEF InBlock, NumChunks
    <3> QED  BY <1>2, <1>3, <3>1, <3>2 DEF Flying
  <2>3. Cardinality(Flying') = Cardinality(Flying) + 1
    BY <1>1, <2>1, <2>2, FlyingIsFinite, FS_AddElement
  <2> QED  BY <1>1, <1>3, <2>3 DEF UsedIsFlying
<1> QED  BY <1>4, <1>5, <1>6, <1>7, <1>8 DEF IInv

-----------------------------------------------------------------------------
(* Every step keeps the invariant: the loop and the stops *)

(* What a live handle is not. *)
LEMMA LiveIsNotZero ==
  ASSUME TypeOK, Places, NEW w \in live
  PROVE  ~InBlock(0, w)
<1>1. w \in Workloads /\ base[w] \in Nat /\ base[w] # 0
  BY DEF TypeOK, Places, BlocksApart
<1> QED  BY <1>1 DEF InBlock

(* Steps of the thread, or of a stop, that touch no chunk. *)
LEMMA QuietStep ==
  ASSUME IInv, TypeOK',
         UNCHANGED <<ChunkTask, taken, dropped, base, counter, windowVars,
                     taskVars, events, outstanding, ready, readOK>>,
         (pc # "events" /\ pc' # "events") \/ UNCHANGED pc,
         queue => queue', clientStop => clientStop',
         s3stop' = "none" =>
           s3stop = "none" /\ ~clientStop' /\ responder' # "stopped",
         pc = "pump" /\ CanTake => UNCHANGED pc
  PROVE  IInv'
<1>1. /\ TypeOK /\ Places /\ Counts /\ ReportsAreRight /\ UsedIsFlying
      /\ UNCHANGED <<pending, used, live, remaining, error, openTasks,
                     fileError, report>>
  BY DEF IInv, windowVars, taskVars
<1>2. Places' /\ PendingSet' = PendingSet /\ Underway' = Underway
  BY <1>1, PlacesFrame
<1>3. Counts'
  <2>1. CanTake => CanTake'
    BY <1>1 DEF CanTake
  <2> QED  BY <1>1, <1>2, <2>1, CountsFrame
<1>4. ReportsAreRight'
  BY <1>1, ReportsFrame
<1>5. UsedIsFlying'
  <2>1. \A g, w : InBlock(g, w)' = InBlock(g, w)
    BY DEF InBlock, NumChunks
  <2> QED  BY <1>1, <1>2, <2>1, WindowFrame
<1> QED  BY <1>2, <1>3, <1>4, <1>5 DEF IInv

(* The steps that are quiet. *)
LEMMA QuietSteps ==
  ASSUME IInv,
         \/ Loop \/ Drain \/ Exit \/ PumpDone \/ DrainWaits
         \/ StopClient \/ StopResponder \/ StopPool
  PROVE  IInv'
<1>1. TypeOK /\ Places
  BY DEF IInv
<1>2. s3stop = "none" => ~clientStop /\ responder # "stopped"
  BY <1>1 DEF Places, StopsInOrder
<1>3. ASSUME Loop \/ Drain \/ Exit \/ PumpDone \/ DrainWaits
      PROVE  IInv'
  <2>1. /\ UNCHANGED <<ChunkTask, taken, dropped, reader, queue, base, counter,
                       windowVars, taskVars, events, progressed, stopped,
                       clientVars>>
        /\ pc # "events"
        /\ pc' \in {"pump", "batch", "wait", "top", "loop", "exit"}
        /\ after' \in {"top", "loop", "pump"}
        /\ pc = "pump" => ~CanTake
    <3>1. CASE Loop
      BY <1>1, <3>1 DEF Loop, TypeOK
    <3>2. CASE Drain
      BY <1>1, <3>2 DEF Drain, TypeOK
    <3>3. CASE Exit
      BY <1>1, <3>3 DEF Exit, TypeOK
    <3>4. CASE PumpDone
      BY <1>1, <3>4 DEF PumpDone, TypeOK
    <3>5. CASE DrainWaits
      BY <1>1, <3>5 DEF DrainWaits, TypeOK
    <3> QED  BY <1>3, <3>1, <3>2, <3>3, <3>4, <3>5
  <2>2. TypeOK'
    <3>1. pc' \in Stages
      BY <2>1 DEF Stages
    <3> QED  BY <1>1, <2>1, <3>1 DEF TypeOK, windowVars, taskVars, clientVars
  <2> QED  BY <1>2, <2>1, <2>2, QuietStep DEF clientVars
<1>4. CASE StopClient
  <2>1. TypeOK'
    BY <1>1, <1>4 DEF StopClient, TypeOK, windowVars, taskVars
  <2> QED  BY <1>2, <1>4, <2>1, QuietStep DEF StopClient
<1>5. CASE StopResponder
  <2>1. TypeOK'
    BY <1>1, <1>5 DEF StopResponder, TypeOK, windowVars, taskVars
  <2> QED  BY <1>5, <2>1, QuietStep DEF StopResponder
<1>6. CASE StopPool
  <2>1. TypeOK'
    BY <1>1, <1>6 DEF StopPool, TypeOK, windowVars, taskVars, clientVars
  <2> QED  BY <1>2, <1>6, <2>1, QuietStep DEF StopPool, clientVars
<1> QED  BY <1>3, <1>4, <1>5, <1>6

(* The workload is discarded, or has no chunks: its tasks are told so. *)
LEMMA ArrivalTold ==
  ASSUME IInv, TypeOK', NEW w \in Workloads, w \notin taken,
         taken' = taken \cup {w},
         UNCHANGED <<ChunkTask, dropped, base, counter, windowVars, live,
                     remaining, error, openTasks, fileError, events,
                     clientVars>>,
         pc = "top", pc' \in {"top", "loop"}, queue => queue',
         \A t \in Tasks : t \notin TasksOf(w) => report'[t] = report[t],
         \A t \in TasksOf(w) : \/ report'[t] \in {"ClientError", "UnknownError"}
                               \/ report'[t] = Success /\ NumChunks(w) = 0
  PROVE  IInv'
<1>1. /\ TypeOK /\ Places /\ Counts /\ ReportsAreRight /\ UsedIsFlying
      /\ UNCHANGED <<pending, used, outstanding, ready, readOK, s3stop,
                     clientStop, responder>>
  BY DEF IInv, windowVars, clientVars
<1>2. Places' /\ PendingSet' = PendingSet /\ Underway' = Underway
  <2>1. s3stop = "none" => ~clientStop /\ responder # "stopped"
    BY <1>1 DEF Places, StopsInOrder
  <2> QED  BY <1>1, <2>1, PlacesFrame
<1>3. Counts'
  BY <1>1, <1>2, CountsFrame
<1>4. UsedIsFlying'
  <2>1. \A g, v : InBlock(g, v)' = InBlock(g, v)
    BY DEF InBlock, NumChunks
  <2> QED  BY <1>1, <1>2, <2>1, WindowFrame
<1>5. \A t \in Tasks : Handles(t)' = Handles(t)
  BY DEF Handles, ChunksOf
<1>6. w \notin live /\ \A t \in TasksOf(w) : t \in Tasks /\ WorkloadOf[t] = w
  BY <1>1 DEF TypeOK, TasksOf
<1>7. SuccessIsRead'
  <2> SUFFICES ASSUME NEW t \in Tasks, report'[t] = Success
               PROVE  Handles(t) \subseteq readOK
    BY <1>1, <1>5 DEF SuccessIsRead
  <2>1. CASE t \in TasksOf(w)
    <3>1. NumChunks(w) = 0
      BY <2>1 DEF Success
    <3>2. ChunksOf(t) = {}
      <4>1. DOMAIN ChunkTask[w] = 1 .. 0
        BY <1>1, <3>1, ChunksAreOwn
      <4> QED  BY <1>6, <2>1, <4>1 DEF ChunksOf
    <3> QED  BY <3>2 DEF Handles
  <2>2. CASE t \notin TasksOf(w)
    BY <1>1, <2>2 DEF ReportsAreRight, SuccessIsRead
  <2> QED  BY <2>1, <2>2
<1>8. \A t \in TasksOf(w) : report'[t] # NoReport /\ report'[t] # "ReadError"
  BY DEF Success, NoReport
<1>9. ReportsAreRight'
  <2>1. \A t \in Tasks : t \notin TasksOf(w) <=> WorkloadOf[t] # w
    BY DEF TasksOf
  <2>2. \A t \in Tasks : WorkloadOf[t] \notin taken' => report'[t] = NoReport
    BY <1>1, <2>1 DEF ReportsAreRight
  <2>3. \A t \in Tasks :
          WorkloadOf[t] \in taken' \ (live \cup dropped)
            => report'[t] # NoReport
    BY <1>1, <1>8, <2>1 DEF ReportsAreRight
  <2>4. \A t \in LiveTasks : report'[t] = report[t] /\ t \in Tasks
    BY <1>6, <2>1 DEF LiveTasks
  <2>5. s3stop = "none" => \A t \in Tasks : report'[t] = "ReadError" =>
          /\ WorkloadOf[t] \notin live /\ base[WorkloadOf[t]] # 0
          /\ Handles(t) \cap outstanding = {}
    BY <1>1, <1>8, <2>1 DEF ReportsAreRight
  <2>6. LiveTasks' = LiveTasks
    BY DEF LiveTasks
  <2>7. \A t \in LiveTasks : remaining[t] = 0 =>
          \/ report'[t] # NoReport
          \/ fileError[WorkloadOf[t]][FileOf[t]] # Success
    BY <1>1, <2>4 DEF ReportsAreRight
  <2> QED  BY <1>1, <1>5, <1>7, <2>2, <2>3, <2>5, <2>6, <2>7
           DEF ReportsAreRight
<1> QED  BY <1>2, <1>3, <1>4, <1>9 DEF IInv

(* Discard and EnqueueEmpty. *)
LEMMA ArrivalToldSteps ==
  ASSUME IInv, NEW w \in Workloads, Discard(w) \/ EnqueueEmpty(w)
  PROVE  IInv'
<1>1. TypeOK /\ ReportsAreRight
  BY DEF IInv
<1>2. \A t \in TasksOf(w) : t \in Tasks /\ WorkloadOf[t] = w
  BY DEF TasksOf
<1>3. CASE Discard(w)
  <2>1. PICK code \in {"ClientError", "UnknownError"} :
          report' = Reported(w, code, report, fileError[w])
    BY <1>3 DEF Discard
  <2>2. /\ w \notin taken /\ taken' = taken \cup {w} /\ pc = "top" /\ pc' = pc
        /\ reader' \in BOOLEAN
        /\ UNCHANGED <<ChunkTask, dropped, queue, base, counter, windowVars,
                       live, remaining, error, openTasks, fileError, after,
                       events, progressed, stopped, clientVars>>
    BY <1>3 DEF Discard, Take
  <2>3. code # Success /\ code \in Codes
    BY DEF Success, Codes, Errors
  <2>4. \A t \in TasksOf(w) : report[t] = NoReport
    BY <1>1, <1>2, <2>2 DEF ReportsAreRight
  <2>5. /\ \A t \in Tasks : t \notin TasksOf(w) => report'[t] = report[t]
        /\ \A t \in TasksOf(w) : report'[t] = code
    BY <1>2, <2>1, <2>3, <2>4 DEF Reported
  <2>6. report' \in [Tasks -> Codes \cup {NoReport}]
    <3>1. \A t \in Tasks : report'[t] \in Codes \cup {NoReport}
      BY <1>1, <2>3, <2>5 DEF TypeOK
    <3> QED  BY <2>1, <3>1 DEF Reported
  <2>7. TypeOK'
    BY <1>1, <2>2, <2>6 DEF TypeOK, windowVars, clientVars
  <2> QED  BY <2>2, <2>5, <2>7, ArrivalTold
<1>4. CASE EnqueueEmpty(w)
  <2>1. /\ w \notin taken /\ taken' = taken \cup {w} /\ pc = "top"
        /\ pc' = "loop"
        /\ reader' = TRUE /\ queue' = TRUE /\ NumChunks(w) = 0
        /\ report' = [t \in Tasks |-> IF t \in TasksOf(w) THEN Success
                                      ELSE report[t]]
        /\ UNCHANGED <<ChunkTask, dropped, base, counter, windowVars, live,
                       remaining, error, openTasks, fileError, after, events,
                       progressed, stopped, clientVars>>
    BY <1>4 DEF EnqueueEmpty, Take
  <2>2. report' \in [Tasks -> Codes \cup {NoReport}]
    BY <1>1, <2>1 DEF TypeOK, Codes
  <2>3. TypeOK'
    BY <1>1, <2>1, <2>2 DEF TypeOK, windowVars, clientVars, Stages
  <2>4. /\ \A t \in Tasks : t \notin TasksOf(w) => report'[t] = report[t]
        /\ \A t \in TasksOf(w) : report'[t] = Success
    BY <1>2, <2>1
  <2> QED  BY <2>1, <2>3, <2>4, ArrivalTold
<1> QED  BY <1>3, <1>4

-----------------------------------------------------------------------------
(* Every step keeps the invariant: enqueue *)

(* A workload is enqueued. *)
LEMMA EnqueueStep ==
  ASSUME IInv, NEW w \in Workloads, Enqueue(w)
  PROVE  IInv'
<1>1. /\ TypeOK /\ Places /\ Counts /\ ReportsAreRight /\ UsedIsFlying
  BY DEF IInv
<1>2. /\ w \notin taken /\ w \notin live /\ NumChunks(w) > 0
      /\ taken' = taken \cup {w} /\ live' = live \cup {w}
      /\ reader' = TRUE /\ queue' = TRUE /\ pc' = "loop"
      /\ ChunkTask' = ChunkTask
      /\ base' = [base EXCEPT ![w] = counter]
      /\ counter' = counter + NumChunks(w)
      /\ pending' = pending \o [i \in 1 .. NumChunks(w) |-> counter + i - 1]
      /\ remaining' = [t \in Tasks |-> IF t \in TasksOf(w)
                                       THEN Cardinality(ChunksOf(t))
                                       ELSE remaining[t]]
      /\ openTasks' = [openTasks EXCEPT ![w] = OpenTasks(w)]
      /\ report' = [t \in Tasks |-> IF t \in TasksOf(w) /\ ChunksOf(t) = {}
                                    THEN Success ELSE report[t]]
      /\ UNCHANGED <<dropped, used, error, fileError, after, events,
                     progressed, stopped, s3stop, clientStop, responder,
                     leaked, doubled, outstanding, ready, readOK>>
  BY <1>1 DEF Enqueue, Take, clientVars, TypeOK
<1> PICK n \in Nat \ {0} : n = NumChunks(w)
  BY <1>1, <1>2, ChunksAreOwn
<1> PICK c \in Nat \ {0} : c = counter
  BY <1>1 DEF TypeOK
<1>3. /\ Places' /\ base[w] = 0 /\ base'[w] = c
      /\ \A v \in Workloads \ {w} : base'[v] = base[v]
      /\ PendingSet' = PendingSet \cup c .. c + n - 1
      /\ Underway' = Underway \cup c .. c + n - 1
      /\ \A h \in c .. c + n - 1 : h \notin Underway
  BY <1>1, EnqueuePlaces
<1>4. \A t \in TasksOf(w) :
        /\ t \in Tasks /\ WorkloadOf[t] = w
        /\ Handles(t)' \subseteq c .. c + n - 1
        /\ Cardinality(ChunksOf(t)) \in Nat
        /\ Cardinality(ChunksOf(t)) > 0 <=> ChunksOf(t) # {}
  BY <1>1, <1>2, <1>3, NewHandles DEF TasksOf
<1>5. Counts'
  BY <1>1, EnqueueCounts
<1>6. TypeOK'
  <2>1. pending' \in Seq(Nat \ {0})
    <3>1. \A i \in 1 .. n : c + i - 1 \in Nat \ {0}
      OBVIOUS
    <3>2. [i \in 1 .. n |-> c + i - 1] \in Seq(Nat \ {0})
      BY <3>1
    <3>3. pending \in Seq(Nat \ {0})
      BY <1>1 DEF TypeOK
    <3> QED  BY <1>2, <3>2, <3>3
  <2>2. remaining' \in [Tasks -> Nat]
    <3>1. \A t \in Tasks : remaining'[t] \in Nat
      BY <1>1, <1>2, <1>4 DEF TypeOK
    <3> QED  BY <1>2, <3>1
  <2>3. openTasks' \in [Workloads -> Nat]
    <3>1. OpenTasks(w) \in Nat
      <4>1. IsFiniteSet(Tasks)
        BY ObjectStorageWorkerAssumption DEF ObjectStorageWorkerAssumption
      <4>2. {t \in TasksOf(w) : ChunksOf(t) # {}} \subseteq Tasks
        BY DEF TasksOf
      <4> QED  BY <4>1, <4>2, FS_Subset, FS_CardinalityType DEF OpenTasks
    <3> QED  BY <1>1, <1>2, <3>1 DEF TypeOK
  <2>4. report' \in [Tasks -> Codes \cup {NoReport}]
    BY <1>1, <1>2 DEF TypeOK, Codes
  <2>5. counter' \in Nat \ {0} /\ base' \in [Workloads -> Nat]
    BY <1>1, <1>2 DEF TypeOK
  <2> QED  BY <1>1, <1>2, <2>1, <2>2, <2>3, <2>4, <2>5 DEF TypeOK, Stages
<1>7. \A t \in Tasks : t \notin TasksOf(w) =>
        /\ WorkloadOf[t] \in Workloads \ {w} /\ Handles(t)' = Handles(t)
        /\ report'[t] = report[t] /\ remaining'[t] = remaining[t]
  <2> TAKE t \in Tasks
  <2>1. t \notin TasksOf(w) => WorkloadOf[t] \in Workloads \ {w}
    BY ObjectStorageWorkerAssumption DEF ObjectStorageWorkerAssumption, TasksOf
  <2> QED  BY <1>2, <1>3, <2>1 DEF Handles, ChunksOf
<1>8. ReportsAreRight'
  <2>1. \A t \in Tasks : WorkloadOf[t] \notin taken' => report'[t] = NoReport
    BY <1>1, <1>2, <1>7 DEF ReportsAreRight, TasksOf
  <2>2. \A t \in Tasks :
          WorkloadOf[t] \in taken' \ (live' \cup dropped')
            => report'[t] # NoReport
    BY <1>1, <1>2, <1>7 DEF ReportsAreRight, TasksOf
  <2>3. ASSUME NEW t \in LiveTasks', remaining'[t] = 0
        PROVE  \/ report'[t] # NoReport
               \/ fileError'[WorkloadOf[t]][FileOf[t]] # Success
    <3>1. CASE t \in TasksOf(w)
      <4>1. ChunksOf(t) = {}
        <5>1. remaining'[t] = Cardinality(ChunksOf(t))
          BY <1>2, <1>4, <3>1
        <5> QED  BY <1>4, <2>3, <3>1, <5>1
      <4> QED  BY <1>2, <1>4, <3>1, <4>1 DEF Success, NoReport
    <3>2. CASE t \notin TasksOf(w)
      <4>1. t \in LiveTasks /\ remaining[t] = 0 /\ report'[t] = report[t]
        BY <1>2, <1>7, <2>3, <3>2 DEF LiveTasks
      <4> QED  BY <1>1, <1>2, <4>1 DEF ReportsAreRight
    <3> QED  BY <3>1, <3>2
  <2>4. ASSUME NEW t \in Tasks, report'[t] = Success
        PROVE  Handles(t)' \subseteq readOK'
    <3>1. CASE t \in TasksOf(w)
      <4>1. report[t] = NoReport
        BY <1>1, <1>2, <1>4, <3>1 DEF ReportsAreRight
      <4>2. ChunksOf(t) = {}
        BY <1>2, <2>4, <3>1, <4>1 DEF Success, NoReport
      <4>3. Handles(t)' = {}
        BY <1>2, <4>2 DEF Handles, ChunksOf
      <4> QED  BY <4>3
    <3>2. CASE t \notin TasksOf(w)
      BY <1>1, <1>2, <1>7, <2>4, <3>2 DEF ReportsAreRight, SuccessIsRead
    <3> QED  BY <3>1, <3>2
  <2>5. ASSUME s3stop' = "none", NEW t \in Tasks, report'[t] = "ReadError"
        PROVE  /\ WorkloadOf[t] \notin live' /\ base'[WorkloadOf[t]] # 0
               /\ Handles(t)' \cap outstanding' = {}
    <3>1. t \notin TasksOf(w)
      BY <1>1, <1>2, <1>4, <2>5 DEF ReportsAreRight, Success, NoReport
    <3> QED  BY <1>1, <1>2, <1>3, <1>7, <2>5, <3>1 DEF ReportsAreRight
  <2> QED  BY <2>1, <2>2, <2>3, <2>4, <2>5 DEF ReportsAreRight, SuccessIsRead
<1>9. UsedIsFlying'
  <2>1. \A v : NumChunks(v)' = NumChunks(v)
    BY <1>2 DEF NumChunks
  <2>2. \A g, v : v \in live => InBlock(g, v)' = InBlock(g, v)
    BY <1>1, <1>2, <1>3, <2>1 DEF InBlock, TypeOK
  <2>3. \A g \in Underway : ~InBlock(g, w)'
    <3>1. \A g \in Underway : g \in Nat /\ g < c
      BY <1>1, UnderwayIsNat DEF Places, BlocksApart
    <3> QED  BY <1>3, <3>1 DEF InBlock
  <2>4. Underway' \ PendingSet' = Underway \ PendingSet
    BY <1>3
  <2>5. \A g : /\ g \in Underway' \ PendingSet'
               /\ \E v \in live' : InBlock(g, v)'
               <=> /\ g \in Underway \ PendingSet
                   /\ \E v \in live : InBlock(g, v)
    BY <1>2, <2>2, <2>3, <2>4
  <2> QED  BY <1>1, <1>2, <1>3, <2>5, WindowFrame
<1> QED  BY <1>3, <1>5, <1>6, <1>8, <1>9 DEF IInv

(* An allocation of enqueue throws. *)
LEMMA EnqueueThrowsStep ==
  ASSUME IInv, NEW w \in Workloads, EnqueueThrows(w)
  PROVE  IInv'
<1>1. /\ TypeOK /\ Places /\ ReportsAreRight
  BY DEF IInv
<1>2. /\ w \notin taken /\ w \notin live /\ NumChunks(w) > 0
      /\ taken' = taken \cup {w} /\ live' = {}
      /\ reader' = TRUE /\ queue' = TRUE /\ pc' = "loop"
      /\ ChunkTask' = ChunkTask
      /\ base' = [base EXCEPT ![w] = counter]
      /\ counter' = counter + NumChunks(w)
      /\ pending' = <<>> /\ used' = 0
      /\ UNCHANGED <<remaining, openTasks, error, fileError, after, events,
                     progressed, stopped, s3stop, clientStop, responder,
                     leaked, doubled, outstanding, ready, readOK>>
  BY <1>1 DEF EnqueueThrows, Take, clientVars, TypeOK
<1>3. PICK at \in OomAt, z \in SUBSET {t \in TasksOf(w) : ChunksOf(t) = {}} :
        /\ report' = [t \in Tasks |->
             IF report[t] # NoReport THEN report[t]
             ELSE IF at = "fill" /\ t \in z THEN Success
             ELSE IF t \in {s \in Tasks : WorkloadOf[s] \in live}
                          \cup (IF at = "fill" THEN TasksOf(w) ELSE {})
             THEN "UnknownError" ELSE NoReport]
        /\ dropped' = IF at = "emplace" THEN dropped \cup {w} ELSE dropped
  BY DEF EnqueueThrows
<1>4. at \in {"emplace", "fill"}
  BY ObjectStorageWorkerAssumption DEF ObjectStorageWorkerAssumption
<1>5. /\ Success # NoReport /\ "UnknownError" # NoReport
      /\ Success # "UnknownError" /\ Success # "ReadError"
      /\ NoReport # "ReadError"
  BY DEF Success, NoReport
<1>6. \A t \in TasksOf(w) : /\ t \in Tasks /\ WorkloadOf[t] = w
                            /\ report[t] = NoReport
  BY <1>1, <1>2 DEF TasksOf, ReportsAreRight
<1>7. \A t \in Tasks :
        \/ report'[t] = report[t]
        \/ /\ t \in z /\ report'[t] = Success
        \/ /\ report'[t] = "UnknownError"
           /\ WorkloadOf[t] \in live \/ t \in TasksOf(w)
  BY <1>3
<1>8. \A t \in Tasks : report[t] # NoReport => report'[t] = report[t]
  BY <1>3
<1>9. \A t \in Tasks :
        WorkloadOf[t] \in live \/ (t \in TasksOf(w) /\ at = "fill")
          => report'[t] # NoReport
  BY <1>3, <1>5
<1>10. Places' /\ PendingSet' = {}
       /\ \A v \in Workloads \ {w} : base'[v] = base[v]
  BY <1>1, ThrowPlaces
<1>11. Counts'
  BY <1>2, <1>10, CountsEmpty
<1>12. TypeOK'
  <2>1. report' \in [Tasks -> Codes \cup {NoReport}]
    <3>1. \A t \in Tasks : report'[t] \in Codes \cup {NoReport}
      BY <1>1, <1>7 DEF TypeOK, Codes, Errors
    <3> QED  BY <1>3, <3>1
  <2>2. counter' \in Nat \ {0} /\ base' \in [Workloads -> Nat]
    <3>1. counter \in Nat \ {0} /\ NumChunks(w) \in Nat
      BY <1>1, ChunksAreOwn DEF TypeOK
    <3> QED  BY <1>1, <1>2, <3>1 DEF TypeOK
  <2>3. dropped' \subseteq taken'
    BY <1>1, <1>2, <1>3 DEF TypeOK
  <2> QED  BY <1>1, <1>2, <2>1, <2>2, <2>3 DEF TypeOK, Stages
<1>13. \A t \in Tasks : t \notin TasksOf(w) =>
         WorkloadOf[t] \in Workloads \ {w} /\ Handles(t)' = Handles(t)
  <2> TAKE t \in Tasks
  <2>1. t \notin TasksOf(w) => WorkloadOf[t] \in Workloads \ {w}
    BY ObjectStorageWorkerAssumption DEF ObjectStorageWorkerAssumption, TasksOf
  <2> QED  BY <1>2, <1>10, <2>1 DEF Handles, ChunksOf
<1>14. ReportsAreRight'
  <2>1. \A t \in Tasks : WorkloadOf[t] \notin taken' => report'[t] = NoReport
    <3> TAKE t \in Tasks
    <3>1. WorkloadOf[t] \notin taken' =>
            /\ WorkloadOf[t] \notin taken /\ t \notin TasksOf(w)
            /\ WorkloadOf[t] \notin live
      BY <1>1, <1>2 DEF TypeOK, TasksOf
    <3> QED  BY <1>1, <1>7, <3>1 DEF ReportsAreRight
  <2>2. \A t \in Tasks :
          WorkloadOf[t] \in taken' \ (live' \cup dropped')
            => report'[t] # NoReport
    <3> TAKE t \in Tasks
    <3> SUFFICES ASSUME WorkloadOf[t] \in taken' \ dropped'
                 PROVE  report'[t] # NoReport
      OBVIOUS
    <3>1. CASE t \in TasksOf(w)
      BY <1>3, <1>4, <1>6, <1>9, <3>1
    <3>2. CASE t \notin TasksOf(w)
      <4>1. WorkloadOf[t] \in taken \ dropped
        BY <1>2, <1>3, <1>13, <3>2
      <4>2. CASE WorkloadOf[t] \in live
        BY <1>9, <4>2
      <4>3. CASE WorkloadOf[t] \notin live
        BY <1>1, <1>8, <4>1, <4>3 DEF ReportsAreRight
      <4> QED  BY <4>2, <4>3
    <3> QED  BY <3>1, <3>2
  <2>3. ASSUME NEW t \in Tasks, report'[t] = Success
        PROVE  Handles(t)' \subseteq readOK'
    <3>1. CASE t \in TasksOf(w)
      <4>1. t \in z
        BY <1>5, <1>6, <1>7, <2>3, <3>1
      <4>2. Handles(t)' = {}
        BY <1>2, <4>1 DEF Handles, ChunksOf
      <4> QED  BY <4>2
    <3>2. CASE t \notin TasksOf(w)
      <4>1. report[t] = Success
        BY <1>5, <1>7, <2>3, <3>2
      <4> QED  BY <1>1, <1>2, <1>13, <3>2, <4>1
                  DEF ReportsAreRight, SuccessIsRead
    <3> QED  BY <3>1, <3>2
  <2>4. ASSUME s3stop' = "none", NEW t \in Tasks, report'[t] = "ReadError"
        PROVE  /\ WorkloadOf[t] \notin live' /\ base'[WorkloadOf[t]] # 0
               /\ Handles(t)' \cap outstanding' = {}
    <3>1. report[t] = "ReadError"
      BY <1>5, <1>7, <2>4
    <3>2. t \notin TasksOf(w)
      BY <1>5, <1>6, <3>1
    <3> QED  BY <1>1, <1>2, <1>10, <1>13, <2>4, <3>1, <3>2 DEF ReportsAreRight
  <2>5. LiveTasks' = {}
    BY <1>2 DEF LiveTasks
  <2> QED  BY <2>1, <2>2, <2>3, <2>4, <2>5 DEF ReportsAreRight, SuccessIsRead
<1>15. UsedIsFlying'
  <2>1. Flying' = {}
    BY <1>2 DEF Flying
  <2> QED  BY <1>2, <2>1, FS_EmptySet DEF UsedIsFlying
<1> QED  BY <1>10, <1>11, <1>12, <1>14, <1>15 DEF IInv

-----------------------------------------------------------------------------
(* Every step keeps the invariant: reads and events *)

(* The storage answers a read. *)
LEMMA CompleteReadStep ==
  ASSUME IInv, NEW h \in outstanding, NEW ret \in {Success, "ReadError"},
         CompleteRead(h, ret)
  PROVE  IInv'
<1>1. /\ TypeOK /\ Places /\ Counts /\ ReportsAreRight /\ UsedIsFlying
  BY DEF IInv
<1>2. /\ outstanding' = outstanding \ {h}
      /\ ready' = IF responder = "stopped" THEN ready
                  ELSE Append(ready, [handle |-> h, ret |-> ret])
      /\ readOK' = IF ret = Success THEN readOK \cup {h} ELSE readOK
      /\ UNCHANGED <<ChunkTask, taken, dropped, reader, queue, base, counter,
                     pending, used, live, remaining, error, openTasks,
                     fileError, report, pc, after, events, progressed, stopped,
                     s3stop, clientStop, responder, leaked, doubled>>
  BY DEF CompleteRead, windowVars, taskVars
<1>3. TypeOK'
  <2>1. h \in Nat \ {0} /\ ready \in Seq(ReadyEvents) /\ readOK \subseteq Nat
    BY <1>1 DEF TypeOK
  <2>2. [handle |-> h, ret |-> ret] \in ReadyEvents
    BY <2>1 DEF ReadyEvents, Outcomes
  <2>3. ready' \in Seq(ReadyEvents) /\ readOK' \subseteq Nat
    BY <1>2, <2>1, <2>2
  <2> QED  BY <1>1, <1>2, <2>3 DEF TypeOK
<1>4. /\ Places' /\ PendingSet' = PendingSet
      /\ responder # "stopped" => Underway' = Underway
      /\ responder = "stopped" => Underway' = Underway \ {h}
  BY <1>1, CompleteReadPlaces
<1>5. s3stop = "none" => responder # "stopped"
  BY <1>1 DEF Places, StopsInOrder
<1>6. Counts'
  <2>1. CanTake => CanTake'
    BY <1>2 DEF CanTake
  <2>2. readOK \subseteq readOK'
    BY <1>2
  <2> QED  BY <1>1, <1>2, <1>4, <1>5, <2>1, <2>2, CountsFrame
<1>7. ReportsAreRight'
  <2>1. readOK \subseteq readOK'
    BY <1>2
  <2> QED  BY <1>1, <1>2, <2>1, ReportsFrame
<1>8. UsedIsFlying'
  <2>1. \A g, w : InBlock(g, w)' = InBlock(g, w)
    BY <1>2 DEF InBlock, NumChunks
  <2> QED  BY <1>1, <1>2, <1>4, <1>5, <2>1, WindowFrame
<1> QED  BY <1>3, <1>4, <1>6, <1>7, <1>8 DEF IInv

(* A wait returns events. *)
LEMMA AsyncResponseStep ==
  ASSUME IInv, AsyncResponse
  PROVE  IInv'
<1>1. /\ TypeOK /\ Places /\ Counts /\ ReportsAreRight /\ UsedIsFlying
  BY DEF IInv
<1>2. /\ pc = "wait" /\ pc' = "events"
      /\ UNCHANGED <<ChunkTask, taken, dropped, reader, queue, base, counter,
                     pending, used, live, remaining, error, openTasks,
                     fileError, report, after, progressed, stopped, s3stop,
                     clientStop, responder, leaked, doubled, outstanding,
                     readOK>>
  BY DEF AsyncResponse, windowVars, taskVars
<1>3. TypeOK'
  <2>1. ready \in Seq(ReadyEvents) /\ Len(ready) \in Nat
    BY <1>1 DEF TypeOK
  <2>2. /\ ready \in Seq(ReadyEvents \cup {Sentinel})
        /\ <<Sentinel>> \in Seq(ReadyEvents \cup {Sentinel})
        /\ Append(ready, Sentinel) \in Seq(ReadyEvents \cup {Sentinel})
    BY <2>1
  <2>3. \/ events' = <<Sentinel>> /\ ready' = ready
        \/ \E n \in 1 .. Len(ready) :
             /\ ready' = SubSeq(ready, n + 1, Len(ready))
             /\ \/ events' = SubSeq(ready, 1, n)
                \/ n = Len(ready) /\ events' = Append(ready, Sentinel)
    BY DEF AsyncResponse
  <2>4. ready' \in Seq(ReadyEvents)
    <3>1. \A n \in 1 .. Len(ready) :
            SubSeq(ready, n + 1, Len(ready)) \in Seq(ReadyEvents)
      BY <2>1
    <3> QED  BY <2>1, <2>3, <3>1
  <2>5. events' \in Seq(ReadyEvents \cup {Sentinel})
    <3>1. \A n \in 1 .. Len(ready) :
            SubSeq(ready, 1, n) \in Seq(ReadyEvents \cup {Sentinel})
      BY <2>1, <2>2
    <3> QED  BY <2>2, <2>3, <3>1
  <2> QED  BY <1>1, <1>2, <2>4, <2>5 DEF TypeOK, Stages
<1>4. Places' /\ PendingSet' = PendingSet /\ Underway' \ {0} = Underway
  BY <1>1, ResponsePlaces
<1>5. Counts'
  BY <1>1, <1>2, <1>4, CountsFrame
<1>6. ReportsAreRight'
  BY <1>1, <1>2, ReportsFrame
<1>7. UsedIsFlying'
  <2>1. \A g, w : InBlock(g, w)' = InBlock(g, w)
    BY <1>2 DEF InBlock, NumChunks
  <2>2. \A w \in live : ~InBlock(0, w)
    BY <1>1, LiveIsNotZero
  <2> QED  BY <1>1, <1>2, <1>4, <2>1, <2>2, WindowFrame
<1> QED  BY <1>3, <1>4, <1>5, <1>6, <1>7 DEF IInv

(* What stays well-typed when the round goes on or ends. *)
LEMMA NextEventTypes ==
  ASSUME TypeOK, events # <<>>, NEW p \in BOOLEAN, NextEvent(p)
  PROVE  /\ events' \in Seq(ReadyEvents \cup {Sentinel})
         /\ pc' \in Stages /\ after' \in {"top", "loop", "pump"}
         /\ progressed' \in BOOLEAN
<1>1. events \in Seq(ReadyEvents \cup {Sentinel})
  BY DEF TypeOK
<1>2. CASE Len(events) > 1
  <2>1. Tail(events) \in Seq(ReadyEvents \cup {Sentinel})
    BY <1>1
  <2> QED  BY <1>2, <2>1 DEF NextEvent, TypeOK
<1>3. CASE ~(Len(events) > 1)
  <2>1. events' = <<>> /\ events' \in Seq(ReadyEvents \cup {Sentinel})
    BY <1>3 DEF NextEvent, Return
  <2> QED  BY <1>3, <2>1 DEF NextEvent, Return, TypeOK, Stages
<1> QED  BY <1>2, <1>3

(* A late completion is dropped. *)
LEMMA EventLateStep ==
  ASSUME IInv, EventLate
  PROVE  IInv'
<1>1. /\ TypeOK /\ Places /\ Counts /\ ReportsAreRight /\ UsedIsFlying
  BY DEF IInv
<1>2. /\ pc = "events" /\ Head(events).ret # "FinishedError"
      /\ Locate(Head(events).handle) = {} /\ NextEvent(progressed)
      /\ UNCHANGED <<ChunkTask, taken, dropped, reader, queue, base, counter,
                     pending, stopped, s3stop, clientStop, responder, leaked,
                     doubled,
                     outstanding, ready, readOK, used, live, remaining, error,
                     openTasks, fileError, report>>
  BY DEF EventLate, EventIs, clientVars, taskVars
<1>3. TypeOK'
  <2>1. events # <<>> /\ progressed \in BOOLEAN
    BY <1>1, <1>2 DEF Places, EventsAreTrue, TypeOK
  <2> QED  BY <1>1, <1>2, <2>1, NextEventTypes DEF TypeOK
<1>4. /\ Places' /\ Head(events).handle \in Nat /\ PendingSet' = PendingSet
      /\ Underway' = Underway \ {Head(events).handle}
  BY <1>1, <1>2, EventPlaces
<1>5. \A w \in live : ~InBlock(Head(events).handle, w)
  BY <1>1, <1>2, <1>4, LocateIs DEF Places
<1>6. Counts'
  BY <1>1, <1>2, <1>4, <1>5, CountsFrame
<1>7. ReportsAreRight'
  BY <1>1, <1>2, ReportsFrame
<1>8. UsedIsFlying'
  <2>1. \A g, w : InBlock(g, w)' = InBlock(g, w)
    BY <1>2 DEF InBlock, NumChunks
  <2> QED  BY <1>1, <1>2, <1>4, <1>5, <2>1, WindowFrame
<1> QED  BY <1>3, <1>4, <1>6, <1>7, <1>8 DEF IInv

(* The completion at hand belongs to a live task. *)
LEMMA EventIsLive ==
  ASSUME IInv, EventIs(TRUE)
  PROVE  /\ Head(events).handle \in Nat /\ Head(events).handle \in EventHandles
         /\ EventWorkload \in live
         /\ InBlock(Head(events).handle, EventWorkload)
         /\ EventTask \in LiveTasks /\ WorkloadOf[EventTask] = EventWorkload
         /\ Head(events).handle \in Unsettled(EventTask)
<1>1. TypeOK /\ Places /\ BlocksApart
  BY DEF IInv, Places
<1> PICK h : h = Head(events).handle
  OBVIOUS
<1>2. h \in Nat /\ h \in EventHandles /\ h \in Underway
  <2>1. h \in EventHandles
    BY <1>1, FirstEvent DEF EventIs
  <2> QED  BY <1>1, <2>1, UnderwayIsNat DEF Underway
<1>3. PICK w \in live : InBlock(h, w)
  BY <1>1, <1>2, LocateIs DEF EventIs
<1>4. /\ EventWorkload = w /\ EventTask \in LiveTasks
      /\ WorkloadOf[EventTask] = w /\ h \in Handles(EventTask)
  BY <1>1, <1>2, <1>3, RoutedBack DEF EventWorkload, EventTask
<1> QED  BY <1>2, <1>3, <1>4 DEF Unsettled

(* A completion settles its chunk and releases its slot. *)
LEMMA EventCompletesStep ==
  ASSUME IInv, EventCompletes
  PROVE  IInv'
<1>1. /\ TypeOK /\ Places /\ Counts /\ ReportsAreRight /\ UsedIsFlying
      /\ used \in Nat
  BY DEF IInv, TypeOK
<1> PICK h : h = Head(events).handle
  OBVIOUS
<1> PICK ret : ret = Head(events).ret
  OBVIOUS
<1>2. /\ h \in Nat /\ h \in EventHandles /\ EventTask \in LiveTasks
      /\ WorkloadOf[EventTask] = EventWorkload /\ h \in Unsettled(EventTask)
      /\ EventWorkload \in live /\ InBlock(h, EventWorkload)
  BY EventIsLive DEF EventCompletes
<1> PICK t \in LiveTasks : t = EventTask
  BY <1>2
<1>3. /\ pc = "events" /\ ret # "FinishedError" /\ remaining[t] > 0
      /\ CompleteChunk(WorkloadOf[t], t, ret, used) /\ NextEvent(TRUE)
      /\ UNCHANGED <<ChunkTask, taken, dropped, reader, queue, base, counter,
                     pending, stopped, s3stop, clientStop, responder, leaked,
                     doubled,
                     outstanding, ready, readOK>>
  BY <1>2 DEF EventCompletes, EventIs, clientVars
<1>4. ret \in Codes
  <2>1. Head(events) \in ReadyEvents
    BY <1>1, <1>3, FirstEvent
  <2> QED  BY <2>1 DEF ReadyEvents, Outcomes, Codes, Errors
<1>5. /\ remaining' \in [Tasks -> Nat] /\ error' \in [Tasks -> Codes]
      /\ used' \in Nat /\ used' = (IF used >= 1 THEN used - 1 ELSE 0)
      /\ openTasks' \in [Workloads -> Nat] /\ live' \subseteq live
  BY <1>1, <1>3, <1>4, Settles DEF Counts
<1>6. /\ fileError' \in [Workloads -> [Files -> Codes]]
      /\ report' \in [Tasks -> Codes \cup {NoReport}]
  BY <1>1, <1>3, <1>4, SettleReports
<1>7. TypeOK'
  <2>1. events # <<>>
    BY <1>1, <1>3 DEF Places, EventsAreTrue
  <2>2. /\ events' \in Seq(ReadyEvents \cup {Sentinel})
        /\ pc' \in Stages /\ after' \in {"top", "loop", "pump"}
        /\ progressed' \in BOOLEAN
    BY <1>1, <1>3, <2>1, NextEventTypes
  <2> QED  BY <1>1, <1>3, <1>5, <1>6, <2>2 DEF TypeOK
<1>8. /\ Places' /\ PendingSet' = PendingSet /\ Underway' = Underway \ {h}
      /\ ret = Success => h \in readOK
  BY <1>1, <1>3, <1>5, EventPlaces
<1>9. h \notin PendingSet /\ PendingSet' = PendingSet \ {h}
  BY <1>1, <1>2, <1>8 DEF Places, OnePlace
<1>10. s3stop = "none" => ~clientStop
  BY <1>1 DEF Places, StopsInOrder
<1>11. /\ Counts'
       /\ remaining'[t] = 0 /\ error'[t] = Success
            => Handles(t) \subseteq readOK
       /\ s3stop = "none" =>
            \A w \in live \ live', g \in Underway' : ~InBlock(g, w)
  BY <1>1, <1>2, <1>3, <1>4, <1>8, <1>9, <1>10, CountsSettle
<1>12. ReportsAreRight'
  <2>1. outstanding' \subseteq Underway'
    BY DEF Underway
  <2> QED  BY <1>1, <1>3, <1>4, <1>11, <2>1, ReportsSettle
<1>13. UsedIsFlying'
  <2> SUFFICES ASSUME s3stop' = "none" PROVE used' = Cardinality(Flying')
    BY DEF UsedIsFlying
  <2>1. \A g, w : InBlock(g, w)' = InBlock(g, w)
    BY <1>3 DEF InBlock, NumChunks
  <2>2. Flying = {g \in Underway \ PendingSet : \E w \in live : InBlock(g, w)}
    BY <1>1, FlyingIs DEF Places
  <2>3. Flying' = {g \in Underway' \ PendingSet' :
                     \E w \in live' : InBlock(g, w)'}
    BY <1>8 DEF Places, OnePlace, Underway, Flying
  <2>4. \A g \in Underway' :
          (\E w \in live' : InBlock(g, w)) <=> \E w \in live : InBlock(g, w)
    BY <1>3, <1>5, <1>11
  <2>5. Flying' = Flying \ {h}
    BY <1>8, <2>1, <2>2, <2>3, <2>4
  <2>6. h \in Flying
    BY <1>2 DEF Flying
  <2>7. /\ IsFiniteSet(Flying) /\ Cardinality(Flying) \in Nat
        /\ Cardinality(Flying') = Cardinality(Flying) - 1
        /\ Cardinality(Flying) # 0
    BY <1>1, <2>5, <2>6, FlyingIsFinite, FS_RemoveElement, FS_EmptySet
  <2> QED  BY <1>1, <1>3, <1>5, <2>7 DEF UsedIsFlying
<1> QED  BY <1>7, <1>8, <1>11, <1>12, <1>13 DEF IInv

(* An event that completes a task already settled throws the round away.   *)
(* It takes a stopped client to get here.                                  *)
LEMMA EventAssertsStep ==
  ASSUME IInv, EventAsserts
  PROVE  IInv'
<1>1. /\ TypeOK /\ Places /\ Counts /\ ReportsAreRight /\ UsedIsFlying
  BY DEF IInv
<1>2. /\ pc = "events" /\ remaining[EventTask] = 0 /\ EventIs(TRUE)
      /\ events' = <<>> /\ pc' = "top" /\ progressed' = FALSE
      /\ used' = IF used >= 1 THEN used - 1 ELSE 0
      /\ UNCHANGED <<ChunkTask, taken, dropped, reader, queue, base, counter,
                     pending, stopped, s3stop, clientStop, responder, leaked,
                     doubled,
                     outstanding, ready, readOK, after, live, remaining, error,
                     openTasks, fileError, report>>
  BY DEF EventAsserts, EventIs, clientVars, taskVars
<1>3. s3stop # "none"
  <2> PICK t \in LiveTasks : t = EventTask /\ Unsettled(t) # {}
    BY <1>2, EventIsLive
  <2>1. t \in Tasks /\ Unsettled(t) \subseteq Handles(t)
    BY DEF LiveTasks, Unsettled
  <2>2. Cardinality(Unsettled(t)) >= 1
    BY <1>1, <2>1, HandleSets
  <2>3. s3stop = "none" => remaining[t] = Cardinality(Unsettled(t))
    BY <1>1 DEF Counts, RemainingCounts
  <2> QED  BY <1>2, <2>2, <2>3
<1>4. TypeOK'
  <2>1. used' \in Nat
    BY <1>1, <1>2 DEF TypeOK
  <2>2. events' \in Seq(ReadyEvents \cup {Sentinel})
    BY <1>2
  <2>3. pc' \in Stages /\ progressed' \in BOOLEAN
    BY <1>2 DEF Stages
  <2> QED  BY <1>1, <1>2, <2>1, <2>2, <2>3 DEF TypeOK
<1>5. /\ Places' /\ PendingSet' = PendingSet
      /\ Underway' = PendingSet' \cup outstanding \cup ReadyHandles
  BY <1>1, <1>2, RoundEndsPlaces
<1>6. Underway' \subseteq Underway
  BY <1>5 DEF Underway
<1>7. Counts'
  BY <1>1, <1>2, <1>3, <1>5, <1>6, CountsFrame
<1>8. ReportsAreRight'
  BY <1>1, <1>2, ReportsFrame
<1>9. UsedIsFlying'
  BY <1>2, <1>3 DEF UsedIsFlying
<1> QED  BY <1>4, <1>5, <1>7, <1>8, <1>9 DEF IInv

(* Everything in flight is failed and the round of events ends. *)
LEMMA AbortStep ==
  ASSUME IInv, NEW code \in {"FinishedError", "UnknownError"},
         AbortAll(code), Return,
         UNCHANGED <<ChunkTask, taken, dropped, reader, queue, base, counter,
                     stopped, clientVars>>
  PROVE  IInv'
<1>1. /\ TypeOK /\ Places /\ ReportsAreRight
  BY DEF IInv
<1>2. /\ events' = <<>> /\ pc' = after /\ progressed' = FALSE
      /\ after' \in {"top", after} /\ live' = {} /\ pending' = <<>> /\ used' = 0
      /\ report' = [t \in Tasks |->
                      IF WorkloadOf[t] \in live /\ report[t] = NoReport
                      THEN code ELSE report[t]]
      /\ UNCHANGED <<remaining, error, openTasks, fileError, s3stop,
                     clientStop, responder, leaked, doubled, outstanding,
                     ready,
                     readOK>>
  BY DEF AbortAll, Return, clientVars
<1>3. TypeOK'
  <2>1. report' \in [Tasks -> Codes \cup {NoReport}]
    BY <1>1, <1>2 DEF TypeOK, Codes, Errors
  <2>2. pc' \in Stages /\ after' \in {"top", "loop", "pump"}
    BY <1>1, <1>2 DEF TypeOK, Stages
  <2>3. /\ events' \in Seq(ReadyEvents \cup {Sentinel})
        /\ pending' \in Seq(Nat \ {0})
    BY <1>2
  <2> QED  BY <1>1, <1>2, <2>1, <2>2, <2>3 DEF TypeOK
<1>4. Places' /\ PendingSet' = {}
  <2>1. pc' # "events"
    BY <1>1, <1>2 DEF TypeOK
  <2> QED  BY <1>1, <1>2, <2>1, RoundEndsPlaces
<1>5. Counts'
  BY <1>2, <1>4, CountsEmpty
<1>6. ReportsAreRight'
  BY <1>1, <1>2, ReportsAbort
<1>7. UsedIsFlying'
  <2>1. Flying' = {}
    BY <1>2 DEF Flying
  <2> QED  BY <1>2, <2>1, FS_EmptySet DEF UsedIsFlying
<1> QED  BY <1>3, <1>4, <1>5, <1>6, <1>7 DEF IInv

(* Teardown, or a wait that fails. *)
LEMMA AbortSteps ==
  ASSUME IInv, DrainAborts \/ WaitFails
  PROVE  IInv'
<1>1. CASE DrainAborts
  BY <1>1, AbortStep DEF DrainAborts
<1>2. CASE WaitFails
  BY <1>2, AbortStep DEF WaitFails
<1> QED  BY <1>1, <1>2

(* The sentinel ends the round. *)
LEMMA EventSentinelStep ==
  ASSUME IInv, EventSentinel
  PROVE  IInv'
<1>1. /\ TypeOK /\ Places /\ Counts /\ ReportsAreRight /\ UsedIsFlying
  BY DEF IInv
<1>2. CASE ~progressed /\ ~Idle
  BY <1>2, AbortStep DEF EventSentinel
<1>3. CASE ~(~progressed /\ ~Idle)
  <2>1. /\ pc = "events" /\ Head(events).ret = "FinishedError"
        /\ events' = <<>> /\ pc' = after /\ progressed' = FALSE
        /\ after' \in {"top", after}
        /\ UNCHANGED <<ChunkTask, taken, dropped, reader, queue, base, counter,
                       stopped, pending, used, live, remaining, error,
                       openTasks, fileError, report, s3stop, clientStop,
                       responder, leaked, doubled, outstanding, ready, readOK>>
    BY <1>3 DEF EventSentinel, Return, windowVars, taskVars, clientVars
  <2>2. TypeOK'
    <3>1. pc' \in Stages /\ after' \in {"top", "loop", "pump"}
      BY <1>1, <2>1 DEF TypeOK, Stages
    <3>2. events' \in Seq(ReadyEvents \cup {Sentinel})
      BY <2>1
    <3> QED  BY <1>1, <2>1, <3>1, <3>2 DEF TypeOK
  <2>3. /\ Places' /\ PendingSet' = PendingSet
        /\ Underway' = PendingSet' \cup outstanding \cup ReadyHandles
    <3>1. pc' # "events"
      BY <1>1, <2>1 DEF TypeOK
    <3> QED  BY <1>1, <2>1, <3>1, RoundEndsPlaces
  <2>4. EventHandles = {0}
    <3>1. /\ DOMAIN events = 1 .. Len(events) /\ Len(events) = 1
          /\ events[1] = Sentinel
      <4>1. /\ DOMAIN events = 1 .. Len(events) /\ Head(events) = events[1]
            /\ events[1] \in ReadyEvents \cup {Sentinel}
            /\ events[1].ret = "FinishedError" => Len(events) = 1
        BY <1>1, <2>1, FirstEvent
      <4>2. \A e \in ReadyEvents : e.ret # "FinishedError"
        BY DEF ReadyEvents, Outcomes, Success
      <4> QED  BY <2>1, <4>1, <4>2
    <3> QED  BY <3>1 DEF EventHandles, Sentinel
  <2>5. Underway = Underway' \cup {0}
    BY <2>3, <2>4 DEF Underway
  <2>6. \A w \in live : ~InBlock(0, w)
    BY <1>1, LiveIsNotZero
  <2>7. Counts'
    BY <1>1, <2>1, <2>3, <2>5, <2>6, CountsFrame
  <2>8. ReportsAreRight'
    BY <1>1, <2>1, ReportsFrame
  <2>9. UsedIsFlying'
    <3>1. \A g, w : InBlock(g, w)' = InBlock(g, w)
      BY <2>1 DEF InBlock, NumChunks
    <3> QED  BY <1>1, <2>1, <2>3, <2>5, <2>6, <3>1, WindowFrame
  <2> QED  BY <2>2, <2>3, <2>7, <2>8, <2>9 DEF IInv
<1> QED  BY <1>2, <1>3

-----------------------------------------------------------------------------
(* The invariant *)

(* It holds initially. *)
LEMMA InitIInv == Init => IInv
<1> SUFFICES ASSUME Init PROVE IInv
  OBVIOUS
<1>1. TypeOK
  <2>1. /\ pending \in Seq(Nat \ {0}) /\ ready \in Seq(ReadyEvents)
        /\ events \in Seq(ReadyEvents \cup {Sentinel})
    BY DEF Init
  <2>2. /\ error \in [Tasks -> Codes]
        /\ fileError \in [Workloads -> [Files -> Codes]]
        /\ report \in [Tasks -> Codes \cup {NoReport}]
    BY DEF Init, Codes
  <2>3. /\ base \in [Workloads -> Nat] /\ remaining \in [Tasks -> Nat]
        /\ openTasks \in [Workloads -> Nat]
    BY DEF Init
  <2>4. /\ ChunkTask \in Layouts /\ counter \in Nat \ {0} /\ used \in Nat
        /\ taken = {} /\ dropped = {} /\ live = {} /\ outstanding = {}
        /\ readOK = {}
    BY DEF Init
  <2>5. /\ reader = FALSE /\ queue = FALSE /\ progressed = FALSE
        /\ stopped = FALSE /\ clientStop = FALSE /\ leaked = FALSE
        /\ doubled = FALSE
        /\ pc = "top" /\ after = "top" /\ s3stop = "none"
        /\ responder = "null"
    BY DEF Init
  <2> QED  BY <2>1, <2>2, <2>3, <2>4, <2>5 DEF TypeOK, Stages
<1>2. Underway = {} /\ PendingSet = {} /\ Flying = {} /\ LiveTasks = {}
  BY DEF Init, Underway, PendingSet, ReadyHandles, EventHandles, Flying,
     LiveTasks
<1>3. Places
  <2>1. BlocksApart
    <3>1. \A w \in Workloads : base[w] = 0
      BY DEF Init
    <3> QED  BY <1>2, <3>1 DEF Init, BlocksApart
  <2>2. OnePlace
    BY <1>2 DEF Init, OnePlace, ReadyHandles, EventHandles
  <2>3. EventsAreTrue /\ StopsInOrder
    BY DEF Init, EventsAreTrue, StopsInOrder
  <2> QED  BY <2>1, <2>2, <2>3 DEF Places
<1>4. Counts
  BY <1>2 DEF Init, Counts, PendingIsLive, OpenIsUnfinished, RemainingCounts
<1>5. ReportsAreRight
  <2>1. \A t \in Tasks : report[t] = NoReport
    BY DEF Init
  <2>2. NoReport # Success /\ NoReport # "ReadError"
    BY DEF NoReport, Success
  <2> QED  BY <1>2, <2>1, <2>2 DEF Init, ReportsAreRight, SuccessIsRead
<1>6. UsedIsFlying
  BY <1>2, FS_EmptySet DEF Init, UsedIsFlying
<1> QED  BY <1>1, <1>3, <1>4, <1>5, <1>6 DEF IInv

(* Every step keeps it. *)
LEMMA NextIInv == IInv /\ [Next]_vars => IInv'
<1> SUFFICES ASSUME IInv, [Next]_vars PROVE IInv'
  OBVIOUS
<1>1. CASE UNCHANGED vars
  <2>1. UNCHANGED <<ChunkTask, taken, dropped, reader, queue, base, counter,
                    windowVars, taskVars, pc, after, events, progressed,
                    stopped, clientVars>>
    BY <1>1 DEF vars
  <2>2. TypeOK'
    BY <2>1 DEF IInv, TypeOK, windowVars, taskVars, clientVars
  <2>3. s3stop = "none" => ~clientStop /\ responder # "stopped"
    BY DEF IInv, Places, StopsInOrder
  <2> QED  BY <2>1, <2>2, <2>3, QuietStep DEF clientVars
<1>2. CASE WorkerStep
  BY <1>2, QuietSteps, SubmitSkippedStep, SubmitReadStep, SubmitFailsStep,
     AsyncResponseStep, EventLateStep, EventCompletesStep, EventAssertsStep,
     EventSentinelStep, AbortSteps DEF WorkerStep
<1>3. CASE WaitFails \/ StopClient \/ StopResponder \/ StopPool
  BY <1>3, QuietSteps, AbortSteps
<1>4. ASSUME NEW w \in Workloads, Arrive(w)
      PROVE  IInv'
  BY <1>4, ArrivalToldSteps, EnqueueStep, EnqueueThrowsStep DEF Arrive
<1>5. ASSUME NEW h \in outstanding, NEW ret \in {Success, "ReadError"},
             CompleteRead(h, ret)
      PROVE  IInv'
  BY <1>5, CompleteReadStep
<1> QED  BY <1>1, <1>2, <1>3, <1>4, <1>5 DEF Next, StorageAnswers, Gone

(* The invariant holds in every state the worker reaches. *)
THEOREM Inductive == Spec => []IInv
<1> QED  BY InitIInv, NextIInv, PTL DEF Spec

(* Every variable has its type throughout. *)
THEOREM TypeCorrect == Spec => []TypeOK
<1>1. IInv => TypeOK
  BY DEF IInv
<1> QED  BY <1>1, Inductive, PTL

(* A task told Success has every chunk in its buffer. *)
THEOREM SuccessMeansRead == Spec => []SuccessIsRead
<1>1. IInv => SuccessIsRead
  BY DEF IInv, ReportsAreRight
<1> QED  BY <1>1, Inductive, PTL

(* A failed read is reported when none of the task's reads is running. *)
THEOREM FailuresWait == Spec => []FailureWaitsForReads
<1>1. IInv => FailureWaitsForReads
  BY DEF IInv, ReportsAreRight, FailureWaitsForReads
<1> QED  BY <1>1, Inductive, PTL

(* Workloads are reported when they leave, and none is in flight in a      *)
(* worker that looks idle: with an open task there is a chunk to settle,   *)
(* and while nobody stops the clients it is pending or counted.            *)
THEOREM NothingLost == Spec => []NothingIsLost
<1>1. IInv => NothingIsLost
  <2> SUFFICES ASSUME IInv, s3stop = "none", Idle, NEW w \in live PROVE FALSE
    BY DEF IInv, ReportsAreRight, NothingIsLost
  <2>1. TypeOK /\ Places /\ Counts /\ UsedIsFlying
    BY DEF IInv
  <2>2. pending = <<>> /\ used = 0
    BY <2>1 DEF Idle, Places, StopsInOrder
  <2>3. PICK t \in TasksOf(w) : remaining[t] > 0
    <3>1. Cardinality(Unfinished(w)) > 0
      BY <2>1 DEF Counts, OpenIsUnfinished
    <3>2. Unfinished(w) # {}
      BY <3>1, FS_EmptySet
    <3> QED  BY <3>2 DEF Unfinished
  <2>4. t \in LiveTasks /\ t \in Tasks
    BY DEF LiveTasks, TasksOf
  <2>5. remaining[t] = Cardinality(Unsettled(t))
    BY <2>1, <2>4 DEF Counts, RemainingCounts
  <2>6. PICK h \in Unsettled(t) : TRUE
    BY <2>3, <2>5, FS_EmptySet
  <2>7. h \notin PendingSet
    BY <2>2 DEF PendingSet
  <2>8. h \in Flying
    <3>1. InBlock(h, w)
      BY <2>1, <2>4, LiveHandles DEF Unsettled, Places, TasksOf
    <3> QED  BY <2>7, <3>1 DEF Flying, Unsettled, Underway
  <2>9. Cardinality(Flying) = 0 /\ IsFiniteSet(Flying)
    BY <2>1, <2>2, FlyingIsFinite DEF UsedIsFlying
  <2> QED  BY <2>8, <2>9, FS_EmptySet
<1> QED  BY <1>1, Inductive, PTL

(* Events with live handles are as many as the handles. *)
LEMMA EventsAreHandles ==
  ASSUME TypeOK, Places, NEW s, s = ready \/ s = events
  PROVE  LET I == {i \in DOMAIN s : Locate(s[i].handle) # {}}
             H == {h \in {s[i].handle : i \in DOMAIN s} : Locate(h) # {}}
         IN  /\ IsFiniteSet(H) /\ Cardinality(H) \in Nat
             /\ Cardinality(H) = Cardinality(I)
<1> DEFINE I == {i \in DOMAIN s : Locate(s[i].handle) # {}}
           H == {h \in {s[i].handle : i \in DOMAIN s} : Locate(h) # {}}
           f == [i \in I |-> s[i].handle]
<1>1. /\ DOMAIN s = 1 .. Len(s) /\ Len(s) \in Nat
      /\ \A i, j \in DOMAIN s : s[i].handle = s[j].handle => i = j
  <2>1. CASE s = ready
    <3>1. ready \in Seq(ReadyEvents)
      BY DEF TypeOK
    <3> QED  BY <2>1, <3>1 DEF Places, OnePlace
  <2>2. CASE s = events
    <3>1. events \in Seq(ReadyEvents \cup {Sentinel})
      BY DEF TypeOK
    <3> QED  BY <2>2, <3>1 DEF Places, OnePlace
  <2> QED  BY <2>1, <2>2
<1>2. IsFiniteSet(I)
  <2>1. IsFiniteSet(1 .. Len(s)) /\ I \subseteq 1 .. Len(s)
    BY <1>1, FS_Interval
  <2> QED  BY <2>1, FS_Subset
<1>3. /\ f \in [I -> H] /\ \A i, j \in I : f[i] = f[j] => i = j
      /\ \A h \in H : \E i \in I : f[i] = h
  BY <1>1
<1> HIDE DEF f
<1>4. IsFiniteSet(H) /\ Cardinality(H) = Cardinality(I)
  <2> HIDE DEF I, H
  <2> QED  BY <1>2, <1>3, SameSize
<1>5. Cardinality(H) \in Nat
  BY <1>4, FS_CardinalityType
<1> QED  BY <1>4, <1>5

(* The window counts what is at the storage, ready and in the round, each  *)
(* handle once; and what is pending is live.                               *)
THEOREM WindowIsExact == Spec => []WindowCounts
<1>1. IInv => WindowCounts
  <2> SUFFICES ASSUME IInv PROVE WindowCounts
    OBVIOUS
  <2>1. TypeOK /\ Places /\ Counts /\ UsedIsFlying /\ BlocksApart
    BY DEF IInv, Places
  <2>2. \A h \in Underway : Locate(h) # {} <=> \E w \in live : InBlock(h, w)
    <3> TAKE h \in Underway
    <3>1. Locate(h) = {w \in live : InBlock(h, w)}
      BY <2>1, UnderwayIsNat, LocateIs
    <3> QED  BY <3>1
  <2>3. \A h \in PendingSet : Locate(h) # {}
    BY <2>1, <2>2 DEF Counts, PendingIsLive, Underway
  <2> PICK A : A = InWindow
    OBVIOUS
  <2> PICK B : B = {h \in ReadyHandles : Locate(h) # {}}
    OBVIOUS
  <2> PICK C : C = {h \in EventHandles : Locate(h) # {}}
    OBVIOUS
  <2>4. /\ IsFiniteSet(B) /\ Cardinality(B) \in Nat
        /\ Cardinality(B) = Cardinality({i \in DOMAIN ready :
                                           Locate(ready[i].handle) # {}})
    BY <2>1, EventsAreHandles DEF ReadyHandles
  <2>5. /\ IsFiniteSet(C) /\ Cardinality(C) \in Nat
        /\ Cardinality(C) = Cardinality({i \in DOMAIN events :
                                           Locate(events[i].handle) # {}})
    BY <2>1, EventsAreHandles DEF EventHandles
  <2>6. Flying = (A \cup B) \cup C
    BY <2>2 DEF Flying, InWindow, Underway
  <2>7. A \cap B = {} /\ (A \cup B) \cap C = {}
    BY <2>1 DEF InWindow, Places, OnePlace
  <2>8. IsFiniteSet(A) /\ Cardinality(A) \in Nat
    <3>1. A \subseteq Flying /\ IsFiniteSet(Flying)
      BY <2>1, <2>6, FlyingIsFinite
    <3> QED  BY <3>1, FS_Subset, FS_CardinalityType
  <2>9. /\ IsFiniteSet(A \cup B)
        /\ Cardinality(A \cup B) = Cardinality(A) + Cardinality(B)
    <3>1. Cardinality(A \cup B)
            = Cardinality(A) + Cardinality(B) - Cardinality(A \cap B)
          /\ IsFiniteSet(A \cup B)
      BY <2>4, <2>8, FS_Union
    <3>2. Cardinality(A \cap B) = 0
      BY <2>7, FS_EmptySet
    <3> QED  BY <2>4, <2>8, <3>1, <3>2
  <2>10. Cardinality(Flying) = Cardinality(A) + Cardinality(B) + Cardinality(C)
    <3> PICK D : D = A \cup B
      OBVIOUS
    <3>1. IsFiniteSet(D) /\ Cardinality(D) = Cardinality(A) + Cardinality(B)
      BY <2>9
    <3>2. Cardinality(D \cup C)
            = Cardinality(D) + Cardinality(C) - Cardinality(D \cap C)
      BY <2>5, <3>1, FS_Union
    <3>3. D \cap C = {} /\ Cardinality({}) = 0 /\ Flying = D \cup C
      BY <2>6, <2>7, FS_EmptySet
    <3>4. Cardinality(Flying) = Cardinality(D) + Cardinality(C) - 0
      BY <3>2, <3>3
    <3> QED  BY <2>4, <2>5, <2>8, <3>1, <3>4
  <2> QED  BY <2>1, <2>3, <2>4, <2>5, <2>10 DEF WindowCounts, UsedIsFlying
<1> QED  BY <1>1, Inductive, PTL

=============================================================================
