---------------------------- MODULE StreamerProofs ----------------------------
(***************************************************************************)
(* Theorems about Streamer, for any submissions, ranges, tasks, batches,   *)
(* workloads and workers that satisfy StreamerAssumption.  The invariant   *)
(* comes in three layers: who has which work (Work), how the tasks of a    *)
(* range lead to one response (Answers), and how responses are counted     *)
(* against what was announced and registered (Accounts).                   *)
(***************************************************************************)
EXTENDS Streamer, FiniteSetTheorems, WellFoundedInduction, TLAPS

-----------------------------------------------------------------------------
(* Types *)

WorkTypeOK ==
  /\ request \in [Submissions ->
                    {"new", "registered", "dispatch", "drain", "returned"}]
  /\ result \in [Submissions ->
                   {"none", "Rejected", "Success", "UnknownError"}]
  /\ todo \in [Submissions -> SUBSET Workloads]
  /\ deque \in Seq(Workloads)
  /\ pc \in [Threads -> {"idle", "batch", "open", "read", "reading", "finish",
                         "sub", "push", "exit"}]
  /\ batches \in [Threads -> SUBSET Batches]
  /\ rest \in [Threads -> SUBSET Tasks]
  /\ loop \in [Threads -> SUBSET Tasks]
  /\ batch \in [Threads -> Batches \cup {NoBatch}]
  /\ code \in [Threads -> Codes]
  /\ verdict \in [Tasks -> Codes \cup {"none"}]

AnswerTypeOK ==
  /\ task \in [Threads -> Tasks \cup {NoTask}]
  /\ left \in [Ranges -> Int]
  /\ ret \in [Ranges -> Codes]
  /\ responses \in Seq(Response)
  /\ delivered \in Seq(Response)
  /\ stopped \in BOOLEAN

AccountTypeOK ==
  /\ running \in Nat
  /\ consumer \in {"idle", "consume"}
  /\ done \subseteq Submissions

LostTypeOK == lost \subseteq Ranges

TypeOK == WorkTypeOK /\ AnswerTypeOK /\ AccountTypeOK /\ LostTypeOK

-----------------------------------------------------------------------------
(* First layer: who has which work *)

Owner(b) == OwnerOf[WorkloadOf[b]]

(* The submission committed, and the responder expects its responses. *)
Announced(s) ==
  /\ request[s] \in {"dispatch", "drain", "returned"}
  /\ result[s] # "Rejected"

(* Where a batch waits: to be dispatched, in the pool, or with a thread. *)
Undispatched(w) == w \in todo[OwnerOf[w]]
Enqueued(w) == \E i \in DOMAIN deque : deque[i] = w
Waiting(b) ==
  \/ Undispatched(WorkloadOf[b])
  \/ Enqueued(WorkloadOf[b])
  \/ \E a \in Threads : b \in batches[a]

InBatch(a) == pc[a] \in {"open", "read", "reading", "finish", "sub", "push"}

ResultFollows ==
  \A s \in Submissions :
    /\ request[s] \in {"new", "registered", "dispatch"} => result[s] = "none"
    /\ request[s] = "drain" => result[s] = "UnknownError"

QueueIsSet ==
  /\ \A s \in Submissions : todo[s] \subseteq WorkloadsOf(s)
  /\ \A i \in DOMAIN deque :
       /\ Announced(OwnerOf[deque[i]])
       /\ ~Undispatched(deque[i])
       /\ \A j \in DOMAIN deque : deque[j] = deque[i] => j = i

BatchesAreSplit ==
  \A a \in Threads : \A b \in batches[a] :
    /\ Announced(Owner(b))
    /\ ~Undispatched(WorkloadOf[b])
    /\ ~Enqueued(WorkloadOf[b])
    /\ \A c \in Threads : b \in batches[c] => c = a

CurrentIsOwn ==
  \A a \in Threads : InBatch(a) =>
    /\ batch[a] \in Batches
    /\ Announced(Owner(batch[a]))
    /\ ~Waiting(batch[a])
    /\ \A c \in Threads : InBatch(c) /\ batch[c] = batch[a] => c = a

TasksAreInBatch ==
  \A a \in Threads :
    /\ \A t \in loop[a] \cup rest[a] : InBatch(a) /\ BatchOf[t] = batch[a]
    /\ \A t \in rest[a] : t \notin loop[a] /\ verdict[t] = "none"

(* A thread either reads or visits the tasks of one read; a batch that     *)
(* failed has nothing left to read.                                        *)
ReadsOrVisits ==
  \A a \in Threads :
    /\ pc[a] \in {"open", "read", "reading"} => loop[a] = {}
    /\ pc[a] \in {"finish", "sub", "push"} =>
         rest[a] = {} \/ code[a] = "Success"

FinishedWasTaken ==
  \A t \in Tasks : verdict[t] # "none" =>
    /\ Announced(SubmissionOf[RangeOf[t]])
    /\ ~Waiting(BatchOf[t])

Work ==
  /\ WorkTypeOK
  /\ ResultFollows
  /\ QueueIsSet
  /\ BatchesAreSplit
  /\ CurrentIsOwn
  /\ TasksAreInBatch
  /\ ReadsOrVisits
  /\ FinishedWasTaken

-----------------------------------------------------------------------------
(* Second layer: from the tasks of a range to its response *)

Subtracting(t) == \E a \in Threads : pc[a] = "sub" /\ task[a] = t
Uncounted(r) == {t \in TasksOf(r) : verdict[t] = "none" \/ Subtracting(t)}

IsQueued(r) == \E i \in DOMAIN responses : responses[i].range = r
IsPopped(r) == \E i \in DOMAIN delivered : delivered[i].range = r

Countdown ==
  \A r \in Ranges :
    /\ IsFiniteSet(Uncounted(r))
    /\ left[r] = Cardinality(Uncounted(r))

FinishesOwnTask ==
  \A a \in Threads : pc[a] \in {"sub", "push"} =>
    /\ task[a] \in Tasks
    /\ verdict[task[a]] # "none"
    /\ \A c \in Threads : pc[a] = "sub" /\ pc[c] = "sub" /\ task[c] = task[a]
                            => c = a

LastResponds ==
  \A a \in Threads : pc[a] = "push" =>
    LET r == RangeOf[task[a]]
    IN  /\ Uncounted(r) = {}
        /\ ~IsQueued(r)
        /\ ~IsPopped(r)
        /\ \A c \in Threads : pc[c] = "push" /\ RangeOf[task[c]] = r => c = a

AnsweredOnce ==
  /\ \A i \in DOMAIN responses :
       /\ Uncounted(responses[i].range) = {}
       /\ ~IsPopped(responses[i].range)
       /\ \A j \in DOMAIN responses :
            responses[j].range = responses[i].range => j = i
  /\ \A i \in DOMAIN delivered :
       /\ Uncounted(delivered[i].range) = {}
       /\ \A j \in DOMAIN delivered :
            delivered[j].range = delivered[i].range => j = i

CodesAreTrue ==
  /\ \A r \in Ranges :
       IF ret[r] = "Success"
       THEN \A t \in TasksOf(r) : verdict[t] \in {"none", "Success"}
       ELSE \E t \in TasksOf(r) : verdict[t] = ret[r]
  /\ \A i \in DOMAIN responses : responses[i].ret = ret[responses[i].range]

Answers ==
  /\ AnswerTypeOK
  /\ Countdown
  /\ FinishesOwnTask
  /\ LastResponds
  /\ AnsweredOnce
  /\ CodesAreTrue

-----------------------------------------------------------------------------
(* Third layer: responses against the registry and the responder's count *)

Committed(s) == Accepted(s) /\ RangesOf(s) # {}
IsConsumed(r) ==
  /\ IsPopped(r)
  /\ consumer = "consume" => LastPopped.range # r
Unconsumed(s) == {r \in RangesOf(s) : ~IsConsumed(r)}
Expected ==
  {r \in Ranges : Announced(SubmissionOf[r]) /\ ~IsQueued(r) /\ ~IsPopped(r)}

AnswersAreAnnounced ==
  \A r \in Ranges : IsQueued(r) \/ IsPopped(r) => Announced(SubmissionOf[r])

RegistryIsLive ==
  /\ DOMAIN registry = {s \in Submissions : Committed(s)} \ done
  /\ \A s \in DOMAIN registry :
       /\ registry[s] = Cardinality(Unconsumed(s))
       /\ Unconsumed(s) # {}
  /\ \A s \in done : Committed(s) /\ Unconsumed(s) = {}

RunningIsExpected ==
  /\ ~stopped => running = Cardinality(Expected)
  /\ unexpected = FALSE
  /\ consumer = "consume" => delivered # <<>>

Accounts ==
  /\ AccountTypeOK
  /\ AnswersAreAnnounced
  /\ RegistryIsLive
  /\ RunningIsExpected

IInv == Work /\ Answers /\ Accounts /\ LostTypeOK

-----------------------------------------------------------------------------

(* The lowest of some task, batch or workload indexes is one of them. *)
LEMMA MinIn ==
  ASSUME NEW S, S \subseteq Nat, S # {}
  PROVE  Min(S) \in S
<1> PICK n \in S : TRUE
  OBVIOUS
<1> DEFINE below == {0 .. m : m \in S \cap (0 .. n)}
<1>1. below \subseteq FiniteSubsetsOf(0 .. n)
  <2> SUFFICES ASSUME NEW m \in S \cap (0 .. n)
               PROVE  0 .. m \in SUBSET (0 .. n) /\ IsFiniteSet(0 .. m)
    BY DEF FiniteSubsetsOf
  <2>1. IsFiniteSet(0 .. m)
    BY FS_Interval
  <2> QED  BY <2>1
<1>2. 0 .. n \in below /\ below # {}
  OBVIOUS
<1>3. PICK T \in below : \A U \in below :
        <<U, T>> \notin StrictSubsetOrdering(0 .. n)
  BY <1>1, <1>2, FS_StrictSubsetOrderingWellFounded, WFMin, Zenon
<1>4. PICK m \in S \cap (0 .. n) : T = 0 .. m
  OBVIOUS
<1>5. ASSUME NEW x \in S, x < m
      PROVE  FALSE
  <2>1. 0 .. x \in below
    BY <1>5
  <2>2. <<0 .. x, T>> \in StrictSubsetOrdering(0 .. n)
    <3>1. 0 .. x \subseteq T /\ T \subseteq 0 .. n /\ m \in T /\ m \notin 0 .. x
      BY <1>4, <1>5
    <3> QED  BY <3>1 DEF StrictSubsetOrdering
  <2> QED  BY <1>3, <2>1, <2>2
<1>6. \A x \in S : m =< x
  BY <1>5
<1> QED  BY <1>6 DEF Min

(* What is enqueued is a workload of some submission. *)
LEMMA EnqueuedIsOwned ==
  ASSUME Work, NEW i \in DOMAIN deque
  PROVE  deque[i] \in Workloads /\ OwnerOf[deque[i]] \in Submissions
<1>1. deque \in Seq(Workloads)
  BY DEF Work, WorkTypeOK
<1>2. deque[i] \in Workloads
  BY <1>1
<1> QED  BY <1>2, StreamerAssumption DEF StreamerAssumption

(* Work only depends on what the first layer speaks about. *)
WorkVars == <<request, result, todo, deque, pc, batches, rest, loop, batch,
              code, verdict>>

(* Work holds on when the variables it speaks about do not change. *)
LEMMA WorkFrame ==
  ASSUME Work, UNCHANGED WorkVars
  PROVE  Work'
BY DEF Work, WorkVars, WorkTypeOK, ResultFollows, QueueIsSet, BatchesAreSplit,
       CurrentIsOwn, TasksAreInBatch, ReadsOrVisits, FinishedWasTaken,
       Announced, Owner, Undispatched, Enqueued, Waiting, InBatch

(* async_request goes on without touching its workloads. *)
LEMMA RequestMoves ==
  ASSUME Work,
         request' \in [Submissions ->
                         {"new", "registered", "dispatch", "drain",
                          "returned"}],
         result' \in [Submissions ->
                        {"none", "Rejected", "Success", "UnknownError"}],
         ResultFollows',
         \A s \in Submissions : Announced(s) => Announced(s)',
         UNCHANGED <<todo, deque, pc, batches, rest, loop, batch, code,
                     verdict>>
  PROVE  Work'
<1> USE StreamerAssumption DEF StreamerAssumption, Work
<1>1. WorkTypeOK'
  BY DEF WorkTypeOK
<1>2. QueueIsSet'
  BY EnqueuedIsOwned DEF QueueIsSet, Undispatched, Announced
<1>3. BatchesAreSplit'
  BY DEF BatchesAreSplit, WorkTypeOK, Undispatched, Enqueued, Owner
<1>4. CurrentIsOwn'
  BY DEF CurrentIsOwn, InBatch, Owner, Waiting, Undispatched, Enqueued
<1>5. TasksAreInBatch' /\ ReadsOrVisits'
  BY DEF TasksAreInBatch, ReadsOrVisits, InBatch
<1>6. FinishedWasTaken'
  BY DEF FinishedWasTaken, Waiting, Undispatched, Enqueued
<1> QED  BY <1>1, <1>2, <1>3, <1>4, <1>5, <1>6

(* A thread goes from one stage of its batch to another. *)
LEMMA StageMoves ==
  ASSUME Work, NEW a \in Threads, InBatch(a),
         NEW p \in {"open", "read", "reading", "finish", "sub", "push"},
         p \in {"open", "read", "reading"} => loop[a] = {},
         p \in {"finish", "sub", "push"} => rest[a] = {} \/ code[a] = "Success",
         pc' = [pc EXCEPT ![a] = p],
         UNCHANGED <<request, result, todo, deque, batches, rest, loop, batch,
                     code, verdict>>
  PROVE  Work'
<1> USE StreamerAssumption DEF StreamerAssumption, Work
<1>0. pc'[a] = p /\ \A c \in Threads \ {a} : pc'[c] = pc[c]
  BY DEF WorkTypeOK
<1>1. \A c \in Threads : InBatch(c)' <=> InBatch(c)
  BY <1>0 DEF InBatch
<1>2. WorkTypeOK' /\ ResultFollows' /\ QueueIsSet'
  <2>1. pc' \in [Threads -> {"idle", "batch", "open", "read", "reading",
                             "finish", "sub", "push", "exit"}]
    BY DEF WorkTypeOK
  <2> QED  BY <2>1 DEF WorkTypeOK, ResultFollows, QueueIsSet, Announced,
                       Undispatched
<1>3. BatchesAreSplit'
  BY DEF BatchesAreSplit, Undispatched, Enqueued, Owner, Announced
<1>4. CurrentIsOwn'
  BY <1>1 DEF CurrentIsOwn, Owner, Waiting, Undispatched, Enqueued, Announced
<1>5. TasksAreInBatch'
  BY <1>1 DEF TasksAreInBatch
<1>6. ReadsOrVisits'
  BY <1>0 DEF ReadsOrVisits
<1>7. FinishedWasTaken'
  BY DEF FinishedWasTaken, Waiting, Undispatched, Enqueued, Announced
<1> QED  BY <1>2, <1>3, <1>4, <1>5, <1>6, <1>7

(* A thread leaves its batch with nothing left in it to read or visit. *)
LEMMA BatchEnds ==
  ASSUME Work, NEW a \in Threads, InBatch(a),
         loop[a] = {}, rest[a] = {},
         pc' = [pc EXCEPT ![a] = "batch"],
         UNCHANGED <<request, result, todo, deque, batches, rest, loop, batch,
                     code, verdict>>
  PROVE  Work'
<1> USE StreamerAssumption DEF StreamerAssumption, Work
<1>1. \A c \in Threads : InBatch(c)' => InBatch(c) /\ c # a
  BY DEF InBatch, WorkTypeOK
<1>2. WorkTypeOK' /\ ResultFollows' /\ QueueIsSet'
  BY DEF WorkTypeOK, ResultFollows, QueueIsSet, Announced, Undispatched
<1>3. BatchesAreSplit'
  BY DEF BatchesAreSplit, Undispatched, Enqueued, Owner, Announced
<1>4. CurrentIsOwn'
  BY <1>1 DEF CurrentIsOwn, Owner, Waiting, Undispatched, Enqueued, Announced
<1>5. TasksAreInBatch' /\ ReadsOrVisits'
  <2>1. \A c \in Threads \ {a} : pc'[c] = pc[c]
    BY DEF WorkTypeOK
  <2> QED  BY <2>1 DEF TasksAreInBatch, ReadsOrVisits, InBatch, WorkTypeOK
<1>6. FinishedWasTaken'
  BY DEF FinishedWasTaken, Waiting, Undispatched, Enqueued, Announced
<1> QED  BY <1>2, <1>3, <1>4, <1>5, <1>6

(* handle_error: the whole batch is visited, nothing more is read. *)
LEMMA ErrorVisitsBatch ==
  ASSUME Work, NEW k \in Threads, InBatch(k),
         NEW c \in Codes, HandleError(k, c),
         UNCHANGED <<request, result, todo, deque, batches, batch, verdict>>
  PROVE  Work'
<1> USE StreamerAssumption DEF StreamerAssumption, Work, HandleError
<1>1. \A a \in Threads : InBatch(a)' <=> InBatch(a)
  BY DEF InBatch, WorkTypeOK
<1>2. WorkTypeOK'
  <2>1. BatchTasks(batch[k]) \subseteq Tasks
    BY DEF BatchTasks
  <2> QED  BY <2>1 DEF WorkTypeOK
<1>3. ResultFollows' /\ QueueIsSet'
  BY DEF ResultFollows, QueueIsSet, Announced, Undispatched
<1>4. BatchesAreSplit'
  BY DEF BatchesAreSplit, Undispatched, Enqueued, Owner, Announced
<1>5. CurrentIsOwn'
  BY <1>1 DEF CurrentIsOwn, Owner, Waiting, Undispatched, Enqueued, Announced
<1>6. TasksAreInBatch'
  <2>1. \A t \in BatchTasks(batch[k]) : BatchOf[t] = batch[k]
    BY DEF BatchTasks
  <2> QED  BY <1>1, <2>1 DEF TasksAreInBatch, WorkTypeOK
<1>7. ReadsOrVisits'
  BY DEF ReadsOrVisits, WorkTypeOK
<1>8. FinishedWasTaken'
  BY DEF FinishedWasTaken, Waiting, Undispatched, Enqueued, Announced
<1> QED  BY <1>2, <1>3, <1>4, <1>5, <1>6, <1>7, <1>8

(* The steps of async_request that leave its workloads alone. *)
RequestOnly(s) ==
  \/ Reject(s) \/ EmptyRequest(s) \/ Register(s) \/ Announce(s)
  \/ DispatchThrows(s) \/ Dispatched(s) \/ Drained(s)

(* Steps of async_request that leave the pool alone keep Work. *)
LEMMA RequestOnlyKeepsWork ==
  ASSUME Work, NEW s \in Submissions, RequestOnly(s)
  PROVE  Work'
<1> USE DEF Work, RequestOnly, Reject, EmptyRequest, Register, Announce,
            DispatchThrows, Dispatched, Drained
<1>1. /\ request' \in [Submissions ->
                         {"new", "registered", "dispatch", "drain", "returned"}]
      /\ result' \in [Submissions ->
                        {"none", "Rejected", "Success", "UnknownError"}]
  BY DEF WorkTypeOK
<1>2. ResultFollows'
  BY DEF ResultFollows, WorkTypeOK
<1>3. \A i \in Submissions : Announced(i) => Announced(i)'
  BY DEF Announced, WorkTypeOK, ResultFollows
<1>4. UNCHANGED <<todo, deque, pc, batches, rest, loop, batch, code, verdict>>
  BY DEF requestVars, threadVars, taskVars
<1> QED  BY <1>1, <1>2, <1>3, <1>4, RequestMoves

(* A workload or a batch is handed on: nothing waits that did not wait     *)
(* before, and the batches in progress are the same.                       *)
LEMMA HandOver ==
  ASSUME Work,
         \A b \in Batches : Waiting(b)' => Waiting(b),
         \A a \in Threads : InBatch(a)' <=> InBatch(a),
         UNCHANGED <<request, result, rest, loop, batch, verdict>>
  PROVE  /\ ResultFollows' /\ CurrentIsOwn'
         /\ TasksAreInBatch' /\ FinishedWasTaken'
<1> USE StreamerAssumption DEF StreamerAssumption, Work
<1>1. \A s \in Submissions : Announced(s)' <=> Announced(s)
  BY DEF Announced
<1>2. CurrentIsOwn'
  <2>1. \A b \in Batches : Owner(b) \in Submissions
    BY DEF Owner
  <2> QED  BY <1>1, <2>1 DEF CurrentIsOwn, Owner
<1>3. FinishedWasTaken'
  BY <1>1 DEF FinishedWasTaken
<1> QED  BY <1>2, <1>3 DEF ResultFollows, TasksAreInBatch

(* The dispatch of a workload moves its batches from todo to the pool. *)
LEMMA DispatchKeepsWork ==
  ASSUME Work, NEW s \in Submissions, Dispatch(s)
  PROVE  Work'
<1> DEFINE w == Min(todo[s])
<1> USE StreamerAssumption DEF StreamerAssumption, Dispatch, Work
<1>1. w \in todo[s] /\ w \in Workloads /\ OwnerOf[w] = s
  <2>1. todo[s] \subseteq WorkloadsOf(s) /\ todo[s] \subseteq Nat
    BY DEF QueueIsSet, WorkloadsOf
  <2>2. w \in todo[s]
    BY <2>1, MinIn
  <2> QED  BY <2>1, <2>2 DEF WorkloadsOf
<1>2. /\ UNCHANGED <<request, result, pc, batches, rest, loop, batch, code,
                     verdict>>
      /\ todo' = [todo EXCEPT ![s] = @ \ {w}]
      /\ deque' = IF BatchesOf(w) = {} THEN deque ELSE Append(deque, w)
  BY DEF threadVars, taskVars
<1>3. \A i \in Submissions : Announced(i)' <=> Announced(i)
  BY <1>2 DEF Announced
<1>4. WorkTypeOK'
  BY <1>1, <1>2 DEF WorkTypeOK
<1>5. \A v \in Workloads : Undispatched(v)' <=> Undispatched(v) /\ v # w
  BY <1>1, <1>2 DEF Undispatched, WorkTypeOK
<1>6. ~Enqueued(w)
  BY <1>1 DEF QueueIsSet, Enqueued, Undispatched
<1>7. \A v \in Workloads :
        Enqueued(v)' => Enqueued(v) \/ (v = w /\ BatchesOf(w) # {})
  <2>1. deque \in Seq(Workloads)
    BY DEF WorkTypeOK
  <2> QED  BY <1>1, <1>2, <2>1 DEF Enqueued
<1>8. ASSUME NEW b \in Batches, Waiting(b)'
      PROVE  Waiting(b)
  <2> PICK v \in Workloads : v = WorkloadOf[b]
    OBVIOUS
  <2>1. CASE Undispatched(v)'
    BY <1>5, <2>1 DEF Waiting
  <2>2. CASE Enqueued(v)'
    <3>1. Undispatched(w)
      BY <1>1 DEF Undispatched
    <3> QED  BY <1>7, <2>2, <3>1 DEF Waiting
  <2>3. CASE \E c \in Threads : b \in batches'[c]
    BY <1>2, <2>3 DEF Waiting
  <2>4. Undispatched(v)' \/ Enqueued(v)' \/ \E c \in Threads : b \in batches'[c]
    BY <1>8 DEF Waiting
  <2> QED  BY <2>1, <2>2, <2>3, <2>4
<1>9. QueueIsSet'
  <2>1. \A i \in Submissions : todo'[i] \subseteq WorkloadsOf(i)
    BY <1>2 DEF QueueIsSet, WorkTypeOK
  <2>2. CASE BatchesOf(w) = {}
    BY <1>2, <1>3, <1>5, <2>1, <2>2, EnqueuedIsOwned DEF QueueIsSet
  <2>3. CASE BatchesOf(w) # {}
    <3>1. /\ deque \in Seq(Workloads) /\ Len(deque) \in Nat
          /\ DOMAIN deque' = 1 .. Len(deque) + 1
          /\ \A i \in 1 .. Len(deque) : deque'[i] = deque[i]
          /\ deque'[Len(deque) + 1] = w
      BY <1>1, <1>2, <2>3 DEF WorkTypeOK
    <3>2. Announced(s)
      BY DEF Announced, ResultFollows
    <3>3. \A i \in 1 .. Len(deque) :
            /\ deque[i] \in Workloads /\ deque[i] # w
            /\ Announced(OwnerOf[deque[i]]) /\ ~Undispatched(deque[i])
      BY <3>1, <1>6 DEF QueueIsSet, Enqueued
    <3>4. ASSUME NEW i \in DOMAIN deque'
          PROVE  /\ Announced(OwnerOf[deque[i]])'
                 /\ ~Undispatched(deque[i])'
                 /\ \A j \in DOMAIN deque' : deque'[j] = deque'[i] => j = i
      <4>1. CASE i = Len(deque) + 1
        <5>1. deque'[i] = w /\ \A j \in 1 .. Len(deque) : deque'[j] # w
          BY <3>1, <3>3, <4>1
        <5>2. Announced(OwnerOf[deque[i]])'
          BY <1>1, <1>2, <3>2, <5>1 DEF Announced
        <5>3. ~Undispatched(deque[i])'
          BY <1>1, <1>2, <5>1 DEF Undispatched, WorkTypeOK
        <5> QED  BY <3>1, <4>1, <5>1, <5>2, <5>3
      <4>2. CASE i \in 1 .. Len(deque)
        BY <1>1, <1>2, <1>3, <1>5, <3>1, <3>3, <4>2
           DEF QueueIsSet, Announced, Undispatched
      <4>3. i = Len(deque) + 1 \/ i \in 1 .. Len(deque)
        <5>1. i \in 1 .. Len(deque) + 1 /\ Len(deque) \in Nat
          BY <3>1, <3>4
        <5> QED  BY <5>1
      <4> QED  BY <4>1, <4>2, <4>3
    <3> QED  BY <2>1, <3>4 DEF QueueIsSet
  <2> QED  BY <2>2, <2>3
<1>10. BatchesAreSplit'
  <2>1. ASSUME NEW a \in Threads, NEW b \in batches[a]
        PROVE  /\ b \in Batches /\ WorkloadOf[b] \in Workloads
               /\ Owner(b) \in Submissions /\ WorkloadOf[b] # w
    <3>1. b \in Batches
      BY DEF WorkTypeOK
    <3>2. ~Undispatched(WorkloadOf[b])
      BY DEF BatchesAreSplit
    <3> QED  BY <1>1, <3>1, <3>2 DEF Undispatched, Owner
  <2>2. ASSUME NEW a \in Threads, NEW b \in batches'[a]
        PROVE  /\ Announced(Owner(b))'
               /\ ~Undispatched(WorkloadOf[b])'
               /\ ~Enqueued(WorkloadOf[b])'
               /\ \A c \in Threads : b \in batches[c]' => c = a
    <3>1. b \in batches[a]
      BY <1>2
    <3>2. /\ Announced(Owner(b))
          /\ ~Undispatched(WorkloadOf[b]) /\ ~Enqueued(WorkloadOf[b])
      BY <3>1 DEF BatchesAreSplit
    <3>3. Announced(Owner(b))'
      BY <1>3, <2>1, <3>1, <3>2
    <3>4. ~Undispatched(WorkloadOf[b])' /\ ~Enqueued(WorkloadOf[b])'
      <4> DEFINE v == WorkloadOf[b]
      <4>1. v \in Workloads /\ v # w
        BY <2>1, <3>1
      <4>2. ~Undispatched(v)' /\ ~Enqueued(v)'
        <5> HIDE DEF v, w
        <5> QED  BY <1>5, <1>7, <3>2, <4>1, Zenon DEF v
      <4> QED  BY <4>2
    <3> QED  BY <1>2, <3>1, <3>3, <3>4 DEF BatchesAreSplit
  <2> QED  BY <2>2 DEF BatchesAreSplit
<1>11. ResultFollows' /\ CurrentIsOwn' /\ TasksAreInBatch' /\ FinishedWasTaken'
  BY <1>2, <1>8, HandOver DEF InBatch
<1>12. ReadsOrVisits'
  BY <1>2 DEF ReadsOrVisits
<1> QED  BY <1>4, <1>9, <1>10, <1>11, <1>12

(* Thread a takes the batches of a workload that nobody else has.           *)
LEMMA TakeOver ==
  ASSUME Work, NEW a \in Threads, NEW w \in Workloads,
         Announced(OwnerOf[w]),
         Undispatched(w) \/ Enqueued(w),
         ~Undispatched(w)', ~Enqueued(w)',
         \A v \in Workloads : Undispatched(v)' => Undispatched(v),
         \A v \in Workloads : Enqueued(v)' => Enqueued(v),
         batches' = [batches EXCEPT ![a] = BatchesOf(w)],
         UNCHANGED <<request, result>>
  PROVE  BatchesAreSplit' /\ \A b \in Batches : Waiting(b)' => Waiting(b)
<1> USE StreamerAssumption DEF StreamerAssumption, Work
<1>1. \A c \in Threads :
        batches'[c] = IF c = a THEN BatchesOf(w) ELSE batches[c]
  BY DEF WorkTypeOK
<1>2. \A b \in BatchesOf(w) : b \in Batches /\ WorkloadOf[b] = w
  BY DEF BatchesOf
<1>3. \A s \in Submissions : Announced(s)' <=> Announced(s)
  BY DEF Announced
<1>4. ASSUME NEW c \in Threads, NEW b \in batches[c]
      PROVE  /\ b \in Batches /\ b \notin BatchesOf(w)
             /\ WorkloadOf[b] \in Workloads /\ Owner(b) \in Submissions
             /\ ~Undispatched(WorkloadOf[b])' /\ ~Enqueued(WorkloadOf[b])'
             /\ Announced(Owner(b))'
  <2>1. b \in Batches
    BY DEF WorkTypeOK
  <2>2. WorkloadOf[b] \in Workloads /\ Owner(b) \in Submissions
    BY <2>1 DEF Owner
  <2>3. /\ Announced(Owner(b))
        /\ ~Undispatched(WorkloadOf[b]) /\ ~Enqueued(WorkloadOf[b])
    BY DEF BatchesAreSplit
  <2>4. b \notin BatchesOf(w)
    BY <1>2, <2>3
  <2>5. Announced(Owner(b))'
    BY <1>3, <2>2, <2>3
  <2> DEFINE v == WorkloadOf[b]
  <2>6. ~Undispatched(v)' /\ ~Enqueued(v)'
    <3> HIDE DEF v
    <3> QED  BY <2>2, <2>3, Zenon DEF v
  <2> QED  BY <2>1, <2>2, <2>4, <2>5, <2>6
<1>5. ASSUME NEW c \in Threads, NEW b \in batches'[c]
      PROVE  /\ Announced(Owner(b))'
             /\ ~Undispatched(WorkloadOf[b])'
             /\ ~Enqueued(WorkloadOf[b])'
             /\ \A d \in Threads : b \in batches[d]' => d = c
  <2>1. CASE b \in BatchesOf(w)
    <3>1. WorkloadOf[b] = w /\ Owner(b) = OwnerOf[w]
      BY <1>2, <2>1 DEF Owner
    <3>2. Announced(Owner(b))'
      BY <1>3, <3>1
    <3> QED  BY <1>1, <1>4, <2>1, <3>1, <3>2
  <2>2. CASE b \notin BatchesOf(w)
    <3>1. c # a /\ b \in batches[c]
      BY <1>1, <2>2
    <3> QED  BY <1>1, <1>4, <2>2, <3>1 DEF BatchesAreSplit
  <2> QED  BY <2>1, <2>2
<1>6. BatchesAreSplit'
  BY <1>5 DEF BatchesAreSplit
<1>7. ASSUME NEW b \in Batches, Waiting(b)'
      PROVE  Waiting(b)
  <2> DEFINE v == WorkloadOf[b]
  <2>1. v \in Workloads
    OBVIOUS
  <2>2. CASE Undispatched(v)' \/ Enqueued(v)'
    <3> HIDE DEF v
    <3> QED  BY <2>1, <2>2, Zenon DEF Waiting, v
  <2>3. CASE \E c \in Threads : b \in batches'[c]
    BY <1>1, <1>2, <2>3 DEF Waiting
  <2> QED  BY <1>7, <2>2, <2>3 DEF Waiting
<1> QED  BY <1>6, <1>7

(* After a throw the requesting thread takes an undispatched workload. *)
LEMMA DrainWorkloadKeepsWork ==
  ASSUME Work, NEW s \in Submissions, DrainWorkload(s)
  PROVE  Work'
<1> DEFINE w == Min(todo[s])
<1> USE StreamerAssumption DEF StreamerAssumption, Work
<1>1. w \in todo[s] /\ w \in Workloads /\ OwnerOf[w] = s
  <2>1. todo[s] \subseteq WorkloadsOf(s) /\ todo[s] \subseteq Nat
    BY DEF QueueIsSet, WorkloadsOf
  <2>2. w \in todo[s]
    BY <2>1, MinIn DEF DrainWorkload
  <2> QED  BY <2>1, <2>2 DEF WorkloadsOf
<1>2. /\ UNCHANGED <<request, result, deque, rest, loop, batch, code, verdict>>
      /\ s \in Threads /\ pc[s] = "idle" /\ request[s] = "drain"
      /\ todo' = [todo EXCEPT ![s] = @ \ {w}]
      /\ batches' = [batches EXCEPT ![s] = BatchesOf(w)]
      /\ pc' = [pc EXCEPT ![s] = "batch"]
  BY DEF DrainWorkload, taskVars, Threads
<1> HIDE DEF w
<1>3. WorkTypeOK'
  <2>1. BatchesOf(w) \subseteq Batches
    BY DEF BatchesOf
  <2> QED  BY <1>1, <1>2, <2>1 DEF WorkTypeOK
<1>4. \A v \in Workloads : Undispatched(v)' <=> Undispatched(v) /\ v # w
  BY <1>1, <1>2 DEF Undispatched, WorkTypeOK
<1>5. Undispatched(w) /\ ~Enqueued(w)
  BY <1>1 DEF QueueIsSet, Enqueued, Undispatched
<1>6. \A v \in Workloads : Enqueued(v)' <=> Enqueued(v)
  BY <1>2 DEF Enqueued
<1>7. Announced(s)
  BY <1>2 DEF Announced, ResultFollows
<1>8. BatchesAreSplit' /\ \A b \in Batches : Waiting(b)' => Waiting(b)
  BY <1>1, <1>2, <1>4, <1>5, <1>6, <1>7, TakeOver
<1>9. QueueIsSet'
  <2>1. \A i \in Submissions : todo'[i] \subseteq WorkloadsOf(i)
    BY <1>2 DEF QueueIsSet, WorkTypeOK
  <2>2. \A i \in DOMAIN deque : deque[i] # w
    BY <1>5 DEF Enqueued
  <2> QED  BY <1>2, <1>4, <2>1, <2>2, EnqueuedIsOwned
           DEF QueueIsSet, Announced, Undispatched
<1>10. ResultFollows' /\ CurrentIsOwn' /\ TasksAreInBatch' /\ FinishedWasTaken'
  <2>1. \A a \in Threads : InBatch(a)' <=> InBatch(a)
    BY <1>2 DEF InBatch, WorkTypeOK
  <2> QED  BY <1>2, <1>8, <2>1, HandOver
<1>11. ReadsOrVisits'
  BY <1>2 DEF ReadsOrVisits, WorkTypeOK
<1> QED  BY <1>3, <1>8, <1>9, <1>10, <1>11

(* A worker takes the workload at the head of the deque. *)
LEMMA TakeWorkloadKeepsWork ==
  ASSUME Work, NEW k \in Workers, TakeWorkload(k)
  PROVE  Work'
<1> DEFINE w == Head(deque)
<1> USE StreamerAssumption DEF StreamerAssumption, Work
<1>1. /\ UNCHANGED <<request, result, todo, rest, loop, batch, code, verdict>>
      /\ k \in Threads /\ pc[k] = "idle" /\ deque # <<>>
      /\ deque' = Tail(deque)
      /\ batches' = [batches EXCEPT ![k] = BatchesOf(w)]
      /\ pc' = [pc EXCEPT ![k] = "batch"]
  BY DEF TakeWorkload, requestVars, taskVars, Threads
<1>2. /\ deque \in Seq(Workloads) /\ Len(deque) \in Nat \ {0}
      /\ w = deque[1] /\ 1 \in DOMAIN deque /\ w \in Workloads
      /\ deque' \in Seq(Workloads) /\ DOMAIN deque' = 1 .. Len(deque) - 1
      /\ \A i \in 1 .. Len(deque) - 1 :
           i + 1 \in DOMAIN deque /\ i + 1 # 1 /\ deque'[i] = deque[i + 1]
  BY <1>1 DEF WorkTypeOK
<1> HIDE DEF w
<1>3. WorkTypeOK'
  <2>1. BatchesOf(w) \subseteq Batches
    BY DEF BatchesOf
  <2> QED  BY <1>1, <1>2, <2>1 DEF WorkTypeOK
<1>4. \A v \in Workloads : Undispatched(v)' <=> Undispatched(v)
  BY <1>1 DEF Undispatched
<1>5. /\ Announced(OwnerOf[w]) /\ ~Undispatched(w) /\ Enqueued(w)
      /\ \A i \in DOMAIN deque : deque[i] = w => i = 1
  BY <1>2 DEF QueueIsSet, Enqueued
<1>6. \A v \in Workloads : Enqueued(v)' => Enqueued(v) /\ v # w
  BY <1>2, <1>5 DEF Enqueued
<1>7. BatchesAreSplit' /\ \A b \in Batches : Waiting(b)' => Waiting(b)
  BY <1>1, <1>2, <1>4, <1>5, <1>6, TakeOver
<1>8. QueueIsSet'
  <2>1. \A i \in Submissions : todo'[i] \subseteq WorkloadsOf(i)
    BY <1>1 DEF QueueIsSet
  <2>2. ASSUME NEW i \in DOMAIN deque'
        PROVE  /\ Announced(OwnerOf[deque[i]])'
               /\ ~Undispatched(deque[i])'
               /\ \A j \in DOMAIN deque' : deque'[j] = deque'[i] => j = i
    <3>1. /\ i + 1 \in DOMAIN deque /\ deque'[i] = deque[i + 1]
      BY <1>2
    <3>2. Announced(OwnerOf[deque[i]])' /\ ~Undispatched(deque[i])'
      BY <1>1, <3>1 DEF QueueIsSet, Announced, Undispatched
    <3>3. ASSUME NEW j \in DOMAIN deque', deque'[j] = deque'[i]
          PROVE  j = i
      <4>1. j + 1 \in DOMAIN deque /\ deque[j + 1] = deque[i + 1]
        BY <1>2, <3>1, <3>3
      <4>2. j + 1 = i + 1
        BY <3>1, <4>1 DEF QueueIsSet
      <4> QED  BY <1>2, <4>2
    <3> QED  BY <3>2, <3>3
  <2> QED  BY <2>1, <2>2 DEF QueueIsSet
<1>9. ResultFollows' /\ CurrentIsOwn' /\ TasksAreInBatch' /\ FinishedWasTaken'
  <2>1. \A a \in Threads : InBatch(a)' <=> InBatch(a)
    BY <1>1 DEF InBatch, WorkTypeOK
  <2> QED  BY <1>1, <1>7, <2>1, HandOver
<1>10. ReadsOrVisits'
  BY <1>1 DEF ReadsOrVisits, WorkTypeOK
<1> QED  BY <1>3, <1>7, <1>8, <1>9, <1>10

(* A thread goes on to the next batch of its workload. *)
LEMMA NextBatchKeepsWork ==
  ASSUME Work, NEW a \in Threads, NextBatch(a)
  PROVE  Work'
<1> DEFINE b == Min(batches[a])
<1> USE StreamerAssumption DEF StreamerAssumption, Work
<1>1. /\ UNCHANGED <<request, result, todo, deque, verdict>>
      /\ pc[a] = "batch"
      /\ batches' = [batches EXCEPT ![a] = @ \ {b}]
      /\ batch' = [batch EXCEPT ![a] = b]
      /\ \/ /\ pc' = [pc EXCEPT ![a] = "open"]
            /\ rest' = [rest EXCEPT ![a] = BatchTasks(b)]
            /\ UNCHANGED <<loop, code>>
         \/ /\ pc' = [pc EXCEPT ![a] = "finish"]
            /\ loop' = [loop EXCEPT ![a] = BatchTasks(b)]
            /\ code' = [code EXCEPT ![a] = "UnknownError"]
            /\ UNCHANGED rest
  BY DEF NextBatch, requestVars, taskVars
<1>2. b \in batches[a] /\ b \in Batches /\ Owner(b) \in Submissions
  <2>1. batches[a] \subseteq Batches /\ batches[a] # {}
    BY DEF WorkTypeOK, NextBatch
  <2>2. b \in batches[a]
    BY <2>1, MinIn
  <2> QED  BY <2>1, <2>2 DEF Owner
<1> HIDE DEF b
<1>3. /\ \A c \in Threads : c # a =>
           /\ pc'[c] = pc[c] /\ batches'[c] = batches[c]
           /\ rest'[c] = rest[c] /\ loop'[c] = loop[c]
           /\ batch'[c] = batch[c] /\ code'[c] = code[c]
      /\ pc'[a] \in {"open", "finish"} /\ batches'[a] = batches[a] \ {b}
      /\ batch'[a] = b
      /\ ~InBatch(a) /\ rest[a] = {} /\ loop[a] = {}
      /\ \/ /\ rest'[a] = BatchTasks(b) /\ loop'[a] = {} /\ pc'[a] = "open"
         \/ /\ loop'[a] = BatchTasks(b) /\ rest'[a] = {} /\ pc'[a] = "finish"
  <2>1. ~InBatch(a)
    BY <1>1 DEF InBatch
  <2>2. rest[a] = {} /\ loop[a] = {}
    BY <2>1 DEF TasksAreInBatch
  <2> QED  BY <1>1, <2>1, <2>2 DEF WorkTypeOK
<1>4. WorkTypeOK'
  <2>1. BatchTasks(b) \subseteq Tasks /\ "UnknownError" \in Codes
    BY DEF BatchTasks, Codes
  <2>2. /\ pc' \in [Threads -> {"idle", "batch", "open", "read", "reading",
                               "finish", "sub", "push", "exit"}]
        /\ batches' \in [Threads -> SUBSET Batches]
        /\ batch' \in [Threads -> Batches \cup {NoBatch}]
    BY <1>1, <1>2 DEF WorkTypeOK
  <2>3. /\ rest \in [Threads -> SUBSET Tasks]
        /\ loop \in [Threads -> SUBSET Tasks]
        /\ code \in [Threads -> Codes]
    BY DEF WorkTypeOK
  <2>4. rest' = rest \/ rest' = [rest EXCEPT ![a] = BatchTasks(b)]
    BY <1>1
  <2>5. loop' = loop \/ loop' = [loop EXCEPT ![a] = BatchTasks(b)]
    BY <1>1
  <2>6. code' = code \/ code' = [code EXCEPT ![a] = "UnknownError"]
    BY <1>1
  <2>7. rest' \in [Threads -> SUBSET Tasks]
    BY <2>1, <2>3, <2>4
  <2>8. loop' \in [Threads -> SUBSET Tasks]
    BY <2>1, <2>3, <2>5
  <2>9. code' \in [Threads -> Codes]
    BY <2>1, <2>3, <2>6
  <2> QED  BY <1>1, <2>2, <2>7, <2>8, <2>9 DEF WorkTypeOK
<1>5. ResultFollows' /\ QueueIsSet'
  BY <1>1 DEF ResultFollows, QueueIsSet, Announced, Undispatched
<1>6. BatchesAreSplit'
  <2>1. \A c \in Threads : batches'[c] \subseteq batches[c]
    BY <1>3
  <2> QED  BY <1>1, <2>1
           DEF BatchesAreSplit, Undispatched, Enqueued, Owner, Announced
<1>7. \A c \in Batches : Waiting(c)' => Waiting(c) /\ c # b
  BY <1>1, <1>2, <1>3
     DEF Waiting, BatchesAreSplit, Undispatched, Enqueued
<1>8. \A s \in Submissions : Announced(s)' <=> Announced(s)
  BY <1>1 DEF Announced
<1>9. CurrentIsOwn'
  <2>1. \A c \in Threads : InBatch(c) => batch[c] # b
    BY <1>2 DEF CurrentIsOwn, Waiting
  <2>2. /\ \A c \in Threads \ {a} : InBatch(c)' <=> InBatch(c)
        /\ \A c \in Batches : Owner(c) \in Submissions
    BY <1>3 DEF InBatch, Owner
  <2>3. ASSUME NEW c \in Threads, InBatch(c)'
        PROVE  /\ batch'[c] \in Batches
               /\ Announced(Owner(batch[c]))'
               /\ ~Waiting(batch[c])'
               /\ \A d \in Threads :
                    InBatch(d)' /\ batch'[d] = batch'[c] => d = c
    <3>1. CASE c = a
      <4>1. batch'[c] = b /\ Announced(Owner(b)) /\ b \in Batches
        BY <1>2, <1>3, <3>1 DEF BatchesAreSplit
      <4>2. Announced(Owner(batch[c]))'
        BY <1>1, <4>1 DEF Announced, Owner
      <4>3. ~Waiting(batch[c])'
        BY <1>7, <4>1 DEF Waiting, Undispatched, Enqueued
      <4> QED  BY <1>3, <2>1, <2>2, <3>1, <4>1, <4>2, <4>3
    <3>2. CASE c # a
      <4>1. /\ batch'[c] = batch[c] /\ InBatch(c) /\ batch[c] \in Batches
            /\ Announced(Owner(batch[c])) /\ ~Waiting(batch[c])
        BY <1>3, <2>2, <2>3, <3>2 DEF CurrentIsOwn
      <4>2. Announced(Owner(batch[c]))'
        BY <1>1, <4>1 DEF Announced, Owner
      <4>3. ~Waiting(batch[c])'
        <5> PICK x \in Batches : x = batch[c] /\ x = batch'[c] /\ ~Waiting(x)
          BY <4>1
        <5>1. ~Waiting(x)'
          BY <1>7
        <5> QED  BY <5>1 DEF Waiting, Undispatched, Enqueued
      <4> QED  BY <1>3, <2>1, <2>2, <3>2, <4>1, <4>2, <4>3 DEF CurrentIsOwn
    <3> QED  BY <3>1, <3>2
  <2> QED  BY <2>3 DEF CurrentIsOwn
<1>10. TasksAreInBatch'
  <2>1. \A t \in BatchTasks(b) : BatchOf[t] = b /\ verdict[t] = "none"
    <3>1. Waiting(b)
      BY <1>2 DEF Waiting
    <3> QED  BY <3>1 DEF BatchTasks, FinishedWasTaken
  <2>2. InBatch(a)' /\ \A c \in Threads \ {a} : InBatch(c)' <=> InBatch(c)
    BY <1>3 DEF InBatch
  <2> QED  BY <1>1, <1>3, <2>1, <2>2 DEF TasksAreInBatch
<1>11. ReadsOrVisits'
  BY <1>3 DEF ReadsOrVisits
<1>12. FinishedWasTaken'
  <2>1. \A t \in Tasks : /\ BatchOf[t] \in Batches
                         /\ SubmissionOf[RangeOf[t]] \in Submissions
    OBVIOUS
  <2> QED  BY <1>1, <1>7, <1>8, <2>1 DEF FinishedWasTaken
<1> QED  BY <1>4, <1>5, <1>6, <1>9, <1>10, <1>11, <1>12

(* A thread is done with its workload when no batch of it is left. *)
LEMMA WorkloadDoneKeepsWork ==
  ASSUME Work, NEW a \in Threads, WorkloadDone(a)
  PROVE  Work'
<1> USE StreamerAssumption DEF StreamerAssumption, Work
<1>1. /\ UNCHANGED <<request, result, todo, deque, batches, rest, loop,
                     verdict>>
      /\ pc[a] = "batch" /\ pc' = [pc EXCEPT ![a] = "idle"]
      /\ batch' = [batch EXCEPT ![a] = NoBatch]
      /\ code' = [code EXCEPT ![a] = "Success"]
  BY DEF WorkloadDone, requestVars, taskVars
<1>2. \A c \in Threads : /\ InBatch(c)' <=> InBatch(c)
                         /\ InBatch(c) => batch'[c] = batch[c]
  BY <1>1 DEF InBatch, WorkTypeOK
<1>3. WorkTypeOK'
  BY <1>1 DEF WorkTypeOK, Codes
<1>4. ResultFollows' /\ QueueIsSet' /\ BatchesAreSplit' /\ FinishedWasTaken'
  BY <1>1 DEF ResultFollows, QueueIsSet, Announced, Undispatched,
              BatchesAreSplit, Enqueued, Owner, FinishedWasTaken, Waiting
<1>5. CurrentIsOwn'
  BY <1>1, <1>2 DEF CurrentIsOwn, Owner, Waiting, Undispatched, Enqueued,
                    Announced
<1>6. TasksAreInBatch' /\ ReadsOrVisits'
  BY <1>1, <1>2 DEF TasksAreInBatch, ReadsOrVisits, WorkTypeOK
<1> QED  BY <1>3, <1>4, <1>5, <1>6

(* A read that returns leaves its tasks to be finished. *)
LEMMA ReadTasksKeepsWork ==
  ASSUME Work, NEW k \in Workers, ReadTasks(k)
  PROVE  Work'
<1> USE StreamerAssumption DEF StreamerAssumption, Work
<1> PICK t \in rest[k] :
      /\ loop' = [loop EXCEPT ![k] = {u \in rest[k] : u <= t}]
      /\ rest' = [rest EXCEPT ![k] = {u \in @ : u > t}]
  BY DEF ReadTasks
<1>1. /\ UNCHANGED <<request, result, todo, deque, batches, batch, verdict>>
      /\ k \in Threads /\ pc[k] = "reading"
      /\ code' = [code EXCEPT ![k] = "Success"]
      /\ pc' = [pc EXCEPT ![k] = "finish"]
  BY DEF ReadTasks, requestVars, taskVars, Threads
<1>2. \A a \in Threads : InBatch(a)' <=> InBatch(a)
  BY <1>1 DEF InBatch, WorkTypeOK
<1>3. WorkTypeOK'
  BY <1>1 DEF WorkTypeOK, Codes
<1>4. ResultFollows' /\ QueueIsSet' /\ BatchesAreSplit' /\ FinishedWasTaken'
  BY <1>1 DEF ResultFollows, QueueIsSet, Announced, Undispatched,
              BatchesAreSplit, Enqueued, Owner, FinishedWasTaken, Waiting
<1>5. CurrentIsOwn'
  BY <1>1, <1>2 DEF CurrentIsOwn, Owner, Waiting, Undispatched, Enqueued,
                    Announced
<1>6. TasksAreInBatch'
  <2>1. rest[k] \subseteq Nat /\ t \in Nat
    BY <1>1 DEF WorkTypeOK
  <2>2. \A u \in rest[k] : ~(u <= t /\ u > t)
    BY <2>1
  <2> QED  BY <1>1, <1>2, <2>2 DEF TasksAreInBatch, WorkTypeOK
<1>7. ReadsOrVisits'
  BY <1>1 DEF ReadsOrVisits, WorkTypeOK
<1> QED  BY <1>3, <1>4, <1>5, <1>6, <1>7

(* A task is finished by the thread whose batch it is in. *)
LEMMA FinishTaskKeepsWork ==
  ASSUME Work, NEW a \in Threads, FinishTask(a)
  PROVE  Work'
<1> DEFINE t == Min(loop[a])
<1> USE StreamerAssumption DEF StreamerAssumption, Work
<1>1. t \in loop[a] /\ t \in Tasks
  <2>1. loop[a] \subseteq Tasks /\ loop[a] # {}
    BY DEF WorkTypeOK, FinishTask
  <2> QED  BY <2>1, MinIn
<1>2. /\ UNCHANGED <<request, result, todo, deque, batches, rest, batch, code>>
      /\ pc[a] = "finish"
      /\ loop' = [loop EXCEPT ![a] = @ \ {t}]
      /\ \/ UNCHANGED <<pc, verdict>>
         \/ /\ verdict[t] = "none"
            /\ verdict' = [verdict EXCEPT ![t] = code[a]]
            /\ pc' = [pc EXCEPT ![a] = "sub"]
  BY <1>1 DEF FinishTask, requestVars, finished
<1> HIDE DEF t
<1>3. \A c \in Threads : InBatch(c)' <=> InBatch(c)
  BY <1>2 DEF InBatch, WorkTypeOK
<1>4. InBatch(a) /\ BatchOf[t] = batch[a] /\ t \notin rest[a]
  BY <1>1 DEF TasksAreInBatch
<1>5. WorkTypeOK'
  BY <1>2, <1>1 DEF WorkTypeOK
<1>6. ResultFollows' /\ QueueIsSet' /\ BatchesAreSplit'
  BY <1>2 DEF ResultFollows, QueueIsSet, Announced, Undispatched,
              BatchesAreSplit, Enqueued, Owner
<1>7. CurrentIsOwn'
  BY <1>2, <1>3 DEF CurrentIsOwn, Owner, Waiting, Undispatched, Enqueued,
                    Announced
<1>8. \A u \in Tasks : u # t => verdict'[u] = verdict[u]
  BY <1>2, <1>1 DEF WorkTypeOK
<1>9. TasksAreInBatch'
  <2>1. \A c \in Threads : loop'[c] \subseteq loop[c] /\ rest'[c] = rest[c]
    BY <1>2 DEF WorkTypeOK
  <2>2. \A c \in Threads : t \notin rest[c]
    BY <1>4 DEF TasksAreInBatch, CurrentIsOwn
  <2>3. \A c \in Threads : rest[c] \subseteq Tasks
    BY DEF WorkTypeOK
  <2> SUFFICES ASSUME NEW c \in Threads
               PROVE  /\ \A u \in loop'[c] \cup rest'[c] :
                           InBatch(c)' /\ BatchOf[u] = batch'[c]
                      /\ \A u \in rest'[c] :
                           u \notin loop'[c] /\ verdict'[u] = "none"
    BY DEF TasksAreInBatch
  <2>4. \A u \in rest[c] : verdict'[u] = "none"
    BY <1>8, <2>2, <2>3 DEF TasksAreInBatch
  <2>5. batch' = batch
    BY <1>2
  <2> QED  BY <1>3, <2>1, <2>4, <2>5 DEF TasksAreInBatch
<1>10. ReadsOrVisits'
  <2>1. \A c \in Threads \ {a} : pc'[c] = pc[c] /\ loop'[c] = loop[c]
    BY <1>2 DEF WorkTypeOK
  <2>2. pc'[a] \in {"finish", "sub"}
    BY <1>2 DEF WorkTypeOK
  <2> QED  BY <1>2, <2>1, <2>2 DEF ReadsOrVisits
<1>11. FinishedWasTaken'
  <2>1. Announced(SubmissionOf[RangeOf[t]]) /\ ~Waiting(BatchOf[t])
    BY <1>1, <1>4 DEF CurrentIsOwn, Owner
  <2> QED  BY <1>2, <1>8, <2>1 DEF FinishedWasTaken, Waiting, Undispatched,
           Enqueued, Announced
<1> QED  BY <1>5, <1>6, <1>7, <1>9, <1>10, <1>11

(* Steps of a thread within its batch. *)
LEMMA BatchStepsKeepWork ==
  ASSUME Work, NEW a \in Threads,
         \/ OpenFile(a) \/ StartRead(a) \/ ReadFails(a) \/ ReadStopped(a)
         \/ BatchRead(a) \/ CountDown(a) \/ Respond(a) \/ LoopDone(a)
  PROVE  Work'
<1> USE StreamerAssumption DEF StreamerAssumption, Work
<1>1. ASSUME NEW c \in Codes, HandleError(a, c),
             OpenFile(a) \/ ReadFails(a) \/ ReadStopped(a)
      PROVE  Work'
  <2>1. /\ InBatch(a)
        /\ UNCHANGED <<request, result, todo, deque, batches, batch, verdict>>
    BY <1>1 DEF OpenFile, ReadFails, ReadStopped, InBatch, requestVars, taskVars
  <2> QED  BY <1>1, <2>1, ErrorVisitsBatch
<1>2. ASSUME OpenFile(a), \A c \in Codes : ~HandleError(a, c)
      PROVE  Work'
  <2>1. /\ InBatch(a) /\ loop[a] = {} /\ pc' = [pc EXCEPT ![a] = "read"]
        /\ UNCHANGED <<request, result, todo, deque, batches, rest, loop, batch,
                       code, verdict>>
    BY <1>2 DEF OpenFile, InBatch, Codes, ReadsOrVisits, requestVars, taskVars
  <2> QED  BY <2>1, StageMoves
<1>3. ASSUME StartRead(a) PROVE Work'
  <2>1. /\ InBatch(a) /\ loop[a] = {} /\ pc' = [pc EXCEPT ![a] = "reading"]
        /\ UNCHANGED <<request, result, todo, deque, batches, rest, loop, batch,
                       code, verdict>>
    BY <1>3 DEF StartRead, InBatch, ReadsOrVisits, requestVars, taskVars
  <2> QED  BY <2>1, StageMoves
<1>4. ASSUME BatchRead(a) PROVE Work'
  <2>1. /\ InBatch(a) /\ loop[a] = {} /\ rest[a] = {}
        /\ pc' = [pc EXCEPT ![a] = "batch"]
        /\ UNCHANGED <<request, result, todo, deque, batches, rest, loop, batch,
                       code, verdict>>
    BY <1>4 DEF BatchRead, InBatch, ReadsOrVisits, requestVars, taskVars
  <2> QED  BY <2>1, BatchEnds
<1>5. ASSUME CountDown(a) \/ Respond(a) PROVE Work'
  <2>1. /\ InBatch(a) /\ (rest[a] = {} \/ code[a] = "Success")
        /\ UNCHANGED <<request, result, todo, deque, batches, rest, loop, batch,
                       code, verdict>>
    BY <1>5
       DEF CountDown, Respond, InBatch, ReadsOrVisits, requestVars, taskVars
  <2>2. CASE pc' = [pc EXCEPT ![a] = "finish"]
    BY <2>1, <2>2, StageMoves
  <2>3. CASE pc' = [pc EXCEPT ![a] = "push"]
    BY <2>1, <2>3, StageMoves
  <2>4. \/ pc' = [pc EXCEPT ![a] = "finish"]
        \/ pc' = [pc EXCEPT ![a] = "push"]
    BY <1>5 DEF CountDown, Respond
  <2> QED  BY <2>2, <2>3, <2>4
<1>6. ASSUME LoopDone(a) PROVE Work'
  <2>1. /\ InBatch(a) /\ loop[a] = {} /\ (rest[a] = {} \/ code[a] = "Success")
        /\ UNCHANGED <<request, result, todo, deque, batches, rest, loop, batch,
                       code, verdict>>
    BY <1>6 DEF LoopDone, InBatch, ReadsOrVisits, requestVars, taskVars
  <2>2. CASE code[a] = "Success"
    <3>1. pc' = [pc EXCEPT ![a] = "read"]
      BY <1>6, <2>2 DEF LoopDone
    <3> QED  BY <2>1, <3>1, StageMoves
  <2>3. CASE code[a] # "Success"
    <3>1. pc' = [pc EXCEPT ![a] = "batch"]
      BY <1>6, <2>3 DEF LoopDone
    <3> QED  BY <2>1, <2>3, <3>1, BatchEnds
  <2> QED  BY <2>2, <2>3
<1>7. CASE OpenFile(a)
  BY <1>1, <1>2, <1>7
<1>8. CASE ReadFails(a) \/ ReadStopped(a)
  BY <1>1, <1>8 DEF ReadFails, ReadStopped, Codes
<1> QED  BY <1>3, <1>4, <1>5, <1>6, <1>7, <1>8

(* A push that throws ends the read, or the whole workload. *)
LEMMA RespondThrowsKeepsWork ==
  ASSUME Work, NEW a \in Threads, RespondThrows(a)
  PROVE  Work'
<1> USE StreamerAssumption DEF StreamerAssumption, Work
<1>1. ASSUME code[a] = "Success" PROVE Work'
  <2>1. /\ InBatch(a) /\ HandleError(a, "UnknownError")
        /\ UNCHANGED <<request, result, todo, deque, batches, batch, verdict>>
    BY <1>1 DEF RespondThrows, InBatch, requestVars
  <2> QED  BY <2>1, ErrorVisitsBatch DEF Codes
<1>2. ASSUME code[a] # "Success" PROVE Work'
  <2>1. /\ UNCHANGED <<request, result, todo, deque, rest, verdict>>
        /\ pc[a] = "push" /\ pc' = [pc EXCEPT ![a] = "idle"]
        /\ batches' = [batches EXCEPT ![a] = {}]
        /\ loop' = [loop EXCEPT ![a] = {}]
        /\ batch' = [batch EXCEPT ![a] = NoBatch]
        /\ code' = [code EXCEPT ![a] = "Success"]
    BY <1>2 DEF RespondThrows, requestVars
  <2>2. rest[a] = {}
    BY <1>2, <2>1 DEF ReadsOrVisits
  <2>3. /\ \A c \in Threads \ {a} :
             /\ pc'[c] = pc[c] /\ batches'[c] = batches[c]
             /\ loop'[c] = loop[c] /\ batch'[c] = batch[c]
             /\ code'[c] = code[c]
        /\ pc'[a] = "idle" /\ batches'[a] = {} /\ loop'[a] = {}
    BY <2>1 DEF WorkTypeOK
  <2>4. \A c \in Threads : /\ InBatch(c)' <=> InBatch(c) /\ c # a
                           /\ batches'[c] \subseteq batches[c]
                           /\ loop'[c] \subseteq loop[c]
    BY <2>3 DEF InBatch
  <2>5. \A b : Waiting(b)' => Waiting(b)
    BY <2>1, <2>4 DEF Waiting, Undispatched, Enqueued
  <2>6. WorkTypeOK'
    BY <2>1 DEF WorkTypeOK, Codes
  <2>7. ResultFollows' /\ QueueIsSet'
    BY <2>1 DEF ResultFollows, QueueIsSet, Announced, Undispatched
  <2>8. BatchesAreSplit'
    BY <2>1, <2>4 DEF BatchesAreSplit, Enqueued, Owner, Announced, Undispatched
  <2>9. CurrentIsOwn'
    BY <2>1, <2>3, <2>4, <2>5 DEF CurrentIsOwn, Owner, Announced
  <2>10. TasksAreInBatch' /\ ReadsOrVisits'
    BY <2>1, <2>2, <2>3, <2>4 DEF TasksAreInBatch, ReadsOrVisits
  <2>11. FinishedWasTaken'
    BY <2>1, <2>5 DEF FinishedWasTaken, Announced
  <2> QED  BY <2>6, <2>7, <2>8, <2>9, <2>10, <2>11
<1> QED  BY <1>1, <1>2

(* A worker that exits has no batch. *)
LEMMA WorkerExitKeepsWork ==
  ASSUME Work, NEW k \in Workers, WorkerExit(k)
  PROVE  Work'
<1>1. /\ UNCHANGED <<request, result, todo, deque, batches, rest, loop, batch,
                     code, verdict>>
      /\ k \in Threads /\ pc[k] = "idle" /\ pc' = [pc EXCEPT ![k] = "exit"]
  BY DEF WorkerExit, requestVars, taskVars, Threads
<1>2. \A c \in Threads : InBatch(c)' <=> InBatch(c)
  BY <1>1 DEF InBatch, Work, WorkTypeOK
<1> USE DEF Work
<1>3. WorkTypeOK' /\ ReadsOrVisits'
  BY <1>1 DEF WorkTypeOK, ReadsOrVisits
<1>4. ResultFollows' /\ QueueIsSet' /\ BatchesAreSplit'
  BY <1>1 DEF ResultFollows, QueueIsSet, Announced, Undispatched,
              BatchesAreSplit, Enqueued, Owner
<1>5. CurrentIsOwn' /\ TasksAreInBatch' /\ FinishedWasTaken'
  BY <1>1, <1>2 DEF CurrentIsOwn, TasksAreInBatch, FinishedWasTaken, Owner,
                    Waiting, Undispatched, Enqueued, Announced
<1> QED  BY <1>3, <1>4, <1>5

(* At first nothing is dispatched, taken or finished. *)
LEMMA WorkInit == Init => Work
<1> SUFFICES ASSUME Init PROVE Work
  OBVIOUS
<1> USE StreamerAssumption DEF StreamerAssumption, Init
<1>1. WorkTypeOK
  BY DEF WorkTypeOK, Codes, WorkloadsOf
<1>2. ResultFollows /\ QueueIsSet /\ BatchesAreSplit
  BY DEF ResultFollows, QueueIsSet, BatchesAreSplit
<1>3. CurrentIsOwn /\ TasksAreInBatch /\ ReadsOrVisits /\ FinishedWasTaken
  BY DEF CurrentIsOwn, TasksAreInBatch, ReadsOrVisits, FinishedWasTaken, InBatch
<1> QED  BY <1>1, <1>2, <1>3 DEF Work

(* Every step keeps Work: each workload, batch and task has one owner. *)
LEMMA WorkNext == Work /\ [Next]_vars => Work'
<1> SUFFICES ASSUME Work, [Next]_vars PROVE Work'
  OBVIOUS
<1>1. ASSUME NEW s \in Submissions,
             Reject(s) \/ EmptyRequest(s) \/ Register(s) \/ RequestStep(s)
      PROVE  Work'
  BY <1>1, RequestOnlyKeepsWork, DispatchKeepsWork, DrainWorkloadKeepsWork
     DEF RequestStep, RequestOnly
<1>2. ASSUME NEW a \in Threads, ThreadStep(a)
      PROVE  Work'
  BY <1>2, NextBatchKeepsWork, WorkloadDoneKeepsWork, FinishTaskKeepsWork,
     BatchStepsKeepWork, RespondThrowsKeepsWork DEF ThreadStep
<1>3. ASSUME NEW k \in Workers, WorkerStep(k)
      PROVE  Work'
  <2>1. k \in Threads
    BY DEF Threads
  <2> QED  BY <1>3, <2>1, TakeWorkloadKeepsWork, WorkerExitKeepsWork,
              ReadTasksKeepsWork, BatchStepsKeepWork DEF WorkerStep
<1>4. CASE \/ PopResponse \/ Consume \/ StopResponder \/ DestructorStep \/ Gone
           \/ UNCHANGED vars
  <2>1. UNCHANGED WorkVars
    BY <1>4 DEF PopResponse, Consume, StopResponder, DestructorStep, StopFlag,
       StopDeque, Join, Gone, vars, WorkVars, requestVars, threadVars, taskVars
  <2> QED  BY <2>1, WorkFrame
<1> QED  BY <1>1, <1>2, <1>3, <1>4 DEF Next

-----------------------------------------------------------------------------
(* Second layer: the steps that finish tasks and hand on responses *)

Finishing(a) == pc[a] \in {"sub", "push"}

(* A range has finitely many tasks yet to be counted down. *)
LEMMA UncountedIsFinite ==
  ASSUME NEW r \in Ranges
  PROVE  IsFiniteSet(Uncounted(r)) /\ Cardinality(Uncounted(r)) \in Nat
<1>1. Uncounted(r) \subseteq Tasks /\ IsFiniteSet(Tasks)
  BY StreamerAssumption DEF StreamerAssumption, Uncounted, TasksOf
<1> QED  BY <1>1, FS_Subset, FS_CardinalityType

(* Every queued or popped response is about a range. *)
LEMMA ResponsesAreTyped ==
  ASSUME AnswerTypeOK
  PROVE  /\ \A i \in DOMAIN responses : responses[i].range \in Ranges
         /\ \A i \in DOMAIN delivered : delivered[i].range \in Ranges
<1>1. responses \in Seq(Response) /\ delivered \in Seq(Response)
  BY DEF AnswerTypeOK
<1>2. /\ \A i \in DOMAIN responses : responses[i] \in Response
      /\ \A i \in DOMAIN delivered : delivered[i] \in Response
  BY <1>1
<1> QED  BY <1>2 DEF Response

(* No task is finished or counted, and no response moves. *)
LEMMA AnswersFrame ==
  ASSUME Answers,
         UNCHANGED <<left, ret, verdict, responses, delivered>>,
         stopped' \in BOOLEAN,
         task' \in [Threads -> Tasks \cup {NoTask}],
         \A a \in Threads : Finishing(a)' <=> Finishing(a),
         \A a \in Threads : Finishing(a) => pc'[a] = pc[a] /\ task'[a] = task[a]
  PROVE  Answers'
<1> USE DEF Answers
<1>1. \A a \in Threads :
        /\ pc'[a] = "sub" <=> pc[a] = "sub"
        /\ pc'[a] = "push" <=> pc[a] = "push"
        /\ pc[a] \in {"sub", "push"} => task'[a] = task[a]
  BY DEF Finishing
<1>2. \A r : Uncounted(r)' = Uncounted(r)
  BY <1>1 DEF Uncounted, Subtracting
<1>3. \A r : /\ IsQueued(r)' <=> IsQueued(r)
             /\ IsPopped(r)' <=> IsPopped(r)
  BY DEF IsQueued, IsPopped
<1>4. AnswerTypeOK'
  BY DEF AnswerTypeOK
<1>5. Countdown' /\ CodesAreTrue'
  BY <1>2 DEF Countdown, CodesAreTrue
<1>6. FinishesOwnTask'
  BY <1>1 DEF FinishesOwnTask
<1>7. LastResponds'
  BY <1>1, <1>2, <1>3 DEF LastResponds
<1>8. AnsweredOnce'
  BY <1>2, <1>3 DEF AnsweredOnce
<1> QED  BY <1>4, <1>5, <1>6, <1>7, <1>8

(* At first no task is finished and no range answered. *)
LEMMA AnswersInit == Init => Answers
<1> SUFFICES ASSUME Init PROVE Answers
  OBVIOUS
<1> USE StreamerAssumption DEF StreamerAssumption, Init, R!Init
<1>1. AnswerTypeOK
  <2>1. \A r \in Ranges : Cardinality(TasksOf(r)) \in Int
    BY FS_Subset, FS_CardinalityType DEF TasksOf
  <2>2. /\ left \in [Ranges -> Int] /\ ret \in [Ranges -> Codes]
        /\ task \in [Threads -> Tasks \cup {NoTask}]
    BY <2>1 DEF Codes
  <2>3. responses \in Seq(Response) /\ delivered \in Seq(Response)
    OBVIOUS
  <2> QED  BY <2>2, <2>3 DEF AnswerTypeOK
<1>2. Countdown
  <2>1. \A r \in Ranges : Uncounted(r) = TasksOf(r)
    BY DEF Uncounted, TasksOf
  <2> QED  BY <2>1, UncountedIsFinite DEF Countdown
<1>3. FinishesOwnTask /\ LastResponds /\ AnsweredOnce
  BY DEF FinishesOwnTask, LastResponds, AnsweredOnce
<1>4. CodesAreTrue
  BY DEF CodesAreTrue, TasksOf
<1> QED  BY <1>1, <1>2, <1>3, <1>4 DEF Answers

(* finished_request records the code of a task not finished before. *)
LEMMA FinishTaskKeepsAnswers ==
  ASSUME Work, Answers, NEW a \in Threads, FinishTask(a)
  PROVE  Answers'
<1> DEFINE t == Min(loop[a])
<1> USE StreamerAssumption DEF StreamerAssumption, Answers
<1>1. t \in Tasks
  <2>1. loop[a] \subseteq Tasks /\ loop[a] # {}
    BY DEF Work, WorkTypeOK, FinishTask
  <2> QED  BY <2>1, MinIn
<1>2. CASE UNCHANGED <<pc, task, verdict, ret>>
  BY <1>2, AnswersFrame DEF FinishTask, Finishing, AnswerTypeOK, responderVars
<1>3. CASE ~UNCHANGED <<pc, task, verdict, ret>>
  <2>1. /\ UNCHANGED <<left, responses, delivered, stopped>>
        /\ pc[a] = "finish" /\ verdict[t] = "none"
        /\ verdict' = [verdict EXCEPT ![t] = code[a]]
        /\ task' = [task EXCEPT ![a] = t]
        /\ ret' = IF code[a] = "Success" THEN ret
                  ELSE [ret EXCEPT ![RangeOf[t]] = code[a]]
        /\ pc' = [pc EXCEPT ![a] = "sub"]
    BY <1>1, <1>3 DEF FinishTask, finished, responderVars
  <2> HIDE DEF t
  <2>2. /\ \A c \in Threads \ {a} : pc'[c] = pc[c] /\ task'[c] = task[c]
        /\ pc'[a] = "sub" /\ task'[a] = t
        /\ \A u \in Tasks \ {t} : verdict'[u] = verdict[u]
        /\ verdict'[t] = code[a] /\ code[a] \in Codes
        /\ \A r \in Ranges : ret'[r] = IF code[a] # "Success" /\ r = RangeOf[t]
                                       THEN code[a] ELSE ret[r]
    BY <1>1, <2>1 DEF Work, WorkTypeOK, AnswerTypeOK
  <2>3. "none" \notin Codes
    BY DEF Codes
  <2>4. \A u \in Tasks : Subtracting(u)' <=> Subtracting(u) \/ u = t
    BY <2>1, <2>2 DEF Subtracting
  <2>5. \A r \in Ranges : Uncounted(r)' = Uncounted(r)
    <3>1. \A u \in Tasks : verdict'[u] = "none" <=> verdict[u] = "none" /\ u # t
      BY <2>1, <2>2, <2>3
    <3> QED  BY <2>1, <2>4, <3>1 DEF Uncounted, TasksOf
  <2>6. \A r \in Ranges : /\ IsQueued(r)' <=> IsQueued(r)
                          /\ IsPopped(r)' <=> IsPopped(r)
    BY <2>1 DEF IsQueued, IsPopped
  <2>7. t \in Uncounted(RangeOf[t])
    BY <1>1, <2>1 DEF Uncounted, TasksOf
  <2>8. AnswerTypeOK'
    BY <1>1, <2>1, <2>2 DEF AnswerTypeOK
  <2>9. Countdown'
    BY <2>1, <2>5 DEF Countdown
  <2>10. FinishesOwnTask'
    BY <1>1, <2>1, <2>2, <2>3 DEF FinishesOwnTask
  <2>11. LastResponds'
    <3>1. ASSUME NEW c \in Threads, pc'[c] = "push"
          PROVE  /\ pc[c] = "push" /\ task'[c] = task[c]
                 /\ RangeOf[task[c]] \in Ranges
      <4>1. c # a
        BY <2>2, <3>1
      <4>2. pc[c] = "push" /\ task'[c] = task[c]
        BY <2>2, <3>1, <4>1
      <4>3. task[c] \in Tasks
        BY <4>2 DEF FinishesOwnTask
      <4> QED  BY <4>2, <4>3
    <3> QED  BY <2>5, <2>6, <3>1 DEF LastResponds
  <2>12. AnsweredOnce'
    <3>1. ASSUME NEW i \in DOMAIN responses
          PROVE  /\ Uncounted(responses[i].range)' = {}
                 /\ ~IsPopped(responses[i].range)'
      <4> PICK r \in Ranges : r = responses[i].range
        BY ResponsesAreTyped
      <4>1. Uncounted(r) = {} /\ ~IsPopped(r)
        BY DEF AnsweredOnce
      <4> QED  BY <2>1, <2>5, <2>6, <4>1
    <3>2. ASSUME NEW i \in DOMAIN delivered
          PROVE  Uncounted(delivered[i].range)' = {}
      <4> PICK r \in Ranges : r = delivered[i].range
        BY ResponsesAreTyped
      <4>1. Uncounted(r) = {}
        BY DEF AnsweredOnce
      <4> QED  BY <2>1, <2>5, <4>1
    <3> QED  BY <2>1, <3>1, <3>2 DEF AnsweredOnce
  <2>13. CodesAreTrue'
    <3>1. ASSUME NEW i \in DOMAIN responses
          PROVE  responses[i].ret = ret'[responses[i].range]
      <4>1. responses[i].range \in Ranges
        BY ResponsesAreTyped
      <4>2. responses[i].range # RangeOf[t]
        BY <2>7 DEF AnsweredOnce
      <4> QED  BY <2>2, <4>1, <4>2 DEF CodesAreTrue
    <3>2. ASSUME NEW r \in Ranges
          PROVE  IF ret'[r] = "Success"
                 THEN \A u \in TasksOf(r) : verdict'[u] \in {"none", "Success"}
                 ELSE \E u \in TasksOf(r) : verdict'[u] = ret'[r]
      <4>1. ret[r] \in Codes /\ TasksOf(r) \subseteq Tasks
        BY DEF AnswerTypeOK, TasksOf
      <4>2. CASE code[a] # "Success" /\ r = RangeOf[t]
        BY <1>1, <2>2, <4>2 DEF TasksOf
      <4>3. CASE ret[r] = "Success" /\ ~(code[a] # "Success" /\ r = RangeOf[t])
        BY <2>2, <4>1, <4>3 DEF CodesAreTrue, TasksOf
      <4>4. CASE ret[r] # "Success" /\ ~(code[a] # "Success" /\ r = RangeOf[t])
        BY <2>1, <2>2, <2>3, <4>1, <4>4 DEF CodesAreTrue
      <4> QED  BY <4>2, <4>3, <4>4
    <3> QED  BY <2>1, <3>1, <3>2 DEF CodesAreTrue, TasksOf
  <2> QED  BY <2>8, <2>9, <2>10, <2>11, <2>12, <2>13
<1> QED  BY <1>2, <1>3

(* Of the threads that count a range down, one alone sees it reach zero. *)
LEMMA CountDownKeepsAnswers ==
  ASSUME Work, Answers, NEW a \in Threads, CountDown(a)
  PROVE  Answers'
<1> USE StreamerAssumption DEF StreamerAssumption, Answers
<1> PICK t \in Tasks, r \in Ranges : t = task[a] /\ r = RangeOf[t]
  BY DEF CountDown, FinishesOwnTask
<1>1. /\ UNCHANGED <<verdict, task, ret, responses, delivered, stopped>>
      /\ pc[a] = "sub" /\ left' = [left EXCEPT ![r] = @ - 1]
      /\ pc' = [pc EXCEPT ![a] = IF left[r] = 1 THEN "push" ELSE "finish"]
  BY DEF CountDown, responderVars
<1>2. /\ t \in Tasks /\ r \in Ranges /\ verdict[t] # "none"
      /\ \A c \in Threads : pc[c] = "sub" /\ task[c] = t => c = a
  BY <1>1 DEF FinishesOwnTask
<1>3. /\ \A c \in Threads \ {a} : pc'[c] = pc[c]
      /\ pc'[a] = IF left[r] = 1 THEN "push" ELSE "finish"
      /\ left'[r] = left[r] - 1
      /\ \A q \in Ranges \ {r} : left'[q] = left[q]
  BY <1>1, <1>2 DEF Work, WorkTypeOK, AnswerTypeOK
<1>4. t \in Uncounted(r)
  BY <1>1, <1>2 DEF Uncounted, Subtracting, TasksOf
<1>5. \A u \in Tasks : Subtracting(u)' <=> Subtracting(u) /\ u # t
  BY <1>1, <1>2, <1>3 DEF Subtracting
<1>6. /\ Uncounted(r)' = Uncounted(r) \ {t}
      /\ \A q \in Ranges \ {r} : Uncounted(q)' = Uncounted(q)
  <2>1. Uncounted(r)' = Uncounted(r) \ {t}
    BY <1>1, <1>2, <1>5 DEF Uncounted, TasksOf
  <2>2. \A q \in Ranges \ {r} : Uncounted(q)' = Uncounted(q)
    BY <1>1, <1>2, <1>5 DEF Uncounted, TasksOf
  <2> QED  BY <2>1, <2>2
<1>7. Cardinality(Uncounted(r)') = Cardinality(Uncounted(r)) - 1
  <2>1. Cardinality(Uncounted(r) \ {t}) = Cardinality(Uncounted(r)) - 1
    BY <1>4, UncountedIsFinite, FS_RemoveElement
  <2> QED  BY <1>6, <2>1
<1>8. left[r] = 1 => Uncounted(r)' = {}
  <2>1. left[r] = Cardinality(Uncounted(r))
    BY <1>2 DEF Countdown
  <2>2. IsFiniteSet(Uncounted(r)')
    BY <1>2, <1>6, UncountedIsFinite, FS_Subset
  <2> QED  BY <1>7, <2>1, <2>2, FS_EmptySet
<1>9. \A q \in Ranges : /\ IsQueued(q)' <=> IsQueued(q)
                        /\ IsPopped(q)' <=> IsPopped(q)
  BY <1>1 DEF IsQueued, IsPopped
<1>10. ~IsQueued(r) /\ ~IsPopped(r)
  BY <1>4 DEF AnsweredOnce, IsQueued, IsPopped
<1>11. \A c \in Threads : pc[c] = "push" => RangeOf[task[c]] # r
  BY <1>4 DEF LastResponds
<1>12. AnswerTypeOK'
  BY <1>1, <1>2 DEF AnswerTypeOK
<1>13. Countdown'
  <2>1. IsFiniteSet(Uncounted(r)')
    BY <1>2, <1>6, UncountedIsFinite, FS_Subset
  <2>2. left'[r] = Cardinality(Uncounted(r)')
    BY <1>2, <1>3, <1>7 DEF Countdown
  <2>3. ASSUME NEW q \in Ranges
        PROVE  /\ IsFiniteSet(Uncounted(q)')
               /\ left'[q] = Cardinality(Uncounted(q)')
    <3>1. CASE q = r
      BY <2>1, <2>2, <3>1
    <3>2. CASE q # r
      <4>1. Uncounted(q)' = Uncounted(q) /\ left'[q] = left[q]
        BY <1>3, <1>6, <3>2
      <4> QED  BY <4>1 DEF Countdown
    <3> QED  BY <3>1, <3>2
  <2> QED  BY <2>3 DEF Countdown
<1>14. FinishesOwnTask'
  BY <1>1, <1>3 DEF FinishesOwnTask
<1>15. LastResponds'
  <2>1. ASSUME NEW c \in Threads, pc'[c] = "push"
        PROVE  /\ Uncounted(RangeOf[task[c]])' = {}
               /\ ~IsQueued(RangeOf[task[c]])'
               /\ ~IsPopped(RangeOf[task[c]])'
               /\ \A d \in Threads :
                    pc'[d] = "push" /\ RangeOf[task'[d]] = RangeOf[task'[c]]
                      => d = c
    <3>1. CASE c = a
      <4>1. RangeOf[task[c]] = r /\ left[r] = 1 /\ task' = task
        BY <1>1, <1>3, <2>1, <3>1
      <4>2. Uncounted(RangeOf[task[c]])' = {}
        BY <1>8, <4>1
      <4>3. ~IsQueued(RangeOf[task[c]])' /\ ~IsPopped(RangeOf[task[c]])'
        BY <1>2, <1>9, <1>10, <4>1
      <4> QED  BY <1>3, <1>11, <3>1, <4>1, <4>2, <4>3
    <3>2. CASE c # a
      <4> DEFINE q == RangeOf[task[c]]
      <4>1. pc[c] = "push" /\ task' = task
        BY <1>1, <1>3, <2>1, <3>2
      <4>2. q \in Ranges /\ q # r
        BY <1>11, <4>1 DEF FinishesOwnTask
      <4>3. Uncounted(q) = {} /\ ~IsQueued(q) /\ ~IsPopped(q)
        BY <4>1 DEF LastResponds
      <4>4. Uncounted(q)' = {} /\ ~IsQueued(q)' /\ ~IsPopped(q)'
        <5>1. q' = q
          BY <4>1
        <5> HIDE DEF q
        <5> QED  BY <1>6, <1>9, <4>2, <4>3, <5>1
      <4>5. \A d \in Threads : pc'[d] = "push" /\ RangeOf[task[d]] = q => d = c
        <5>1. RangeOf[task[a]] = r
          OBVIOUS
        <5> QED  BY <1>3, <4>1, <4>2, <5>1 DEF LastResponds
      <4> QED  BY <4>1, <4>4, <4>5
    <3> QED  BY <3>1, <3>2
  <2> QED  BY <2>1 DEF LastResponds
<1>16. AnsweredOnce'
  <2>1. \A q \in Ranges : Uncounted(q) = {} => Uncounted(q)' = {}
    BY <1>6
  <2> QED  BY <1>1, <1>9, <2>1, ResponsesAreTyped DEF AnsweredOnce
<1>17. CodesAreTrue'
  BY <1>1 DEF CodesAreTrue
<1> QED  BY <1>12, <1>13, <1>14, <1>15, <1>16, <1>17

(* The thread that saw zero pushes the one response of the range. *)
LEMMA RespondKeepsAnswers ==
  ASSUME Work, Answers, NEW a \in Threads, Respond(a)
  PROVE  Answers'
<1> USE StreamerAssumption DEF StreamerAssumption, Answers
<1> PICK r \in Ranges, p \in Response :
      /\ r = RangeOf[task[a]] /\ p = [range |-> r, ret |-> ret[r]]
      /\ p.range = r /\ p.ret = ret[r]
  <2>1. RangeOf[task[a]] \in Ranges
    BY DEF Respond, FinishesOwnTask
  <2>2. [range |-> RangeOf[task[a]], ret |-> ret[RangeOf[task[a]]]] \in Response
    BY <2>1 DEF Response, AnswerTypeOK
  <2> QED  BY <2>1, <2>2
<1>1. /\ UNCHANGED <<left, ret, verdict, task, delivered, stopped>>
      /\ pc[a] = "push" /\ pc' = [pc EXCEPT ![a] = "finish"]
      /\ responses' = responses \/ responses' = Append(responses, p)
  BY DEF Respond, R!Push, taskVars
<1>2. /\ Uncounted(r) = {} /\ ~IsQueued(r) /\ ~IsPopped(r)
      /\ \A c \in Threads : pc[c] = "push" /\ RangeOf[task[c]] = r => c = a
  BY <1>1 DEF LastResponds
<1>3. \A c \in Threads : /\ pc'[c] = "sub" <=> pc[c] = "sub"
                         /\ pc'[c] = "push" <=> pc[c] = "push" /\ c # a
  BY <1>1 DEF Work, WorkTypeOK
<1>4. \A q : Uncounted(q)' = Uncounted(q)
  BY <1>1, <1>3 DEF Uncounted, Subtracting
<1>5. responses \in Seq(Response) /\ Len(responses) \in Nat
  BY DEF AnswerTypeOK
<1>6. responses' = Append(responses, p) =>
        /\ responses' \in Seq(Response)
        /\ DOMAIN responses = 1 .. Len(responses)
        /\ DOMAIN responses' = 1 .. Len(responses) + 1
        /\ \A i \in 1 .. Len(responses) : responses'[i] = responses[i]
        /\ responses'[Len(responses) + 1] = p
  BY <1>5
<1>7. \A q : /\ IsQueued(q)' => IsQueued(q) \/ q = r
             /\ IsPopped(q)' <=> IsPopped(q)
  <2>1. CASE responses' = responses
    BY <1>1, <2>1 DEF IsQueued, IsPopped
  <2>2. CASE responses' = Append(responses, p)
    <3>1. \A i \in DOMAIN responses' :
            \/ responses'[i] = p
            \/ i \in DOMAIN responses /\ responses'[i] = responses[i]
      BY <1>5, <1>6, <2>2
    <3> QED  BY <1>1, <3>1 DEF IsQueued, IsPopped
  <2> QED  BY <1>1, <2>1, <2>2
<1>8. AnswerTypeOK'
  BY <1>1, <1>6 DEF AnswerTypeOK
<1>9. Countdown' /\ FinishesOwnTask'
  BY <1>1, <1>3, <1>4 DEF Countdown, FinishesOwnTask
<1>10. LastResponds'
  BY <1>1, <1>2, <1>3, <1>4, <1>7 DEF LastResponds
<1>11. AnsweredOnce' /\ CodesAreTrue'
  <2>1. CASE responses' = responses
    <3>1. CodesAreTrue'
      BY <1>1, <2>1 DEF CodesAreTrue
    <3>2. AnsweredOnce'
      BY <1>1, <1>4, <1>7, <2>1 DEF AnsweredOnce
    <3> QED  BY <3>1, <3>2
  <2>2. CASE responses' = Append(responses, p)
    <3>1. \A i \in 1 .. Len(responses) : responses[i].range # r
      BY <1>2, <1>6, <2>2 DEF IsQueued
    <3>2. ASSUME NEW i \in DOMAIN responses', NEW q, q = responses'[i].range
          PROVE  /\ Uncounted(q)' = {}
                 /\ ~IsPopped(q)'
                 /\ \A j \in DOMAIN responses' :
                      responses'[j].range = q => j = i
                 /\ responses'[i].ret = ret[q]
      <4>1. CASE i = Len(responses) + 1
        <5>1. q = r /\ responses'[i].ret = ret[r]
          BY <1>6, <2>2, <3>2, <4>1
        <5> QED  BY <1>2, <1>4, <1>6, <1>7, <2>2, <3>1, <4>1, <5>1
      <4>2. CASE i \in 1 .. Len(responses)
        <5>1. /\ i \in DOMAIN responses /\ q = responses[i].range
              /\ responses'[i] = responses[i]
          BY <1>6, <2>2, <3>2, <4>2
        <5>2. Uncounted(q) = {} /\ ~IsPopped(q) /\ responses[i].ret = ret[q]
          BY <5>1 DEF AnsweredOnce, CodesAreTrue
        <5>3. \A j \in DOMAIN responses' : responses'[j].range = q => j = i
          BY <1>5, <1>6, <2>2, <3>1, <5>1 DEF AnsweredOnce
        <5> QED  BY <1>4, <1>7, <5>1, <5>2, <5>3
      <4> QED  BY <1>5, <1>6, <2>2, <4>1, <4>2
    <3>3. AnsweredOnce'
      <4>1. \A i \in DOMAIN delivered :
              /\ IsPopped(delivered[i].range)
              /\ Uncounted(delivered[i].range)' = {}
        BY <1>1, <1>4 DEF AnsweredOnce, IsPopped
      <4> QED  BY <1>1, <3>2, <4>1 DEF AnsweredOnce
    <3>4. CodesAreTrue'
      BY <1>1, <3>2 DEF CodesAreTrue
    <3> QED  BY <3>3, <3>4
  <2> QED  BY <1>1, <2>1, <2>2
<1> QED  BY <1>8, <1>9, <1>10, <1>11

(* The thread that saw zero leaves, and nobody responds for the range. *)
LEMMA RespondThrowsKeepsAnswers ==
  ASSUME Work, Answers, NEW a \in Threads, RespondThrows(a)
  PROVE  Answers'
<1> USE StreamerAssumption DEF StreamerAssumption, Answers
<1>1. /\ UNCHANGED <<left, ret, verdict, responses, delivered, stopped>>
      /\ pc[a] = "push" /\ task' = [task EXCEPT ![a] = NoTask]
      /\ \/ pc' = [pc EXCEPT ![a] = "finish"]
         \/ pc' = [pc EXCEPT ![a] = "idle"]
  BY DEF RespondThrows, HandleError, responderVars
<1>2. \A c \in Threads :
        /\ pc'[c] = "sub" <=> pc[c] = "sub"
        /\ pc'[c] = "push" <=> pc[c] = "push" /\ c # a
        /\ c # a => task'[c] = task[c]
  BY <1>1 DEF Work, WorkTypeOK, AnswerTypeOK
<1>3. \A q : Uncounted(q)' = Uncounted(q)
  <2>1. \A t : Subtracting(t)' <=> Subtracting(t)
    BY <1>1, <1>2 DEF Subtracting
  <2> QED  BY <1>1, <2>1 DEF Uncounted
<1>4. \A q : /\ IsQueued(q)' <=> IsQueued(q)
             /\ IsPopped(q)' <=> IsPopped(q)
  BY <1>1 DEF IsQueued, IsPopped
<1>5. AnswerTypeOK'
  BY <1>1 DEF AnswerTypeOK
<1>6. Countdown' /\ CodesAreTrue' /\ AnsweredOnce'
  BY <1>1, <1>3, <1>4 DEF Countdown, CodesAreTrue, AnsweredOnce
<1>7. FinishesOwnTask'
  BY <1>1, <1>2 DEF FinishesOwnTask
<1>8. LastResponds'
  BY <1>1, <1>2, <1>3, <1>4 DEF LastResponds
<1> QED  BY <1>5, <1>6, <1>7, <1>8

(* A response goes from the queue to the consumer. *)
LEMMA PopKeepsAnswers ==
  ASSUME Work, Answers, PopResponse
  PROVE  Answers'
<1> USE StreamerAssumption DEF StreamerAssumption, Answers
<1>1. /\ UNCHANGED <<left, ret, verdict, task, pc, stopped>>
      /\ responses # <<>>
      /\ delivered' = Append(delivered, Head(responses))
      /\ responses' = Tail(responses)
  BY DEF PopResponse, R!PopResponse, taskVars, threadVars
<1>2. /\ responses \in Seq(Response) /\ Len(responses) \in Nat \ {0}
      /\ delivered \in Seq(Response) /\ Len(delivered) \in Nat
  BY <1>1 DEF AnswerTypeOK
<1> PICK p \in Response, r \in Ranges : p = Head(responses) /\ p.range = r
  <2>1. Head(responses) \in Response
    BY <1>1, <1>2
  <2> QED  BY <2>1 DEF Response
<1>3. /\ responses' \in Seq(Response) /\ delivered' \in Seq(Response)
      /\ 1 \in DOMAIN responses /\ responses[1] = p
      /\ DOMAIN responses' = 1 .. Len(responses) - 1
      /\ \A i \in DOMAIN responses' :
           i + 1 \in DOMAIN responses /\ responses'[i] = responses[i + 1]
      /\ DOMAIN delivered = 1 .. Len(delivered)
      /\ DOMAIN delivered' = 1 .. Len(delivered) + 1
      /\ \A i \in DOMAIN delivered : delivered'[i] = delivered[i]
      /\ delivered'[Len(delivered) + 1] = p
  BY <1>1, <1>2
<1>4. Uncounted(r) = {} /\ ~IsPopped(r)
  BY <1>3 DEF AnsweredOnce
<1>5. \A i \in DOMAIN responses : responses[i].range = r => i = 1
  BY <1>3 DEF AnsweredOnce
<1>6. \A q : Uncounted(q)' = Uncounted(q)
  BY <1>1 DEF Uncounted, Subtracting
<1>7. \A q : IsQueued(q)' => IsQueued(q) /\ q # r
  BY <1>2, <1>3, <1>5 DEF IsQueued
<1>8. \A q : IsPopped(q)' <=> IsPopped(q) \/ q = r
  <2>1. \A i \in DOMAIN delivered' :
          i \in DOMAIN delivered \/ i = Len(delivered) + 1
    BY <1>2, <1>3
  <2>2. /\ DOMAIN delivered \subseteq DOMAIN delivered'
        /\ Len(delivered) + 1 \in DOMAIN delivered'
    BY <1>2, <1>3
  <2> QED  BY <1>3, <2>1, <2>2 DEF IsPopped
<1>9. IsQueued(r)
  BY <1>3 DEF IsQueued
<1>10. AnswerTypeOK' /\ Countdown' /\ FinishesOwnTask'
  BY <1>1, <1>3, <1>6 DEF AnswerTypeOK, Countdown, FinishesOwnTask
<1>11. LastResponds'
  BY <1>1, <1>6, <1>7, <1>8, <1>9 DEF LastResponds
<1>12. AnsweredOnce'
  <2>1. ASSUME NEW i \in DOMAIN responses', NEW q, q = responses'[i].range
        PROVE  /\ Uncounted(q)' = {} /\ ~IsPopped(q)'
               /\ \A j \in DOMAIN responses' : responses'[j].range = q => j = i
    <3>1. i + 1 \in DOMAIN responses /\ q = responses[i + 1].range /\ i + 1 # 1
      BY <1>2, <1>3, <2>1
    <3>2. Uncounted(q) = {} /\ ~IsPopped(q) /\ q # r
      BY <1>5, <3>1 DEF AnsweredOnce
    <3>3. ASSUME NEW j \in DOMAIN responses', responses'[j].range = q
          PROVE  j = i
      <4>1. j + 1 \in DOMAIN responses /\ q = responses[j + 1].range
        BY <1>3, <3>3
      <4>2. j + 1 = i + 1
        BY <3>1, <4>1 DEF AnsweredOnce
      <4> QED  BY <1>2, <1>3, <4>2
    <3> QED  BY <1>6, <1>8, <3>2, <3>3
  <2>2. ASSUME NEW i \in DOMAIN delivered', NEW q, q = delivered'[i].range
        PROVE  /\ Uncounted(q)' = {}
               /\ \A j \in DOMAIN delivered' : delivered'[j].range = q => j = i
    <3>1. CASE i \in DOMAIN delivered
      <4>1. q = delivered[i].range /\ q # r
        BY <1>3, <1>4, <2>2, <3>1 DEF IsPopped
      <4>2. \A j \in DOMAIN delivered' :
              delivered'[j].range = q =>
                j \in DOMAIN delivered /\ delivered[j].range = q
        BY <1>2, <1>3, <4>1
      <4> QED  BY <1>6, <3>1, <4>1, <4>2 DEF AnsweredOnce
    <3>2. CASE i = Len(delivered) + 1
      <4>1. q = r
        BY <1>3, <2>2, <3>2
      <4>2. \A j \in DOMAIN delivered : delivered'[j].range # r
        BY <1>3, <1>4 DEF IsPopped
      <4> QED  BY <1>2, <1>3, <1>4, <1>6, <3>2, <4>1, <4>2
    <3> QED  BY <1>2, <1>3, <3>1, <3>2
  <2> QED  BY <2>1, <2>2 DEF AnsweredOnce
<1>13. CodesAreTrue'
  BY <1>1, <1>3 DEF CodesAreTrue
<1> QED  BY <1>10, <1>11, <1>12, <1>13

(* Every step keeps Answers: a range is answered once, truthfully. *)
LEMMA AnswersNext == Work /\ Answers /\ [Next]_vars => Answers'
<1> SUFFICES ASSUME Work, Answers, [Next]_vars PROVE Answers'
  OBVIOUS
<1>1. ASSUME NEW s \in Submissions,
             Reject(s) \/ EmptyRequest(s) \/ Register(s) \/ RequestStep(s)
      PROVE  Answers'
  <2>1. /\ UNCHANGED <<left, ret, verdict, task, responses, delivered, stopped>>
        /\ pc' = pc \/ (pc[s] = "idle" /\ pc' = [pc EXCEPT ![s] = "batch"])
    BY <1>1 DEF Reject, EmptyRequest, Register, RequestStep, Announce, Dispatch,
       DispatchThrows, Dispatched, DrainWorkload, Drained, R!Increment,
       taskVars, threadVars, responderVars
  <2>2. \A c \in Threads : /\ Finishing(c)' <=> Finishing(c)
                           /\ Finishing(c) => pc'[c] = pc[c]
    BY <2>1 DEF Finishing, Work, WorkTypeOK
  <2> QED  BY <2>1, <2>2, AnswersFrame DEF Answers, AnswerTypeOK
<1>2. ASSUME NEW a \in Threads,
             \/ NextBatch(a) \/ WorkloadDone(a) \/ LoopDone(a)
             \/ (a \in Workers /\ WorkerStep(a))
      PROVE  Answers'
  <2>1. /\ UNCHANGED <<left, ret, verdict, responses, delivered, stopped>>
        /\ task' = task \/ task' = [task EXCEPT ![a] = NoTask]
        /\ ~Finishing(a)
        /\ \E c \in {"idle", "batch", "open", "read", "reading", "finish",
                     "exit"} : pc' = [pc EXCEPT ![a] = c]
    BY <1>2 DEF NextBatch, WorkloadDone, LoopDone, WorkerStep, TakeWorkload,
       WorkerExit, OpenFile, StartRead, ReadTasks, ReadFails, ReadStopped,
       BatchRead, HandleError, Finishing, taskVars, responderVars
  <2>2. \A c \in Threads :
          /\ Finishing(c)' <=> Finishing(c)
          /\ Finishing(c) => pc'[c] = pc[c] /\ task'[c] = task[c]
    BY <2>1 DEF Finishing, Work, WorkTypeOK, Answers, AnswerTypeOK
  <2>3. task' \in [Threads -> Tasks \cup {NoTask}]
    BY <2>1 DEF Answers, AnswerTypeOK
  <2> QED  BY <2>1, <2>2, <2>3, AnswersFrame DEF Answers, AnswerTypeOK
<1>3. ASSUME NEW a \in Threads, ThreadStep(a)
      PROVE  Answers'
  BY <1>2, <1>3, FinishTaskKeepsAnswers, CountDownKeepsAnswers,
     RespondKeepsAnswers, RespondThrowsKeepsAnswers DEF ThreadStep
<1>4. CASE \/ Consume \/ StopResponder \/ DestructorStep \/ Gone
           \/ UNCHANGED vars
  <2>1. /\ UNCHANGED <<left, ret, verdict, task, pc, responses, delivered>>
        /\ stopped' = stopped \/ stopped' = TRUE
    BY <1>4 DEF Consume, StopResponder, R!Stop, DestructorStep, StopFlag,
       StopDeque, Join, Gone, vars, threadVars, taskVars, responderVars
  <2> QED  BY <2>1, AnswersFrame DEF Answers, AnswerTypeOK, Finishing
<1>5. \A k \in Workers : k \in Threads
  BY DEF Threads
<1> QED  BY <1>1, <1>2, <1>3, <1>4, <1>5, PopKeepsAnswers DEF Next

-----------------------------------------------------------------------------
(* Third layer: what is announced, queued, popped and consumed *)

(* Any set of ranges is finite. *)
LEMMA RangeSetsAreFinite ==
  ASSUME NEW S \in SUBSET Ranges
  PROVE  /\ IsFiniteSet(S) /\ Cardinality(S) \in Nat
         /\ Cardinality(S) = 0 <=> S = {}
BY StreamerAssumption, FS_Subset, FS_CardinalityType, FS_EmptySet
   DEF StreamerAssumption

(* No response is announced, pushed, popped or consumed. *)
LEMMA AccountsFrame ==
  ASSUME Accounts,
         \A s \in Submissions : Committed(s)' <=> Committed(s),
         \A r \in Ranges :
           Announced(SubmissionOf[r])' <=> Announced(SubmissionOf[r]),
         UNCHANGED <<registry, responses, delivered, consumer, done, running,
                     unexpected>>,
         stopped' = stopped \/ stopped' = TRUE
  PROVE  Accounts'
<1> USE DEF Accounts
<1>1. /\ \A r : IsQueued(r)' <=> IsQueued(r)
      /\ \A r : IsPopped(r)' <=> IsPopped(r)
      /\ \A r : IsConsumed(r)' <=> IsConsumed(r)
  BY DEF IsQueued, IsPopped, IsConsumed, LastPopped
<1>2. \A s : Unconsumed(s)' = Unconsumed(s)
  BY <1>1 DEF Unconsumed, RangesOf
<1>3. Expected' = Expected
  BY <1>1 DEF Expected
<1>4. AccountTypeOK' /\ AnswersAreAnnounced'
  BY <1>1 DEF AccountTypeOK, AnswersAreAnnounced
<1>5. RegistryIsLive'
  BY <1>2 DEF RegistryIsLive, AccountTypeOK
<1>6. RunningIsExpected'
  BY <1>3 DEF RunningIsExpected
<1> QED  BY <1>4, <1>5, <1>6

(* At first nothing is registered, announced or delivered. *)
LEMMA AccountsInit == Init => Accounts
<1> SUFFICES ASSUME Init PROVE Accounts
  OBVIOUS
<1> USE DEF Init, R!Init
<1>1. AccountTypeOK
  BY DEF AccountTypeOK
<1>2. \A r \in Ranges : ~IsQueued(r) /\ ~IsPopped(r)
  BY DEF IsQueued, IsPopped
<1>3. \A s \in Submissions : ~Committed(s) /\ ~Announced(s)
  BY DEF Committed, Accepted, Announced
<1>4. RegistryIsLive
  BY <1>3 DEF RegistryIsLive
<1>5. RunningIsExpected
  <2>1. Expected = {}
    BY <1>3, StreamerAssumption DEF StreamerAssumption, Expected
  <2> QED  BY <2>1, FS_EmptySet DEF RunningIsExpected
<1> QED  BY <1>1, <1>2, <1>4, <1>5 DEF Accounts, AnswersAreAnnounced

(* The registry gets the submission with all its ranges outstanding. *)
LEMMA RegisterKeepsAccounts ==
  ASSUME Work, Accounts, NEW s \in Submissions, Register(s)
  PROVE  Accounts'
<1> USE StreamerAssumption DEF StreamerAssumption, Accounts
<1>1. /\ UNCHANGED <<result, responses, delivered, consumer, done, running,
                     unexpected, stopped>>
      /\ request[s] = "new" /\ RangesOf(s) # {}
      /\ request' = [request EXCEPT ![s] = "registered"]
      /\ registry' = [i \in DOMAIN registry \cup {s} |->
                        IF i = s THEN Cardinality(RangesOf(s)) ELSE registry[i]]
  BY DEF Register, responderVars
<1>2. /\ \A i \in Submissions \ {s} : request'[i] = request[i]
      /\ request'[s] = "registered" /\ result[s] = "none"
  BY <1>1 DEF Work, WorkTypeOK, ResultFollows
<1>3. /\ \A i \in Submissions \ {s} : Committed(i)' <=> Committed(i)
      /\ Committed(s)' /\ ~Committed(s)
  BY <1>1, <1>2 DEF Committed, Accepted, RangesOf
<1>4. /\ \A i \in Submissions : Announced(i)' <=> Announced(i)
      /\ ~Announced(s)
  BY <1>1, <1>2 DEF Announced
<1>5. /\ \A r : IsQueued(r)' <=> IsQueued(r)
      /\ \A r : IsPopped(r)' <=> IsPopped(r)
      /\ \A r : IsConsumed(r)' <=> IsConsumed(r)
  BY <1>1 DEF IsQueued, IsPopped, IsConsumed, LastPopped
<1>6. \A i : Unconsumed(i)' = Unconsumed(i)
  BY <1>5 DEF Unconsumed, RangesOf
<1>7. Unconsumed(s) = RangesOf(s)
  BY <1>4 DEF Unconsumed, IsConsumed, AnswersAreAnnounced, RangesOf
<1>8. Expected' = Expected
  BY <1>4, <1>5 DEF Expected
<1>9. AccountTypeOK' /\ AnswersAreAnnounced'
  BY <1>1, <1>4, <1>5 DEF AccountTypeOK, AnswersAreAnnounced
<1>10. RegistryIsLive'
  <2>1. s \notin done /\ s \notin DOMAIN registry
    BY <1>3 DEF RegistryIsLive
  <2>2. DOMAIN registry' = {i \in Submissions : Committed(i)'} \ done'
    BY <1>1, <1>3, <2>1 DEF RegistryIsLive
  <2>3. \A i \in DOMAIN registry' :
          registry'[i] = Cardinality(Unconsumed(i)') /\ Unconsumed(i)' # {}
    BY <1>1, <1>6, <1>7, <2>1 DEF RegistryIsLive
  <2>4. \A i \in done' : Committed(i)' /\ Unconsumed(i)' = {}
    BY <1>1, <1>3, <1>6, <2>1 DEF RegistryIsLive, AccountTypeOK
  <2> QED  BY <2>2, <2>3, <2>4 DEF RegistryIsLive
<1>11. RunningIsExpected'
  BY <1>1, <1>8 DEF RunningIsExpected
<1> QED  BY <1>9, <1>10, <1>11

(* increment() announces as many responses as the submission has ranges. *)
LEMMA AnnounceKeepsAccounts ==
  ASSUME Work, Accounts, NEW s \in Submissions, Announce(s)
  PROVE  Accounts'
<1> USE StreamerAssumption DEF StreamerAssumption, Accounts
<1>1. /\ UNCHANGED <<result, registry, responses, delivered, consumer, done,
                     unexpected, stopped>>
      /\ request[s] = "registered"
      /\ request' = [request EXCEPT ![s] = "dispatch"]
      /\ running' = running + Cardinality(RangesOf(s))
  BY DEF Announce, R!Increment
<1>2. /\ \A i \in Submissions \ {s} : request'[i] = request[i]
      /\ request'[s] = "dispatch" /\ result[s] = "none"
  BY <1>1 DEF Work, WorkTypeOK, ResultFollows
<1>3. \A i \in Submissions : Committed(i)' <=> Committed(i)
  BY <1>1, <1>2 DEF Committed, Accepted, RangesOf
<1>4. /\ \A i \in Submissions \ {s} : Announced(i)' <=> Announced(i)
      /\ Announced(s)' /\ ~Announced(s)
  BY <1>1, <1>2 DEF Announced
<1>5. /\ \A r : IsQueued(r)' <=> IsQueued(r)
      /\ \A r : IsPopped(r)' <=> IsPopped(r)
      /\ \A r : IsConsumed(r)' <=> IsConsumed(r)
  BY <1>1 DEF IsQueued, IsPopped, IsConsumed, LastPopped
<1>6. \A i : Unconsumed(i)' = Unconsumed(i)
  BY <1>5 DEF Unconsumed, RangesOf
<1>7. AnswersAreAnnounced'
  BY <1>4, <1>5 DEF AnswersAreAnnounced
<1>8. RegistryIsLive'
  BY <1>1, <1>3, <1>6 DEF RegistryIsLive, AccountTypeOK
<1>9. Cardinality(Expected') = Cardinality(Expected) + Cardinality(RangesOf(s))
  <2>1. \A r \in RangesOf(s) : ~IsQueued(r) /\ ~IsPopped(r)
    BY <1>4 DEF AnswersAreAnnounced, RangesOf
  <2>2. Expected' = Expected \cup RangesOf(s)
    BY <1>4, <1>5, <2>1 DEF Expected, RangesOf
  <2>3. Expected \cap RangesOf(s) = {}
    BY <1>4 DEF Expected, RangesOf
  <2>4. IsFiniteSet(Expected) /\ IsFiniteSet(RangesOf(s))
    BY RangeSetsAreFinite DEF Expected, RangesOf
  <2>5. Cardinality(Expected \cup RangesOf(s))
          = Cardinality(Expected) + Cardinality(RangesOf(s)) - Cardinality({})
    BY <2>3, <2>4, FS_Union
  <2> QED  BY <2>2, <2>4, <2>5, FS_EmptySet, FS_CardinalityType
<1>10. AccountTypeOK'
  <2>1. Cardinality(RangesOf(s)) \in Nat
    BY RangeSetsAreFinite DEF RangesOf
  <2> QED  BY <1>1, <2>1 DEF AccountTypeOK
<1>11. RunningIsExpected'
  BY <1>1, <1>9 DEF RunningIsExpected
<1> QED  BY <1>7, <1>8, <1>10, <1>11

(* push() takes from running what it puts in the queue. *)
LEMMA RespondKeepsAccounts ==
  ASSUME Work, Answers, Accounts, NEW a \in Threads, Respond(a)
  PROVE  Accounts'
<1> USE StreamerAssumption DEF StreamerAssumption, Accounts
<1> PICK t \in Tasks, r \in Ranges : t = task[a] /\ r = RangeOf[t]
  BY DEF Respond, Answers, FinishesOwnTask
<1> DEFINE p == [range |-> r, ret |-> ret[r]]
<1>1. /\ UNCHANGED <<request, result, registry, delivered, consumer, done,
                     stopped>>
      /\ pc[a] = "push"
      /\ IF stopped \/ running = 0
         THEN UNCHANGED <<running, responses>>
         ELSE /\ responses' = Append(responses, p)
              /\ running' = running - 1
      /\ unexpected' = (unexpected \/ (~stopped /\ running = 0))
  BY DEF Respond, R!Push, requestVars
<1>2. /\ ~IsQueued(r) /\ ~IsPopped(r) /\ Announced(SubmissionOf[r])
  BY <1>1 DEF Work, Answers, LastResponds, FinishesOwnTask, FinishedWasTaken
<1>3. /\ \A s \in Submissions : Committed(s)' <=> Committed(s)
      /\ \A s \in Submissions : Announced(s)' <=> Announced(s)
  BY <1>1 DEF Committed, Accepted, Announced, RangesOf
<1>4. CASE stopped
  <2>1. UNCHANGED <<running, responses>>
    BY <1>1, <1>4
  <2>2. unexpected' = unexpected
    BY <1>1, <1>4 DEF RunningIsExpected
  <2> QED  BY <1>1, <1>3, <2>1, <2>2, AccountsFrame
<1>5. CASE ~stopped
  <2>1. /\ r \in Expected /\ IsFiniteSet(Expected)
        /\ running = Cardinality(Expected)
    BY <1>2, <1>5, RangeSetsAreFinite DEF Expected, RunningIsExpected
  <2>2. running # 0
    BY <2>1, FS_EmptySet
  <2>3. /\ responses' = Append(responses, p) /\ running' = running - 1
        /\ unexpected' = FALSE
    BY <1>1, <1>5, <2>2 DEF RunningIsExpected
  <2>4. /\ \A q : IsPopped(q)' <=> IsPopped(q)
        /\ \A q : IsConsumed(q)' <=> IsConsumed(q)
    BY <1>1 DEF IsPopped, IsConsumed, LastPopped
  <2>5. \A q : IsQueued(q)' <=> IsQueued(q) \/ q = r
    <3>1. responses \in Seq(Response) /\ Len(responses) \in Nat
      BY DEF Answers, AnswerTypeOK
    <3>2. /\ DOMAIN responses = 1 .. Len(responses)
          /\ DOMAIN responses' = 1 .. Len(responses) + 1
          /\ \A i \in 1 .. Len(responses) : responses'[i] = responses[i]
          /\ responses'[Len(responses) + 1] = p
      BY <2>3, <3>1
    <3>3. p.range = r
      OBVIOUS
    <3> HIDE DEF p
    <3>4. /\ \A i \in DOMAIN responses' :
               i \in DOMAIN responses \/ i = Len(responses) + 1
          /\ DOMAIN responses \subseteq DOMAIN responses'
          /\ Len(responses) + 1 \in DOMAIN responses'
      BY <3>1, <3>2
    <3> QED  BY <3>2, <3>3, <3>4 DEF IsQueued
  <2>6. Expected' = Expected \ {r}
    BY <1>2, <1>3, <2>4, <2>5 DEF Expected
  <2>7. AccountTypeOK'
    BY <1>1, <2>2, <2>3 DEF AccountTypeOK
  <2>8. AnswersAreAnnounced'
    BY <1>2, <1>3, <2>4, <2>5 DEF AnswersAreAnnounced
  <2>9. RegistryIsLive'
    <3>1. \A s : Unconsumed(s)' = Unconsumed(s)
      BY <2>4 DEF Unconsumed, RangesOf
    <3> QED  BY <1>1, <1>3, <3>1 DEF RegistryIsLive, AccountTypeOK
  <2>10. RunningIsExpected'
    <3>1. Cardinality(Expected \ {r}) = Cardinality(Expected) - 1
      BY <2>1, FS_RemoveElement
    <3> QED  BY <1>1, <2>1, <2>3, <2>6, <3>1 DEF RunningIsExpected
  <2> QED  BY <2>7, <2>8, <2>9, <2>10
<1> QED  BY <1>4, <1>5

(* pop() only moves the oldest response to the consumer. *)
LEMMA PopKeepsAccounts ==
  ASSUME Answers, Accounts, PopResponse
  PROVE  Accounts'
<1> USE StreamerAssumption DEF StreamerAssumption, Accounts
<1>1. /\ UNCHANGED <<request, result, registry, done, running, stopped,
                     unexpected>>
      /\ consumer = "idle" /\ consumer' = "consume"
      /\ responses # <<>>
      /\ delivered' = Append(delivered, Head(responses))
      /\ responses' = Tail(responses)
  BY DEF PopResponse, R!PopResponse, requestVars
<1>2. /\ responses \in Seq(Response) /\ Len(responses) \in Nat \ {0}
      /\ delivered \in Seq(Response) /\ Len(delivered) \in Nat
  BY <1>1 DEF Answers, AnswerTypeOK
<1> PICK p \in Response, r \in Ranges : p = Head(responses) /\ p.range = r
  <2>1. Head(responses) \in Response
    BY <1>1, <1>2
  <2> QED  BY <2>1 DEF Response
<1>3. /\ 1 \in DOMAIN responses /\ responses[1] = p
      /\ DOMAIN responses = 1 .. Len(responses)
      /\ DOMAIN responses' = 1 .. Len(responses) - 1
      /\ \A i \in DOMAIN responses' : responses'[i] = responses[i + 1]
      /\ DOMAIN delivered = 1 .. Len(delivered)
      /\ DOMAIN delivered' = 1 .. Len(delivered) + 1
      /\ \A i \in DOMAIN delivered : delivered'[i] = delivered[i]
      /\ delivered'[Len(delivered) + 1] = p
      /\ Len(delivered') = Len(delivered) + 1
  BY <1>1, <1>2
<1>4. IsQueued(r) /\ ~IsPopped(r)
  BY <1>3 DEF IsQueued, Answers, AnsweredOnce
<1>5. \A q : IsPopped(q)' <=> IsPopped(q) \/ q = r
  <2>1. /\ \A i \in DOMAIN delivered' :
             i \in DOMAIN delivered \/ i = Len(delivered) + 1
        /\ DOMAIN delivered \subseteq DOMAIN delivered'
        /\ Len(delivered) + 1 \in DOMAIN delivered'
    BY <1>2, <1>3
  <2> QED  BY <1>3, <2>1 DEF IsPopped
<1>6. \A q : IsQueued(q)' \/ q = r <=> IsQueued(q)
  <2>1. /\ \A i \in DOMAIN responses : i = 1 \/ i - 1 \in DOMAIN responses'
        /\ \A i \in DOMAIN responses' : i + 1 \in DOMAIN responses
    BY <1>2, <1>3
  <2>2. \A i \in DOMAIN responses : i # 1 => responses'[i - 1] = responses[i]
    BY <1>2, <1>3, <2>1
  <2>3. ASSUME NEW q, IsQueued(q)' \/ q = r PROVE IsQueued(q)
    <3>1. CASE q = r
      BY <1>4, <3>1
    <3>2. ASSUME NEW i \in DOMAIN responses', responses'[i].range = q
          PROVE  IsQueued(q)
      BY <1>3, <2>1, <3>2 DEF IsQueued
    <3> QED  BY <2>3, <3>1, <3>2 DEF IsQueued
  <2>4. ASSUME NEW q, IsQueued(q) PROVE IsQueued(q)' \/ q = r
    <3> PICK i \in DOMAIN responses : responses[i].range = q
      BY <2>4 DEF IsQueued
    <3> QED  BY <1>3, <2>1, <2>2 DEF IsQueued
  <2> QED  BY <2>3, <2>4
<1>7. \A q : IsConsumed(q)' <=> IsConsumed(q)
  <2>1. LastPopped'.range = r
    BY <1>3 DEF LastPopped
  <2> QED  BY <1>1, <1>4, <1>5, <2>1 DEF IsConsumed
<1>8. /\ \A s \in Submissions : Committed(s)' <=> Committed(s)
      /\ \A s \in Submissions : Announced(s)' <=> Announced(s)
  BY <1>1 DEF Committed, Accepted, Announced, RangesOf
<1>9. Expected' = Expected
  BY <1>5, <1>6, <1>8 DEF Expected
<1>10. AccountTypeOK' /\ AnswersAreAnnounced'
  BY <1>1, <1>4, <1>5, <1>6, <1>8 DEF AccountTypeOK, AnswersAreAnnounced
<1>11. RegistryIsLive'
  <2>1. \A s : Unconsumed(s)' = Unconsumed(s)
    BY <1>7 DEF Unconsumed, RangesOf
  <2> QED  BY <1>1, <1>8, <2>1 DEF RegistryIsLive, AccountTypeOK
<1>12. RunningIsExpected'
  <2>1. delivered' # <<>>
    BY <1>2, <1>3
  <2> QED  BY <1>1, <1>9, <2>1 DEF RunningIsExpected
<1> QED  BY <1>10, <1>11, <1>12

(* consume() takes the range of the last popped response off its           *)
(* submission, and the submission off the registry with its last range.    *)
LEMMA ConsumeCounts ==
  ASSUME Answers, Accounts, Consume
  PROVE  \E r \in Ranges :
           LET s == SubmissionOf[r]
           IN  /\ s \in DOMAIN registry /\ r \in Unconsumed(s)
               /\ \A q \in Ranges : IsConsumed(q)' <=> IsConsumed(q) \/ q = r
               /\ IF Unconsumed(s) \ {r} = {}
                  THEN /\ registry' =
                            [i \in DOMAIN registry \ {s} |-> registry[i]]
                       /\ done' = done \cup {s}
                  ELSE /\ registry' = [registry EXCEPT ![s] = @ - 1]
                       /\ done' = done
<1> USE StreamerAssumption DEF StreamerAssumption, Answers, Accounts
<1>1. /\ delivered' = delivered /\ delivered # <<>>
      /\ consumer = "consume" /\ consumer' = "idle"
  BY DEF Consume, responderVars, RunningIsExpected
<1>2. Len(delivered) \in DOMAIN delivered
  BY <1>1 DEF AnswerTypeOK
<1> PICK r \in Ranges : r = LastPopped.range
  BY <1>2, ResponsesAreTyped DEF LastPopped
<1>3. IsPopped(r)
  BY <1>2 DEF IsPopped, LastPopped
<1>4. \A q \in Ranges : IsConsumed(q)' <=> IsConsumed(q) \/ q = r
  BY <1>1, <1>3 DEF IsConsumed, IsPopped, LastPopped
<1>5. SubmissionOf[r] \in DOMAIN registry
  BY DEF Consume
<1> PICK s \in Submissions : s = SubmissionOf[r]
  OBVIOUS
<1>6. r \in Unconsumed(s)
  BY <1>1 DEF Unconsumed, RangesOf, IsConsumed
<1>7. registry[s] = 1 <=> Unconsumed(s) \ {r} = {}
  <2>1. /\ IsFiniteSet(Unconsumed(s))
        /\ registry[s] = Cardinality(Unconsumed(s))
        /\ Cardinality(Unconsumed(s)) \in Nat
    BY <1>5, RangeSetsAreFinite DEF RegistryIsLive, Unconsumed, RangesOf
  <2>2. /\ Cardinality(Unconsumed(s) \ {r}) = Cardinality(Unconsumed(s)) - 1
        /\ IsFiniteSet(Unconsumed(s) \ {r})
    BY <1>6, <2>1, FS_RemoveElement
  <2>3. Cardinality(Unconsumed(s) \ {r}) = 0 <=> Unconsumed(s) \ {r} = {}
    BY <2>2, FS_EmptySet
  <2> QED  BY <2>1, <2>2, <2>3
<1> QED  BY <1>4, <1>5, <1>6, <1>7 DEF Consume

(* consume() keeps the registry true to the ranges not consumed. *)
LEMMA ConsumeKeepsAccounts ==
  ASSUME Answers, Accounts, Consume
  PROVE  Accounts'
<1> USE StreamerAssumption DEF StreamerAssumption, Accounts
<1>1. /\ UNCHANGED <<request, result, responses, delivered, running, stopped,
                     unexpected>>
      /\ consumer' = "idle"
  BY DEF Consume, requestVars, responderVars
<1> PICK r \in Ranges, s \in Submissions :
      /\ s = SubmissionOf[r]
      /\ s \in DOMAIN registry /\ r \in Unconsumed(s)
      /\ \A q \in Ranges : IsConsumed(q)' <=> IsConsumed(q) \/ q = r
      /\ IF Unconsumed(s) \ {r} = {}
         THEN /\ registry' = [i \in DOMAIN registry \ {s} |-> registry[i]]
              /\ done' = done \cup {s}
         ELSE /\ registry' = [registry EXCEPT ![s] = @ - 1]
              /\ done' = done
  BY ConsumeCounts
<1>2. /\ Unconsumed(s)' = Unconsumed(s) \ {r}
      /\ \A i \in Submissions \ {s} : Unconsumed(i)' = Unconsumed(i)
  BY DEF Unconsumed, RangesOf
<1>3. /\ \A i \in Submissions : Committed(i)' <=> Committed(i)
      /\ \A i \in Submissions : Announced(i)' <=> Announced(i)
  BY <1>1 DEF Committed, Accepted, Announced, RangesOf
<1>4. /\ \A q : IsQueued(q)' <=> IsQueued(q)
      /\ \A q : IsPopped(q)' <=> IsPopped(q)
  BY <1>1 DEF IsQueued, IsPopped
<1>5. AccountTypeOK' /\ AnswersAreAnnounced'
  BY <1>1, <1>3, <1>4 DEF AccountTypeOK, AnswersAreAnnounced
<1>6. RegistryIsLive'
  <2>1. DOMAIN registry' = {i \in Submissions : Committed(i)'} \ done'
    BY <1>3 DEF RegistryIsLive
  <2>2. ASSUME NEW i \in DOMAIN registry'
        PROVE  registry'[i] = Cardinality(Unconsumed(i)') /\ Unconsumed(i)' # {}
    <3>1. i \in DOMAIN registry /\ i \in Submissions
      BY <2>1, <2>2 DEF RegistryIsLive
    <3>2. CASE i # s
      BY <1>2, <3>1, <3>2 DEF RegistryIsLive
    <3>3. CASE i = s
      <4>1. Unconsumed(s) \ {r} # {} /\ registry'[s] = registry[s] - 1
        BY <2>2, <3>3
      <4>2. Cardinality(Unconsumed(s) \ {r}) = Cardinality(Unconsumed(s)) - 1
        <5>1. IsFiniteSet(Unconsumed(s)) /\ r \in Unconsumed(s)
          BY RangeSetsAreFinite DEF Unconsumed, RangesOf
        <5> QED  BY <5>1, FS_RemoveElement
      <4> QED  BY <1>2, <3>3, <4>1, <4>2 DEF RegistryIsLive
    <3> QED  BY <3>2, <3>3
  <2>3. \A i \in done' : Committed(i)' /\ Unconsumed(i)' = {}
    BY <1>2, <1>3 DEF RegistryIsLive, AccountTypeOK
  <2> QED  BY <2>1, <2>2, <2>3 DEF RegistryIsLive
<1>7. RunningIsExpected'
  <2>1. Expected' = Expected
    BY <1>3, <1>4 DEF Expected
  <2> QED  BY <1>1, <2>1 DEF RunningIsExpected
<1> QED  BY <1>5, <1>6, <1>7

(* Every step keeps Accounts: no response is unaccounted for. *)
LEMMA AccountsNext == Work /\ Answers /\ Accounts /\ [Next]_vars => Accounts'
<1> SUFFICES ASSUME Work, Answers, Accounts, [Next]_vars PROVE Accounts'
  OBVIOUS
<1> USE StreamerAssumption DEF StreamerAssumption
<1>1. ASSUME NEW s \in Submissions,
             \/ Reject(s) \/ EmptyRequest(s)
             \/ Dispatch(s) \/ DispatchThrows(s) \/ Dispatched(s)
             \/ DrainWorkload(s) \/ Drained(s)
      PROVE  Accounts'
  <2>1. UNCHANGED <<registry, responses, delivered, consumer, done, running,
                    unexpected, stopped>>
    BY <1>1 DEF Reject, EmptyRequest, Dispatch, DispatchThrows, Dispatched,
       DrainWorkload, Drained, responderVars
  <2>2. /\ \A i \in Submissions \ {s} :
             request'[i] = request[i] /\ result'[i] = result[i]
        /\ \/ /\ request[s] = "new" /\ request'[s] = "returned"
              /\ result'[s] = "Rejected" \/ RangesOf(s) = {}
           \/ /\ request[s] \in {"dispatch", "drain"}
              /\ request'[s] \in {"dispatch", "drain", "returned"}
              /\ result[s] # "Rejected" /\ result'[s] # "Rejected"
    BY <1>1 DEF Reject, EmptyRequest, Dispatch, DispatchThrows, Dispatched,
       DrainWorkload, Drained, Work, WorkTypeOK, ResultFollows
  <2>3. \A i \in Submissions : Committed(i)' <=> Committed(i)
    BY <2>2 DEF Committed, Accepted, RangesOf
  <2>4. \A r \in Ranges :
          Announced(SubmissionOf[r])' <=> Announced(SubmissionOf[r])
    BY <2>2 DEF Announced, RangesOf
  <2> QED  BY <2>1, <2>3, <2>4, AccountsFrame
<1>2. CASE \/ \E a \in Threads :
                \/ NextBatch(a) \/ WorkloadDone(a) \/ RespondThrows(a)
                \/ FinishTask(a) \/ CountDown(a) \/ LoopDone(a)
           \/ \E k \in Workers : WorkerStep(k)
           \/ StopResponder \/ DestructorStep \/ Gone \/ UNCHANGED vars
  <2>1. /\ UNCHANGED <<request, result, registry, responses, delivered,
                       consumer, done, running, unexpected>>
        /\ stopped' = stopped \/ stopped' = TRUE
    BY <1>2 DEF NextBatch, WorkloadDone, FinishTask, CountDown, LoopDone,
       RespondThrows, WorkerStep, TakeWorkload, WorkerExit, OpenFile, StartRead, ReadTasks,
       ReadFails, ReadStopped, BatchRead, StopResponder, R!Stop,
       DestructorStep, StopFlag, StopDeque, Join, Gone, vars, requestVars,
       responderVars
  <2>2. /\ \A s \in Submissions : Committed(s)' <=> Committed(s)
        /\ \A s \in Submissions : Announced(s)' <=> Announced(s)
    BY <2>1 DEF Committed, Accepted, Announced, RangesOf
  <2> QED  BY <2>1, <2>2, AccountsFrame
<1> QED  BY <1>1, <1>2, RegisterKeepsAccounts, AnnounceKeepsAccounts,
            RespondKeepsAccounts, PopKeepsAccounts, ConsumeKeepsAccounts
         DEF Next, RequestStep, ThreadStep

(* Only a range of the streamer is ever lost. *)
LEMMA LostNext == Work /\ Answers /\ LostTypeOK /\ [Next]_vars => LostTypeOK'
<1> SUFFICES ASSUME Work, Answers, LostTypeOK, [Next]_vars PROVE LostTypeOK'
  OBVIOUS
<1>1. ASSUME NEW a \in Threads, RespondThrows(a)
      PROVE  LostTypeOK'
  <2>1. /\ RangeOf[task[a]] \in Ranges
        /\ lost' = lost \cup {RangeOf[task[a]]}
    BY <1>1, StreamerAssumption
       DEF RespondThrows, Answers, FinishesOwnTask, StreamerAssumption
  <2> QED  BY <2>1 DEF LostTypeOK
<1>2. ASSUME NEW s \in Submissions,
             Reject(s) \/ EmptyRequest(s) \/ Register(s) \/ RequestStep(s)
      PROVE  lost' = lost
  BY <1>2 DEF Reject, EmptyRequest, Register, RequestStep, Announce, Dispatch,
     DispatchThrows, Dispatched, DrainWorkload, Drained, taskVars
<1>3. ASSUME NEW a \in Threads, ThreadStep(a), ~RespondThrows(a)
      PROVE  lost' = lost
  BY <1>3 DEF ThreadStep, NextBatch, WorkloadDone, FinishTask, CountDown,
     Respond, LoopDone, taskVars
<1>4. ASSUME NEW k \in Workers, WorkerStep(k)
      PROVE  lost' = lost
  BY <1>4 DEF WorkerStep, TakeWorkload, WorkerExit, OpenFile, StartRead,
     ReadTasks, ReadFails, ReadStopped, BatchRead, taskVars
<1>5. CASE \/ PopResponse \/ Consume \/ StopResponder \/ DestructorStep \/ Gone
           \/ UNCHANGED vars
  <2>1. lost' = lost
    BY <1>5 DEF PopResponse, Consume, StopResponder, DestructorStep, StopFlag,
       StopDeque, Join, Gone, vars, taskVars
  <2> QED  BY <2>1 DEF LostTypeOK
<1> QED  BY <1>1, <1>2, <1>3, <1>4, <1>5 DEF Next, LostTypeOK

-----------------------------------------------------------------------------
(* The theorems *)

(* The three layers hold in every state of every execution. *)
THEOREM Inductive == Spec => []IInv
<1>1. Init => IInv
  BY WorkInit, AnswersInit, AccountsInit DEF IInv, Init, LostTypeOK
<1>2. IInv /\ [Next]_vars => IInv'
  BY WorkNext, AnswersNext, AccountsNext, LostNext DEF IInv
<1> QED  BY <1>1, <1>2, PTL DEF Spec

(* Every variable keeps its type, whatever threads and calls interleave. *)
THEOREM TypeCorrect == Spec => []TypeOK
<1>1. IInv => TypeOK
  BY DEF IInv, Work, Answers, Accounts, TypeOK
<1> QED  BY <1>1, Inductive, PTL

(* Once response() reports a submission done, all its tasks are finished   *)
(* and no worker reads, or is going to read, into its buffers.             *)
THEOREM DoneIsSafe == Spec => []DoneFreesBuffers
<1>1. ASSUME IInv
      PROVE  DoneFreesBuffers
  <2> USE <1>1, StreamerAssumption DEF StreamerAssumption, IInv
  <2>1. ASSUME NEW s \in done, NEW t \in Tasks, SubmissionOf[RangeOf[t]] = s
        PROVE  verdict[t] # "none"
    <3>1. RangeOf[t] \in RangesOf(s)
      BY <2>1 DEF RangesOf
    <3>2. Unconsumed(s) = {}
      BY DEF Accounts, RegistryIsLive
    <3>3. IsPopped(RangeOf[t])
      BY <3>1, <3>2 DEF Unconsumed, IsConsumed
    <3>4. Uncounted(RangeOf[t]) = {}
      BY <3>3 DEF IsPopped, Answers, AnsweredOnce
    <3> QED  BY <3>4 DEF Uncounted, TasksOf
  <2>2. \A k \in Threads : \A t \in rest[k] : t \in Tasks /\ verdict[t] = "none"
    BY DEF Work, WorkTypeOK, TasksAreInBatch
  <2>3. \A k \in Workers : k \in Threads
    BY DEF Threads
  <2> QED  BY <2>1, <2>2, <2>3 DEF DoneFreesBuffers, finished
<1> QED  BY <1>1, Inductive, PTL

(* A response in the queue, or popped and not yet consumed, was announced, *)
(* and its submission is registered with at least that many outstanding.   *)
LEMMA ResponsesAreOwed == IInv => ResponseIsOwed
<1> SUFFICES ASSUME IInv, NEW s \in Submissions
             PROVE  LET queued == {i \in DOMAIN responses :
                                     SubmissionOf[responses[i].range] = s}
                        popped == IF /\ consumer = "consume"
                                     /\ SubmissionOf[LastPopped.range] = s
                                  THEN 1 ELSE 0
                        owed == Cardinality(queued) + popped
                    IN  owed > 0 => s \in DOMAIN registry /\ owed <= registry[s]
  BY DEF ResponseIsOwed, IInv, Accounts, RunningIsExpected
<1> DEFINE queued == {i \in DOMAIN responses :
                        SubmissionOf[responses[i].range] = s}
           isPopped ==
             consumer = "consume" /\ SubmissionOf[LastPopped.range] = s
           waiting == IF isPopped THEN Unconsumed(s) \ {LastPopped.range}
                      ELSE Unconsumed(s)
           range == [i \in queued |-> responses[i].range]
<1> USE StreamerAssumption DEF StreamerAssumption, IInv, Answers, Accounts
<1>1. /\ \A i \in DOMAIN responses :
           /\ responses[i].range \in Ranges /\ IsQueued(responses[i].range)
           /\ ~IsPopped(responses[i].range)
           /\ Announced(SubmissionOf[responses[i].range])
  BY ResponsesAreTyped DEF IsQueued, AnsweredOnce, AnswersAreAnnounced
<1>2. isPopped => /\ LastPopped.range \in Unconsumed(s)
                  /\ IsPopped(LastPopped.range) /\ Announced(s)
  <2>1. SUFFICES ASSUME isPopped
                 PROVE  /\ LastPopped.range \in Unconsumed(s)
                        /\ IsPopped(LastPopped.range) /\ Announced(s)
    OBVIOUS
  <2>2. Len(delivered) \in DOMAIN delivered
    BY <2>1 DEF RunningIsExpected, AnswerTypeOK
  <2>3. LastPopped.range \in Ranges /\ IsPopped(LastPopped.range)
    BY <2>2, ResponsesAreTyped DEF LastPopped, IsPopped
  <2> QED  BY <2>1, <2>3
              DEF Unconsumed, RangesOf, IsConsumed, AnswersAreAnnounced
<1>3. range \in Injection(queued, waiting)
  <2>1. range \in [queued -> waiting]
    <3>1. \A i \in queued : /\ responses[i].range \in Unconsumed(s)
                            /\ isPopped => responses[i].range # LastPopped.range
      BY <1>1, <1>2 DEF Unconsumed, RangesOf, IsConsumed
    <3> QED  BY <3>1
  <2>2. \A i, j \in queued : range[i] = range[j] => i = j
    BY DEF AnsweredOnce
  <2> QED  BY <2>1, <2>2 DEF Injection, IsInjective
<1>4. /\ IsFiniteSet(Unconsumed(s)) /\ Cardinality(Unconsumed(s)) \in Nat
      /\ IsFiniteSet(waiting) /\ Cardinality(waiting) \in Nat
  BY RangeSetsAreFinite DEF Unconsumed, RangesOf
<1>5. IsFiniteSet(queued) /\ Cardinality(queued) <= Cardinality(waiting)
  BY <1>3, <1>4, FS_Injection
<1>6. Cardinality(waiting)
        = Cardinality(Unconsumed(s)) - (IF isPopped THEN 1 ELSE 0)
  BY <1>2, <1>4, FS_RemoveElement
<1>7. ASSUME queued # {} \/ isPopped
      PROVE  s \in DOMAIN registry
  <2>1. Announced(s) /\ Unconsumed(s) # {} /\ RangesOf(s) # {}
    BY <1>1, <1>2, <1>7 DEF Unconsumed, RangesOf, IsConsumed
  <2>2. Committed(s)
    BY <2>1 DEF Committed, Accepted, Announced
  <2> QED  BY <2>1, <2>2 DEF RegistryIsLive
<1>8. Cardinality(queued) \in Nat /\ (queued = {} => Cardinality(queued) = 0)
  BY <1>5, FS_CardinalityType, FS_EmptySet
<1>9. s \in DOMAIN registry => registry[s] = Cardinality(Unconsumed(s))
  BY DEF RegistryIsLive
<1> HIDE DEF queued, isPopped, waiting, range
<1>10. Cardinality(queued) + (IF isPopped THEN 1 ELSE 0) > 0 =>
         /\ s \in DOMAIN registry
         /\ Cardinality(queued) + (IF isPopped THEN 1 ELSE 0) <= registry[s]
  BY <1>4, <1>5, <1>6, <1>7, <1>8, <1>9
<1> QED  BY <1>10 DEF queued, isPopped

(* The code of a queued response is Success exactly when every task of the *)
(* range succeeded, and otherwise the code of one of its failed tasks.     *)
LEMMA ResponsesAreTruthful == IInv => ResponseIsTruthful
<1> SUFFICES ASSUME IInv, NEW i \in DOMAIN responses
             PROVE  LET verdicts == {verdict[t] :
                                       t \in TasksOf(responses[i].range)}
                    IN  IF verdicts = {"Success"}
                        THEN responses[i].ret = "Success"
                        ELSE responses[i].ret \in verdicts \ {"Success"}
  BY DEF ResponseIsTruthful
<1> USE StreamerAssumption DEF StreamerAssumption, IInv, Answers
<1> PICK r \in Ranges : r = responses[i].range
  BY ResponsesAreTyped
<1>1. \A t \in TasksOf(r) : verdict[t] # "none"
  BY DEF AnsweredOnce, Uncounted
<1>2. TasksOf(r) # {}
  OBVIOUS
<1>3. /\ responses[i].ret = ret[r]
      /\ IF ret[r] = "Success"
         THEN \A t \in TasksOf(r) : verdict[t] \in {"none", "Success"}
         ELSE \E t \in TasksOf(r) : verdict[t] = ret[r]
  BY DEF CodesAreTrue
<1> QED  BY <1>1, <1>2, <1>3

(* Every queued response is owed to the caller and true. *)
THEOREM ResponsesCorrect == Spec => []ResponsesAreRight
<1>1. IInv => ResponsesAreRight
  BY ResponsesAreOwed, ResponsesAreTruthful DEF ResponsesAreRight
<1> QED  BY <1>1, Inductive, PTL

-----------------------------------------------------------------------------
(* The contract: one response per range, done with the last *)

(* The variables of the contract, in the words of the invariant.           *)
Owing == {s \in Submissions : Committed(s)}
Outstanding == {r \in Ranges : Accepted(SubmissionOf[r]) /\ ~IsConsumed(r)}

Mapped ==
  /\ {s \in Submissions : Accepted(s) /\ RangesOf(s) # {}} = Owing
  /\ {r \in Ranges \ Consumed : Accepted(SubmissionOf[r])} = Outstanding

(* The contract sees the accepted submissions, and what none consumed yet. *)
LEMMA MappedState == IInv => Mapped
<1> SUFFICES ASSUME IInv
             PROVE  \A r \in Ranges : r \in Consumed <=> IsConsumed(r)
  BY DEF Mapped, Owing, Outstanding, Committed
<1>1. /\ Len(delivered) \in Nat /\ DOMAIN delivered = 1 .. Len(delivered)
      /\ consumer = "consume" => Len(delivered) \in DOMAIN delivered
  BY DEF IInv, Answers, AnswerTypeOK, Accounts, RunningIsExpected
<1>2. CASE consumer # "consume"
  BY <1>1, <1>2 DEF Consumed, IsConsumed, IsPopped
<1>3. CASE consumer = "consume"
  <2>1. \A i \in DOMAIN delivered :
          delivered[i].range = LastPopped.range <=> i = Len(delivered)
    BY <1>1, <1>3 DEF LastPopped, IInv, Answers, AnsweredOnce
  <2>2. Consumed = {delivered[i].range : i \in 1 .. Len(delivered) - 1}
    BY <1>3 DEF Consumed
  <2>3. \A i \in DOMAIN delivered :
          i # Len(delivered) <=> i \in 1 .. Len(delivered) - 1
    BY <1>1
  <2>4. 1 .. Len(delivered) - 1 \subseteq DOMAIN delivered
    BY <1>1
  <2> QED  BY <1>3, <2>1, <2>2, <2>3, <2>4 DEF IsConsumed, IsPopped
<1> QED  BY <1>2, <1>3

(* Every step of the streamer is a step of the contract or a stutter. *)
LEMMA StepMaps ==
  ASSUME IInv, [Next]_vars
  PROVE  \/ \E s \in Submissions \ Owing :
              /\ RangesOf(s) # {}
              /\ Owing' = Owing \cup {s}
              /\ Outstanding' = Outstanding \cup RangesOf(s)
              /\ done' = done
         \/ \E r \in Outstanding :
              /\ Outstanding' = Outstanding \ {r}
              /\ done' = IF Outstanding' \cap RangesOf(SubmissionOf[r]) = {}
                         THEN done \cup {SubmissionOf[r]}
                         ELSE done
              /\ Owing' = Owing
         \/ UNCHANGED <<Owing, Outstanding, done>>
<1> USE StreamerAssumption DEF StreamerAssumption, IInv
<1>1. ASSUME NEW s \in Submissions, Register(s)
      PROVE  /\ s \notin Owing /\ RangesOf(s) # {}
             /\ Owing' = Owing \cup {s}
             /\ Outstanding' = Outstanding \cup RangesOf(s)
             /\ done' = done
  <2>1. /\ UNCHANGED <<result, delivered, consumer, done>>
        /\ RangesOf(s) # {} /\ request[s] = "new" /\ result[s] = "none"
        /\ request'[s] = "registered"
        /\ \A i \in Submissions \ {s} : request'[i] = request[i]
    BY <1>1 DEF Register, responderVars, Work, WorkTypeOK, ResultFollows
  <2>2. /\ \A i \in Submissions \ {s} : Accepted(i)' <=> Accepted(i)
        /\ Accepted(s)' /\ ~Accepted(s)
    BY <2>1 DEF Accepted
  <2>3. \A r : IsConsumed(r)' <=> IsConsumed(r)
    BY <2>1 DEF IsConsumed, IsPopped, LastPopped
  <2>4. \A r \in RangesOf(s) : ~IsConsumed(r)
    BY <2>1 DEF Accounts, AnswersAreAnnounced, RangesOf, IsConsumed, Announced
  <2>5. Owing' = Owing \cup {s} /\ s \notin Owing
    BY <2>1, <2>2 DEF Owing, Committed, RangesOf
  <2>6. Outstanding' = Outstanding \cup RangesOf(s)
    BY <2>2, <2>3, <2>4 DEF Outstanding, RangesOf
  <2> QED  BY <2>1, <2>5, <2>6
<1>2. CASE Consume
  <2>1. PICK r \in Ranges, s \in Submissions :
          /\ s = SubmissionOf[r]
          /\ s \in DOMAIN registry /\ r \in Unconsumed(s)
          /\ \A q \in Ranges : IsConsumed(q)' <=> IsConsumed(q) \/ q = r
          /\ IF Unconsumed(s) \ {r} = {}
             THEN /\ registry' = [i \in DOMAIN registry \ {s} |-> registry[i]]
                  /\ done' = done \cup {s}
             ELSE /\ registry' = [registry EXCEPT ![s] = @ - 1]
                  /\ done' = done
    BY <1>2, ConsumeCounts
  <2>2. \A i \in Submissions : Accepted(i)' <=> Accepted(i)
    BY <1>2 DEF Consume, requestVars, Accepted
  <2>3. Accepted(s)
    BY <2>1 DEF Accounts, RegistryIsLive, Committed
  <2>4. /\ Outstanding' = Outstanding \ {r} /\ r \in Outstanding
        /\ Owing' = Owing
    BY <2>1, <2>2, <2>3 DEF Outstanding, Owing, Committed, RangesOf, Unconsumed
  <2>5. Outstanding' \cap RangesOf(s) = Unconsumed(s) \ {r}
    BY <2>1, <2>3, <2>4 DEF Outstanding, Unconsumed, RangesOf
  <2> QED  BY <2>1, <2>4, <2>5
<1>3. ASSUME NEW s \in Submissions,
             Reject(s) \/ EmptyRequest(s) \/ RequestStep(s)
      PROVE  UNCHANGED <<Owing, Outstanding, done>>
  <2>1. /\ UNCHANGED <<delivered, consumer, done>>
        /\ \A i \in Submissions \ {s} :
             request'[i] = request[i] /\ result'[i] = result[i]
        /\ \/ /\ request[s] = "new" /\ request'[s] # "new"
              /\ result'[s] = "Rejected" \/ RangesOf(s) = {}
           \/ /\ request[s] # "new" /\ request'[s] # "new"
              /\ result[s] # "Rejected" /\ result'[s] # "Rejected"
    BY <1>3 DEF Reject, EmptyRequest, RequestStep, Announce, Dispatch,
       DispatchThrows, Dispatched, DrainWorkload, Drained, R!Increment,
       responderVars, Work, WorkTypeOK, ResultFollows
  <2>2. \A i \in Submissions :
          RangesOf(i) # {} => (Accepted(i)' <=> Accepted(i))
    BY <2>1 DEF Accepted
  <2>3. \A r : IsConsumed(r)' <=> IsConsumed(r)
    BY <2>1 DEF IsConsumed, IsPopped, LastPopped
  <2> QED  BY <2>1, <2>2, <2>3 DEF Owing, Outstanding, Committed, RangesOf
<1>4. CASE PopResponse
  <2>1. /\ UNCHANGED <<request, result, done>>
        /\ consumer = "idle" /\ consumer' = "consume" /\ responses # <<>>
        /\ delivered' = Append(delivered, Head(responses))
    BY <1>4 DEF PopResponse, R!PopResponse, requestVars
  <2>2. /\ Len(delivered) \in Nat /\ DOMAIN delivered = 1 .. Len(delivered)
        /\ DOMAIN delivered' = 1 .. Len(delivered) + 1
        /\ \A i \in DOMAIN delivered : delivered'[i] = delivered[i]
        /\ Len(delivered') = Len(delivered) + 1
        /\ delivered'[Len(delivered) + 1] = responses[1]
        /\ 1 \in DOMAIN responses
    BY <2>1 DEF Answers, AnswerTypeOK
  <2>3. ~IsPopped(responses[1].range)
    BY <2>2 DEF Answers, AnsweredOnce
  <2>4. \A r : IsConsumed(r)' <=> IsConsumed(r)
    <3>1. \A r : IsPopped(r)' <=> IsPopped(r) \/ r = responses[1].range
      <4>1. /\ \A i \in DOMAIN delivered' :
                 i \in DOMAIN delivered \/ i = Len(delivered) + 1
            /\ DOMAIN delivered \subseteq DOMAIN delivered'
            /\ Len(delivered) + 1 \in DOMAIN delivered'
        BY <2>2
      <4> QED  BY <2>2, <4>1 DEF IsPopped
    <3>2. LastPopped'.range = responses[1].range
      BY <2>2 DEF LastPopped
    <3> QED  BY <2>1, <2>3, <3>1, <3>2 DEF IsConsumed
  <2> QED  BY <2>1, <2>4 DEF Owing, Outstanding, Committed, Accepted, RangesOf
<1>5. CASE \/ \E a \in Threads : ThreadStep(a)
           \/ \E k \in Workers : WorkerStep(k)
           \/ StopResponder \/ DestructorStep \/ Gone \/ UNCHANGED vars
  <2>1. UNCHANGED <<request, result, delivered, consumer, done>>
    BY <1>5 DEF ThreadStep, NextBatch, WorkloadDone, FinishTask, CountDown,
       Respond, R!Push, RespondThrows, LoopDone, WorkerStep, TakeWorkload,
       WorkerExit,
       OpenFile, StartRead, ReadTasks, ReadFails, ReadStopped, BatchRead,
       StopResponder, R!Stop, DestructorStep, StopFlag, StopDeque, Join, Gone,
       vars, requestVars, responderVars
  <2>2. \A r : IsConsumed(r)' <=> IsConsumed(r)
    BY <2>1 DEF IsConsumed, IsPopped, LastPopped
  <2> QED  BY <2>1, <2>2 DEF Owing, Outstanding, Committed, Accepted, RangesOf
<1> QED  BY <1>1, <1>2, <1>3, <1>4, <1>5 DEF Next

(* The streamer implements the contract: the last response that response() *)
(* returns for a submission, and no other, reports it done; nothing that   *)
(* fails in dispatch, open or read repeats or invents a response, nor does *)
(* a push that throws.                                                     *)
THEOREM ContractHolds == Spec => ImplementsContract
<1>1. Init => Contract!Init
  <2>1. SUFFICES ASSUME Init PROVE Contract!Init
    OBVIOUS
  <2>2. \A s \in Submissions : ~Accepted(s)
    BY <2>1 DEF Init, Accepted
  <2> QED  BY <2>1, <2>2, StreamerAssumption
           DEF StreamerAssumption, Init, Contract!Init
<1>2. IInv' => Mapped'
  BY MappedState, PTL
<1>3. IInv /\ IInv' /\ [Next]_vars =>
        [Contract!Next]_<<{s \in Submissions : Accepted(s) /\ RangesOf(s) # {}},
                          {r \in Ranges \ Consumed : Accepted(SubmissionOf[r])},
                          done>>
  BY <1>2, MappedState, StepMaps
     DEF Mapped, Contract!Next, Contract!Accept, Contract!Deliver,
         Contract!RangesOf, RangesOf
<1> QED  BY <1>1, <1>3, Inductive, PTL
         DEF Spec, ImplementsContract, Contract!Spec

=============================================================================
