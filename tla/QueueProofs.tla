----------------------------- MODULE QueueProofs -----------------------------
(***************************************************************************)
(* For every set of producers and stoppers, both modes and every number of *)
(* expected responses: SharedQueue keeps its token accounting, so that a   *)
(* consumer that was woken finds a response, and implements Responder.     *)
(* For any number of threads, any finite set of requests and any threads   *)
(* that cannot be created: ThreadPool, whose Deque is the other queue with *)
(* a semaphore, has every request in one place.                            *)
(***************************************************************************)
EXTENDS SharedQueue, ThreadPool, FiniteSetTheorems, SequenceTheorems, TLAPS

-----------------------------------------------------------------------------
(* SharedQueue *)

(* The type invariant of SharedQueue: no semaphore or counter goes below   *)
(* zero in any interleaving of push, pop and stop.                         *)
THEOREM TypeCorrect == Spec => []TypeOK
<1>1. Init => TypeOK
  <2> SUFFICES ASSUME Init PROVE TypeOK
    OBVIOUS
  <2>1. running \in Nat
    BY SharedQueueAssumption DEF Init
  <2>2. stopped \in BOOLEAN /\ unexpected \in BOOLEAN /\ timed \in BOOLEAN
    BY DEF Init
  <2>3. responses \in Seq(Response) /\ delivered \in Seq(Response)
    BY DEF Init
  <2> QED
    BY <2>1, <2>2, <2>3 DEF Init, TypeOK, PopStage
<1>2. TypeOK /\ [Next]_vars => TypeOK'
  <2> SUFFICES ASSUME TypeOK, [Next]_vars
               PROVE  TypeOK'
    OBVIOUS
  <2> USE SharedQueueAssumption DEF TypeOK, PopStage
  <2>1. ASSUME NEW n \in 1 .. MaxRunning, Increment(n)  PROVE TypeOK'
    BY <2>1 DEF Increment
  <2>2. ASSUME NEW p \in Producers, NEW r \in Response, Push(p, r)
        PROVE  TypeOK'
    <3>1. CASE stopped \/ running = 0
      BY <2>2, <3>1 DEF Push
    <3>2. CASE ~(stopped \/ running = 0)
      <4>1. responses' \in Seq(Response) /\ running' \in Nat
        BY <2>2, <3>2 DEF Push
      <4> QED
        BY <2>2, <3>2, <4>1 DEF Push
    <3> QED
      BY <3>1, <3>2
  <2>3. ASSUME NEW p \in Producers, PushPost(p)  PROVE TypeOK'
    BY <2>3 DEF PushPost
  <2>4. ASSUME NEW k \in Stoppers, Stop(k)  PROVE TypeOK'
    BY <2>4 DEF Stop
  <2>5. ASSUME NEW k \in Stoppers, StopPost(k)  PROVE TypeOK'
    BY <2>5 DEF StopPost
  <2>6. ASSUME NEW b \in BOOLEAN, PopEnter(b)  PROVE TypeOK'
    BY <2>6 DEF PopEnter, Return
  <2>7. CASE PopFinished
    BY <2>7 DEF PopFinished, Return
  <2>8. CASE PopWait
    BY <2>8 DEF PopWait
  <2>9. CASE PopTimedOut
    BY <2>9 DEF PopTimedOut, Return
  <2>10. CASE PopTake
    <3>1. CASE stopped
      BY <2>10, <3>1 DEF PopTake, Return
    <3>2. CASE ~stopped
      <4>1. responses # <<>>
        BY <2>10, <3>2 DEF PopTake
      <4>2. Head(responses) \in Response /\ Tail(responses) \in Seq(Response)
        BY <4>1, HeadTailProperties
      <4>3. /\ pop' = "idle" /\ answer' = "Response"
            /\ delivered' = Append(delivered, Head(responses))
            /\ responses' = Tail(responses)
            /\ UNCHANGED <<mode, running, stopped, unexpected, ready, posting,
                           stopping, timed, expected>>
        BY <2>10, <3>2 DEF PopTake, Return
      <4>4. delivered' \in Seq(Response)
        BY <4>2, <4>3
      <4> QED
        BY <4>2, <4>3, <4>4
    <3> QED
      BY <3>1, <3>2
  <2>11. CASE UNCHANGED vars
    BY <2>11 DEF vars
  <2> QED
    BY <2>1, <2>2, <2>3, <2>4, <2>5, <2>6, <2>7, <2>8, <2>9, <2>10, <2>11
    DEF Next, ConsumerStep
<1> QED
  BY <1>1, <1>2, PTL DEF Spec

-----------------------------------------------------------------------------
(* The threads between an unlock and their post are finitely many, and     *)
(* one thread joins or leaves them at a time.                              *)
LEMMA PostersCounted ==
  ASSUME TypeOK
  PROVE  /\ IsFiniteSet(posting) /\ Cardinality(posting) \in Nat
         /\ IsFiniteSet(stopping) /\ Cardinality(stopping) \in Nat
  BY SharedQueueAssumption, FS_Subset, FS_CardinalityType DEF TypeOK

(* TypeOK and the token accounting are preserved by every step: the heart  *)
(* of the correctness of pop().                                            *)
LEMMA TokensStep ==
  ASSUME TypeOK, TokensMatchResponses, [Next]_vars
  PROVE  TokensMatchResponses'
<1> USE PostersCounted DEF TokensMatchResponses
<1>0. Len(responses) \in Nat /\ ready \in Nat
  BY LenProperties DEF TypeOK
<1>1. ASSUME NEW n \in 1 .. MaxRunning, Increment(n)
      PROVE  TokensMatchResponses'
  BY <1>1 DEF Increment
<1>2. ASSUME NEW p \in Producers, NEW r \in Response, Push(p, r)
      PROVE  TokensMatchResponses'
  <2>1. CASE stopped \/ running = 0
    BY <1>2, <2>1 DEF Push
  <2>2. CASE ~(stopped \/ running = 0)
    <3>1. Len(responses') = Len(responses) + 1
      BY <1>2, <2>2 DEF Push, TypeOK
    <3>2. Cardinality(posting') = Cardinality(posting) + 1
      BY <1>2, <2>2, FS_AddElement DEF Push
    <3>3. ~stopped /\ UNCHANGED <<mode, stopped, ready, stopping, pop>>
      BY <1>2, <2>2 DEF Push
    <3> QED
      BY <1>0, <3>1, <3>2, <3>3
  <2> QED
    BY <2>1, <2>2
<1>3. ASSUME NEW p \in Producers, PushPost(p)
      PROVE  TokensMatchResponses'
  <2>1. Cardinality(posting') = Cardinality(posting) - 1
    BY <1>3, FS_RemoveElement DEF PushPost
  <2> QED
    BY <1>0, <1>3, <2>1 DEF PushPost
<1>4. ASSUME NEW k \in Stoppers, Stop(k)
      PROVE  TokensMatchResponses'
  <2>1. CASE stopped
    BY <1>4, <2>1 DEF Stop
  <2>2. CASE ~stopped
    <3>1. Cardinality(stopping') = Cardinality(stopping) + 1
      BY <1>4, <2>2, FS_AddElement DEF Stop
    <3> QED
      BY <1>0, <1>4, <2>2, <3>1 DEF Stop
  <2> QED
    BY <2>1, <2>2
<1>5. ASSUME NEW k \in Stoppers, StopPost(k)
      PROVE  TokensMatchResponses'
  <2>1. Cardinality(stopping') = Cardinality(stopping) - 1
    BY <1>5, FS_RemoveElement DEF StopPost
  <2> QED
    BY <1>0, <1>5, <2>1 DEF StopPost
<1>6. ASSUME NEW b \in BOOLEAN, PopEnter(b)
      PROVE  TokensMatchResponses'
  BY <1>6 DEF PopEnter, Return
<1>7. CASE PopFinished
  BY <1>7 DEF PopFinished, Return
<1>8. CASE PopWait
  BY <1>0, <1>8 DEF PopWait
<1>9. CASE PopTimedOut
  BY <1>9 DEF PopTimedOut, Return
<1>10. CASE PopTake
  <2>1. CASE stopped
    BY <1>10, <2>1 DEF PopTake, Return
  <2>2. CASE ~stopped
    <3>1. Len(responses') = Len(responses) - 1
      BY <1>10, <2>2, HeadTailProperties DEF PopTake, TypeOK
    <3> QED
      BY <1>0, <1>10, <2>2, <3>1 DEF PopTake, Return
  <2> QED
    BY <2>1, <2>2
<1>11. CASE UNCHANGED vars
  BY <1>11 DEF vars
<1> QED
  BY <1>1, <1>2, <1>3, <1>4, <1>5, <1>6, <1>7, <1>8, <1>9, <1>10, <1>11
  DEF Next, ConsumerStep

(* The semaphore's tokens and the queued responses match in every          *)
(* reachable state, whatever the number of producers and stoppers.         *)
THEOREM TokensCorrect == Spec => []TokensMatchResponses
<1>1. Init => TokensMatchResponses
  BY FS_EmptySet, EmptySeq DEF Init, TokensMatchResponses
<1>2. TypeOK /\ TokensMatchResponses /\ [Next]_vars => TokensMatchResponses'
  BY TokensStep
<1> QED
  BY <1>1, <1>2, TypeCorrect, PTL DEF Spec

(* ASSERT(!_responses.empty()) in pop() never fires. *)
THEOREM TakeCorrect == Spec => []TakeFindsResponse
<1>1. TypeOK /\ TokensMatchResponses => TakeFindsResponse
  <2> SUFFICES ASSUME TypeOK, TokensMatchResponses, pop = "take", ~stopped,
                      responses = <<>>
               PROVE  FALSE
    BY DEF TakeFindsResponse
  <2>1. Len(responses) = 0
    BY EmptySeq
  <2> QED
    BY <2>1, PostersCounted DEF TokensMatchResponses, TypeOK
<1> QED
  BY <1>1, TypeCorrect, TokensCorrect, PTL

-----------------------------------------------------------------------------
(* Every announced response is expected, queued or delivered, in every     *)
(* reachable state: pop() and push() lose and duplicate none.              *)
THEOREM AccountingCorrect == Spec => []ResponsesAccounted
<1>1. Init => ResponsesAccounted
  BY EmptySeq, SharedQueueAssumption DEF Init, ResponsesAccounted
<1>2. TypeOK /\ ResponsesAccounted /\ [Next]_vars => ResponsesAccounted'
  <2> SUFFICES ASSUME TypeOK, ResponsesAccounted, [Next]_vars
               PROVE  ResponsesAccounted'
    OBVIOUS
  <2> USE DEF ResponsesAccounted
  <2>0. /\ Len(responses) \in Nat /\ Len(delivered) \in Nat
        /\ running \in Nat /\ expected \in Nat
    BY LenProperties DEF TypeOK
  <2>1. ASSUME NEW n \in 1 .. MaxRunning, Increment(n)
        PROVE  ResponsesAccounted'
    BY <2>0, <2>1, SharedQueueAssumption DEF Increment
  <2>2. ASSUME NEW p \in Producers, NEW r \in Response, Push(p, r)
        PROVE  ResponsesAccounted'
    <3>1. CASE stopped \/ running = 0
      BY <2>2, <3>1 DEF Push
    <3>2. CASE ~(stopped \/ running = 0)
      <4>1. Len(responses') = Len(responses) + 1
        BY <2>2, <3>2 DEF Push, TypeOK
      <4>2. running' = running - 1 /\ UNCHANGED <<expected, delivered>>
        BY <2>2, <3>2 DEF Push
      <4> QED
        BY <2>0, <4>1, <4>2
    <3> QED
      BY <3>1, <3>2
  <2>3. CASE PopTake
    <3>1. CASE stopped
      BY <2>3, <3>1 DEF PopTake
    <3>2. CASE ~stopped
      <4>1. Len(responses') = Len(responses) - 1 /\ Head(responses) \in Response
        BY <2>3, <3>2, HeadTailProperties DEF PopTake, TypeOK
      <4>2. Len(delivered') = Len(delivered) + 1
        BY <2>3, <3>2, <4>1 DEF PopTake, TypeOK
      <4>3. UNCHANGED <<expected, running>>
        BY <2>3 DEF PopTake
      <4> QED
        BY <2>0, <4>1, <4>2, <4>3
    <3> QED
      BY <3>1, <3>2
  <2>4. ASSUME UNCHANGED <<running, responses, delivered, expected>>
        PROVE  ResponsesAccounted'
    BY <2>4
  <2> QED
    BY <2>1, <2>2, <2>3, <2>4
    DEF Next, ConsumerStep, PushPost, Stop, StopPost, PopEnter, PopFinished,
        PopWait, PopTimedOut, vars
<1> QED
  BY <1>1, <1>2, TypeCorrect, PTL DEF Spec

(* The consumer never sleeps on a drained FINISH_ON_DRAIN queue: between   *)
(* finished() and its own pop no other thread can drain the queue.         *)
THEOREM NeverWaitsOnDrainedCorrect == Spec => []NeverWaitsOnDrained
<1>1. Init => NeverWaitsOnDrained
  BY DEF Init, NeverWaitsOnDrained
<1>2. TypeOK /\ NeverWaitsOnDrained /\ [Next]_vars => NeverWaitsOnDrained'
  <2> SUFFICES ASSUME TypeOK, NeverWaitsOnDrained, [Next]_vars
               PROVE  NeverWaitsOnDrained'
    OBVIOUS
  <2> USE DEF NeverWaitsOnDrained, Finished
  <2>1. ASSUME NEW n \in 1 .. MaxRunning, Increment(n)
        PROVE  NeverWaitsOnDrained'
    BY <2>1, SharedQueueAssumption DEF Increment, TypeOK
  <2>2. ASSUME NEW p \in Producers, NEW r \in Response, Push(p, r)
        PROVE  NeverWaitsOnDrained'
    <3>1. CASE stopped \/ running = 0
      BY <2>2, <3>1 DEF Push
    <3>2. CASE ~(stopped \/ running = 0)
      <4>1. responses' # <<>>
        BY <2>2, <3>2 DEF Push, TypeOK
      <4> QED
        BY <4>1
    <3> QED
      BY <3>1, <3>2
  <2>3. ASSUME NEW b \in BOOLEAN, PopEnter(b)
        PROVE  NeverWaitsOnDrained'
    BY <2>3 DEF PopEnter, Return
  <2>4. CASE PopFinished
    BY <2>4 DEF PopFinished, Return
  <2>5. CASE PopTimedOut \/ PopTake
    BY <2>5 DEF PopTimedOut, PopTake, Return
  <2>6. CASE PopWait
    BY <2>6 DEF PopWait
  <2>7. ASSUME NEW k \in Stoppers, Stop(k)
        PROVE  NeverWaitsOnDrained'
    BY <2>7 DEF Stop
  <2>8. ASSUME UNCHANGED <<mode, running, responses, stopped, pop>>
        PROVE  NeverWaitsOnDrained'
    BY <2>8
  <2> QED
    BY <2>1, <2>2, <2>3, <2>4, <2>5, <2>6, <2>7, <2>8
    DEF Next, ConsumerStep, PushPost, StopPost, vars
<1> QED
  BY <1>1, <1>2, TypeCorrect, PTL DEF Spec

-----------------------------------------------------------------------------
(* SharedQueue implements Responder: each critical section is one atomic   *)
(* operation of the promise, and posts and waits are stuttering steps.     *)
THEOREM Refinement == Spec => ImplementsResponder
<1> USE DEF Abstract!rvars
<1>1. Init => Abstract!Init
  BY DEF Init, QueueMode, Abstract!Init
<1>2. TypeOK /\ [Next]_vars => [Abstract!Next]_(Abstract!rvars)
  <2> SUFFICES ASSUME TypeOK, [Next]_vars
               PROVE  Abstract!Next \/ UNCHANGED Abstract!rvars
    OBVIOUS
  <2> USE DEF Abstract!Next
  <2>1. ASSUME NEW n \in 1 .. MaxRunning, Increment(n)
        PROVE  Abstract!Increment(n)
    BY <2>1 DEF Increment, Abstract!Increment
  <2>2. ASSUME NEW p \in Producers, NEW r \in Response, Push(p, r)
        PROVE  Abstract!Push(r)
    BY <2>2 DEF Push, Abstract!Push
  <2>3. ASSUME NEW k \in Stoppers, Stop(k)
        PROVE  Abstract!Stop
    BY <2>3 DEF Stop, Abstract!Stop
  <2>4. ASSUME NEW b \in BOOLEAN, PopEnter(b)
        PROVE  Abstract!PopFinished \/ UNCHANGED Abstract!rvars
    BY <2>4 DEF PopEnter, Return, Abstract!PopFinished
  <2>5. CASE PopFinished
    <3>1. CASE Finished /\ mode = "FINISH_ON_DRAIN"
      BY <2>5, <3>1 DEF PopFinished, Return, Finished, Abstract!PopFinished,
                        Abstract!Drained
    <3>2. CASE ~Finished
      BY <2>5, <3>2 DEF PopFinished
    <3>3. mode = "FINISH_ON_DRAIN"
      BY <2>5 DEF PopFinished, TypeOK, PopStage
    <3> QED
      BY <3>1, <3>2, <3>3
  <2>6. CASE PopTimedOut
    BY <2>6 DEF PopTimedOut, Return, Abstract!PopTimedOut
  <2>7. CASE PopTake
    BY <2>7 DEF PopTake, Return, Abstract!PopResponse, Abstract!PopFinished
  <2>8. CASE PopWait
    BY <2>8 DEF PopWait
  <2>9. ASSUME NEW p \in Producers, PushPost(p)
        PROVE  UNCHANGED Abstract!rvars
    BY <2>9 DEF PushPost
  <2>10. ASSUME NEW k \in Stoppers, StopPost(k)
         PROVE  UNCHANGED Abstract!rvars
    BY <2>10 DEF StopPost
  <2>11. CASE UNCHANGED vars
    BY <2>11 DEF vars
  <2> QED
    BY <2>1, <2>2, <2>3, <2>4, <2>5, <2>6, <2>7, <2>8, <2>9, <2>10, <2>11
    DEF Next, ConsumerStep
<1> QED
  BY <1>1, <1>2, TypeCorrect, PTL DEF Spec, ImplementsResponder, Abstract!Spec

-----------------------------------------------------------------------------
(* ThreadPool: what each request's place is *)

(* The types of the state that moves requests. *)
PoolTypeOK ==
  /\ deque \in Seq(Requests)
  /\ pushed \subseteq Requests
  /\ inflight \in [Threads -> SUBSET Requests]
  /\ completed \in [Requests -> Nat]

(* The deque has no request twice, and none that is held or completed. *)
QueuedOnce ==
  \A i \in DOMAIN deque :
    /\ deque[i] \in pushed
    /\ completed[deque[i]] = 0
    /\ \A j \in DOMAIN deque : deque[j] = deque[i] => j = i
    /\ \A t \in Threads : deque[i] \notin inflight[t]

(* A request is held by one thread at most, and not completed while it is. *)
HeldOnce ==
  \A t \in Threads : \A q \in inflight[t] :
    /\ q \in pushed
    /\ completed[q] = 0
    /\ \A u \in Threads : q \in inflight[u] => u = t

Queued(q) == \E i \in DOMAIN deque : deque[i] = q
Held(q) == \E t \in Threads : q \in inflight[t]

(* A request that is nowhere was completed once if it was ever pushed. *)
CompletedOnce ==
  \A q \in Requests :
    ~Queued(q) /\ ~Held(q) => completed[q] = IF q \in pushed THEN 1 ELSE 0

IInv == PoolTypeOK /\ QueuedOnce /\ HeldOnce /\ CompletedOnce

-----------------------------------------------------------------------------
(* Steps that move no request. *)
requestVars == <<deque, pushed, inflight, completed>>

(* Steps that move no request keep the invariant. *)
LEMMA Frame == IInv /\ UNCHANGED requestVars => IInv'
  BY DEF IInv, PoolTypeOK, QueuedOnce, HeldOnce, CompletedOnce, Queued, Held,
     requestVars

(* Initially no request was pushed. *)
LEMMA InitIInv == PoolInit => IInv
  BY DEF PoolInit, IInv, PoolTypeOK, QueuedOnce, HeldOnce, CompletedOnce,
     Queued, Held

(* Deque::push appends a request that was nowhere. *)
LEMMA PushIInv ==
  ASSUME IInv, NEW q \in Requests, PushRequest(q)
  PROVE  IInv'
<1> USE DEF IInv, PoolTypeOK
<1>1. /\ deque' \in Seq(Requests)
      /\ Len(deque') = Len(deque) + 1
      /\ deque'[Len(deque) + 1] = q
      /\ \A i \in DOMAIN deque : deque'[i] = deque[i]
      /\ DOMAIN deque = 1 .. Len(deque)
      /\ DOMAIN deque' = 1 .. (Len(deque) + 1)
      /\ Len(deque) \in Nat
  BY DEF PushRequest
<1>2. /\ q \notin pushed
      /\ pushed' = pushed \cup {q}
      /\ inflight' = inflight
      /\ completed' = completed
  BY DEF PushRequest
<1>3. ~Queued(q) /\ ~Held(q) /\ completed[q] = 0
  BY <1>2 DEF QueuedOnce, HeldOnce, CompletedOnce, Queued, Held
<1>4. PoolTypeOK'
  BY <1>1, <1>2
<1>5. QueuedOnce'
  <2> SUFFICES ASSUME NEW i \in 1 .. (Len(deque) + 1)
               PROVE  /\ deque'[i] \in pushed'
                      /\ completed[deque'[i]] = 0
                      /\ \A j \in 1 .. (Len(deque) + 1) :
                           deque'[j] = deque'[i] => j = i
                      /\ \A t \in Threads : deque'[i] \notin inflight[t]
    BY <1>1, <1>2 DEF QueuedOnce
  <2>1. CASE i = Len(deque) + 1
    <3>1. \A j \in 1 .. Len(deque) : deque'[j] # q
      BY <1>1, <1>3 DEF Queued
    <3> QED  BY <2>1, <3>1, <1>1, <1>2, <1>3 DEF Held
  <2>2. CASE i \in 1 .. Len(deque)
    <3>1. deque'[i] = deque[i] /\ deque[i] # q
      BY <2>2, <1>1, <1>3 DEF Queued
    <3>2. ASSUME NEW j \in 1 .. (Len(deque) + 1), deque'[j] = deque'[i]
          PROVE  j = i
      <4>1. j \in 1 .. Len(deque)
        BY <3>1, <3>2, <1>1
      <4>2. deque[j] = deque[i]
        BY <4>1, <3>1, <3>2, <1>1
      <4> QED  BY <4>1, <4>2, <2>2, <1>1 DEF QueuedOnce
    <3>3. /\ deque[i] \in pushed
          /\ completed[deque[i]] = 0
          /\ \A t \in Threads : deque[i] \notin inflight[t]
      BY <2>2, <1>1 DEF QueuedOnce
    <3>4. \A j \in 1 .. (Len(deque) + 1) : deque'[j] = deque'[i] => j = i
      BY <3>2
    <3> QED  BY <3>1, <3>3, <3>4, <1>2
  <2>3. i = Len(deque) + 1 \/ i \in 1 .. Len(deque)
    BY <1>1
  <2> QED  BY <2>1, <2>2, <2>3
<1>6. HeldOnce'
  BY <1>2 DEF HeldOnce
<1>7. CompletedOnce'
  <2> SUFFICES ASSUME NEW p \in Requests, ~Queued(p)', ~Held(p)'
               PROVE  completed[p] = IF p \in pushed' THEN 1 ELSE 0
    BY <1>2 DEF CompletedOnce
  <2>1. p # q
    <3>1. Len(deque) + 1 \in DOMAIN deque'
      BY <1>1
    <3> QED  BY <3>1, <1>1 DEF Queued
  <2>2. ~Queued(p)
    BY <1>1 DEF Queued
  <2>3. ~Held(p)
    BY <1>2 DEF Held
  <2> QED  BY <2>1, <2>2, <2>3, <1>2 DEF CompletedOnce
<1> QED  BY <1>4, <1>5, <1>6, <1>7

(* A thread takes the front request. *)
LEMMA TakeIInv ==
  ASSUME IInv, NEW t \in Threads, Take(t)
  PROVE  IInv'
<1> USE DEF IInv, PoolTypeOK
<1> DEFINE q == Head(deque)
           n == Len(deque)
<1>1. /\ n \in Nat
      /\ 1 <= n
      /\ DOMAIN deque = 1 .. n
      /\ q = deque[1]
      /\ q \in Requests
  BY DEF Take
<1>2. /\ deque' \in Seq(Requests)
      /\ DOMAIN deque' = 1 .. (n - 1)
      /\ \A i \in 1 .. (n - 1) : deque'[i] = deque[i + 1]
  BY <1>1 DEF Take
<1>3. /\ pushed' = pushed
      /\ completed' = completed
      /\ inflight' = [inflight EXCEPT ![t] = @ \cup {q}]
  BY DEF Take
<1>4. /\ inflight'[t] = inflight[t] \cup {q}
      /\ \A u \in Threads : u # t => inflight'[u] = inflight[u]
  BY <1>3
<1> HIDE DEF q, n
<1>5. /\ q \in pushed
      /\ completed[q] = 0
      /\ \A i \in 1 .. (n - 1) : deque'[i] # q
      /\ \A u \in Threads : q \notin inflight[u]
  <2>1. /\ q \in pushed
        /\ completed[q] = 0
        /\ \A i \in 1 .. n : deque[i] = q => i = 1
        /\ \A u \in Threads : q \notin inflight[u]
    BY <1>1 DEF QueuedOnce
  <2>2. \A i \in 1 .. (n - 1) : i + 1 \in 1 .. n /\ i + 1 # 1
    BY <1>1
  <2> QED  BY <2>1, <2>2, <1>2
<1>6. PoolTypeOK'
  BY <1>1, <1>2, <1>3
<1>7. QueuedOnce'
  <2> SUFFICES ASSUME NEW i \in 1 .. (n - 1)
               PROVE  /\ deque'[i] \in pushed
                      /\ completed[deque'[i]] = 0
                      /\ \A j \in 1 .. (n - 1) :
                           deque'[j] = deque'[i] => j = i
                      /\ \A u \in Threads : deque'[i] \notin inflight'[u]
    BY <1>2, <1>3 DEF QueuedOnce
  <2>1. i + 1 \in 1 .. n /\ deque'[i] = deque[i + 1]
    BY <1>1, <1>2
  <2>2. /\ deque'[i] \in pushed
        /\ completed[deque'[i]] = 0
        /\ \A u \in Threads : deque'[i] \notin inflight[u]
    BY <2>1, <1>1 DEF QueuedOnce
  <2>3. ASSUME NEW j \in 1 .. (n - 1), deque'[j] = deque'[i]
        PROVE  j = i
    <3>1. j + 1 \in 1 .. n /\ deque[j + 1] = deque[i + 1]
      BY <2>1, <2>3, <1>1, <1>2
    <3>2. j + 1 = i + 1
      BY <3>1, <2>1, <1>1 DEF QueuedOnce
    <3> QED  BY <3>2
  <2>4. \A u \in Threads : deque'[i] \notin inflight'[u]
    BY <2>2, <1>4, <1>5
  <2> QED  BY <2>2, <2>3, <2>4
<1>8. HeldOnce'
  BY <1>3, <1>4, <1>5 DEF HeldOnce
<1>9. CompletedOnce'
  <2> SUFFICES ASSUME NEW p \in Requests, ~Queued(p)', ~Held(p)'
               PROVE  completed[p] = IF p \in pushed THEN 1 ELSE 0
    BY <1>3 DEF CompletedOnce
  <2>1. ~Held(p) /\ p # q
    BY <1>4 DEF Held
  <2>2. ~Queued(p)
    <3> SUFFICES ASSUME NEW i \in 1 .. n, deque[i] = p
                 PROVE  FALSE
      BY <1>1 DEF Queued
    <3>1. i # 1
      BY <2>1, <1>1
    <3>2. i - 1 \in 1 .. (n - 1) /\ (i - 1) + 1 = i
      BY <3>1, <1>1
    <3>3. deque'[i - 1] = p
      BY <3>2, <1>2
    <3> QED  BY <3>2, <3>3, <1>2 DEF Queued
  <2> QED  BY <2>1, <2>2 DEF CompletedOnce
<1> QED  BY <1>6, <1>7, <1>8, <1>9

(* A thread completes some of what it holds. *)
LEMMA CompleteIInv ==
  ASSUME IInv, NEW t \in Threads, NEW C \in SUBSET inflight[t], Complete(t, C)
  PROVE  IInv'
<1> USE DEF IInv, PoolTypeOK
<1>1. /\ deque' = deque
      /\ pushed' = pushed
      /\ inflight' \in [Threads -> SUBSET Requests]
      /\ inflight'[t] = inflight[t] \ C
      /\ \A u \in Threads : u # t => inflight'[u] = inflight[u]
      /\ completed' = [q \in Requests |->
                         IF q \in C THEN completed[q] + 1 ELSE completed[q]]
  BY DEF Complete
<1>2. /\ \A q \in C : completed'[q] = completed[q] + 1
      /\ \A q \in Requests \ C : completed'[q] = completed[q]
      /\ C \subseteq Requests
  BY <1>1
<1>3. PoolTypeOK'
  BY <1>1
<1>4. QueuedOnce'
  <2>1. \A i \in DOMAIN deque : deque[i] \in Requests \ C
    BY DEF QueuedOnce
  <2> QED  BY <2>1, <1>1, <1>2 DEF QueuedOnce
<1>5. HeldOnce'
  <2>1. \A u \in Threads : \A q \in inflight'[u] :
          q \in inflight[u] /\ q \in Requests \ C
    BY <1>1 DEF HeldOnce
  <2> QED  BY <2>1, <1>1, <1>2 DEF HeldOnce
<1>6. CompletedOnce'
  <2> SUFFICES ASSUME NEW q \in Requests, ~Queued(q)', ~Held(q)'
               PROVE  completed'[q] = IF q \in pushed THEN 1 ELSE 0
    BY <1>1 DEF CompletedOnce
  <2>1. CASE q \in C
    BY <2>1, <1>2 DEF HeldOnce
  <2>2. CASE q \notin C
    <3>1. ~Queued(q) /\ ~Held(q)
      BY <2>2, <1>1 DEF Queued, Held
    <3> QED  BY <3>1, <2>2, <1>2 DEF CompletedOnce
  <2> QED  BY <2>1, <2>2
<1> QED  BY <1>3, <1>4, <1>5, <1>6

(* Every step keeps the invariant. *)
LEMMA StepIInv == IInv /\ [PoolNext]_threadPoolVars => IInv'
<1> SUFFICES ASSUME IInv, [PoolNext]_threadPoolVars
             PROVE  IInv'
  OBVIOUS
<1>1. ASSUME OwnerStep \/ SetStopped \/ Gone \/ UNCHANGED threadPoolVars
      PROVE  IInv'
  <2>1. UNCHANGED requestVars
    BY <1>1 DEF OwnerStep, Spawn, Built, SpawnThrows, Unwound, Rebuild,
       StopDeque, StopDequePost, Joined, SetStopped, Gone, threadPoolVars,
       queueVars,
       requestVars
  <2> QED  BY <2>1, Frame
<1>2. ASSUME NEW q \in Requests, PushRequest(q)
      PROVE  IInv'
  BY <1>2, PushIInv
<1>3. ASSUME NEW q \in Requests, PostRequest(q)
      PROVE  IInv'
  <2>1. UNCHANGED requestVars
    BY <1>3 DEF PostRequest, requestVars
  <2> QED  BY <2>1, Frame
<1>4. ASSUME NEW t \in Threads, ThreadStep(t)
      PROVE  IInv'
  <2>1. CASE TryPop(t) \/ Pop(t)
    BY <2>1, TakeIInv DEF TryPop, Pop
  <2>2. CASE Execute(t) \/ Drain(t)
    <3>1. PICK C \in SUBSET inflight[t] : Complete(t, C)
      BY <2>2 DEF Execute, Drain
    <3> QED  BY <3>1, CompleteIInv
  <2>3. CASE Top(t) \/ TryPopStopped(t) \/ Wait(t) \/ PopStopped(t)
    <3>1. UNCHANGED requestVars
      BY <2>3 DEF Top, TryPopStopped, Wait, PopStopped, queueVars, requestVars
    <3> QED  BY <3>1, Frame
  <2> QED  BY <1>4, <2>1, <2>2, <2>3 DEF ThreadStep
<1> QED  BY <1>1, <1>2, <1>3, <1>4 DEF PoolNext

(* The types of what moves: the deque, the requests held and completed. *)
THEOREM PoolTypeCorrect == PoolSpec => []PoolTypeOK
<1>1. IInv => PoolTypeOK
  BY DEF IInv
<1> QED  BY InitIInv, StepIInv, <1>1, PTL DEF PoolSpec

-----------------------------------------------------------------------------
(* Cardinalities of sets of one element and of none. *)
LEMMA AtMostOne ==
  ASSUME NEW S, \A x, y \in S : x = y
  PROVE  Cardinality(S) = IF S = {} THEN 0 ELSE 1
<1>1. CASE S = {}
  BY <1>1, FS_EmptySet
<1>2. CASE S # {}
  <2>1. PICK x \in S : S = {x}
    BY <1>2
  <2> QED  BY <2>1, FS_Singleton
<1> QED  BY <1>1, <1>2

(* A request that was pushed is in one place: the deque, a thread, or      *)
(* among the completed, once each (Deque::push and pop, Worker::execute    *)
(* and drain).                                                             *)
THEOREM OnePlace == PoolSpec => []RequestInOnePlace
<1>1. IInv => RequestInOnePlace
  <2> SUFFICES ASSUME IInv, NEW q \in Requests
               PROVE  Cardinality({i \in DOMAIN deque : deque[i] = q})
                        + Cardinality({t \in Threads : q \in inflight[t]})
                        + completed[q]
                        = IF q \in pushed THEN 1 ELSE 0
    BY DEF RequestInOnePlace
  <2> DEFINE queued == {i \in DOMAIN deque : deque[i] = q}
             held == {t \in Threads : q \in inflight[t]}
  <2>1. Cardinality(queued) = IF queued = {} THEN 0 ELSE 1
    <3>1. \A i, j \in queued : i = j
      BY DEF IInv, QueuedOnce
    <3> QED  BY <3>1, AtMostOne
  <2>2. Cardinality(held) = IF held = {} THEN 0 ELSE 1
    <3>1. \A t, u \in held : t = u
      BY DEF IInv, HeldOnce
    <3> QED  BY <3>1, AtMostOne
  <2>3. queued = {} <=> ~Queued(q)
    BY DEF Queued
  <2>4. held = {} <=> ~Held(q)
    BY DEF Held
  <2> HIDE DEF queued, held
  <2>5. CASE Queued(q)
    <3>1. ~Held(q) /\ q \in pushed /\ completed[q] = 0
      BY <2>5 DEF Queued, Held, IInv, QueuedOnce
    <3> QED  BY <3>1, <2>5, <2>1, <2>2, <2>3, <2>4 DEF queued, held
  <2>6. CASE Held(q)
    <3>1. ~Queued(q) /\ q \in pushed /\ completed[q] = 0
      BY <2>6 DEF Queued, Held, IInv, QueuedOnce, HeldOnce
    <3> QED  BY <3>1, <2>6, <2>1, <2>2, <2>3, <2>4 DEF queued, held
  <2>7. CASE ~Queued(q) /\ ~Held(q)
    <3>1. completed[q] = IF q \in pushed THEN 1 ELSE 0
      BY <2>7 DEF IInv, CompletedOnce
    <3> QED  BY <3>1, <2>7, <2>1, <2>2, <2>3, <2>4 DEF queued, held
  <2> QED  BY <2>5, <2>6, <2>7
<1> QED  BY InitIInv, StepIInv, <1>1, PTL DEF PoolSpec

=============================================================================
