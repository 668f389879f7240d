----------------------------- MODULE SharedQueue -----------------------------
(***************************************************************************)
(* common::SharedQueue (cpp/common/shared_queue/shared_queue.h): many      *)
(* producers push responses, a single consumer pops them, and any thread   *)
(* may stop the queue.  Each critical section of the mutex is one step;    *)
(* the semaphore post that follows push() and stop() is outside the mutex  *)
(* and is a step of its own, as are the four stages of pop().              *)
(***************************************************************************)
EXTENDS Naturals, Sequences, FiniteSets

CONSTANTS
  Producers,  \* threads that push
  Stoppers,   \* threads that call stop()
  Response,   \* the responses a producer may push
  MaxRunning  \* bound: how many responses are ever expected in total

QueueMode == {"FINISH_ON_DRAIN", "PERSISTENT"}

ASSUME SharedQueueAssumption ==
  /\ IsFiniteSet(Producers)
  /\ IsFiniteSet(Stoppers)
  /\ MaxRunning \in Nat

VARIABLES
  mode,       \* _mode, an argument of the constructor
  running,    \* _running
  responses,  \* _responses
  stopped,    \* _stopped
  unexpected, \* _unexpected_push_error
  delivered,  \* history: what pop() has returned, in order
  answer,     \* how the last pop() ended
  ready,      \* the count of the semaphore _ready
  posting,    \* producers past push()'s unlock, before its post
  stopping,   \* stoppers past stop()'s unlock, before its post
  pop,        \* how far the consumer is in pop()
  timed,      \* whether that pop() has a timeout
  expected    \* history: constructor's count plus every increment

vars == <<mode, running, responses, stopped, unexpected, delivered, answer,
          ready, posting, stopping, pop, timed, expected>>

(* The stages of pop(); a PERSISTENT queue never asks finished(). *)
PopStage ==
  {"idle", "wait", "take"}
    \cup (IF mode = "FINISH_ON_DRAIN" THEN {"finished?"} ELSE {})

(* The types of the queue's state and of its callers; a queue that does    *)
(* not finish on drain never asks whether it is finished.                  *)
TypeOK ==
  /\ mode \in QueueMode
  /\ running \in Nat
  /\ responses \in Seq(Response)
  /\ stopped \in BOOLEAN
  /\ unexpected \in BOOLEAN
  /\ delivered \in Seq(Response)
  /\ answer \in {"none", "Response", "FinishedError", "TimedOut"}
  /\ ready \in Nat
  /\ posting \in SUBSET Producers
  /\ stopping \in SUBSET Stoppers
  /\ pop \in PopStage
  /\ timed \in BOOLEAN
  /\ expected \in Nat

Init ==
  /\ mode \in QueueMode
  /\ running \in 0 .. MaxRunning
  /\ responses = <<>>
  /\ stopped = FALSE
  /\ unexpected = FALSE
  /\ delivered = <<>>
  /\ answer = "none"
  /\ ready = 0
  /\ posting = {}
  /\ stopping = {}
  /\ pop = "idle"
  /\ timed = FALSE
  /\ expected = running

-----------------------------------------------------------------------------
(* Producers *)

Increment(n) ==
  /\ expected + n <= MaxRunning
  /\ running' = running + n
  /\ expected' = expected + n
  /\ UNCHANGED <<mode, responses, stopped, unexpected, delivered, answer,
                 ready, posting, stopping, pop, timed>>

(* push() up to the unlock; the response is ignored after stop() and      *)
(* refused when none is expected.                                          *)
Push(p, r) ==
  /\ p \notin posting
  /\ IF stopped \/ running = 0
     THEN UNCHANGED <<running, responses, posting>>
     ELSE /\ responses' = Append(responses, r)
          /\ running' = running - 1
          /\ posting' = posting \cup {p}
  /\ unexpected' = (unexpected \/ (~stopped /\ running = 0))
  /\ UNCHANGED <<mode, stopped, delivered, answer, ready, stopping, pop, timed,
                 expected>>

(* The semaphore post at the end of push(). *)
PushPost(p) ==
  /\ p \in posting
  /\ posting' = posting \ {p}
  /\ ready' = ready + 1
  /\ UNCHANGED <<mode, running, responses, stopped, unexpected, delivered,
                 answer, stopping, pop, timed, expected>>

-----------------------------------------------------------------------------
(* Teardown: only the first stop() posts. *)

(* Faulty stop(): every call posts, not the first alone. *)
StopAlwaysPosts(k) ==
  /\ k \notin stopping
  /\ stopped' = TRUE
  /\ stopping' = stopping \cup {k}
  /\ UNCHANGED <<mode, running, responses, unexpected, delivered, answer,
                 ready, posting, pop, timed, expected>>

(* Faulty stop(): posts only while responses are expected. *)
StopPostsIfRunning(k) ==
  /\ k \notin stopping
  /\ stopped' = TRUE
  /\ stopping' = IF stopped \/ running = 0 THEN stopping ELSE stopping \cup {k}
  /\ UNCHANGED <<mode, running, responses, unexpected, delivered, answer,
                 ready, posting, pop, timed, expected>>

Stop(k) ==
  /\ k \notin stopping
  /\ stopped' = TRUE
  /\ stopping' = IF stopped THEN stopping ELSE stopping \cup {k}
  /\ UNCHANGED <<mode, running, responses, unexpected, delivered, answer,
                 ready, posting, pop, timed, expected>>

StopPost(k) ==
  /\ k \in stopping
  /\ stopping' = stopping \ {k}
  /\ ready' = ready + 1
  /\ UNCHANGED <<mode, running, responses, stopped, unexpected, delivered,
                 answer, posting, pop, timed, expected>>

-----------------------------------------------------------------------------
(* The consumer *)

(* Faulty finished(): forgets the responses still queued. *)
FinishedIgnoresQueue == running = 0

(* finished(): nothing expected and nothing queued. *)
Finished == running = 0 /\ responses = <<>>

Return(result) ==
  /\ pop' = "idle"
  /\ answer' = result

(* pop() begins: a stopped queue is terminal; only FINISH_ON_DRAIN goes on *)
(* to ask finished().                                                      *)
PopEnter(withTimeout) ==
  /\ pop = "idle"
  /\ timed' = withTimeout
  /\ IF stopped
     THEN Return("FinishedError")
     ELSE /\ pop' = IF mode = "FINISH_ON_DRAIN" THEN "finished?" ELSE "wait"
          /\ UNCHANGED answer
  /\ UNCHANGED <<mode, running, responses, stopped, unexpected, delivered,
                 ready, posting, stopping, expected>>

PopFinished ==
  /\ pop = "finished?"
  /\ IF Finished
     THEN Return("FinishedError")
     ELSE /\ pop' = "wait"
          /\ UNCHANGED answer
  /\ UNCHANGED <<mode, running, responses, stopped, unexpected, delivered,
                 ready, posting, stopping, timed, expected>>

(* Semaphore::wait or a successful wait_for. *)
PopWait ==
  /\ pop = "wait"
  /\ ready > 0
  /\ ready' = ready - 1
  /\ pop' = "take"
  /\ UNCHANGED <<mode, running, responses, stopped, unexpected, delivered,
                 answer, posting, stopping, timed, expected>>

(* wait_for gives up; a post that comes at the deadline may be missed.    *)
PopTimedOut ==
  /\ pop = "wait"
  /\ timed
  /\ Return("TimedOut")
  /\ UNCHANGED <<mode, running, responses, stopped, unexpected, delivered,
                 ready, posting, stopping, timed, expected>>

(* The last critical section.  The code asserts that the queue is not      *)
(* empty here unless it is stopped: TakeFindsResponse below.               *)
PopTake ==
  /\ pop = "take"
  /\ \/ /\ stopped
        /\ Return("FinishedError")
        /\ UNCHANGED <<responses, delivered>>
     \/ /\ ~stopped
        /\ responses # <<>>
        /\ Return("Response")
        /\ delivered' = Append(delivered, Head(responses))
        /\ responses' = Tail(responses)
  /\ UNCHANGED <<mode, running, stopped, unexpected, ready, posting, stopping,
                 timed, expected>>

-----------------------------------------------------------------------------
ConsumerStep == PopFinished \/ PopWait \/ PopTimedOut \/ PopTake

Next ==
  \/ \E n \in 1 .. MaxRunning : Increment(n)
  \/ \E p \in Producers, r \in Response : Push(p, r)
  \/ \E p \in Producers : PushPost(p)
  \/ \E k \in Stoppers : Stop(k)
  \/ \E k \in Stoppers : StopPost(k)
  \/ \E b \in BOOLEAN : PopEnter(b)
  \/ ConsumerStep

Spec == Init /\ [][Next]_vars

(* A thread that left a critical section goes on to its post, and the     *)
(* consumer goes on with a pop() it began.  Nothing makes a caller push,   *)
(* pop or stop.                                                            *)
Fairness ==
  /\ \A p \in Producers : WF_vars(PushPost(p))
  /\ \A k \in Stoppers : WF_vars(StopPost(k))
  /\ WF_vars(ConsumerStep)

FairSpec == Spec /\ Fairness

-----------------------------------------------------------------------------
(* Properties *)

(* ASSERT(!_responses.empty()) in pop(): a consumer that got a token finds *)
(* a response unless the queue was stopped meanwhile.                      *)
TakeFindsResponse == pop = "take" /\ ~stopped => responses # <<>>

(* Every response announced by the constructor or increment() is at any    *)
(* time expected, queued or delivered: none is lost, none comes twice.     *)
ResponsesAccounted ==
  expected = running + Len(responses) + Len(delivered)

(* Until stop(), the tokens a consumer holds or can still get are exactly  *)
(* the queued responses.  After stop(), a consumer that has not yet        *)
(* returned finds at least one token more than responses, so it cannot     *)
(* sleep through the stop.                                                 *)
TokensMatchResponses ==
  LET tokens == ready + Cardinality(posting) + Cardinality(stopping)
                  + (IF pop = "take" THEN 1 ELSE 0)
  IN  /\ ~stopped => tokens = Len(responses)
      /\ stopped /\ pop # "idle" => tokens = Len(responses) + 1

(* In FINISH_ON_DRAIN mode the consumer never goes to sleep on a drained   *)
(* queue that nobody will post: finished() stays false until it pops.      *)
NeverWaitsOnDrained ==
  mode = "FINISH_ON_DRAIN" /\ pop \in {"wait", "take"} /\ ~stopped
    => ~Finished

(* A consumer returns from pop(), wherever it is, once the queue is        *)
(* stopped or a response is queued: no post that was still to come is lost *)
(* to a timeout, a second stop or another response.                        *)
PopReturns ==
  (pop # "idle" /\ (stopped \/ responses # <<>>)) ~> pop = "idle"

(* SharedQueue implements the atomic Responder. *)
Abstract == INSTANCE Responder
ImplementsResponder == Abstract!Spec
=============================================================================
