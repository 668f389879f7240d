------------------------------ MODULE Responder ------------------------------
(***************************************************************************)
(* What a SharedQueue promises its callers, every operation in one step:   *)
(* a queue that knows how many responses are still expected, hands every   *)
(* accepted response out once and in order, and says FinishedError only    *)
(* when it was stopped or, in FINISH_ON_DRAIN mode, when it is drained.    *)
(* SharedQueue.tla is the implementation (mutex, semaphore, separate       *)
(* steps); Streamer.tla composes this promise with the rest of the library.*)
(***************************************************************************)
EXTENDS Naturals, Sequences

CONSTANTS
  Response,   \* the responses a producer may push
  MaxRunning  \* bound: how many responses are ever expected in total

VARIABLES
  mode,       \* "FINISH_ON_DRAIN" or "PERSISTENT"
  running,    \* _running: responses still expected
  responses,  \* _responses: accepted and not yet popped
  stopped,    \* _stopped
  unexpected, \* _unexpected_push_error
  delivered,  \* history: the responses pop() has returned, in order
  answer      \* how the last pop() ended: Response, FinishedError, TimedOut

rvars == <<mode, running, responses, stopped, unexpected, delivered, answer>>

(* Nothing is expected any more and nothing waits to be popped. *)
Drained == running = 0 /\ responses = <<>>

Init ==
  /\ mode \in {"FINISH_ON_DRAIN", "PERSISTENT"}
  /\ running \in 0 .. MaxRunning
  /\ responses = <<>>
  /\ stopped = FALSE
  /\ unexpected = FALSE
  /\ delivered = <<>>
  /\ answer = "none"

Increment(n) ==
  /\ running' = running + n
  /\ UNCHANGED <<mode, responses, stopped, unexpected, delivered, answer>>

(* A response that was announced is queued; one that was not is refused    *)
(* and remembered as an error; after stop() both are ignored.              *)
Push(r) ==
  /\ IF stopped \/ running = 0
     THEN UNCHANGED <<running, responses>>
     ELSE /\ responses' = Append(responses, r)
          /\ running' = running - 1
  /\ unexpected' = (unexpected \/ (~stopped /\ running = 0))
  /\ UNCHANGED <<mode, stopped, delivered, answer>>

Stop ==
  /\ stopped' = TRUE
  /\ UNCHANGED <<mode, running, responses, unexpected, delivered, answer>>

PopResponse ==
  /\ ~stopped
  /\ responses # <<>>
  /\ answer' = "Response"
  /\ delivered' = Append(delivered, Head(responses))
  /\ responses' = Tail(responses)
  /\ UNCHANGED <<mode, running, stopped, unexpected>>

PopFinished ==
  /\ stopped \/ (mode = "FINISH_ON_DRAIN" /\ Drained)
  /\ answer' = "FinishedError"
  /\ UNCHANGED <<mode, running, responses, stopped, unexpected, delivered>>

PopTimedOut ==
  /\ answer' = "TimedOut"
  /\ UNCHANGED <<mode, running, responses, stopped, unexpected, delivered>>

Next ==
  \/ \E n \in 1 .. MaxRunning : Increment(n)
  \/ \E r \in Response : Push(r)
  \/ Stop
  \/ PopResponse
  \/ PopFinished
  \/ PopTimedOut

Spec == Init /\ [][Next]_rvars
=============================================================================
