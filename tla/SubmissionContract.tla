-------------------------- MODULE SubmissionContract --------------------------
(***************************************************************************)
(* What the library promises about submissions: an accepted submission     *)
(* owes one response per range; response() hands them out one by one, each *)
(* once and in any order, and says "done" exactly with the last one.       *)
(***************************************************************************)
CONSTANTS Submissions, Ranges, SubmissionOf

VARIABLES
  accepted,  \* submissions the streamer committed to
  owed,      \* ranges of accepted submissions not yet answered
  done       \* submissions reported done

RangesOf(s) == {r \in Ranges : SubmissionOf[r] = s}

Init ==
  /\ accepted = {}
  /\ owed = {}
  /\ done = {}

(* A submission with ranges is accepted. *)
Accept(s) ==
  /\ accepted' = accepted \cup {s}
  /\ RangesOf(s) # {}
  /\ owed' = owed \cup RangesOf(s)
  /\ done' = done

(* response() returns the response of range r. *)
Deliver(r) ==
  /\ owed' = owed \ {r}
  /\ done' = IF owed' \cap RangesOf(SubmissionOf[r]) = {}
             THEN done \cup {SubmissionOf[r]}
             ELSE done
  /\ accepted' = accepted

Next ==
  \/ \E s \in Submissions \ accepted : Accept(s)
  \/ \E r \in owed : Deliver(r)

Spec == Init /\ [][Next]_<<accepted, owed, done>>
=============================================================================
