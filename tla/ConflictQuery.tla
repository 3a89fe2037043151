---------------------------- MODULE ConflictQuery ----------------------------
(***************************************************************************)
(* What DetectConflict::between promises its caller, with the trajectories *)
(* and the geometry reduced to three facts about the input: whether both   *)
(* trajectories are valid, the common time span of the two trajectories,   *)
(* and the instants at which the vehicles are too close.  A query either   *)
(* fails with invalid_trajectory_error, exactly when the input is invalid, *)
(* or answers once, with none or with a conflict time inside the common    *)
(* span; the answer never changes afterwards.                              *)
(***************************************************************************)
EXTENDS Integers

CONSTANT None   \* the answer rmf_utils::nullopt

VARIABLES
  valid,    \* both trajectories have at least two waypoints
  span,     \* the set of instants shared by both trajectories
  close,    \* the instants at which the vehicles are too close
  status,   \* "busy" until the query fails or answers
  answer    \* the answer: None or a conflict time

vars == <<valid, span, close, status, answer>>

Init ==
  /\ status = "busy"
  /\ answer = None

\* invalid_trajectory_error, for an invalid input only.
Reject ==
  /\ status = "busy"
  /\ ~valid
  /\ status' = "error"
  /\ UNCHANGED <<valid, span, close, answer>>

\* A valid query answers none or a conflict time of the common span.
Answer ==
  /\ status = "busy"
  /\ valid
  /\ answer' \in {None} \cup (span \cap close)
  /\ status' = "done"
  /\ UNCHANGED <<valid, span, close>>

Next == Reject \/ Answer

\* A query is a synchronous call: it eventually fails or answers.
Spec == Init /\ [][Next]_vars /\ WF_vars(Next)

=============================================================================
