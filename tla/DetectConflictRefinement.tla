----------------------- MODULE DetectConflictRefinement -----------------------
(***************************************************************************)
(* DetectConflict::between implements the abstract query ConflictQuery.    *)
(* The refinement mapping reads the abstract input facts off the inputs of *)
(* between (ValidInput, the common span T0..T1 and CloseAt) and shows the  *)
(* whole run of between, the iterator alignment, the invasion and approach *)
(* loops and every slicing, as stuttering steps followed by one answer.    *)
(* The abstract query has no crash, so the mapping holds for the profiles  *)
(* that have a footprint whenever they have a vicinity (see NoCrash).      *)
(***************************************************************************)
EXTENDS DetectConflict

\* A profile whose vicinity, when given, comes with a footprint.
WellFormed(p) == p.vicinity # NoShape => p.footprint # NoShape

\* between called on well-formed profiles.
RefInit == Init /\ WellFormed(profA) /\ WellFormed(profB)

RefSpec == RefInit /\ [][Next]_vars /\ WF_vars(Next)

Abs == INSTANCE ConflictQuery WITH
         valid <- ValidInput,
         span <- T0..T1,
         close <- {t \in Times : CloseAt(t)},
         status <- IF phase \in Terminal THEN phase ELSE "busy",
         answer <- IF phase = "done" THEN result ELSE None

\* between, on well-formed profiles, refines the abstract query: it throws
\* exactly for an invalid trajectory, returns once, and returns none or a
\* conflict time of the common span, whichever path through detect_invasion
\* and detect_approach (and the slicing between them) it takes.
ConflictQuerySpec == Abs!Spec

=============================================================================
