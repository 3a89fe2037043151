------------------- MODULE DetectConflictRefinementProofs -------------------
(***************************************************************************)
(* Proof of the safety part of the refinement: for every value of the      *)
(* constants, every behaviour of between (first-conflict mode, no output   *)
(* vector) on well-formed profiles starts in                               *)
(* an initial state of ConflictQuery and takes only steps of ConflictQuery *)
(* or steps that leave the abstract state unchanged.  The liveness part    *)
(* (the weak fairness of ConflictQuery) is checked by TLC only.            *)
(***************************************************************************)
EXTENDS DetectConflictRefinement, DetectConflictSoundness

USE MaxTimeAssumption, MaxLenAssumption, DistValsAssumption,
    RadiiAssumption, CollectAssumption

\* On well-formed profiles the footprints are present once the early
\* returns are passed, so check_overlap never dereferences a null pointer.
FootprintsInv ==
  /\ WellFormed(profA) /\ WellFormed(profB)
  /\ phase \in Running => PA.footprint # NoShape /\ PB.footprint # NoShape
  /\ phase \in Running \cup {"done"} => ValidInput
  /\ phase = "error" => ~ValidInput
  /\ phase # "crashed"

\* Without an output vector nothing is reused.
FreshInv == reused = 0

\* The inductive invariant behind the refinement.
RefInv == SoundInv /\ FootprintsInv /\ FreshInv

-----------------------------------------------------------------------------
(* Lemmas.                                                                 *)

\* After convert_profile, a well-formed profile with a vicinity has a
\* footprint.
LEMMA WellFormedFootprint ==
  ASSUME NEW p \in Profile, WellFormed(p), ConvertProfile(p).vicinity # NoShape
  PROVE  ConvertProfile(p).footprint # NoShape
BY DEF WellFormed, ConvertProfile, Profile

\* check_overlap dereferences only present footprints.
LEMMA NoCrashOverlap ==
  ASSUME PA.footprint # NoShape, PB.footprint # NoShape, NEW t
  PROVE  CheckOverlap(t) # "crash"
BY DEF CheckOverlap

\* Once between has returned, thrown or crashed, nothing changes.
LEMMA TerminalStutter ==
  ASSUME phase \in Terminal, [Next]_vars
  PROVE  UNCHANGED vars
BY DEF Terminal, Next, RejectTrajectory, EarlyReturn, BeginDetection,
       InvasionHit, InvasionAdvance, InvasionExit, ApproachReturn,
       ApproachBegin, ApproachTime, ApproachEnd, ApproachExit, Terminated

LEMMA InitRef ==
  ASSUME ~Collect
  PROVE  RefInit => RefInv
<1> SUFFICES ASSUME RefInit PROVE RefInv
  OBVIOUS
<1>1. SoundInv
  BY InitSound DEF RefInit
<1>2. conflicts = <<>>
  BY DEF RefInit, Init
<1>3. FreshInv
  BY <1>2 DEF RefInit, Init, FreshInv
<1>. QED  BY <1>1, <1>3 DEF RefInit, Init, RefInv, FootprintsInv, Running

\* No step of between makes a cleared vector reused again.
LEMMA NextFresh == FreshInv /\ [Next]_vars => FreshInv'
BY DEF FreshInv, Next, vars, ghost, RejectTrajectory, EarlyReturn, BeginDetection,
       InvasionHit, InvasionAdvance, InvasionExit, ApproachReturn,
       ApproachBegin, ApproachTime, ApproachEnd, ApproachExit, Terminated

LEMMA NextFootprints == RefInv /\ [Next]_vars => FootprintsInv'
<1> SUFFICES ASSUME RefInv, [Next]_vars PROVE FootprintsInv'
  OBVIOUS
<1>1. UNCHANGED inputs
  BY DEF Next, vars, RejectTrajectory, EarlyReturn, BeginDetection, InvasionHit,
         InvasionAdvance, InvasionExit, ApproachReturn, ApproachBegin, ApproachTime,
         ApproachEnd, ApproachExit, Terminated
<1>2. /\ WellFormed(profA)' /\ WellFormed(profB)'
      /\ PA' = PA /\ PB' = PB /\ (ValidInput' <=> ValidInput)
  <2>1. profA' = profA /\ profB' = profB /\ trajA' = trajA /\ trajB' = trajB
    BY <1>1 DEF inputs
  <2>2. WellFormed(profA)' /\ WellFormed(profB)'
    BY <2>1 DEF WellFormed, RefInv, FootprintsInv
  <2>3. PA' = PA /\ PB' = PB
    BY <2>1 DEF PA, PB, ConvertProfile
  <2>4. ValidInput' <=> ValidInput
    BY <2>1 DEF ValidInput
  <2>. QED  BY <2>2, <2>3, <2>4
<1>3. /\ WellFormed(profA) /\ WellFormed(profB) /\ TypeOK
      /\ phase \in Running => PA.footprint # NoShape /\ PB.footprint # NoShape
      /\ phase \in Running \cup {"done"} => ValidInput
      /\ phase = "error" => ~ValidInput
      /\ phase # "crashed"
  BY DEF RefInv, FootprintsInv, SoundInv, CovInv, IInv
<1> SUFFICES /\ phase' \in Running => PA.footprint # NoShape /\ PB.footprint # NoShape
             /\ phase' \in Running \cup {"done"} => ValidInput
             /\ phase' = "error" => ~ValidInput
             /\ phase' # "crashed"
  BY <1>2 DEF FootprintsInv
<1>4. CASE phase \in Running
  <2>1. PA.footprint # NoShape /\ PB.footprint # NoShape /\ ValidInput
    BY <1>3, <1>4
  <2>2. \A t : CheckOverlap(t) # "crash"
    BY <2>1, NoCrashOverlap
  <2>3. phase' \in Running \cup {"done"}
    BY <1>4, <2>2 DEF Running, Next, vars, RejectTrajectory, EarlyReturn,
       BeginDetection, InvasionHit, InvasionAdvance, InvasionExit, ApproachReturn,
       ApproachBegin, ApproachTime, ApproachEnd, ApproachExit, Terminated
  <2>. QED  BY <2>1, <2>3 DEF Running
<1>5. CASE phase \in Terminal
  BY <1>3, <1>5, TerminalStutter DEF vars
<1>6. CASE phase = "start"
  <2>1. CASE RejectTrajectory
    <3>1. Len(trajA) \in Nat /\ Len(trajB) \in Nat
      BY <1>3, TrajectoryType DEF TypeOK
    <3>. QED  BY <2>1, <3>1 DEF RejectTrajectory, ValidInput, Running
  <2>2. CASE EarlyReturn
    BY <2>2 DEF EarlyReturn, Running
  <2>3. CASE BeginDetection
    <3>1. /\ ValidInput
          /\ PA.footprint # NoShape \/ PB.footprint # NoShape
          /\ PA.vicinity # NoShape /\ PB.vicinity # NoShape
      BY <2>3 DEF BeginDetection
    <3>2. PA.footprint # NoShape /\ PB.footprint # NoShape
      BY <1>3, <3>1, WellFormedFootprint DEF PA, PB, TypeOK
    <3>3. \A t : CheckOverlap(t) # "crash"
      BY <3>2, NoCrashOverlap
    <3>4. PICK it \in InitialIterators :
            LET close == CheckOverlap(Max2(trajA[it[1] - 1], trajB[it[2] - 1])) IN
            phase' = CASE close = "crash" -> "crashed"
                       [] close = "yes"   -> "approach"
                       [] close = "no"    -> "invasion"
      BY <2>3 DEF BeginDetection
    <3>5. phase' \in {"approach", "invasion"}
      BY <3>3, <3>4, CheckOverlapType
    <3>. QED  BY <3>1, <3>2, <3>5 DEF Running
  <2>4. CASE UNCHANGED vars
    BY <1>6, <2>4 DEF vars, Running
  <2>. QED  BY <1>6, <2>1, <2>2, <2>3, <2>4
       DEF Next, InvasionHit, InvasionAdvance, InvasionExit, ApproachReturn,
           ApproachBegin, ApproachTime, ApproachEnd, ApproachExit, Terminated
<1>. QED  BY <1>3, <1>4, <1>5, <1>6 DEF TypeOK, Phases, Running, Terminal

LEMMA NextRef == RefInv /\ [Next]_vars => RefInv'
BY NextSound, NextFootprints, NextFresh DEF RefInv

\* Every step of between maps to a step of the abstract query or leaves the
\* abstract state unchanged.
LEMMA StepRefines == RefInv /\ RefInv' /\ [Next]_vars => [Abs!Next]_Abs!vars
<1> SUFFICES ASSUME RefInv, RefInv', [Next]_vars PROVE [Abs!Next]_Abs!vars
  OBVIOUS
<1>1. UNCHANGED inputs
  BY DEF Next, vars, RejectTrajectory, EarlyReturn, BeginDetection, InvasionHit,
         InvasionAdvance, InvasionExit, ApproachReturn, ApproachBegin, ApproachTime,
         ApproachEnd, ApproachExit, Terminated
<1>2. /\ ValidInput' <=> ValidInput
      /\ (T0..T1)' = T0..T1
      /\ {t \in Times : CloseAt(t)}' = {t \in Times : CloseAt(t)}
      /\ Good' = Good
  <2>1. /\ trajA' = trajA /\ trajB' = trajB /\ profA' = profA /\ profB' = profB
        /\ dist' = dist
    BY <1>1 DEF inputs
  <2>2. ValidInput' <=> ValidInput
    BY <2>1 DEF ValidInput
  <2>3. (T0..T1)' = T0..T1
    BY <2>1 DEF T0, T1, Max2, Min2, Last
  <2>4. {t \in Times : CloseAt(t)}' = {t \in Times : CloseAt(t)}
    BY <2>1 DEF CloseAt, Touch, PA, PB, ConvertProfile
  <2>. QED  BY <1>1, <2>2, <2>3, <2>4, GoodUnchanged
<1>3. /\ TypeOK /\ TypeOK' /\ ResultGood' /\ FreshInv'
      /\ phase' \in Running \cup {"done"} => ValidInput'
      /\ phase' = "error" => ~ValidInput'
      /\ phase' # "crashed"
  BY DEF RefInv, SoundInv, CovInv, IInv, FootprintsInv
<1>4. CASE phase \in Terminal
  <2>1. UNCHANGED vars
    BY <1>4, TerminalStutter
  <2>. QED  BY <1>2, <2>1 DEF vars, Abs!vars
<1>5. CASE phase \notin Terminal /\ phase' \notin Terminal
  BY <1>2, <1>5 DEF Abs!vars, Terminal
<1>6. CASE phase \notin Terminal /\ phase' = "error"
  <2>1. ~ValidInput
    BY <1>2, <1>3, <1>6
  <2>. QED  BY <1>2, <1>6, <2>1 DEF Abs!Next, Abs!Reject, Terminal
<1>7. CASE phase \notin Terminal /\ phase' = "done"
  <2>1. ValidInput
    BY <1>2, <1>3, <1>7 DEF Running
  <2>2. T0 \in Times /\ T1 \in Times
    BY <1>3, SpanType
  <2>3. Good \subseteq (T0..T1) \cap {t \in Times : CloseAt(t)}
    BY <2>2 DEF Good, Times
  <2>4. result' \in {None} \cup Good
    BY <1>2, <1>3, <1>7 DEF ResultGood, FreshInv
  <2>5. result' \in {None} \cup ((T0..T1) \cap {t \in Times : CloseAt(t)})
    BY <2>3, <2>4
  <2>. QED  BY <1>2, <1>7, <2>1, <2>5 DEF Abs!Next, Abs!Answer, Terminal
<1>. QED  BY <1>3, <1>4, <1>5, <1>6, <1>7 DEF TypeOK, Phases, Terminal

\* between, called on profiles that have a footprint whenever they have a
\* vicinity, implements the safety part of the abstract query: its initial
\* states are initial states of ConflictQuery, it throws
\* invalid_trajectory_error only for a trajectory of fewer than two
\* waypoints, it answers once, and its answer is none or a conflict time of
\* the common span, whatever path through detect_invasion, detect_approach
\* and the slicing between them it takes.
THEOREM RefinementSafety ==
  ASSUME ~Collect
  PROVE  RefSpec => Abs!Init /\ [][Abs!Next]_Abs!vars
<1>1. RefInit => Abs!Init
  BY DEF RefInit, Init, Abs!Init, Terminal
<1>. QED  BY <1>1, InitRef, NextRef, StepRefines, PTL DEF RefSpec

=============================================================================
