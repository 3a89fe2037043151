------------------------- MODULE DetectRegionProofs -------------------------
(***************************************************************************)
(* Proofs about internal::detect_conflicts, for every value of the        *)
(* constants: the loop's iterators stay within begin_it..end_it and the    *)
(* trajectory (TypeOK), and every reported conflict is real (RegionSound). *)
(***************************************************************************)
EXTENDS DetectRegion, WellFoundedInduction, TLAPS

USE RegionMaxTimeAssumption, RegionMaxLenAssumption, RegionDistValsAssumption,
    RegionRadiiAssumption, NPiecesAssumption, NoBoundAssumption,
    RegionFlagsAssumption

\* A non-empty set of naturals has a least element.
LEMMA RegionNatMin ==
  ASSUME NEW T \in SUBSET Nat, T # {}
  PROVE  \E m \in T : \A k \in T : m <= k
<1>1. PICK x \in T : \A y \in T : ~(<<y, x>> \in OpToRel(<, Nat))
  BY NatLessThanWellFounded, WFMin
<1>2. \A y \in T : ~(y < x)
  BY <1>1 DEF OpToRel
<1> QED
  BY <1>2

\* A trajectory is a non-empty, strictly increasing sequence of instants.
LEMMA RegionTrajectoryType ==
  ASSUME NEW s \in Trajectories
  PROVE  /\ s \in Seq(Times)
         /\ Len(s) \in 1..MaxLen
         /\ \A i, j \in 1..Len(s) : i < j => s[i] < s[j]
<1>1. PICK n \in 1..MaxLen : /\ s \in [1..n -> Times]
                             /\ \A i, j \in 1..n : i < j => s[i] < s[j]
  BY DEF Trajectories
<1> QED
  BY <1>1

\* The region's window lies within the trajectory's span.
LEMMA WindowBounds ==
  ASSUME traj \in Trajectories, lower \in Bound, upper \in Bound
  PROVE  /\ StartTime \in Times /\ FinishTime \in Times
         /\ traj[1] <= StartTime /\ FinishTime <= Last(traj)
<1>1. traj \in Seq(Times) /\ Len(traj) \in 1..MaxLen
  BY RegionTrajectoryType
<1>2. traj[1] \in Times /\ Last(traj) \in Times
  BY <1>1 DEF Last
<1> QED
  BY <1>2 DEF StartTime, FinishTime, Max2, Min2, Bound, Times

\* find(t) for t up to the last waypoint: the first waypoint at or after t.
LEMMA FindSpec ==
  ASSUME traj \in Trajectories, NEW t \in Int, t <= Last(traj)
  PROVE  /\ Find(t) \in 1..Len(traj)
         /\ traj[Find(t)] >= t
         /\ \A j \in 1..(Find(t) - 1) : traj[j] < t
<1>1. traj \in Seq(Times) /\ Len(traj) \in 1..MaxLen
  BY RegionTrajectoryType
<1> DEFINE T == {i \in 1..Len(traj) : traj[i] >= t}
<1>2. T \in SUBSET Nat /\ Len(traj) \in T
  BY <1>1 DEF Last, Times
<1>3. PICK m \in T : \A k \in T : m <= k
  BY <1>2, RegionNatMin
<1>4. \A j \in 1..(m - 1) : traj[j] < t
  BY <1>1, <1>3 DEF Times
<1>5. \E i \in 1..Len(traj) : traj[i] >= t /\ \A j \in 1..(i - 1) : traj[j] < t
  BY <1>3, <1>4
<1> QED
  BY <1>5 DEF Find

\* begin_it and end_it of a non-empty window: 2 <= begin_it <= end_it <=
\* end(), since find is monotone in its argument.
LEMMA BeginEnd ==
  ASSUME traj \in Trajectories, lower \in Bound, upper \in Bound,
         ~(FinishTime < StartTime)
  PROVE  /\ BeginIt \in Nat /\ EndIt \in Nat
         /\ 2 <= BeginIt
         /\ BeginIt <= EndIt
         /\ EndIt <= Len(traj) + 1
<1>1. traj \in Seq(Times) /\ Len(traj) \in 1..MaxLen
  BY RegionTrajectoryType
<1>2. /\ StartTime \in Times /\ FinishTime \in Times
      /\ traj[1] <= StartTime /\ FinishTime <= Last(traj)
  BY WindowBounds
<1>9. StartTime \in Int /\ StartTime <= Last(traj)
  BY <1>2, <1>1 DEF Times, Last
<1>3. /\ Find(StartTime) \in 1..Len(traj)
      /\ traj[Find(StartTime)] >= StartTime
      /\ \A j \in 1..(Find(StartTime) - 1) : traj[j] < StartTime
  BY <1>9, FindSpec
<1>4. /\ Find(FinishTime) \in 1..Len(traj)
      /\ traj[Find(FinishTime)] >= FinishTime
  BY <1>2, FindSpec DEF Times
<1>5. Find(StartTime) <= Find(FinishTime)
  <2>1. SUFFICES ASSUME Find(FinishTime) < Find(StartTime) PROVE FALSE
    BY <1>3, <1>4
  <2>2. traj[Find(FinishTime)] < StartTime
    BY <2>1, <1>3, <1>4
  <2>3. traj[Find(FinishTime)] \in Times
    BY <1>1, <1>4
  <2> QED
    BY <2>2, <2>3, <1>2, <1>4 DEF Times
<1>6. traj[1] < StartTime => 2 <= Find(StartTime)
  <2>1. SUFFICES ASSUME traj[1] < StartTime, Find(StartTime) = 1 PROVE FALSE
    BY <1>3
  <2> QED
    BY <2>1, <1>3, <1>2, <1>1 DEF Times
<1> QED
  BY <1>1, <1>3, <1>4, <1>5, <1>6 DEF BeginIt, EndIt

\* The clipped window of spline i lies in the region's window and in the
\* spline's own span.
LEMMA SplineWindow ==
  ASSUME traj \in Trajectories, lower \in Bound, upper \in Bound,
         NEW i \in 2..Len(traj), NEW t \in SplineStart(i)..SplineFinish(i)
  PROVE  /\ t \in Window
         /\ t \in Times
         /\ traj[i - 1] <= t /\ t <= traj[i]
<1>1. traj \in Seq(Times) /\ Len(traj) \in 1..MaxLen
  BY RegionTrajectoryType
<1>2. traj[i - 1] \in Times /\ traj[i] \in Times
  BY <1>1
<1>3. StartTime \in Times /\ FinishTime \in Times
  BY WindowBounds
<1> QED
  BY <1>2, <1>3 DEF SplineStart, SplineFinish, Max2, Min2, Window, Times

-----------------------------------------------------------------------------
(* The inductive invariant: TypeOK and RegionSound together.  RegionSound  *)
(* alone is not inductive, because a recorded conflict's spline is in      *)
(* 2..Len(traj) only since the loop iterator is, which TypeOK states.      *)

RInv == TypeOK /\ RegionSound

\* The inputs of the call do not change while it runs: nor do its window
\* and the instants at which the vicinity meets the region.
LEMMA InputsStable ==
  ASSUME UNCHANGED inputs
  PROVE  /\ Window' = Window
         /\ \A t : InRegion(t)' <=> InRegion(t)
         /\ traj' = traj
BY DEF inputs, Window, StartTime, FinishTime, Last, Max2, Min2, InRegion, TouchP

\* The inputs keep their types.
InputsOK ==
  /\ traj \in Trajectories
  /\ vicinity \in Radii \cup {NoShape}
  /\ lower \in Bound /\ upper \in Bound
  /\ pieces \in [Pieces -> Radii]
  /\ rdist \in [Pieces -> [Times -> DistVals]]

LEMMA InputsTyped ==
  ASSUME TypeOK, UNCHANGED inputs
  PROVE  InputsOK' /\ traj' = traj
BY DEF TypeOK, inputs, InputsOK

LEMMA InitR == Init => RInv
<1> SUFFICES ASSUME Init PROVE RInv
  OBVIOUS
<1>1. <<Stale>> \in Seq(ConflictRec)
  <2>1. Stale \in ConflictRec
    BY DEF Stale, ConflictRec, Times
  <2> QED
    BY <2>1
<1>2. conflicts \in Seq(ConflictRec)
  <2>1. conflicts \in {<<>>, <<Stale>>}
    BY Zenon DEF Init
  <2>2. <<>> \in Seq(ConflictRec)
    OBVIOUS
  <2> QED
    BY <1>1, <2>1, <2>2, Zenon
<1>3. /\ phase = "start" /\ it = 0 /\ endIt = 0 /\ piece = 1 /\ result = FALSE
      /\ traj \in Trajectories /\ vicinity \in Radii \cup {NoShape}
      /\ lower \in Bound /\ upper \in Bound
      /\ pieces \in [Pieces -> Radii]
      /\ rdist \in [Pieces -> [Times -> DistVals]]
  BY DEF Init
<1>5. it \in 0..(MaxLen + 1) /\ endIt \in 0..(MaxLen + 1) /\ piece \in 1..(NPieces + 1)
  BY <1>3
<1>6. phase \in Phases /\ phase # "loop" /\ result \in BOOLEAN
  BY <1>3 DEF Phases
<1>4. TypeOK
  BY <1>2, <1>3, <1>5, <1>6 DEF TypeOK
<1> QED
  BY <1>3, <1>4 DEF RInv, RegionSound

\* The early returns: the call ends with false, or throws.
LEMMA EarlyR ==
  ASSUME RInv, DebugThrow \/ NoVicinity \/ NoTimeOverlap
  PROVE  RInv'
<1>1. UNCHANGED <<inputs, it, endIt, piece, conflicts>>
  BY DEF DebugThrow, NoVicinity, NoTimeOverlap
<1>2. (phase' = "error" /\ result' = result) \/ (phase' = "done" /\ result' = FALSE)
  BY DEF DebugThrow, NoVicinity, NoTimeOverlap
<1>5. InputsOK' /\ traj' = traj
  BY <1>1, InputsTyped DEF RInv
<1>3. TypeOK'
  BY <1>1, <1>2, <1>5 DEF RInv, TypeOK, Phases, InputsOK
<1>4. RegionSound'
  BY <1>2 DEF RegionSound
<1> QED
  BY <1>3, <1>4 DEF RInv

\* Entering the loop: begin_it <= end_it, and the output vector is cleared.
LEMMA BeginLoopR ==
  ASSUME RInv, BeginLoop
  PROVE  RInv'
<1>1. UNCHANGED <<inputs, result>>
  BY DEF BeginLoop
<1>2. BeginIt \in Nat /\ EndIt \in Nat /\ 2 <= BeginIt /\ BeginIt <= EndIt /\ EndIt <= Len(traj) + 1
  BY BeginEnd DEF BeginLoop, RInv, TypeOK
<1>3. Len(traj) \in 1..MaxLen
  BY RegionTrajectoryType DEF RInv, TypeOK
<1>7. it' = BeginIt /\ endIt' = EndIt /\ piece' = 1 /\ phase' = "loop"
  BY DEF BeginLoop
<1>8. conflicts' \in Seq(ConflictRec)
  BY DEF BeginLoop, RInv, TypeOK
<1>9. it' \in 0..(MaxLen + 1) /\ endIt' \in 0..(MaxLen + 1) /\ piece' \in 1..(NPieces + 1)
  BY <1>2, <1>3, <1>7
<1>10. InputsOK' /\ traj' = traj
  BY <1>1, InputsTyped DEF RInv
<1>11. result' \in BOOLEAN
  BY <1>1 DEF RInv, TypeOK
<1>4. TypeOK'
  BY <1>2, <1>7, <1>8, <1>9, <1>10, <1>11 DEF TypeOK, Phases, InputsOK
<1>5. Collect => conflicts' = <<>>
  BY DEF BeginLoop
<1>6. phase' = "loop"
  BY DEF BeginLoop
<1> QED
  BY <1>4, <1>5, <1>6 DEF RInv, RegionSound

\* A miss or the next spline: the output vector is unchanged.
LEMMA AdvanceR ==
  ASSUME RInv, CollideMiss \/ NextSpline
  PROVE  RInv'
<1>1. UNCHANGED <<inputs, phase, endIt, conflicts, result>>
  BY DEF CollideMiss, NextSpline
<1>2. phase = "loop" /\ it # endIt
  BY DEF CollideMiss, NextSpline
<1>3. /\ it' \in 0..(MaxLen + 1) /\ piece' \in 1..(NPieces + 1)
      /\ 2 <= it' /\ it' <= endIt'
  <2>1. CASE CollideMiss
    BY <2>1 DEF CollideMiss, RInv, TypeOK
  <2>2. CASE NextSpline
    BY <2>2, <1>2 DEF NextSpline, RInv, TypeOK
  <2> QED
    BY <2>1, <2>2
<1>6. InputsOK' /\ traj' = traj
  BY <1>1, InputsTyped DEF RInv
<1>4. TypeOK'
  BY <1>1, <1>3, <1>6 DEF RInv, TypeOK, InputsOK
<1>5. RegionSound'
  BY <1>1, InputsStable DEF RInv, RegionSound
<1> QED
  BY <1>4, <1>5 DEF RInv

\* The loop's current spline is a spline of the trajectory.
LEMMA LoopSpline ==
  ASSUME TypeOK, phase = "loop", it # endIt, piece <= NPieces
  PROVE  it \in 2..Len(traj) /\ piece \in Pieces
<1>1. Len(traj) \in 1..MaxLen
  BY RegionTrajectoryType DEF TypeOK
<1> QED
  BY <1>1 DEF TypeOK, Pieces

\* A contact without an output vector: the contact instant is a witness.
LEMMA CollideReturnR ==
  ASSUME RInv, CollideReturn
  PROVE  RInv'
<1>1. UNCHANGED <<inputs, it, endIt, piece, conflicts>>
  BY DEF CollideReturn
<1>2. it \in 2..Len(traj) /\ piece \in Pieces
  BY LoopSpline DEF CollideReturn, RInv
<1>3. PICK t \in SplineStart(it)..SplineFinish(it) : TouchP(piece, t)
  BY DEF CollideReturn, NoTouchP
<1>4. t \in Window
  BY <1>2, SplineWindow DEF RInv, TypeOK
<1>5. InRegion(t)
  BY <1>2, <1>3 DEF InRegion
<1>6. \E u \in Window' : InRegion(u)'
  BY <1>1, <1>4, <1>5, InputsStable
<1>9. InputsOK' /\ traj' = traj
  BY <1>1, InputsTyped DEF RInv
<1>7. TypeOK'
  BY <1>1, <1>9 DEF CollideReturn, RInv, TypeOK, Phases, InputsOK
<1>8. ~Collect /\ phase' = "done"
  BY DEF CollideReturn
<1> QED
  BY <1>6, <1>7, <1>8 DEF RInv, RegionSound

\* A recorded contact: the emplaced conflict lies in its spline and in the
\* window, at an instant at which the vicinity meets the region.
LEMMA CollideRecordR ==
  ASSUME RInv, CollideRecord
  PROVE  RInv'
<1>1. UNCHANGED <<inputs, phase, it, endIt, result>>
  BY DEF CollideRecord
<1>2. it \in 2..Len(traj) /\ piece \in Pieces
  BY LoopSpline DEF CollideRecord, RInv
<1>3. PICK t \in Times :
        /\ IsFirstTouchP(piece, SplineStart(it), SplineFinish(it), t)
        /\ conflicts' = Append(conflicts, [spline |-> it, time |-> t])
  BY DEF CollideRecord
<1> DEFINE c == [spline |-> it, time |-> t]
<1>4. /\ t \in Window
      /\ traj[it - 1] <= t /\ t <= traj[it]
  BY <1>2, <1>3, SplineWindow DEF RInv, TypeOK, IsFirstTouchP
<1>5. InRegion(t)
  BY <1>2, <1>3 DEF InRegion, IsFirstTouchP
<1>6. Len(traj) \in 1..MaxLen /\ conflicts \in Seq(ConflictRec)
  BY RegionTrajectoryType DEF RInv, TypeOK
<1>7. c \in ConflictRec
  BY <1>2, <1>6 DEF ConflictRec
<1>8. conflicts' \in Seq(ConflictRec)
  BY <1>3, <1>6, <1>7
<1>9. InputsOK' /\ traj' = traj
  BY <1>1, InputsTyped DEF RInv
<1>10. piece' \in 1..(NPieces + 1)
  BY <1>2 DEF CollideRecord, Pieces
<1>11. TypeOK'
  BY <1>1, <1>8, <1>9, <1>10 DEF RInv, TypeOK, InputsOK
<1>12. RegionSound'
  <2>1. Collect /\ phase = "loop" /\ phase' = "loop"
    BY <1>1 DEF CollideRecord
  <2>2. \A i \in DOMAIN conflicts :
          LET d == conflicts[i] IN
            /\ d.spline \in 2..Len(traj)
            /\ d.time \in Window
            /\ traj[d.spline - 1] <= d.time /\ d.time <= traj[d.spline]
            /\ InRegion(d.time)
    BY <2>1 DEF RInv, RegionSound
  <2>3. \A i \in DOMAIN conflicts' :
          LET d == conflicts'[i] IN
            /\ d.spline \in 2..Len(traj)
            /\ d.time \in Window
            /\ traj[d.spline - 1] <= d.time /\ d.time <= traj[d.spline]
            /\ InRegion(d.time)
    <3>1. DOMAIN conflicts' = DOMAIN conflicts \cup {Len(conflicts) + 1}
      BY <1>3, <1>6
    <3>2. \A i \in DOMAIN conflicts : conflicts'[i] = conflicts[i]
      BY <1>3, <1>6
    <3>3. conflicts'[Len(conflicts) + 1] = c
      BY <1>3, <1>6
    <3> QED
      BY <3>1, <3>2, <3>3, <2>2, <1>2, <1>4, <1>5
  <2>4. Window' = Window /\ \A u : InRegion(u)' <=> InRegion(u)
    BY <1>1, InputsStable
  <2> QED
    BY <2>1, <2>3, <2>4, <1>9 DEF RegionSound
<1> QED
  BY <1>11, <1>12 DEF RInv

\* Leaving the loop: with an output vector, its first conflict is the
\* witness of a true result.
LEMMA LoopExitR ==
  ASSUME RInv, LoopExit
  PROVE  RInv'
<1>1. UNCHANGED <<inputs, it, endIt, piece, conflicts>>
  BY DEF LoopExit
<1>2. phase = "loop" /\ phase' = "done" /\ (result' <=> Collect /\ conflicts # <<>>)
  BY DEF LoopExit
<1>3. InputsOK' /\ traj' = traj
  BY <1>1, InputsTyped DEF RInv
<1>4. TypeOK'
  BY <1>1, <1>2, <1>3 DEF RInv, TypeOK, InputsOK, Phases
<1>5. Collect =>
        \A i \in DOMAIN conflicts :
          /\ conflicts[i].time \in Window
          /\ InRegion(conflicts[i].time)
  BY <1>2 DEF RInv, RegionSound
<1>6. result' => 1 \in DOMAIN conflicts
  <2>1. conflicts \in Seq(ConflictRec)
    BY DEF RInv, TypeOK
  <2> QED
    BY <1>2, <2>1
<1>7. Window' = Window /\ \A u : InRegion(u)' <=> InRegion(u)
  BY <1>1, InputsStable
<1>8. result' => \E u \in Window' : InRegion(u)'
  BY <1>2, <1>5, <1>6, <1>7
<1>9. Collect => \A i \in DOMAIN conflicts :
          LET d == conflicts[i] IN
            /\ d.spline \in 2..Len(traj)
            /\ d.time \in Window
            /\ traj[d.spline - 1] <= d.time /\ d.time <= traj[d.spline]
            /\ InRegion(d.time)
  BY <1>2 DEF RInv, RegionSound
<1>10. RegionSound'
  BY <1>1, <1>2, <1>3, <1>7, <1>8, <1>9 DEF RegionSound
<1> QED
  BY <1>4, <1>10 DEF RInv

\* A return or a throw leaves the state as it is, and so does a stutter.
LEMMA StutterR ==
  ASSUME RInv, Terminated \/ UNCHANGED vars
  PROVE  RInv'
<1>1. UNCHANGED vars
  BY DEF Terminated
<1> QED
  BY <1>1, InputsStable, InputsTyped
     DEF vars, inputs, RInv, TypeOK, RegionSound, InputsOK

LEMMA NextR == RInv /\ [Next]_vars => RInv'
BY EarlyR, BeginLoopR, AdvanceR, CollideReturnR, CollideRecordR, LoopExitR,
   StutterR DEF Next

\* detect_conflicts' variables keep their types on every path: in the loop
\* the iterator never passes end_it, and end_it never passes
\* trajectory.end(), whatever the region's time bounds.
THEOREM RegionTypeCorrect == Spec => []TypeOK
<1>1. Init => RInv
  BY InitR
<1>2. RInv /\ [Next]_vars => RInv'
  BY NextR
<1>3. RInv => TypeOK
  BY DEF RInv
<1> QED
  BY <1>1, <1>2, <1>3, PTL DEF Spec

\* detect_conflicts reports only real conflicts, for every trajectory,
\* vicinity, region and build: a true result has a witness instant in the
\* window at which the vicinity meets the region, and every conflict it
\* emplaces lies in its spline's span and in the window at such an instant.
THEOREM RegionSoundHolds == Spec => []RegionSound
<1>1. Init => RInv
  BY InitR
<1>2. RInv /\ [Next]_vars => RInv'
  BY NextR
<1>3. RInv => RegionSound
  BY DEF RInv
<1> QED
  BY <1>1, <1>2, <1>3, PTL DEF Spec

-----------------------------------------------------------------------------
(* Completeness: outside the degenerate window, every instant of the       *)
(* window at which the vicinity meets the region is found.                 *)

\* Piece k of spline j has been tested against the vicinity: j is a spline
\* the loop has passed, or the current one and k a piece before `piece`.
Scanned(j, k) == j \in BeginIt..(it - 1) \/ (j = it /\ k < piece)

\* The clipped window of spline j.
SpanOf(j) == SplineStart(j)..SplineFinish(j)

\* A conflict of spline j reported at or before instant t.
Reported(j, t) ==
  \E i \in DOMAIN conflicts : conflicts[i].spline = j /\ conflicts[i].time <= t

\* Every contact of piece k with spline j has been reported, which without
\* an output vector means there was none.
Covered(j, k) ==
  \A t \in SpanOf(j) : TouchP(k, t) => Collect /\ Reported(j, t)

\* In the loop, the window is not empty (the guard that let the loop
\* start), every scanned piece and spline is covered, and end_it is the
\* iterator computed on entry.
LoopCovered ==
  phase = "loop" =>
    /\ ~(FinishTime < StartTime)
    /\ BeginIt <= it
    /\ endIt = EndIt
    /\ \A j \in BeginIt..it, k \in Pieces : Scanned(j, k) => Covered(j, k)

\* The inductive invariant behind RegionComplete.
CInv == RInv /\ LoopCovered /\ RegionComplete

\* find is monotone in the instant it looks for.
LEMMA FindMono ==
  ASSUME traj \in Trajectories, NEW u \in Int, NEW t \in Int,
         u <= t, t <= Last(traj)
  PROVE  Find(u) <= Find(t)
<1>1. traj \in Seq(Times) /\ Len(traj) \in 1..MaxLen
  BY RegionTrajectoryType
<1>0. u <= Last(traj)
  BY <1>1 DEF Last, Times
<1>2. /\ Find(u) \in 1..Len(traj)
      /\ \A j \in 1..(Find(u) - 1) : traj[j] < u
  BY <1>0, FindSpec
<1>3. Find(t) \in 1..Len(traj) /\ traj[Find(t)] >= t
  BY FindSpec
<1>4. traj[Find(t)] \in Int
  BY <1>1, <1>3 DEF Times
<1>5. SUFFICES ASSUME Find(t) < Find(u) PROVE FALSE
  BY <1>2, <1>3
<1>6. traj[Find(t)] < u
  BY <1>2, <1>3, <1>5
<1> QED
  BY <1>3, <1>4, <1>6

\* Apart from the degenerate window, every instant of a non-empty window lies
\* in the clipped window of a spline from begin_it up to end_it.
LEMMA WindowCovered ==
  ASSUME traj \in Trajectories, lower \in Bound, upper \in Bound,
         ~(FinishTime < StartTime), ~DegenerateStart, NEW t \in Window
  PROVE  \E j \in BeginIt..(EndIt - 1) : j \in 2..Len(traj) /\ t \in SpanOf(j)
<1>1. traj \in Seq(Times) /\ Len(traj) \in 1..MaxLen
  BY RegionTrajectoryType
<1>0. \A i, j \in 1..Len(traj) : i < j => traj[i] < traj[j]
  BY RegionTrajectoryType
<1>2. /\ StartTime \in Times /\ FinishTime \in Times
      /\ traj[1] <= StartTime /\ FinishTime <= Last(traj)
  BY WindowBounds
<1>3. t \in Int /\ StartTime <= t /\ t <= FinishTime
  BY <1>2 DEF Window, Times
<1>4. traj[1] \in Int /\ Last(traj) \in Int
  BY <1>1 DEF Last, Times
<1>13. t <= Last(traj) /\ StartTime \in Int /\ FinishTime \in Int
  BY <1>2, <1>3, <1>4 DEF Times
<1>15. Len(traj) \in 1..MaxLen
  BY RegionTrajectoryType
<1>5. Len(traj) \in 2..MaxLen
  <2>1. Len(traj) = 1 => Last(traj) = traj[1]
    BY DEF Last
  <2>2. ~(Len(traj) = 1)
    BY <1>2, <1>3, <1>4, <2>1 DEF DegenerateStart, Times
  <2> DEFINE n == Len(traj)
  <2>3. n \in 1..MaxLen /\ n # 1
    BY <1>15, <2>2
  <2> HIDE DEF n
  <2>4. n \in 2..MaxLen
    BY <2>3
  <2> QED
    BY <2>4 DEF n
<1>6. /\ Find(t) \in 1..Len(traj)
      /\ traj[Find(t)] >= t
      /\ \A i \in 1..(Find(t) - 1) : traj[i] < t
  BY <1>3, <1>13, FindSpec
<1>14. traj[2] \in Int /\ traj[1] < traj[2]
  <2>1. 1 \in 1..Len(traj) /\ 2 \in 1..Len(traj) /\ 1 < 2
    BY <1>5, <1>1
  <2>2. traj[1] < traj[2]
    BY <2>1, <1>0
  <2> QED
    BY <2>1, <2>2, <1>1 DEF Times
<1> DEFINE j == IF Find(t) >= 2 THEN Find(t) ELSE 2
<1>7. j \in 2..Len(traj)
  BY <1>5, <1>6
<1>16. Find(t) <= j
  BY <1>6
<1>8. traj[j - 1] <= t /\ t <= traj[j]
  <2>1. CASE Find(t) >= 2
    <3>1. j = Find(t) /\ Find(t) - 1 \in 1..(Find(t) - 1) /\ Find(t) \in 1..Len(traj)
      BY <2>1, <1>6
    <3>2. traj[Find(t) - 1] < t
      BY <3>1, <1>6
    <3>3. traj[Find(t)] >= t
      BY <1>6
    <3>4. traj[Find(t) - 1] \in Int /\ traj[Find(t)] \in Int
      BY <3>1, <1>1 DEF Times
    <3>5. traj[Find(t) - 1] <= t /\ t <= traj[Find(t)]
      BY <3>2, <3>3, <3>4, <1>3
    <3> QED
      BY <3>1, <3>5
  <2>2. CASE ~(Find(t) >= 2)
    <3>1. j = 2 /\ Find(t) = 1
      BY <2>2, <1>6
    <3>2. traj[1] >= t
      BY <3>1, <1>6
    <3>3. traj[1] <= t /\ t <= traj[2]
      BY <3>2, <1>14, <1>2, <1>3, <1>4, <1>13
    <3> QED
      BY <3>1, <3>3
  <2> QED
    BY <2>1, <2>2
<1>9. traj[j - 1] \in Int /\ traj[j] \in Int
  BY <1>1, <1>7 DEF Times
<1>10. t \in SpanOf(j)
  BY <1>13, <1>3, <1>8, <1>9 DEF SpanOf, SplineStart, SplineFinish, Max2, Min2
<1>11. BeginIt <= j
  <2>1. CASE traj[1] < StartTime
    <3>1. StartTime <= t /\ t <= Last(traj) /\ StartTime \in Int
      BY <1>3, <1>13
    <3>2. Find(StartTime) <= Find(t)
      BY <3>1, <1>3, FindMono
    <3>3. BeginIt = Find(StartTime)
      BY <2>1 DEF BeginIt
    <3>4. BeginIt \in Nat
      BY BeginEnd
    <3> QED
      BY <3>2, <3>3, <3>4, <1>6, <1>16
  <2>2. CASE ~(traj[1] < StartTime)
    BY <2>2 DEF BeginIt
  <2> QED
    BY <2>1, <2>2
<1>12. j <= EndIt - 1
  <2>1. CASE FinishTime < Last(traj)
    <3>1. t <= FinishTime /\ FinishTime <= Last(traj) /\ FinishTime \in Int
      BY <1>2, <1>3, <1>13
    <3>2. Find(t) <= Find(FinishTime)
      BY <3>1, <1>3, FindMono
    <3>3. /\ Find(FinishTime) \in 1..Len(traj)
          /\ traj[Find(FinishTime)] >= FinishTime
      BY <3>1, FindSpec
    <3>4. Find(FinishTime) # 1
      <4> SUFFICES ASSUME Find(FinishTime) = 1 PROVE FALSE
        OBVIOUS
      <4> QED
        BY <3>3, <1>2, <1>3, <1>4, <1>13 DEF DegenerateStart
    <3>5. EndIt = Find(FinishTime) + 1
      BY <2>1 DEF EndIt
    <3> QED
      BY <3>2, <3>3, <3>4, <3>5, <1>6
  <2>2. CASE ~(FinishTime < Last(traj))
    BY <2>2, <1>7 DEF EndIt
  <2> QED
    BY <2>1, <2>2
<1> QED
  BY <1>7, <1>10, <1>11, <1>12

\* begin_it and end_it depend on the inputs alone.
LEMMA IteratorsStable ==
  ASSUME UNCHANGED inputs
  PROVE  /\ BeginIt' = BeginIt /\ EndIt' = EndIt
         /\ StartTime' = StartTime /\ FinishTime' = FinishTime
BY DEF inputs, BeginIt, EndIt, Find, StartTime, FinishTime, Last, Max2, Min2

\* A conflict reported stays reported while the output vector only grows.
LEMMA CoveredStable ==
  ASSUME UNCHANGED inputs, UNCHANGED Collect,
         \A i \in DOMAIN conflicts : i \in DOMAIN conflicts' /\ conflicts'[i] = conflicts[i],
         NEW j, NEW k, Covered(j, k)
  PROVE  Covered(j, k)'
<1>1. SpanOf(j)' = SpanOf(j)
  BY DEF inputs, SpanOf, SplineStart, SplineFinish, StartTime, FinishTime, Last, Max2, Min2
<1>2. \A t : TouchP(k, t)' <=> TouchP(k, t)
  BY DEF inputs, TouchP
<1>3. \A t : Reported(j, t) => Reported(j, t)'
  BY DEF Reported
<1> QED
  BY <1>1, <1>2, <1>3 DEF Covered

\* The early returns: the null vicinity meets nothing, and a window with
\* finish_time < start_time holds no instant.
LEMMA EarlyC ==
  ASSUME CInv, DebugThrow \/ NoVicinity \/ NoTimeOverlap
  PROVE  LoopCovered' /\ RegionComplete'
<1>1. UNCHANGED inputs
  BY DEF DebugThrow, NoVicinity, NoTimeOverlap
<1>2. LoopCovered'
  <2>1. phase' # "loop"
    BY DEF DebugThrow, NoVicinity, NoTimeOverlap
  <2> QED
    BY <2>1 DEF LoopCovered
<1> SUFFICES RegionComplete'
  BY <1>2
<1>3. Window' = Window /\ \A u : InRegion(u)' <=> InRegion(u)
  BY <1>1, InputsStable
<1>4. CASE DebugThrow
  BY <1>4 DEF DebugThrow, RegionComplete
<1>5. CASE NoVicinity
  <2>1. \A u : ~InRegion(u)
    BY <1>5 DEF NoVicinity, InRegion, TouchP
  <2> QED
    BY <1>3, <2>1 DEF RegionComplete
<1>6. CASE NoTimeOverlap
  <2>1. StartTime \in Times /\ FinishTime \in Times
    BY WindowBounds DEF CInv, RInv, TypeOK
  <2>2. Window = {}
    BY <1>6, <2>1 DEF NoTimeOverlap, Window, Times
  <2> QED
    BY <1>3, <2>2 DEF RegionComplete
<1> QED
  BY <1>4, <1>5, <1>6

\* Entering the loop: nothing is scanned yet.
LEMMA BeginLoopC ==
  ASSUME CInv, BeginLoop
  PROVE  LoopCovered' /\ RegionComplete'
<1>1. UNCHANGED inputs /\ it' = BeginIt /\ endIt' = EndIt /\ piece' = 1
      /\ phase' = "loop"
  BY DEF BeginLoop
<1>2. /\ BeginIt' = BeginIt /\ EndIt' = EndIt
      /\ StartTime' = StartTime /\ FinishTime' = FinishTime
  BY <1>1, IteratorsStable
<1>3. BeginIt \in Nat
  BY BeginEnd DEF BeginLoop, CInv, RInv, TypeOK
<1>4. \A j \in BeginIt..BeginIt, k \in Pieces : ~Scanned(j, k)'
  BY <1>1, <1>2, <1>3 DEF Scanned, Pieces
<1>5. LoopCovered'
  BY <1>1, <1>2, <1>3, <1>4 DEF LoopCovered, BeginLoop
<1> QED
  BY <1>1, <1>5 DEF RegionComplete

\* A contact without an output vector: detect_conflicts returns true.
LEMMA CollideReturnC ==
  ASSUME CInv, CollideReturn
  PROVE  LoopCovered' /\ RegionComplete'
<1>1. phase' = "done" /\ result' = TRUE /\ ~Collect
  BY DEF CollideReturn
<1> QED
  BY <1>1 DEF LoopCovered, RegionComplete

\* A return or a throw leaves the state as it is, and so does a stutter.
LEMMA StutterC ==
  ASSUME CInv, Terminated \/ UNCHANGED vars
  PROVE  LoopCovered' /\ RegionComplete'
<1>1. UNCHANGED vars
  BY DEF Terminated
<1>2. UNCHANGED inputs /\ UNCHANGED <<phase, it, endIt, piece, conflicts, result>>
  BY <1>1 DEF vars
<1>3. /\ BeginIt' = BeginIt /\ EndIt' = EndIt
      /\ StartTime' = StartTime /\ FinishTime' = FinishTime
  BY <1>2, IteratorsStable
<1>4. Window' = Window /\ \A u : InRegion(u)' <=> InRegion(u)
  BY <1>2, InputsStable
<1>5. \A j, k : Covered(j, k) => Covered(j, k)'
  BY <1>2, CoveredStable
<1>6. \A j, k : Scanned(j, k)' <=> Scanned(j, k)
  BY <1>2, <1>3 DEF Scanned
<1>7. LoopCovered'
  BY <1>2, <1>3, <1>5, <1>6 DEF CInv, LoopCovered
<1>8. RegionComplete'
  BY <1>2, <1>4 DEF CInv, RegionComplete, DegenerateStart, inputs, StartTime,
     FinishTime, Last, Max2, Min2
<1> QED
  BY <1>7, <1>8

\* The clipped windows and the contacts depend on the inputs alone.
LEMMA GeometryStable ==
  ASSUME UNCHANGED inputs
  PROVE  /\ \A j : SpanOf(j)' = SpanOf(j)
         /\ \A k, t : TouchP(k, t)' <=> TouchP(k, t)
BY DEF inputs, SpanOf, SplineStart, SplineFinish, StartTime, FinishTime, Last,
   Max2, Min2, TouchP

\* What LoopCovered says in the loop.
LEMMA LoopFacts ==
  ASSUME CInv, phase = "loop"
  PROVE  /\ ~(FinishTime < StartTime)
         /\ BeginIt <= it
         /\ endIt = EndIt
         /\ \A j \in BeginIt..it, k \in Pieces : Scanned(j, k) => Covered(j, k)
BY DEF CInv, LoopCovered

\* No contact of the current piece: it is covered, and the loop moves on.
LEMMA CollideMissC ==
  ASSUME CInv, CollideMiss
  PROVE  LoopCovered' /\ RegionComplete'
<1>1. /\ UNCHANGED <<inputs, phase, it, endIt, conflicts, result>>
      /\ piece' = piece + 1 /\ phase = "loop"
  BY DEF CollideMiss
<1>2. /\ BeginIt' = BeginIt /\ EndIt' = EndIt
      /\ StartTime' = StartTime /\ FinishTime' = FinishTime
  BY <1>1, IteratorsStable
<1>3. /\ ~(FinishTime < StartTime)
      /\ BeginIt <= it
      /\ endIt = EndIt
      /\ \A j \in BeginIt..it, k \in Pieces : Scanned(j, k) => Covered(j, k)
  BY <1>1, LoopFacts
<1>4. it \in 2..Len(traj) /\ piece \in Pieces
  BY LoopSpline DEF CollideMiss, CInv, RInv
<1>5. Covered(it, piece)
  BY DEF CollideMiss, NoTouchP, Covered, SpanOf
<1>6. \A j \in BeginIt..it, k \in Pieces :
        Scanned(j, k)' => Scanned(j, k) \/ (j = it /\ k = piece)
  BY <1>1, <1>2, <1>4 DEF Scanned, Pieces
<1>7. \A j, k : Covered(j, k) => Covered(j, k)'
  BY <1>1, CoveredStable
<1>8. \A j \in BeginIt'..it', k \in Pieces : Scanned(j, k)' => Covered(j, k)'
  BY <1>1, <1>2, <1>3, <1>4, <1>5, <1>6, <1>7
<1> QED
  BY <1>1, <1>2, <1>3, <1>8 DEF LoopCovered, RegionComplete

\* Every piece was tested: the spline just left is covered.
LEMMA NextSplineC ==
  ASSUME CInv, NextSpline
  PROVE  LoopCovered' /\ RegionComplete'
<1>1. /\ UNCHANGED <<inputs, phase, endIt, conflicts, result>>
      /\ it' = it + 1 /\ piece' = 1 /\ piece > NPieces /\ phase = "loop"
  BY DEF NextSpline
<1>2. /\ BeginIt' = BeginIt /\ EndIt' = EndIt
      /\ StartTime' = StartTime /\ FinishTime' = FinishTime
  BY <1>1, IteratorsStable
<1>3. /\ ~(FinishTime < StartTime)
      /\ BeginIt <= it
      /\ endIt = EndIt
      /\ \A j \in BeginIt..it, k \in Pieces : Scanned(j, k) => Covered(j, k)
  BY <1>1, LoopFacts
<1>4. it \in Int /\ piece \in Int /\ BeginIt \in Int
  <2>1. it \in 0..(MaxLen + 1) /\ piece \in 1..(NPieces + 1)
    BY DEF CInv, RInv, TypeOK
  <2>2. BeginIt \in Nat
    BY <1>3, BeginEnd DEF CInv, RInv, TypeOK
  <2> QED
    BY <2>1, <2>2
<1>5. \A j \in BeginIt..(it + 1), k \in Pieces :
        Scanned(j, k)' => j \in BeginIt..it /\ Scanned(j, k)
  BY <1>1, <1>2, <1>4 DEF Scanned, Pieces
<1>6. \A j, k : Covered(j, k) => Covered(j, k)'
  BY <1>1, CoveredStable
<1>7. \A j \in BeginIt'..it', k \in Pieces : Scanned(j, k)' => Covered(j, k)'
  BY <1>1, <1>2, <1>3, <1>5, <1>6
<1>8. BeginIt' <= it'
  BY <1>1, <1>2, <1>3, <1>4
<1> QED
  BY <1>1, <1>2, <1>3, <1>7, <1>8 DEF LoopCovered, RegionComplete

\* A contact with an output vector: the conflict emplaced is at the first
\* touching instant, so it covers every later contact of the piece.
LEMMA CollideRecordC ==
  ASSUME CInv, CollideRecord
  PROVE  LoopCovered' /\ RegionComplete'
<1>1. /\ UNCHANGED <<inputs, phase, it, endIt, result>>
      /\ piece' = piece + 1 /\ phase = "loop" /\ it # endIt /\ piece <= NPieces
      /\ Collect
  BY DEF CollideRecord
<1>2. PICK t0 \in Times :
        /\ IsFirstTouchP(piece, SplineStart(it), SplineFinish(it), t0)
        /\ conflicts' = Append(conflicts, [spline |-> it, time |-> t0])
  BY DEF CollideRecord
<1>3. /\ BeginIt' = BeginIt /\ EndIt' = EndIt
      /\ StartTime' = StartTime /\ FinishTime' = FinishTime
  BY <1>1, IteratorsStable
<1>4. /\ ~(FinishTime < StartTime)
      /\ BeginIt <= it
      /\ endIt = EndIt
      /\ \A j \in BeginIt..it, k \in Pieces : Scanned(j, k) => Covered(j, k)
  BY <1>1, LoopFacts
<1>5. it \in 2..Len(traj) /\ piece \in Pieces
  BY <1>1, LoopSpline DEF CInv, RInv
<1>6. conflicts \in Seq(ConflictRec)
  BY DEF CInv, RInv, TypeOK
<1>7. \A i \in DOMAIN conflicts : i \in DOMAIN conflicts' /\ conflicts'[i] = conflicts[i]
  BY <1>2, <1>6
<1>8. \A j, k : Covered(j, k) => Covered(j, k)'
  BY <1>1, <1>7, CoveredStable
<1>9. \A t \in SpanOf(it) : TouchP(piece, t) => t0 <= t
  <2> SUFFICES ASSUME NEW t \in SpanOf(it), TouchP(piece, t), ~(t0 <= t)
               PROVE  FALSE
    OBVIOUS
  <2>1. t \in SplineStart(it)..(t0 - 1)
    BY <1>2 DEF IsFirstTouchP, SpanOf, Times
  <2> QED
    BY <1>2, <2>1 DEF IsFirstTouchP
<1>10. /\ Len(conflicts) + 1 \in DOMAIN conflicts'
       /\ conflicts'[Len(conflicts) + 1] = [spline |-> it, time |-> t0]
  BY <1>2, <1>6
<1>11. \A t \in SpanOf(it) : TouchP(piece, t) => Reported(it, t)'
  <2> SUFFICES ASSUME NEW t \in SpanOf(it), TouchP(piece, t)
               PROVE  Reported(it, t)'
    OBVIOUS
  <2>1. t0 <= t
    BY <1>9
  <2> QED
    BY <1>1, <1>10, <2>1 DEF Reported
<1>12. \A j, k : j = it /\ k = piece => Covered(j, k)'
  <2>1. UNCHANGED inputs
    BY <1>1
  <2>2. /\ \A j : SpanOf(j)' = SpanOf(j)
        /\ \A k, t : TouchP(k, t)' <=> TouchP(k, t)
    BY <2>1, GeometryStable
  <2> QED
    BY <1>1, <1>11, <2>2 DEF Covered
<1>13. \A j \in BeginIt..it, k \in Pieces :
        Scanned(j, k)' => Scanned(j, k) \/ (j = it /\ k = piece)
  BY <1>1, <1>3, <1>5 DEF Scanned, Pieces
<1>14. \A j \in BeginIt'..it', k \in Pieces : Scanned(j, k)' => Covered(j, k)'
  BY <1>1, <1>3, <1>4, <1>5, <1>8, <1>12, <1>13
<1> QED
  BY <1>1, <1>3, <1>4, <1>14 DEF LoopCovered, RegionComplete

\* it == end_it: every spline of the window was scanned, so a contact in
\* the window was met, recorded and makes detect_conflicts return true.
LEMMA LoopExitC ==
  ASSUME CInv, LoopExit
  PROVE  LoopCovered' /\ RegionComplete'
<1>1. /\ phase = "loop" /\ it = endIt /\ phase' = "done"
      /\ result' = (Collect /\ conflicts # <<>>)
      /\ UNCHANGED <<inputs, it, endIt, piece, conflicts>>
  BY DEF LoopExit
<1>2. /\ UNCHANGED inputs
      /\ DegenerateStart' = DegenerateStart
      /\ Window' = Window /\ \A u : InRegion(u)' <=> InRegion(u)
  <2>1. UNCHANGED inputs
    BY <1>1
  <2>2. Window' = Window /\ \A u : InRegion(u)' <=> InRegion(u)
    BY <2>1, InputsStable
  <2>3. DegenerateStart' = DegenerateStart
    BY <2>1 DEF DegenerateStart, inputs, StartTime, FinishTime, Last, Max2, Min2
  <2> QED
    BY <2>1, <2>2, <2>3
<1>3. /\ ~(FinishTime < StartTime)
      /\ BeginIt <= it
      /\ endIt = EndIt
      /\ \A j \in BeginIt..it, k \in Pieces : Scanned(j, k) => Covered(j, k)
  BY <1>1, LoopFacts
<1>4. /\ traj \in Trajectories /\ lower \in Bound /\ upper \in Bound
      /\ conflicts \in Seq(ConflictRec)
  BY DEF CInv, RInv, TypeOK
<1>5. BeginIt \in Nat /\ EndIt \in Nat
  BY <1>3, <1>4, BeginEnd
<1>6. LoopCovered'
  BY <1>1 DEF LoopCovered
<1>7. RegionComplete'
  <2> SUFFICES ASSUME ~DegenerateStart, NEW t \in Window, InRegion(t)
               PROVE  /\ result'
                      /\ Collect => \E i \in DOMAIN conflicts :
                                      /\ conflicts[i].time <= t
                                      /\ traj[conflicts[i].spline - 1] <= t
                                      /\ t <= traj[conflicts[i].spline]
    BY <1>1, <1>2 DEF RegionComplete, inputs
  <2>1. PICK k \in Pieces : TouchP(k, t)
    BY DEF InRegion
  <2>2. PICK j \in BeginIt..(EndIt - 1) : j \in 2..Len(traj) /\ t \in SpanOf(j)
    BY <1>3, <1>4, WindowCovered
  <2>3. j \in BeginIt..it /\ Scanned(j, k)
    BY <1>1, <1>3, <1>5, <2>2 DEF Scanned
  <2>4. Collect /\ Reported(j, t)
    BY <1>3, <2>1, <2>2, <2>3 DEF Covered
  <2>5. PICK i \in DOMAIN conflicts : conflicts[i].spline = j /\ conflicts[i].time <= t
    BY <2>4 DEF Reported
  <2>6. traj[j - 1] <= t /\ t <= traj[j]
    <3>1. t \in SplineStart(j)..SplineFinish(j)
      BY <2>2 DEF SpanOf
    <3> QED
      BY <1>4, <2>2, <3>1, SplineWindow
  <2>7. conflicts # <<>>
    BY <1>4, <2>5
  <2> QED
    BY <1>1, <2>4, <2>5, <2>6, <2>7
<1> QED
  BY <1>6, <1>7

\* Before the call nothing has been scanned or returned.
LEMMA InitC == Init => CInv
<1> SUFFICES ASSUME Init PROVE CInv
  OBVIOUS
<1>1. RInv
  BY InitR
<1>2. phase = "start"
  BY DEF Init
<1> QED
  BY <1>1, <1>2 DEF CInv, LoopCovered, RegionComplete

\* CInv is inductive.
LEMMA NextC == CInv /\ [Next]_vars => CInv'
<1> SUFFICES ASSUME CInv, [Next]_vars PROVE CInv'
  OBVIOUS
<1>1. RInv'
  BY NextR DEF CInv
<1>2. LoopCovered' /\ RegionComplete'
  BY EarlyC, BeginLoopC, CollideMissC, NextSplineC, CollideReturnC,
     CollideRecordC, LoopExitC, StutterC DEF Next
<1> QED
  BY <1>1, <1>2 DEF CInv

\* detect_conflicts misses no conflict, for every trajectory, vicinity,
\* region and build: apart from a window that is the trajectory's first
\* instant alone, the begin_it/end_it loop scans every spline of the window,
\* so a contact at any instant of it makes the call return true and, with
\* an output vector, emplaces a conflict of a spline whose span holds that
\* instant, at an instant no later than it.
THEOREM RegionCompleteHolds == Spec => []RegionComplete
<1>1. Init => CInv
  BY InitC
<1>2. CInv /\ [Next]_vars => CInv'
  BY NextC
<1>3. CInv => RegionComplete
  BY DEF CInv
<1> QED
  BY <1>1, <1>2, <1>3, PTL DEF Spec
=============================================================================
