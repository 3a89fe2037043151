------------------------ MODULE DetectConflictProofs ------------------------
(***************************************************************************)
(* Proofs about DetectConflict for every value of the constants.           *)
(***************************************************************************)
EXTENDS DetectConflict, TLAPS

USE MaxTimeAssumption, MaxLenAssumption, DistValsAssumption,
    RadiiAssumption, CollectAssumption

\* Before the iterators are aligned, the iterated trajectories are the inputs.
StartInv == phase = "start" => ta = trajA /\ tb = trajB

\* The inductive strengthening of TypeOK.
IInv == TypeOK /\ StartInv

-----------------------------------------------------------------------------
(* Lemmas about the data.                                                  *)

\* An input trajectory is a non-empty sequence of instants.
LEMMA TrajectoryType ==
  ASSUME NEW s \in Trajectories
  PROVE  /\ s \in Seq(Times)
         /\ Len(s) \in 1..MaxLen
<1>1. PICK n \in 1..MaxLen : s \in [1..n -> Times]
  BY DEF Trajectories
<1>. QED  BY <1>1

\* The window of the current spline pair is a span of instants.
LEMMA WindowType ==
  ASSUME TypeOK, phase \in Running, InRange
  PROVE  /\ ta[ia - 1] \in Times /\ ta[ia] \in Times
         /\ tb[ib - 1] \in Times /\ tb[ib] \in Times
         /\ WinStart \in Times /\ WinFinish \in Times
         /\ WinStart..WinFinish \subseteq Times
<1>1. /\ ia - 1 \in 1..Len(ta) /\ ia \in 1..Len(ta)
      /\ ib - 1 \in 1..Len(tb) /\ ib \in 1..Len(tb)
  BY DEF TypeOK, InRange
<1>2. /\ ta[ia - 1] \in Times /\ ta[ia] \in Times
      /\ tb[ib - 1] \in Times /\ tb[ib] \in Times
  BY <1>1 DEF TypeOK
<1>. QED  BY <1>2 DEF WinStart, WinFinish, Max2, Min2, Times

\* The lock-step advance keeps both iterators within one past the end.
LEMMA AdvanceType ==
  ASSUME TypeOK, phase \in Running, InRange, Advance
  PROVE  ia' \in 2..(Len(ta) + 1) /\ ib' \in 2..(Len(tb) + 1)
<1>1. ia \in 2..Len(ta) /\ ib \in 2..Len(tb)
  BY DEF TypeOK, InRange
<1>. QED  BY <1>1 DEF Advance

\* The conflicts one narrowphase test contributes are instants of its window.
LEMMA FirstHitsType ==
  ASSUME NEW s1, NEW s2, NEW lo \in Nat, NEW hi \in Nat, lo..hi \subseteq Times
  PROVE  FirstHits(s1, s2, lo, hi) \subseteq Seq(Times)
<1> SUFFICES ASSUME NEW h \in FirstHits(s1, s2, lo, hi) PROVE h \in Seq(Times)
  OBVIOUS
<1>1. h = <<>> \/ \E t \in lo..hi : h = <<t>>
  BY DEF FirstHits
<1>2. CASE h = <<>>
  BY <1>2
<1>3. CASE \E t \in lo..hi : h = <<t>>
  <2>1. PICK t \in lo..hi : h = <<t>>
    BY <1>3
  <2>2. t \in Times
    BY <2>1
  <2>. QED  BY <2>1, <2>2
<1>. QED  BY <1>1, <1>2, <1>3

\* check_overlap has three outcomes.
LEMMA CheckOverlapType ==
  ASSUME NEW t
  PROVE  CheckOverlap(t) \in {"crash", "yes", "no"}
BY DEF CheckOverlap

\* get_initial_iterators points both iterators at a spline of its input.
LEMMA InitialIteratorsType ==
  ASSUME trajA \in Trajectories, trajB \in Trajectories,
         Len(trajA) >= 2, Len(trajB) >= 2,
         NEW it \in InitialIterators
  PROVE  it[1] \in 2..Len(trajA) /\ it[2] \in 2..Len(trajB)
<1>1. trajA \in Seq(Times) /\ trajB \in Seq(Times)
  BY TrajectoryType
<1>2. CASE trajA[1] < trajB[1]
  <2>1. PICK j \in 1..Len(trajA) : IsFind(trajA, trajB[1], j) /\ it = <<j, 2>>
    BY <1>2 DEF InitialIterators
  <2>2. j # 1
    BY <1>1, <1>2, <2>1 DEF IsFind, Times
  <2>. QED  BY <2>1, <2>2
<1>3. CASE trajB[1] < trajA[1]
  <2>0. ~(trajA[1] < trajB[1])
    BY <1>1, <1>3, TrajectoryType DEF Times
  <2>1. PICK j \in 1..Len(trajB) : IsFind(trajB, trajA[1], j) /\ it = <<2, j>>
    BY <1>3, <2>0 DEF InitialIterators
  <2>2. j # 1
    BY <1>1, <1>3, <2>1 DEF IsFind, Times
  <2>. QED  BY <2>1, <2>2
<1>4. CASE ~(trajA[1] < trajB[1]) /\ ~(trajB[1] < trajA[1])
  BY <1>4 DEF InitialIterators
<1>. QED  BY <1>2, <1>3, <1>4

\* slice_trajectory keeps at least two waypoints when it cuts a spline.
LEMMA SliceType ==
  ASSUME NEW s \in Seq(Times), NEW i \in 1..Len(s), NEW t \in Times
  PROVE  /\ Slice(s, i, t) \in Seq(Times)
         /\ Len(Slice(s, i, t)) = Len(s) - i + 2
<1>1. SubSeq(s, i, Len(s)) \in Seq(Times) /\ Len(SubSeq(s, i, Len(s))) = Len(s) - i + 1
  OBVIOUS
<1>. QED  BY <1>1 DEF Slice

\* The value returned when a loop runs out of splines.
LEMMA FrontOrNoneType ==
  ASSUME conflicts \in Seq(Times)
  PROVE  FrontOrNone \in Times \cup {None}
BY DEF FrontOrNone

-----------------------------------------------------------------------------
(* Type correctness.                                                       *)

LEMMA InitIInv == Init => IInv
<1> SUFFICES ASSUME Init PROVE IInv
  OBVIOUS
<1>1. trajA \in Seq(Times) /\ trajB \in Seq(Times)
  BY TrajectoryType DEF Init
<1>2. conflicts \in Seq(Times)
  <2>1. CASE Collect
    <3>1. conflicts \in Reused
      BY <2>1 DEF Init
    <3>2. CASE conflicts = <<>>
      BY <3>2
    <3>3. CASE conflicts # <<>>
      <4>1. PICK t \in Times : conflicts = <<t>>
        BY <3>1, <3>3 DEF Reused
      <4>. QED  BY <4>1
    <3>. QED  BY <3>2, <3>3
  <2>2. CASE ~Collect
    BY <2>2 DEF Init
  <2>. QED  BY <2>1, <2>2
<1>3. reused \in Nat
  BY <1>2 DEF Init
<1>. QED  BY <1>1, <1>2, <1>3 DEF Init, IInv, TypeOK, StartInv, Times, Running, Phases, None

LEMMA NextIInv == IInv /\ [Next]_vars => IInv'
<1> SUFFICES ASSUME IInv, [Next]_vars PROVE IInv'
  OBVIOUS
<1>. USE DEF IInv
<1>1. CASE RejectTrajectory
  BY <1>1 DEF RejectTrajectory, TypeOK, StartInv, inputs, loop, ghost, Phases, Running
<1>2. CASE EarlyReturn
  BY <1>2 DEF EarlyReturn, TypeOK, StartInv, inputs, loop, ghost, Phases, Running, Times
<1>3. CASE BeginDetection
  <2>1. PICK it \in InitialIterators :
          LET close == CheckOverlap(Max2(trajA[it[1] - 1], trajB[it[2] - 1])) IN
          /\ ia' = it[1]
          /\ ib' = it[2]
          /\ reach' = T0
          /\ phase' = CASE close = "crash" -> "crashed"
                        [] close = "yes"   -> "approach"
                        [] close = "no"    -> "invasion"
          /\ conflicts' = IF close = "no" THEN <<>> ELSE conflicts
          /\ reused' = IF close = "no" THEN 0 ELSE reused
    BY <1>3 DEF BeginDetection
  <2>2. ta = trajA /\ tb = trajB /\ ValidInput
    BY <1>3 DEF BeginDetection, StartInv
  <2>3. it[1] \in 2..Len(trajA) /\ it[2] \in 2..Len(trajB)
    BY <2>2, InitialIteratorsType DEF TypeOK, ValidInput
  <2>4. phase' \in {"crashed", "approach", "invasion"}
    BY <2>1, CheckOverlapType
  <2>5. T0 \in Times
    BY TrajectoryType DEF TypeOK, T0, Max2, Last, Times
  <2>6. UNCHANGED <<inputs, ta, tb, pending, result, invSeen, appSeen>>
    BY <1>3 DEF BeginDetection
  <2>11. conflicts' \in Seq(Times) /\ reused' \in Nat
    BY <2>1 DEF TypeOK
  <2>7. /\ ia' \in 2..(Len(ta') + 1) /\ ib' \in 2..(Len(tb') + 1)
        /\ ia' \in Nat /\ ib' \in Nat
    BY <2>1, <2>2, <2>3, <2>6
  <2>8. phase' \in Phases /\ phase' # "approach_times"
    BY <2>4 DEF Phases
  <2>9. TypeOK'
    BY <2>1, <2>5, <2>6, <2>7, <2>8, <2>11 DEF TypeOK, inputs
  <2>10. StartInv'
    BY <2>4 DEF StartInv
  <2>. QED  BY <2>9, <2>10
<1>4. CASE InvasionHit
  <2>1. WinStart..WinFinish \subseteq Times
    BY <1>4, WindowType DEF InvasionHit, Running
  <2>2. result' \in Times
    BY <1>4, <2>1 DEF InvasionHit
  <2>. QED  BY <1>4, <2>2 DEF InvasionHit, TypeOK, StartInv, inputs, loop, ghost,
                              Phases, Running
<1>5. CASE InvasionAdvance
  <2>1. /\ WinStart \in Times /\ WinFinish \in Times
        /\ WinStart..WinFinish \subseteq Times
    BY <1>5, WindowType DEF InvasionAdvance, Running
  <2>2. conflicts' \in Seq(Times)
    <3>1. PICK hfv \in FirstHits(PA.footprint, PB.vicinity, WinStart, WinFinish),
               hvf \in IF TestComplement
                        THEN FirstHits(PA.vicinity, PB.footprint, WinStart, WinFinish)
                        ELSE {<<>>} :
                 conflicts' = conflicts \o hfv \o hvf
      BY <1>5 DEF InvasionAdvance
    <3>2. hfv \in Seq(Times)
      BY <2>1, FirstHitsType DEF Times
    <3>3. hvf \in Seq(Times)
      <4>1. CASE TestComplement
        BY <3>1, <4>1, <2>1, FirstHitsType DEF Times
      <4>2. CASE ~TestComplement
        BY <3>1, <4>2
      <4>. QED  BY <4>1, <4>2
    <3>. QED  BY <3>1, <3>2, <3>3 DEF TypeOK
  <2>3. ia' \in 2..(Len(ta) + 1) /\ ib' \in 2..(Len(tb) + 1)
    BY <1>5, AdvanceType DEF InvasionAdvance, Running
  <2>4. reach' \in Times /\ invSeen' \subseteq Times
    BY <1>5, <2>1 DEF InvasionAdvance, TypeOK
  <2>. QED  BY <1>5, <2>2, <2>3, <2>4 DEF InvasionAdvance, TypeOK, StartInv, inputs,
                                          Running
<1>6. CASE InvasionExit
  BY <1>6, FrontOrNoneType DEF InvasionExit, TypeOK, StartInv, inputs, loop, ghost, Phases, Running
<1>7. CASE ApproachReturn
  <2>1. WinStart \in Times
    BY <1>7, WindowType DEF ApproachReturn, Running
  <2>. QED  BY <1>7, <2>1 DEF ApproachReturn, TypeOK, StartInv, inputs, loop, ghost,
                              Phases, Running
<1>8. CASE ApproachBegin
  <2>1. /\ WinStart \in Times /\ WinFinish \in Times
    BY <1>8, WindowType DEF ApproachBegin, Running
  <2>2. pending' \subseteq Times
    BY <1>8, <2>1 DEF ApproachBegin, ApproachTimes, Times
  <2>3. conflicts' \in Seq(Times)
    BY <1>8, <2>1 DEF ApproachBegin, TypeOK
  <2>. QED  BY <1>8, <2>2, <2>3 DEF ApproachBegin, TypeOK, StartInv, inputs, ghost,
                                    Phases, Running, InRange
<1>9. CASE ApproachTime
  <2>1. PICK t \in pending :
          \/ /\ CheckOverlap(t) = "crash"
             /\ phase' = "crashed"
             /\ UNCHANGED <<loop, conflicts, result, ghost>>
          \/ /\ CheckOverlap(t) = "no"
             /\ ta' = Slice(ta, ia, t)
             /\ tb' = Slice(tb, ib, t)
             /\ ia' = 2
             /\ ib' = 2
             /\ pending' = {}
             /\ conflicts' = <<>>
             /\ phase' = "invasion"
             /\ reach' = t
             /\ appSeen' = appSeen \cup WinStart..(t - 1)
             /\ reused' = 0
             /\ UNCHANGED <<result, invSeen>>
          \/ /\ CheckOverlap(t) = "yes"
             /\ ~Collect
             /\ phase' = "done"
             /\ result' = t
             /\ UNCHANGED <<loop, conflicts, ghost>>
          \/ /\ CheckOverlap(t) = "yes"
             /\ Collect
             /\ conflicts' = Append(conflicts, t)
             /\ pending' = pending \ {t}
             /\ UNCHANGED <<phase, ta, tb, ia, ib, result, ghost>>
    BY <1>9 DEF ApproachTime
  <2>2. UNCHANGED inputs
    BY <1>9 DEF ApproachTime
  <2>3. t \in Times /\ InRange /\ phase = "approach_times"
    BY <1>9 DEF ApproachTime, TypeOK
  <2>4. WinStart \in Times
    BY <2>3, WindowType DEF Running
  <2>5. /\ ia \in 1..Len(ta) /\ ib \in 1..Len(tb)
    BY <2>3 DEF TypeOK, Running, InRange
  <2>6. CASE CheckOverlap(t) = "no"
    <3>0. /\ ta' = Slice(ta, ia, t)
          /\ tb' = Slice(tb, ib, t)
          /\ ia' = 2 /\ ib' = 2
          /\ pending' = {} /\ conflicts' = <<>>
          /\ phase' = "invasion" /\ reach' = t
          /\ appSeen' = appSeen \cup WinStart..(t - 1)
          /\ reused' = 0
          /\ UNCHANGED <<result, invSeen>>
      BY <2>1, <2>6
    <3>1. /\ ta' \in Seq(Times) /\ Len(ta') = Len(ta) - ia + 2
          /\ tb' \in Seq(Times) /\ Len(tb') = Len(tb) - ib + 2
      BY <3>0, <2>3, <2>5, SliceType DEF TypeOK
    <3>2. appSeen' \subseteq Times
      BY <3>0, <2>3, <2>4 DEF TypeOK, Times
    <3>. QED  BY <3>0, <2>2, <2>3, <2>5, <3>1, <3>2
              DEF TypeOK, StartInv, inputs, Phases, Running
  <2>7. CASE CheckOverlap(t) = "crash"
    <3>0. phase' = "crashed" /\ UNCHANGED <<loop, conflicts, result, ghost>>
      BY <2>1, <2>7
    <3>. QED  BY <3>0, <2>2 DEF TypeOK, StartInv, inputs, loop, ghost, Phases,
                                Running, InRange
  <2>8. CASE CheckOverlap(t) = "yes" /\ ~Collect
    <3>0. phase' = "done" /\ result' = t /\ UNCHANGED <<loop, conflicts, ghost>>
      BY <2>1, <2>8
    <3>. QED  BY <3>0, <2>2, <2>3 DEF TypeOK, StartInv, inputs, loop, ghost, Phases,
                                     Running, InRange
  <2>9. CASE CheckOverlap(t) = "yes" /\ Collect
    <3>0. /\ conflicts' = Append(conflicts, t)
          /\ pending' = pending \ {t}
          /\ UNCHANGED <<phase, ta, tb, ia, ib, result, ghost>>
      BY <2>1, <2>9
    <3>. QED  BY <3>0, <2>2, <2>3 DEF TypeOK, StartInv, inputs, ghost, Phases,
                                     Running, InRange
  <2>. QED  BY <2>6, <2>7, <2>8, <2>9, CheckOverlapType, CollectAssumption
<1>10. CASE ApproachEnd
  <2>1. phase = "approach_times" /\ InRange /\ UNCHANGED <<inputs, result>>
    BY <1>10 DEF ApproachEnd, TypeOK
  <2>2. CASE CheckOverlap(WinFinish) = "crash"
    <3>0. phase' = "crashed" /\ UNCHANGED <<loop, conflicts, ghost>>
      BY <1>10, <2>2 DEF ApproachEnd
    <3>. QED  BY <3>0, <2>1 DEF TypeOK, StartInv, inputs, loop, ghost, Phases,
                                Running, InRange
  <2>3. CASE CheckOverlap(WinFinish) # "crash"
    <3>0. /\ Advance
          /\ reach' = WinFinish
          /\ appSeen' = appSeen \cup WinStart..(WinFinish - 1)
          /\ phase' \in {"approach", "invasion"}
          /\ conflicts' \in {conflicts, <<>>}
          /\ reused' \in {reused, 0}
          /\ UNCHANGED <<ta, tb, pending, invSeen>>
      BY <1>10, <2>3 DEF ApproachEnd
    <3>1. /\ WinStart \in Times /\ WinFinish \in Times
          /\ WinStart..WinFinish \subseteq Times
      BY <2>1, WindowType DEF Running
    <3>2. ia' \in 2..(Len(ta) + 1) /\ ib' \in 2..(Len(tb) + 1)
      BY <3>0, <2>1, AdvanceType DEF Running
    <3>3. appSeen' \subseteq Times
      <4>1. WinStart..(WinFinish - 1) \subseteq WinStart..WinFinish
        BY <3>1 DEF Times
      <4>. QED  BY <3>0, <3>1, <4>1 DEF TypeOK
    <3>4. conflicts' \in Seq(Times)
      <4>1. conflicts' = conflicts \/ conflicts' = <<>>
        BY <3>0
      <4>2. <<>> \in Seq(Times)
        OBVIOUS
      <4>. QED  BY <4>1, <4>2 DEF TypeOK
    <3>. QED  BY <3>0, <3>1, <3>2, <3>3, <3>4, <2>1 DEF TypeOK, StartInv, inputs, Phases,
                                                 Running
  <2>. QED  BY <2>2, <2>3
<1>11. CASE ApproachExit
  BY <1>11, FrontOrNoneType DEF ApproachExit, TypeOK, StartInv, inputs, loop, ghost, Phases, Running
<1>12. CASE Terminated
  BY <1>12 DEF Terminated, TypeOK, StartInv, vars, inputs, loop, ghost, Phases, Running, InRange
<1>13. CASE UNCHANGED vars
  BY <1>13 DEF TypeOK, StartInv, vars, inputs, loop, ghost, Running, InRange
<1>. QED  BY <1>1, <1>2, <1>3, <1>4, <1>5, <1>6, <1>7, <1>8, <1>9, <1>10,
             <1>11, <1>12, <1>13 DEF Next

-----------------------------------------------------------------------------
(* Coverage.                                                               *)

\* Waypoint times strictly increase along a trajectory.
Increasing(s) == \A i, j \in 1..Len(s) : i < j => s[i] < s[j]

\* While a loop runs, the iterated trajectories, sliced or not, stay
\* increasing and end where the inputs end; the inspected span starts at T0,
\* each window starts where it ends, and it ends at T1 once a trajectory
\* runs out.
RunCov ==
  phase \in Running =>
    /\ Increasing(ta) /\ Increasing(tb)
    /\ Last(ta) = Last(trajA) /\ Last(tb) = Last(trajB)
    /\ T0 <= reach
    /\ InRange => WinStart = reach /\ WinStart <= WinFinish
    /\ ~InRange => reach = T1

\* The pending approach times lie strictly inside the current window.
PendingCov ==
  phase = "approach_times" => pending \subseteq (WinStart + 1)..(WinFinish - 1)

\* The strengthening of Coverage.
CovInv == IInv /\ Increasing(trajA) /\ Increasing(trajB) /\ RunCov /\ PendingCov

\* The common span of the inputs is a span of instants.
LEMMA SpanType ==
  ASSUME TypeOK
  PROVE  T0 \in Times /\ T1 \in Times
<1>1. /\ trajA \in Seq(Times) /\ Len(trajA) \in 1..MaxLen
      /\ trajB \in Seq(Times) /\ Len(trajB) \in 1..MaxLen
  BY TrajectoryType DEF TypeOK
<1>2. /\ trajA[1] \in Times /\ trajB[1] \in Times
      /\ Last(trajA) \in Times /\ Last(trajB) \in Times
  BY <1>1 DEF Last
<1>. QED  BY <1>2 DEF T0, T1, Max2, Min2

\* An input trajectory is increasing.
LEMMA TrajectoryIncreasing ==
  ASSUME NEW s \in Trajectories
  PROVE  Increasing(s)
<1>1. PICK n \in 1..MaxLen :
        /\ s \in [1..n -> Times]
        /\ \A i, j \in 1..n : i < j => s[i] < s[j]
  BY DEF Trajectories
<1>. QED  BY <1>1 DEF Increasing

\* In an increasing sequence no waypoint is later than the last one.
LEMMA LastIsLatest ==
  ASSUME NEW s \in Seq(Times), Increasing(s), NEW i \in 1..Len(s)
  PROVE  s[i] <= Last(s)
BY DEF Increasing, Last, Times

\* slice_trajectory at an instant before waypoint i gives an increasing
\* trajectory that starts at that instant, continues with waypoint i and
\* ends where the original ends.
LEMMA SliceCoverage ==
  ASSUME NEW s \in Seq(Times), Increasing(s), NEW i \in 1..Len(s),
         NEW t \in Times, t < s[i]
  PROVE  /\ Increasing(Slice(s, i, t))
         /\ Slice(s, i, t)[1] = t
         /\ Slice(s, i, t)[2] = s[i]
         /\ Last(Slice(s, i, t)) = Last(s)
<1>1. Len(Slice(s, i, t)) = Len(s) - i + 2 /\ Slice(s, i, t) \in Seq(Times)
  BY SliceType
<1>2. \A k \in 1..Len(Slice(s, i, t)) : Slice(s, i, t)[k] = IF k = 1 THEN t ELSE s[i + k - 2]
  BY <1>1 DEF Slice
<1>3. Increasing(Slice(s, i, t))
  <2> SUFFICES ASSUME NEW k \in 1..Len(Slice(s, i, t)), NEW l \in 1..Len(Slice(s, i, t)), k < l
               PROVE  Slice(s, i, t)[k] < Slice(s, i, t)[l]
    BY DEF Increasing
  <2>1. CASE k = 1
    <3>1. l \in 2..Len(Slice(s, i, t)) /\ i + l - 2 \in i..Len(s)
      BY <1>1, <2>1
    <3>2. s[i] \in Int /\ s[i + l - 2] \in Int /\ t \in Int
      BY <3>1 DEF Times
    <3>3. s[i] <= s[i + l - 2]
      <4>1. CASE l = 2
        BY <3>2, <4>1
      <4>2. CASE l # 2
        <5>1. i < i + l - 2 /\ i + l - 2 \in 1..Len(s)
          BY <3>1, <4>2
        <5>. QED  BY <3>2, <5>1 DEF Increasing
      <4>. QED  BY <4>1, <4>2
    <3>4. Slice(s, i, t)[1] = t /\ Slice(s, i, t)[l] = s[i + l - 2]
      BY <1>2, <3>1
    <3>. QED  BY <2>1, <3>2, <3>3, <3>4
  <2>2. CASE k # 1
    BY <1>1, <1>2, <2>2 DEF Increasing
  <2>. QED  BY <2>1, <2>2
<1>. QED  BY <1>1, <1>2, <1>3 DEF Last

\* The lock-step advance: the next window starts where the current one
\* finishes, and if a trajectory runs out the current window finished at
\* the earlier of the two ends.
LEMMA AdvanceCoverage ==
  ASSUME TypeOK, phase \in Running, InRange, Increasing(ta), Increasing(tb),
         WinStart <= WinFinish, Advance, ta' = ta, tb' = tb
  PROVE  /\ InRange' => WinStart' = WinFinish /\ WinStart' <= WinFinish'
         /\ ~InRange' => WinFinish = Min2(Last(ta), Last(tb))
<1>1. ia \in 2..Len(ta) /\ ib \in 2..Len(tb)
  BY DEF TypeOK, InRange
<1>2. /\ ta[ia - 1] \in Nat /\ ta[ia] \in Nat /\ tb[ib - 1] \in Nat /\ tb[ib] \in Nat
      /\ Last(ta) \in Nat /\ Last(tb) \in Nat
  <2>1. ia - 1 \in 1..Len(ta) /\ Len(ta) \in 1..Len(ta)
        /\ ib - 1 \in 1..Len(tb) /\ Len(tb) \in 1..Len(tb)
    BY <1>1
  <2>2. ta[ia - 1] \in Times /\ ta[ia] \in Times /\ ta[Len(ta)] \in Times
    BY <2>1, <1>1 DEF TypeOK
  <2>3. tb[ib - 1] \in Times /\ tb[ib] \in Times /\ tb[Len(tb)] \in Times
    BY <2>1, <1>1 DEF TypeOK
  <2>. QED  BY <2>2, <2>3 DEF Times, Last
<1>3. ta[ia - 1] < ta[ia] /\ tb[ib - 1] < tb[ib]
  BY <1>1 DEF Increasing
<1>4. ta[ia] <= Last(ta) /\ tb[ib] <= Last(tb)
  BY <1>1, LastIsLatest DEF TypeOK
<1>5. ia < Len(ta) => ta[ia] < ta[ia + 1] /\ ta[ia + 1] \in Nat
  <2> SUFFICES ASSUME ia < Len(ta) PROVE ta[ia] < ta[ia + 1] /\ ta[ia + 1] \in Nat
    OBVIOUS
  <2>1. ia + 1 \in 1..Len(ta) /\ ia < ia + 1
    BY <1>1
  <2>2. ta[ia] < ta[ia + 1]
    BY <1>1, <2>1 DEF Increasing
  <2>3. ta \in Seq(Times)
    BY DEF TypeOK
  <2>. QED  BY <2>1, <2>2, <2>3 DEF Times
<1>6. ib < Len(tb) => tb[ib] < tb[ib + 1] /\ tb[ib + 1] \in Nat
  <2> SUFFICES ASSUME ib < Len(tb) PROVE tb[ib] < tb[ib + 1] /\ tb[ib + 1] \in Nat
    OBVIOUS
  <2>1. ib + 1 \in 1..Len(tb) /\ ib < ib + 1
    BY <1>1
  <2>2. tb[ib] < tb[ib + 1]
    BY <1>1, <2>1 DEF Increasing
  <2>3. tb \in Seq(Times)
    BY DEF TypeOK
  <2>. QED  BY <2>1, <2>2, <2>3 DEF Times
<1>7. ia = Len(ta) => ta[ia] = Last(ta)
  BY DEF Last
<1>8. ib = Len(tb) => tb[ib] = Last(tb)
  BY DEF Last
<1>9. Max2(ta[ia - 1], tb[ib - 1]) <= Min2(ta[ia], tb[ib])
  BY DEF WinStart, WinFinish
<1>10. /\ WinStart' = Max2(ta[ia' - 1], tb[ib' - 1])
       /\ WinFinish' = Min2(ta[ia'], tb[ib'])
       /\ InRange' <=> (ia' <= Len(ta) /\ ib' <= Len(tb))
  BY DEF WinStart, WinFinish, InRange
<1>11. CASE ta[ia] < tb[ib]
  <2>1. ia' = ia + 1 /\ ib' = ib
    BY <1>2, <1>11 DEF Advance
  <2>2. WinStart' = Max2(ta[ia], tb[ib - 1]) /\ WinFinish = ta[ia]
    BY <1>1, <1>2, <1>10, <2>1, <1>11 DEF WinFinish, Min2
  <2>3. tb[ib - 1] <= ta[ia]
    BY <1>2, <1>9, <1>11 DEF Max2, Min2
  <2>4. InRange' => WinStart' = WinFinish /\ WinStart' <= WinFinish'
    <3> SUFFICES ASSUME InRange' PROVE WinStart' = WinFinish /\ WinStart' <= WinFinish'
      OBVIOUS
    <3>1. ia < Len(ta) /\ WinFinish' = Min2(ta[ia + 1], tb[ib])
      BY <1>1, <1>10, <2>1
    <3>. QED  BY <1>2, <1>5, <1>11, <2>2, <2>3, <3>1 DEF Max2, Min2
  <2>5. ~InRange' => WinFinish = Min2(Last(ta), Last(tb))
    <3> SUFFICES ASSUME ~InRange' PROVE WinFinish = Min2(Last(ta), Last(tb))
      OBVIOUS
    <3>1. ia = Len(ta)
      BY <1>1, <1>10, <2>1
    <3>. QED  BY <1>2, <1>4, <1>7, <1>11, <2>2, <3>1 DEF Min2
  <2>. QED  BY <2>4, <2>5
<1>12. CASE tb[ib] < ta[ia]
  <2>1. ia' = ia /\ ib' = ib + 1
    BY <1>2, <1>12 DEF Advance
  <2>2. WinStart' = Max2(ta[ia - 1], tb[ib]) /\ WinFinish = tb[ib]
    BY <1>1, <1>10, <2>1, <1>2, <1>12 DEF WinFinish, Min2
  <2>3. ta[ia - 1] <= tb[ib]
    BY <1>2, <1>9, <1>12 DEF Max2, Min2
  <2>4. InRange' => WinStart' = WinFinish /\ WinStart' <= WinFinish'
    <3> SUFFICES ASSUME InRange' PROVE WinStart' = WinFinish /\ WinStart' <= WinFinish'
      OBVIOUS
    <3>1. ib < Len(tb) /\ WinFinish' = Min2(ta[ia], tb[ib + 1])
      BY <1>1, <1>10, <2>1
    <3>. QED  BY <1>2, <1>6, <1>12, <2>2, <2>3, <3>1 DEF Max2, Min2
  <2>5. ~InRange' => WinFinish = Min2(Last(ta), Last(tb))
    <3> SUFFICES ASSUME ~InRange' PROVE WinFinish = Min2(Last(ta), Last(tb))
      OBVIOUS
    <3>1. ib = Len(tb)
      BY <1>1, <1>10, <2>1
    <3>. QED  BY <1>2, <1>4, <1>8, <1>12, <2>2, <3>1 DEF Min2
  <2>. QED  BY <2>4, <2>5
<1>13. CASE ta[ia] = tb[ib]
  <2>1. ia' = ia + 1 /\ ib' = ib + 1
    BY <1>2, <1>13 DEF Advance
  <2>2. WinStart' = ta[ia] /\ WinFinish = ta[ia]
    BY <1>1, <1>2, <1>10, <2>1, <1>13 DEF WinFinish, Min2, Max2
  <2>4. InRange' => WinStart' = WinFinish /\ WinStart' <= WinFinish'
    <3> SUFFICES ASSUME InRange' PROVE WinStart' = WinFinish /\ WinStart' <= WinFinish'
      OBVIOUS
    <3>1. ia < Len(ta) /\ ib < Len(tb) /\ WinFinish' = Min2(ta[ia + 1], tb[ib + 1])
      BY <1>1, <1>10, <2>1
    <3>. QED  BY <1>2, <1>5, <1>6, <1>13, <2>2, <3>1 DEF Min2
  <2>5. ~InRange' => WinFinish = Min2(Last(ta), Last(tb))
    <3> SUFFICES ASSUME ~InRange' PROVE WinFinish = Min2(Last(ta), Last(tb))
      OBVIOUS
    <3>1. ia = Len(ta) \/ ib = Len(tb)
      BY <1>1, <1>10, <2>1
    <3>. QED  BY <1>2, <1>4, <1>7, <1>8, <1>13, <2>2, <3>1 DEF Min2
  <2>. QED  BY <2>4, <2>5
<1>. QED  BY <1>2, <1>11, <1>12, <1>13

\* get_initial_iterators: the first window starts at the later of the two
\* start times and does not finish before it.
LEMMA BeginCoverage ==
  ASSUME trajA \in Trajectories, trajB \in Trajectories, ValidInput,
         NEW it \in InitialIterators
  PROVE  /\ Max2(trajA[it[1] - 1], trajB[it[2] - 1]) = T0
         /\ T0 <= Min2(trajA[it[1]], trajB[it[2]])
<1>1. /\ trajA \in Seq(Times) /\ trajB \in Seq(Times)
      /\ Increasing(trajA) /\ Increasing(trajB)
  BY TrajectoryType, TrajectoryIncreasing
<1>2. /\ trajA[1] \in Nat /\ trajA[2] \in Nat /\ trajA[1] < trajA[2]
      /\ trajB[1] \in Nat /\ trajB[2] \in Nat /\ trajB[1] < trajB[2]
  <2>1. 1 \in 1..Len(trajA) /\ 2 \in 1..Len(trajA) /\ 1 \in 1..Len(trajB) /\ 2 \in 1..Len(trajB)
    BY <1>1 DEF ValidInput
  <2>. QED  BY <1>1, <2>1 DEF Increasing, Times
<1>3. CASE trajA[1] < trajB[1]
  <2>1. PICK j \in 1..Len(trajA) : IsFind(trajA, trajB[1], j) /\ it = <<j, 2>>
    BY <1>3 DEF InitialIterators
  <2>2. j \in 2..Len(trajA)
    BY <1>2, <1>3, <2>1 DEF IsFind
  <2>3. trajA[j - 1] \in Nat /\ trajA[j] \in Nat /\ trajA[j - 1] < trajB[1]
        /\ trajA[j] >= trajB[1]
    BY <1>1, <2>1, <2>2 DEF IsFind, Times
  <2>. QED  BY <1>2, <1>3, <2>1, <2>3 DEF T0, Max2, Min2
<1>4. CASE trajB[1] < trajA[1]
  <2>0. ~(trajA[1] < trajB[1])
    BY <1>2, <1>4
  <2>1. PICK j \in 1..Len(trajB) : IsFind(trajB, trajA[1], j) /\ it = <<2, j>>
    BY <1>4, <2>0 DEF InitialIterators
  <2>2. j \in 2..Len(trajB)
    BY <1>2, <1>4, <2>1 DEF IsFind
  <2>3. trajB[j - 1] \in Nat /\ trajB[j] \in Nat /\ trajB[j - 1] < trajA[1]
        /\ trajB[j] >= trajA[1]
    BY <1>1, <2>1, <2>2 DEF IsFind, Times
  <2>. QED  BY <1>2, <1>4, <2>1, <2>3 DEF T0, Max2, Min2
<1>5. CASE trajA[1] = trajB[1]
  <2>1. it = <<2, 2>>
    BY <1>2, <1>5 DEF InitialIterators
  <2>. QED  BY <1>2, <1>5, <2>1 DEF T0, Max2, Min2
<1>. QED  BY <1>2, <1>3, <1>4, <1>5

-----------------------------------------------------------------------------
\* Type correctness of between and between_all: every variable keeps its
\* type, the spline iterators of detect_invasion and detect_approach never
\* leave begin()+1..end(), and approach_times are only visited while both
\* iterators point at a spline.
THEOREM TypeCorrect == Spec => []TypeOK
<1>1. IInv => TypeOK
  BY DEF IInv
<1>. QED  BY InitIInv, NextIInv, <1>1, PTL DEF Spec

-----------------------------------------------------------------------------
(* Coverage, by induction on CovInv.                                       *)

LEMMA InitCov == Init => CovInv
<1> SUFFICES ASSUME Init PROVE CovInv
  OBVIOUS
<1>1. IInv
  BY InitIInv
<1>2. Increasing(trajA) /\ Increasing(trajB)
  BY TrajectoryIncreasing DEF Init
<1>. QED  BY <1>1, <1>2 DEF Init, CovInv, RunCov, PendingCov, Running

\* A step that advances the splines of a running loop without touching the
\* trajectories keeps RunCov.
LEMMA AdvanceRunCov ==
  ASSUME CovInv, phase \in Running, InRange, Advance,
         ta' = ta, tb' = tb, reach' = WinFinish, UNCHANGED inputs,
         phase' \in Running, TypeOK'
  PROVE  RunCov'
<1>1. /\ Increasing(ta) /\ Increasing(tb)
      /\ Last(ta) = Last(trajA) /\ Last(tb) = Last(trajB)
      /\ T0 <= reach /\ WinStart = reach /\ WinStart <= WinFinish
  BY DEF CovInv, RunCov
<1>2. /\ InRange' => WinStart' = WinFinish /\ WinStart' <= WinFinish'
      /\ ~InRange' => WinFinish = Min2(Last(ta), Last(tb))
  BY <1>1, AdvanceCoverage DEF CovInv, IInv
<1>3. T0' = T0 /\ T1' = T1 /\ Last(trajA)' = Last(trajA) /\ Last(trajB)' = Last(trajB)
  BY DEF inputs, T0, T1, Last
<1>4. /\ WinStart \in Times /\ WinFinish \in Times /\ reach \in Times /\ T0 \in Int
  <2>1. WinStart \in Times /\ WinFinish \in Times
    BY WindowType DEF CovInv, IInv
  <2>2. reach \in Times
    BY DEF CovInv, IInv, TypeOK
  <2>3. T0 \in Int
    BY SpanType DEF CovInv, IInv, Times
  <2>. QED  BY <2>1, <2>2, <2>3
<1>5. (T0 <= reach)'
  BY <1>1, <1>3, <1>4 DEF Times
<1>6. (~InRange => reach = T1)'
  BY <1>1, <1>2, <1>3 DEF T1, Min2
<1>. QED  BY <1>1, <1>2, <1>3, <1>5, <1>6 DEF RunCov

LEMMA NextCov == CovInv /\ [Next]_vars => CovInv'
<1> SUFFICES ASSUME CovInv, [Next]_vars PROVE CovInv'
  OBVIOUS
<1>1. IInv'
  BY NextIInv DEF CovInv
<1>2. UNCHANGED inputs
  BY DEF Next, vars, RejectTrajectory, EarlyReturn, BeginDetection, InvasionHit,
         InvasionAdvance, InvasionExit, ApproachReturn, ApproachBegin, ApproachTime,
         ApproachEnd, ApproachExit, Terminated
<1>3. Increasing(trajA)' /\ Increasing(trajB)'
  BY <1>2 DEF CovInv, inputs
<1>4. TypeOK /\ TypeOK'
  BY <1>1 DEF CovInv, IInv
<1> SUFFICES RunCov' /\ PendingCov'
  BY <1>1, <1>3 DEF CovInv
<1>5. ASSUME phase' \in {"done", "error", "crashed"}
      PROVE  RunCov' /\ PendingCov'
  BY <1>5 DEF RunCov, PendingCov, Running
<1>6. CASE RejectTrajectory \/ EarlyReturn \/ InvasionHit \/ InvasionExit
           \/ ApproachReturn \/ ApproachExit
  BY <1>5, <1>6 DEF RejectTrajectory, EarlyReturn, InvasionHit, InvasionExit,
                    ApproachReturn, ApproachExit
<1>7. CASE Terminated \/ UNCHANGED vars
  BY <1>7 DEF Terminated, CovInv, RunCov, PendingCov, vars, inputs, loop, ghost,
              T0, T1, WinStart, WinFinish, InRange, Last
<1>8. CASE BeginDetection
  <2>1. PICK it \in InitialIterators :
          LET close == CheckOverlap(Max2(trajA[it[1] - 1], trajB[it[2] - 1])) IN
          /\ ia' = it[1]
          /\ ib' = it[2]
          /\ reach' = T0
          /\ phase' = CASE close = "crash" -> "crashed"
                        [] close = "yes"   -> "approach"
                        [] close = "no"    -> "invasion"
    BY <1>8 DEF BeginDetection
  <2>2. /\ ta = trajA /\ tb = trajB /\ ValidInput /\ ta' = ta /\ tb' = tb
        /\ trajA \in Trajectories /\ trajB \in Trajectories
    BY <1>4, <1>8 DEF BeginDetection, CovInv, IInv, StartInv, TypeOK
  <2>3. phase' \in {"crashed", "approach", "invasion"}
    BY <2>1, CheckOverlapType
  <2>4. CASE phase' = "crashed"
    BY <1>5, <2>4
  <2>5. CASE phase' # "crashed"
    <3>1. it[1] \in 2..Len(trajA) /\ it[2] \in 2..Len(trajB)
      BY <2>2, InitialIteratorsType DEF ValidInput
    <3>2. /\ Max2(trajA[it[1] - 1], trajB[it[2] - 1]) = T0
          /\ T0 <= Min2(trajA[it[1]], trajB[it[2]])
      BY <2>2, BeginCoverage
    <3>3. /\ InRange'
          /\ WinStart' = Max2(trajA[it[1] - 1], trajB[it[2] - 1])
          /\ WinFinish' = Min2(trajA[it[1]], trajB[it[2]])
      BY <2>1, <2>2, <3>1 DEF InRange, WinStart, WinFinish
    <3>4. T0' = T0 /\ T1' = T1 /\ Last(trajA)' = Last(trajA) /\ Last(trajB)' = Last(trajB)
      BY <1>2 DEF inputs, T0, T1, Last
    <3>5. Increasing(ta') /\ Increasing(tb')
      BY <2>2, TrajectoryIncreasing
    <3>6. T0 \in Int
      BY <1>4, SpanType DEF Times
    <3>7. RunCov'
      BY <2>1, <2>2, <3>2, <3>3, <3>4, <3>5, <3>6 DEF RunCov, Last
    <3>. QED  BY <2>3, <2>5, <3>7 DEF PendingCov
  <2>. QED  BY <2>4, <2>5
<1>9. CASE InvasionAdvance
  <2>1. /\ phase = "invasion" /\ InRange /\ Advance /\ ta' = ta /\ tb' = tb
        /\ reach' = WinFinish /\ phase' = "invasion" /\ UNCHANGED inputs
    BY <1>9 DEF InvasionAdvance
  <2>2. RunCov'
    BY <1>4, <2>1, AdvanceRunCov DEF Running
  <2>. QED  BY <2>1, <2>2 DEF PendingCov
<1>10. CASE ApproachEnd
  <2>1. CASE CheckOverlap(WinFinish) = "crash"
    BY <1>5, <1>10, <2>1 DEF ApproachEnd
  <2>2. CASE CheckOverlap(WinFinish) # "crash"
    <3>1. /\ phase = "approach_times" /\ InRange /\ Advance /\ ta' = ta /\ tb' = tb
          /\ reach' = WinFinish /\ phase' \in {"approach", "invasion"}
          /\ UNCHANGED inputs
      BY <1>10, <2>2 DEF ApproachEnd, CovInv, IInv, TypeOK
    <3>2. RunCov'
      BY <1>4, <3>1, AdvanceRunCov DEF Running
    <3>. QED  BY <3>1, <3>2 DEF PendingCov
  <2>. QED  BY <2>1, <2>2
<1>11. CASE ApproachBegin
  <2>1. /\ phase = "approach" /\ phase' = "approach_times"
        /\ pending' = ApproachTimes(WinStart, WinFinish)
        /\ UNCHANGED <<inputs, ta, tb, ia, ib, reach>>
    BY <1>11 DEF ApproachBegin, ghost
  <2>2. RunCov'
    BY <2>1 DEF CovInv, RunCov, Running, inputs, T0, T1, WinStart, WinFinish,
                InRange, Last
  <2>3. PendingCov'
    BY <2>1 DEF PendingCov, ApproachTimes, WinStart, WinFinish
  <2>. QED  BY <2>2, <2>3
<1>12. CASE ApproachTime
  <2>1. PICK t \in pending :
          \/ /\ CheckOverlap(t) = "crash"
             /\ phase' = "crashed"
             /\ UNCHANGED <<loop, conflicts, result, ghost>>
          \/ /\ CheckOverlap(t) = "no"
             /\ ta' = Slice(ta, ia, t)
             /\ tb' = Slice(tb, ib, t)
             /\ ia' = 2
             /\ ib' = 2
             /\ pending' = {}
             /\ conflicts' = <<>>
             /\ phase' = "invasion"
             /\ reach' = t
             /\ appSeen' = appSeen \cup WinStart..(t - 1)
             /\ reused' = 0
             /\ UNCHANGED <<result, invSeen>>
          \/ /\ CheckOverlap(t) = "yes"
             /\ ~Collect
             /\ phase' = "done"
             /\ result' = t
             /\ UNCHANGED <<loop, conflicts, ghost>>
          \/ /\ CheckOverlap(t) = "yes"
             /\ Collect
             /\ conflicts' = Append(conflicts, t)
             /\ pending' = pending \ {t}
             /\ UNCHANGED <<phase, ta, tb, ia, ib, result, ghost>>
    BY <1>12 DEF ApproachTime
  <2>2. /\ phase = "approach_times" /\ InRange /\ t \in Times
        /\ t \in (WinStart + 1)..(WinFinish - 1)
    BY <1>4, <1>12 DEF ApproachTime, CovInv, PendingCov, TypeOK
  <2>3. CASE CheckOverlap(t) = "crash" \/ (CheckOverlap(t) = "yes" /\ ~Collect)
    <3>1. phase' \in {"done", "crashed"}
      BY <2>1, <2>3
    <3>. QED  BY <1>5, <3>1
  <2>4. CASE CheckOverlap(t) = "yes" /\ Collect
    <3>1. /\ pending' = pending \ {t}
          /\ UNCHANGED <<phase, ta, tb, ia, ib, reach>>
      BY <2>1, <2>4 DEF ghost
    <3>. QED  BY <1>2, <3>1 DEF CovInv, RunCov, PendingCov, inputs, T0, T1,
                                 WinStart, WinFinish, InRange, Last
  <2>5. CASE CheckOverlap(t) = "no"
    <3>1. /\ ta' = Slice(ta, ia, t) /\ tb' = Slice(tb, ib, t)
          /\ ia' = 2 /\ ib' = 2 /\ phase' = "invasion" /\ reach' = t
      BY <2>1, <2>5
    <3>2. /\ ia \in 1..Len(ta) /\ ib \in 1..Len(tb)
          /\ Increasing(ta) /\ Increasing(tb)
          /\ Last(ta) = Last(trajA) /\ Last(tb) = Last(trajB)
          /\ T0 <= reach /\ WinStart = reach
      BY <1>4, <2>2 DEF CovInv, RunCov, TypeOK, Running, InRange
    <3>3. /\ ta[ia] \in Times /\ tb[ib] \in Times
          /\ t < ta[ia] /\ t < tb[ib]
      <4>1. ta[ia] \in Times /\ tb[ib] \in Times
        BY <1>4, <3>2 DEF TypeOK
      <4>. QED  BY <2>2, <4>1 DEF WinFinish, Min2, Times
    <3>4. /\ Increasing(ta') /\ ta'[1] = t /\ ta'[2] = ta[ia] /\ Last(ta') = Last(ta)
          /\ Increasing(tb') /\ tb'[1] = t /\ tb'[2] = tb[ib] /\ Last(tb') = Last(tb)
      <4>1. Increasing(ta') /\ ta'[1] = t /\ ta'[2] = ta[ia] /\ Last(ta') = Last(ta)
        <5>1. ta \in Seq(Times)
          BY <1>4 DEF TypeOK
        <5>. QED  BY <5>1, <3>1, <3>2, <3>3, <2>2, SliceCoverage
      <4>2. Increasing(tb') /\ tb'[1] = t /\ tb'[2] = tb[ib] /\ Last(tb') = Last(tb)
        <5>1. tb \in Seq(Times)
          BY <1>4 DEF TypeOK
        <5>. QED  BY <5>1, <3>1, <3>2, <3>3, <2>2, SliceCoverage
      <4>. QED  BY <4>1, <4>2
    <3>5. Len(ta') >= 2 /\ Len(tb') >= 2
      <4>1. ta \in Seq(Times) /\ tb \in Seq(Times) /\ t \in Times
        BY <1>4 DEF TypeOK
      <4>2. Len(Slice(ta, ia, t)) = Len(ta) - ia + 2
        BY <4>1, <3>2, SliceType
      <4>3. Len(Slice(tb, ib, t)) = Len(tb) - ib + 2
        BY <4>1, <3>2, SliceType
      <4>. QED  BY <4>1, <4>2, <4>3, <3>1, <3>2
    <3>6. /\ InRange'
          /\ WinStart' = t
          /\ WinFinish' = WinFinish
      BY <3>1, <3>3, <3>4, <3>5 DEF InRange, WinStart, WinFinish, Max2, Min2
    <3>7. /\ T0' = T0 /\ Last(trajA)' = Last(trajA) /\ Last(trajB)' = Last(trajB)
          /\ T0 \in Int /\ reach \in Int
      BY <1>2, <1>4, SpanType DEF inputs, T0, Last, Times, TypeOK
    <3>8. RunCov'
      <4>1. WinStart \in Times /\ WinFinish \in Times
        BY <1>4, <2>2, WindowType DEF Running
      <4>. QED  BY <2>2, <3>1, <3>2, <3>4, <3>6, <3>7, <4>1 DEF RunCov, Times
    <3>. QED  BY <3>1, <3>8 DEF PendingCov
  <2>. QED  BY <2>3, <2>4, <2>5, CheckOverlapType, CollectAssumption
<1>. QED  BY <1>6, <1>7, <1>8, <1>9, <1>10, <1>11, <1>12 DEF Next

LEMMA CovInvCoverage == CovInv => Coverage
<1> SUFFICES ASSUME CovInv, phase \in Running PROVE Coverage!2
  BY DEF Coverage
<1>1. /\ TypeOK /\ Increasing(ta) /\ Increasing(tb)
      /\ Last(ta) = Last(trajA) /\ Last(tb) = Last(trajB)
      /\ T0 <= reach
      /\ InRange => WinStart = reach /\ WinStart <= WinFinish
      /\ ~InRange => reach = T1
  BY DEF CovInv, IInv, RunCov
<1>2. ASSUME InRange PROVE WinFinish <= T1
  <2>1. ia \in 1..Len(ta) /\ ib \in 1..Len(tb)
    BY <1>1, <1>2 DEF TypeOK, InRange
  <2>2. ta[ia] <= Last(ta) /\ tb[ib] <= Last(tb)
    BY <1>1, <2>1, LastIsLatest DEF TypeOK
  <2>3. ta[ia] \in Times /\ tb[ib] \in Times /\ Last(ta) \in Times /\ Last(tb) \in Times
    BY <1>1, <2>1 DEF TypeOK, Last
  <2>. QED  BY <1>1, <2>2, <2>3 DEF WinFinish, T1, Min2, Times
<1>3. reach \in Int /\ T0 \in Int
  BY <1>1, SpanType DEF TypeOK, Times
<1>. QED  BY <1>1, <1>2, <1>3

\* get_initial_iterators and the lock-step advance of detect_invasion and
\* detect_approach, with the slicing at an approach time, visit windows that
\* tile the common time span of the two trajectories, for every horizon,
\* trajectory length and geometry.
THEOREM CoverageHolds == Spec => []Coverage
<1>. QED  BY InitCov, NextCov, CovInvCoverage, PTL DEF Spec

=============================================================================
