--------------------- MODULE DetectConflictSoundness ---------------------
(***************************************************************************)
(* Proof that between and between_all report only real conflicts           *)
(* (ReportedAreConflicts) for every value of the constants.  It rests on   *)
(* the tiling invariant CovInv of DetectConflictProofs and on one more     *)
(* fact: approach mode only runs on a window that starts with the vehicles *)
(* too close, because close_start and still_close enter it only then.  The *)
(* entries of a reused output_conflicts stay in front of the call's own    *)
(* until detect_invasion clears the vector.                                *)
(***************************************************************************)
EXTENDS DetectConflictProofs

USE MaxTimeAssumption, MaxLenAssumption, DistValsAssumption,
    RadiiAssumption, CollectAssumption

\* The real conflicts: the instants of the common span at which the
\* vehicles are too close.
Good == {t \in T0..T1 : CloseAt(t)}

\* Every element of the sequence s lies in S.
AllIn(s, S) == \A i \in DOMAIN s : s[i] \in S

\* A loop in approach mode is at a window whose start is a real conflict.
ApproachClose == phase = "approach" /\ InRange => WinStart \in Good

\* Every element of s after its first k lies in S.
AllAfter(s, k, S) == \A i \in DOMAIN s : i > k => s[i] \in S

\* A returned time is a real conflict, unless it may be a reused entry.
ResultGood == phase = "done" /\ result # None /\ reused = 0 => result \in Good

\* The inductive invariant behind ReportedAreConflicts: the conflicts the
\* call has emplaced are real ones.
SoundInv == CovInv /\ AllAfter(conflicts, reused, Good) /\ ResultGood /\ ApproachClose

-----------------------------------------------------------------------------
(* Lemmas about sequences of conflict times.                               *)

LEMMA AllInEmpty ==
  ASSUME NEW S
  PROVE  AllIn(<<>>, S)
BY DEF AllIn

LEMMA AllInAppend ==
  ASSUME NEW S, NEW s \in Seq(S), NEW x \in S
  PROVE  AllIn(Append(s, x), S)
BY DEF AllIn

LEMMA AllInConcat ==
  ASSUME NEW T, NEW S, NEW s \in Seq(T), NEW u \in Seq(T), AllIn(s, S), AllIn(u, S)
  PROVE  AllIn(s \o u, S)
BY DEF AllIn

\* A sequence of times all in S is a sequence over S.
LEMMA AllInMono ==
  ASSUME NEW S, NEW U, S \subseteq U, NEW s, AllIn(s, S)
  PROVE  AllIn(s, U)
BY DEF AllIn

LEMMA AllAfterEmpty ==
  ASSUME NEW S, NEW k
  PROVE  AllAfter(<<>>, k, S)
BY DEF AllAfter

LEMMA AllAfterAppend ==
  ASSUME NEW T, NEW S, NEW s \in Seq(T), NEW k \in Int, NEW x \in S,
         AllAfter(s, k, S)
  PROVE  AllAfter(Append(s, x), k, S)
BY DEF AllAfter

LEMMA AllAfterConcat ==
  ASSUME NEW T, NEW S, NEW s \in Seq(T), NEW u \in Seq(T), NEW k \in Int,
         AllAfter(s, k, S), AllIn(u, S)
  PROVE  AllAfter(s \o u, k, S)
BY DEF AllAfter, AllIn

\* With nothing reused, the front of a non-empty vector lies in S.
LEMMA AllAfterHead ==
  ASSUME NEW T, NEW S, NEW s \in Seq(T), s # <<>>, AllAfter(s, 0, S)
  PROVE  Head(s) \in S
BY DEF AllAfter

\* The conflict times one narrowphase test contributes are first touches
\* inside the window.
LEMMA FirstHitsIn ==
  ASSUME NEW s1, NEW s2, NEW lo \in Int, NEW hi \in Int,
         NEW h \in FirstHits(s1, s2, lo, hi)
  PROVE  AllIn(h, {t \in lo..hi : Touch(s1, s2, t)})
BY DEF FirstHits, IsFirstTouch, AllIn

\* check_overlap answers "yes" only when the vehicles are too close.
LEMMA YesIsClose ==
  ASSUME NEW t, CheckOverlap(t) = "yes"
  PROVE  CloseAt(t)
BY DEF CheckOverlap, CloseAt

\* The real conflicts depend on the inputs alone.
LEMMA GoodUnchanged ==
  ASSUME UNCHANGED inputs
  PROVE  Good' = Good
BY DEF Good, inputs, T0, T1, CloseAt, Touch, PA, PB, ConvertProfile, Max2,
       Min2, Last

-----------------------------------------------------------------------------
(* The invariant is inductive.                                             *)

LEMMA InitSound == Init => SoundInv
<1> SUFFICES ASSUME Init PROVE SoundInv
  OBVIOUS
<1>1. CovInv
  BY InitCov
<1>. QED  BY <1>1 DEF Init, AllAfter, ResultGood, ApproachClose, SoundInv

\* The windows of a running loop lie in the common span.
LEMMA WindowInSpan ==
  ASSUME CovInv, phase \in Running, InRange
  PROVE  /\ WinStart \in Times /\ WinFinish \in Times
         /\ T0 \in Times /\ T1 \in Times
         /\ T0 <= WinStart /\ WinStart <= WinFinish /\ WinFinish <= T1
<1>1. Coverage
  BY CovInvCoverage
<1>2. WinStart \in Times /\ WinFinish \in Times /\ T0 \in Times /\ T1 \in Times
  BY WindowType, SpanType DEF CovInv, IInv
<1>. QED  BY <1>1, <1>2 DEF Coverage

\* An instant of a running loop's window at which the vehicles are too
\* close is a real conflict.
LEMMA WindowGood ==
  ASSUME CovInv, phase \in Running, InRange
  PROVE  {t \in WinStart..WinFinish : CloseAt(t)} \subseteq Good
<1>1. /\ WinStart \in Times /\ WinFinish \in Times /\ T0 \in Times /\ T1 \in Times
      /\ T0 <= WinStart /\ WinFinish <= T1
  BY WindowInSpan
<1>. QED  BY <1>1 DEF Good, Times

LEMMA NextSound == SoundInv /\ [Next]_vars => SoundInv'
<1> SUFFICES ASSUME SoundInv, [Next]_vars PROVE SoundInv'
  OBVIOUS
<1>1. CovInv'
  BY NextCov DEF SoundInv
<1>2. UNCHANGED inputs
  BY DEF Next, vars, RejectTrajectory, EarlyReturn, BeginDetection, InvasionHit,
         InvasionAdvance, InvasionExit, ApproachReturn, ApproachBegin, ApproachTime,
         ApproachEnd, ApproachExit, Terminated
<1>3. Good' = Good
  BY <1>2, GoodUnchanged
<1>4. /\ CovInv /\ TypeOK /\ TypeOK' /\ AllAfter(conflicts, reused, Good)
      /\ ResultGood /\ ApproachClose
  BY <1>1 DEF SoundInv, CovInv, IInv
<1> SUFFICES AllAfter(conflicts, reused, Good)' /\ ResultGood' /\ ApproachClose'
  BY <1>1 DEF SoundInv
<1>5. conflicts' = conflicts /\ reused' = reused => AllAfter(conflicts, reused, Good)'
  BY <1>3, <1>4
<1>6. phase' \notin {"done", "approach"} => ResultGood' /\ ApproachClose'
  BY DEF ResultGood, ApproachClose
<1>7. phase' = "done" /\ result' = None => ResultGood' /\ ApproachClose'
  BY DEF ResultGood, ApproachClose
<1>8. conflicts \in Seq(Times) /\ reused \in Nat
  BY <1>4 DEF TypeOK
<1>20. conflicts' = <<>> => AllAfter(conflicts, reused, Good)'
  BY AllAfterEmpty
<1>9. CASE RejectTrajectory
  BY <1>5, <1>6, <1>9 DEF RejectTrajectory, ghost
<1>10. CASE EarlyReturn
  BY <1>5, <1>7, <1>10 DEF EarlyReturn, ghost
<1>11. CASE Terminated \/ UNCHANGED vars
  <2>1. UNCHANGED <<phase, loop, conflicts, result, reused>>
    BY <1>11 DEF Terminated, vars, ghost
  <2>2. ResultGood'
    BY <1>3, <1>4, <2>1 DEF ResultGood
  <2>3. ApproachClose'
    BY <1>2, <1>3, <1>4, <2>1 DEF ApproachClose, InRange, WinStart, loop
  <2>. QED  BY <1>5, <2>1, <2>2, <2>3
<1>12. CASE InvasionExit \/ ApproachExit
  <2>1. /\ phase' = "done" /\ result' = FrontOrNone /\ conflicts' = conflicts
        /\ reused' = reused
    BY <1>12 DEF InvasionExit, ApproachExit, ghost
  <2>2. reused = 0 /\ FrontOrNone # None => FrontOrNone \in Good
    <3> SUFFICES ASSUME reused = 0, conflicts # <<>> PROVE Head(conflicts) \in Good
      BY DEF FrontOrNone
    <3>. QED  BY <1>4, <1>8, AllAfterHead
  <2>. QED  BY <1>3, <1>5, <2>1, <2>2 DEF ResultGood, ApproachClose
<1>13. CASE BeginDetection
  <2>1. PICK it \in InitialIterators :
          LET close == CheckOverlap(Max2(trajA[it[1] - 1], trajB[it[2] - 1])) IN
          /\ ia' = it[1]
          /\ ib' = it[2]
          /\ phase' = CASE close = "crash" -> "crashed"
                        [] close = "yes"   -> "approach"
                        [] close = "no"    -> "invasion"
          /\ conflicts' = IF close = "no" THEN <<>> ELSE conflicts
          /\ reused' = IF close = "no" THEN 0 ELSE reused
    BY <1>13 DEF BeginDetection
  <2>2. /\ ta = trajA /\ tb = trajB /\ ValidInput /\ ta' = ta /\ tb' = tb
        /\ trajA \in Trajectories /\ trajB \in Trajectories /\ HaveTimeOverlap
    BY <1>4, <1>13 DEF BeginDetection, CovInv, IInv, StartInv, TypeOK
  <2>3. CASE CheckOverlap(Max2(trajA[it[1] - 1], trajB[it[2] - 1])) = "crash"
    <3>1. phase' = "crashed" /\ conflicts' = conflicts /\ reused' = reused
      BY <2>1, <2>3
    <3>. QED  BY <1>5, <1>6, <3>1
  <2>5. CASE CheckOverlap(Max2(trajA[it[1] - 1], trajB[it[2] - 1])) = "no"
    <3>1. phase' = "invasion" /\ conflicts' = <<>>
      BY <2>1, <2>5
    <3>. QED  BY <1>6, <1>20, <3>1
  <2>4. CASE CheckOverlap(Max2(trajA[it[1] - 1], trajB[it[2] - 1])) = "yes"
    <3>1. it[1] \in 2..Len(trajA) /\ it[2] \in 2..Len(trajB)
      BY <2>2, InitialIteratorsType DEF ValidInput
    <3>2. Max2(trajA[it[1] - 1], trajB[it[2] - 1]) = T0
      BY <2>2, BeginCoverage
    <3>3. WinStart' = Max2(trajA[it[1] - 1], trajB[it[2] - 1])
      BY <2>1, <2>2, <3>1 DEF WinStart
    <3>4. T0 \in Times /\ T1 \in Times /\ T0 <= T1
      <4>1. T0 \in Times /\ T1 \in Times
        BY <1>4, SpanType
      <4>2. trajA \in Seq(Times) /\ trajB \in Seq(Times)
            /\ Len(trajA) \in 1..MaxLen /\ Len(trajB) \in 1..MaxLen
        BY <2>2, TrajectoryType
      <4>3. trajA[1] <= Last(trajA) /\ trajB[1] <= Last(trajB)
        BY <1>4, <4>2, LastIsLatest DEF CovInv
      <4>4. /\ trajA[1] \in Times /\ trajB[1] \in Times
            /\ Last(trajA) \in Times /\ Last(trajB) \in Times
        BY <4>2 DEF Last
      <4>. QED  BY <2>2, <4>1, <4>3, <4>4 DEF HaveTimeOverlap, T0, T1, Max2, Min2, Times
    <3>5. CloseAt(Max2(trajA[it[1] - 1], trajB[it[2] - 1]))
      BY <2>4, YesIsClose
    <3>6. WinStart' \in Good'
      <4>1. Max2(trajA[it[1] - 1], trajB[it[2] - 1]) \in Good
        BY <3>2, <3>4, <3>5 DEF Good, Times
      <4>. QED  BY <1>3, <3>3, <4>1
    <3>7. conflicts' = conflicts /\ reused' = reused
      BY <2>1, <2>4
    <3>. QED  BY <1>5, <2>1, <2>4, <3>6, <3>7 DEF ResultGood, ApproachClose
  <2>. QED  BY <2>3, <2>4, <2>5, CheckOverlapType
<1>14. CASE InvasionHit
  <2>1. PICK t \in WinStart..WinFinish :
          /\ \/ IsFirstTouch(PA.footprint, PB.vicinity, WinStart, WinFinish, t)
             \/ IsFirstTouch(PA.vicinity, PB.footprint, WinStart, WinFinish, t)
          /\ result' = t
    BY <1>14 DEF InvasionHit
  <2>2. /\ phase = "invasion" /\ InRange /\ phase' = "done"
        /\ conflicts' = conflicts /\ reused' = reused
    BY <1>14 DEF InvasionHit, ghost
  <2>3. t \in {u \in WinStart..WinFinish : CloseAt(u)}
    BY <2>1 DEF IsFirstTouch, CloseAt
  <2>4. t \in Good
    BY <1>4, <2>2, <2>3, WindowGood DEF Running
  <2>. QED  BY <1>3, <1>5, <2>1, <2>2, <2>4 DEF ResultGood, ApproachClose
<1>15. CASE InvasionAdvance
  <2>1. /\ phase = "invasion" /\ InRange /\ phase' = "invasion" /\ reused' = reused
    BY <1>15 DEF InvasionAdvance
  <2>2. PICK hfv \in FirstHits(PA.footprint, PB.vicinity, WinStart, WinFinish),
             hvf \in IF TestComplement
                       THEN FirstHits(PA.vicinity, PB.footprint, WinStart, WinFinish)
                       ELSE {<<>>} :
          conflicts' = conflicts \o hfv \o hvf
    BY <1>15 DEF InvasionAdvance
  <2>3. /\ WinStart \in Times /\ WinFinish \in Times
        /\ {t \in WinStart..WinFinish : CloseAt(t)} \subseteq Good
    BY <1>4, <2>1, WindowInSpan, WindowGood DEF Running
  <2>4. /\ hfv \in Seq(Times) /\ hvf \in Seq(Times)
        /\ AllIn(hfv, Good) /\ AllIn(hvf, Good)
    <3>0. /\ WinStart \in Nat /\ WinFinish \in Nat /\ WinStart \in Int /\ WinFinish \in Int
          /\ WinStart..WinFinish \subseteq Times
      BY <2>3 DEF Times
    <3>1. /\ FirstHits(PA.footprint, PB.vicinity, WinStart, WinFinish) \subseteq Seq(Times)
          /\ FirstHits(PA.vicinity, PB.footprint, WinStart, WinFinish) \subseteq Seq(Times)
      BY <3>0, FirstHitsType
    <3>2. /\ {t \in WinStart..WinFinish : Touch(PA.footprint, PB.vicinity, t)} \subseteq Good
          /\ {t \in WinStart..WinFinish : Touch(PA.vicinity, PB.footprint, t)} \subseteq Good
      BY <2>3 DEF CloseAt
    <3>3. AllIn(hfv, Good) /\ hfv \in Seq(Times)
      <4>1. AllIn(hfv, {t \in WinStart..WinFinish : Touch(PA.footprint, PB.vicinity, t)})
        BY <2>2, <3>0, FirstHitsIn
      <4>. QED  BY <2>2, <3>1, <3>2, <4>1, AllInMono
    <3>4. CASE TestComplement
      <4>1. hvf \in FirstHits(PA.vicinity, PB.footprint, WinStart, WinFinish)
        BY <2>2, <3>4
      <4>2. AllIn(hvf, {t \in WinStart..WinFinish : Touch(PA.vicinity, PB.footprint, t)})
        BY <3>0, <4>1, FirstHitsIn
      <4>. QED  BY <3>1, <3>2, <3>3, <4>1, <4>2, AllInMono
    <3>5. CASE ~TestComplement
      <4>1. hvf = <<>>
        BY <2>2, <3>5
      <4>. QED  BY <3>3, <4>1, AllInEmpty
    <3>. QED  BY <3>4, <3>5
  <2>5. AllAfter(conflicts', reused', Good)
    <3> DEFINE hits == hfv \o hvf
    <3>1. AllIn(hits, Good) /\ hits \in Seq(Times)
      BY <2>4, AllInConcat
    <3> HIDE DEF hits
    <3>2. AllAfter(conflicts \o hits, reused, Good)
      BY <1>4, <1>8, <3>1, AllAfterConcat
    <3> USE DEF hits
    <3>3. conflicts \o hfv \o hvf = conflicts \o (hfv \o hvf)
      BY <1>8, <2>4
    <3>. QED  BY <2>1, <2>2, <3>2, <3>3
  <2>. QED  BY <1>3, <1>6, <2>1, <2>5
<1>16. CASE ApproachReturn
  <2>1. /\ phase = "approach" /\ InRange /\ phase' = "done" /\ result' = WinStart
        /\ conflicts' = conflicts /\ reused' = reused
    BY <1>16 DEF ApproachReturn, ghost
  <2>2. WinStart \in Good
    BY <1>4, <2>1 DEF ApproachClose
  <2>. QED  BY <1>3, <1>5, <2>1, <2>2 DEF ResultGood, ApproachClose
<1>17. CASE ApproachBegin
  <2>1. /\ phase = "approach" /\ InRange /\ phase' = "approach_times"
        /\ conflicts' = IF InitiallyApproaching(WinStart)
                          THEN Append(conflicts, WinStart) ELSE conflicts
        /\ reused' = reused
    BY <1>17 DEF ApproachBegin, ghost
  <2>2. WinStart \in Good
    BY <1>4, <2>1 DEF ApproachClose
  <2>3. AllAfter(conflicts', reused', Good)
    BY <1>4, <1>8, <2>1, <2>2, AllAfterAppend
  <2>. QED  BY <1>3, <1>6, <2>1, <2>3
<1>18. CASE ApproachTime
  <2>1. /\ phase = "approach_times" /\ InRange
        /\ pending \subseteq (WinStart + 1)..(WinFinish - 1)
    BY <1>4, <1>18 DEF ApproachTime, TypeOK, CovInv, PendingCov
  <2>2. PICK t \in pending :
          \/ /\ CheckOverlap(t) = "crash"
             /\ phase' = "crashed"
             /\ UNCHANGED <<loop, conflicts, result, ghost>>
          \/ /\ CheckOverlap(t) = "no"
             /\ conflicts' = <<>>
             /\ phase' = "invasion"
          \/ /\ CheckOverlap(t) = "yes"
             /\ phase' = "done"
             /\ result' = t
             /\ UNCHANGED <<loop, conflicts, ghost>>
          \/ /\ CheckOverlap(t) = "yes"
             /\ conflicts' = Append(conflicts, t)
             /\ UNCHANGED <<phase, ta, tb, ia, ib, result, ghost>>
    BY <1>18 DEF ApproachTime
  <2>3. CheckOverlap(t) = "yes" => t \in Good
    <3>1. t \in WinStart..WinFinish
      <4>1. WinStart \in Times /\ WinFinish \in Times
        BY <1>4, <2>1, WindowInSpan DEF Running
      <4>. QED  BY <2>1, <4>1 DEF Times
    <3>. QED  BY <1>4, <2>1, <3>1, YesIsClose, WindowGood DEF Running
  <2>4. CASE CheckOverlap(t) = "crash" /\ phase' = "crashed" /\ conflicts' = conflicts
             /\ reused' = reused
    BY <1>5, <1>6, <2>4
  <2>5. CASE CheckOverlap(t) = "no" /\ conflicts' = <<>> /\ phase' = "invasion"
    BY <1>6, <1>20, <2>5
  <2>6. CASE CheckOverlap(t) = "yes" /\ phase' = "done" /\ result' = t
             /\ conflicts' = conflicts /\ reused' = reused
    BY <1>3, <1>5, <2>3, <2>6 DEF ResultGood, ApproachClose
  <2>7. CASE CheckOverlap(t) = "yes" /\ conflicts' = Append(conflicts, t)
             /\ phase' = phase /\ reused' = reused
    <3>1. AllAfter(conflicts', reused', Good)
      BY <1>4, <1>8, <2>3, <2>7, AllAfterAppend
    <3>. QED  BY <1>3, <1>6, <2>1, <2>7, <3>1
  <2>. QED  BY <2>2, <2>4, <2>5, <2>6, <2>7 DEF loop, ghost
<1>19. CASE ApproachEnd
  <2>1. /\ phase = "approach_times" /\ InRange /\ pending = {}
    BY <1>4, <1>19 DEF ApproachEnd, TypeOK
  <2>2. CASE CheckOverlap(WinFinish) = "crash"
    <3>1. phase' = "crashed" /\ conflicts' = conflicts /\ reused' = reused
      BY <1>19, <2>2 DEF ApproachEnd, ghost
    <3>. QED  BY <1>5, <1>6, <3>1
  <2>3. CASE CheckOverlap(WinFinish) = "no"
    <3>1. phase' = "invasion" /\ conflicts' = <<>>
      BY <1>19, <2>3 DEF ApproachEnd
    <3>. QED  BY <1>6, <1>20, <3>1
  <2>4. CASE CheckOverlap(WinFinish) = "yes"
    <3>1. /\ phase' = "approach" /\ conflicts' = conflicts
          /\ reach' = WinFinish /\ reused' = reused
      BY <1>19, <2>4 DEF ApproachEnd
    <3>2. InRange' => WinStart' = reach'
      BY <1>1, <3>1 DEF CovInv, RunCov, Running
    <3>3. WinFinish \in Good
      <4>1. WinFinish \in Times /\ WinStart <= WinFinish /\ WinStart \in Times
        BY <1>4, <2>1, WindowInSpan DEF Running
      <4>2. WinFinish \in WinStart..WinFinish
        BY <4>1 DEF Times
      <4>. QED  BY <1>4, <2>1, <2>4, <4>2, YesIsClose, WindowGood DEF Running
    <3>4. ApproachClose'
      BY <1>3, <3>1, <3>2, <3>3 DEF ApproachClose
    <3>. QED  BY <1>5, <3>1, <3>4 DEF ResultGood
  <2>. QED  BY <2>2, <2>3, <2>4, CheckOverlapType
<1>. QED  BY <1>9, <1>10, <1>11, <1>12, <1>13, <1>14, <1>15, <1>16, <1>17,
             <1>18, <1>19 DEF Next

-----------------------------------------------------------------------------
(* The theorem.                                                            *)

LEMMA SoundInvReported == SoundInv => ReportedAreConflicts
BY DEF SoundInv, AllAfter, ResultGood, Good, ReportedAreConflicts

\* between and between_all report only real conflicts: every time the call
\* emplaces in output_conflicts lies in the common span of the two
\* trajectories and is an instant at which the vehicles are too close, and
\* so is every time returned, save the front of a reused vector that the
\* call never cleared; this holds across the hand-over from detect_approach
\* to detect_invasion, whose clear on entry drops the reused entries.
THEOREM ReportedAreConflictsHolds == Spec => []ReportedAreConflicts
<1>. QED  BY InitSound, NextSound, SoundInvReported, PTL DEF Spec

=============================================================================
