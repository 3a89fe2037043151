--------------------- MODULE DetectConflictCompleteness ---------------------
(***************************************************************************)
(* Proof that between misses no conflict: every instant that               *)
(* detect_invasion inspects is clear, and every instant whose motion       *)
(* detect_approach inspects is not a close approach.                       *)
(***************************************************************************)
EXTENDS DetectConflictProofs, WellFoundedInduction

USE MaxTimeAssumption, MaxLenAssumption, DistValsAssumption,
    RadiiAssumption, CollectAssumption

\* Every instant inspected so far in invasion mode is clear, and none
\* inspected in approach mode has the vehicles close and getting closer.
SeenClean ==
  /\ \A t \in invSeen : ~CloseAt(t)
  /\ \A t \in appSeen : ~(CloseAt(t) /\ dist[t + 1] < dist[t])

\* While detect_approach walks the approach times of a window, between has
\* found the vehicles not approaching at its start and visits the approach
\* times of the window from the earliest, none of them yet taken out.
PendingInv ==
  phase = "approach_times" =>
    /\ pending = ApproachTimes(WinStart, WinFinish)
    /\ ~InitiallyApproaching(WinStart)

\* The inductive invariant behind NoMissedConflict: without an output
\* vector, the ghost sets only ever hold instants that are no conflict.
NInv == IInv /\ (~Collect => SeenClean /\ PendingInv)

-----------------------------------------------------------------------------
(* Lemmas.                                                                 *)

\* A non-empty set of naturals has a least element.
LEMMA LeastInstant ==
  ASSUME NEW T \in SUBSET Nat, T # {}
  PROVE  \E m \in T : \A k \in T : m <= k
<1>1. PICK x \in T : \A y \in T : ~(<<y, x>> \in OpToRel(<, Nat))
  BY NatLessThanWellFounded, WFMin
<1>2. \A y \in T : ~(y < x)
  BY <1>1 DEF OpToRel
<1> QED
  BY <1>2

\* Closeness and the distance depend on the inputs alone.
LEMMA CloseStable ==
  ASSUME UNCHANGED inputs
  PROVE  /\ dist' = dist
         /\ \A t : CloseAt(t)' <=> CloseAt(t)
BY DEF inputs, CloseAt, Touch, PA, PB, ConvertProfile

\* DistanceDifferential: if the distance does not shrink at the window
\* start lo and no instant of lo+1..e-1 is an approach time, the distance
\* does not shrink anywhere in lo..e-1.
LEMMA NoApproachBefore ==
  ASSUME dist \in [Instants -> DistVals], NEW lo \in Nat, NEW e \in Nat,
         e <= MaxTime + 1,
         ~InitiallyApproaching(lo),
         \A u \in (lo + 1)..(e - 1) : ~(dist[u] >= dist[u - 1] /\ dist[u + 1] < dist[u])
  PROVE  \A u \in lo..(e - 1) : dist[u + 1] >= dist[u]
<1> DEFINE S == {u \in lo..(e - 1) : ~(dist[u + 1] >= dist[u])}
<1> SUFFICES ASSUME S # {} PROVE FALSE
  OBVIOUS
<1>1. \A u \in lo..e : u \in Instants /\ dist[u] \in Nat
  <2> SUFFICES ASSUME NEW u \in lo..e PROVE u \in Instants /\ dist[u] \in Nat
    OBVIOUS
  <2>1. u \in Instants
    BY DEF Instants
  <2>2. dist[u] \in DistVals
    BY <2>1
  <2> QED
    BY <2>1, <2>2
<1>0. S \in SUBSET Nat
  OBVIOUS
<1>2. PICK m \in S : \A k \in S : m <= k
  BY <1>0, LeastInstant
<1>3. m # lo
  BY <1>1, <1>2 DEF InitiallyApproaching
<1>4. m \in lo..(e - 1) /\ ~(dist[m + 1] >= dist[m])
  BY <1>2
<1>5. m - 1 \in lo..(e - 1) /\ m \in (lo + 1)..(e - 1) /\ m - 1 < m
  BY <1>3, <1>4
<1>6. m - 1 \notin S
  BY <1>2, <1>5
<1>7. (m - 1) + 1 = m
  BY <1>4
<1>8. dist[m] >= dist[m - 1]
  BY <1>5, <1>6, <1>7
<1>9. dist[m] \in Nat /\ dist[m + 1] \in Nat
  BY <1>1, <1>4
<1> QED
  BY <1>4, <1>5, <1>8, <1>9

\* In a walk of the approach times from the earliest, every instant of the
\* window before e, when no approach time lies between the window start and
\* e, has the distance not shrinking.
LEMMA ApproachSteady ==
  ASSUME TypeOK, phase = "approach_times", PendingInv,
         NEW e \in Nat, e <= WinFinish,
         \A u \in (WinStart + 1)..(e - 1) : u \notin pending
  PROVE  \A u \in WinStart..(e - 1) : ~(dist[u + 1] < dist[u])
<1>1. WinStart \in Times /\ WinFinish \in Times
  BY WindowType DEF TypeOK, Running
<1>2. pending = ApproachTimes(WinStart, WinFinish) /\ ~InitiallyApproaching(WinStart)
  BY DEF PendingInv
<1>3. \A u \in (WinStart + 1)..(e - 1) :
        ~(dist[u] >= dist[u - 1] /\ dist[u + 1] < dist[u])
  BY <1>1, <1>2 DEF ApproachTimes, Times
<1>4. e <= MaxTime + 1 /\ WinStart \in Nat
  BY <1>1 DEF Times
<1>5. dist \in [Instants -> DistVals]
  BY DEF TypeOK
<1>6. \A u \in WinStart..(e - 1) : dist[u + 1] >= dist[u]
  BY <1>2, <1>3, <1>4, <1>5, NoApproachBefore
<1>7. \A u \in WinStart..(e - 1) : dist[u] \in Nat /\ dist[u + 1] \in Nat
  <2> SUFFICES ASSUME NEW u \in WinStart..(e - 1)
               PROVE  dist[u] \in Nat /\ dist[u + 1] \in Nat
    OBVIOUS
  <2>1. u \in Instants /\ u + 1 \in Instants
    BY <1>4 DEF Instants
  <2>2. dist[u] \in DistVals /\ dist[u + 1] \in DistVals
    BY <1>5, <2>1
  <2> QED
    BY <2>2
<1> QED
  BY <1>6, <1>7

\* A step that leaves the inputs and the ghost sets alone and does not enter
\* the walk of the approach times keeps the invariant.
LEMMA QuietN ==
  ASSUME NInv, ~Collect, UNCHANGED <<inputs, invSeen, appSeen>>,
         phase' # "approach_times"
  PROVE  SeenClean' /\ PendingInv'
<1>1. \A t : CloseAt(t)' <=> CloseAt(t)
  BY CloseStable
<1>2. dist' = dist
  BY CloseStable
<1> QED
  BY <1>1, <1>2 DEF NInv, SeenClean, PendingInv

\* A stutter keeps the invariant.
LEMMA StutterN ==
  ASSUME NInv, ~Collect, UNCHANGED vars
  PROVE  SeenClean' /\ PendingInv'
BY DEF NInv, vars, inputs, loop, ghost, SeenClean, PendingInv, CloseAt, Touch,
   PA, PB, ConvertProfile, ApproachTimes, InitiallyApproaching, WinStart,
   WinFinish

\* detect_invasion without an output vector advances only past a window in
\* which neither narrowphase test hit, so the window inspected is clear; the
\* complement left untested is the same pair of shapes.
LEMMA InvasionAdvanceN ==
  ASSUME NInv, ~Collect, InvasionAdvance
  PROVE  SeenClean' /\ PendingInv'
<1>1. /\ UNCHANGED <<inputs, phase, appSeen>> /\ phase = "invasion"
      /\ invSeen' = invSeen \cup WinStart..WinFinish
  BY DEF InvasionAdvance
<1>2. PICK hfv \in FirstHits(PA.footprint, PB.vicinity, WinStart, WinFinish),
           hvf \in IF TestComplement
                     THEN FirstHits(PA.vicinity, PB.footprint, WinStart, WinFinish)
                     ELSE {<<>>} :
        hfv = <<>> /\ hvf = <<>>
  BY DEF InvasionAdvance
<1>3. NoTouch(PA.footprint, PB.vicinity, WinStart, WinFinish)
  BY <1>2 DEF FirstHits
<1>4. \A u \in WinStart..WinFinish : ~Touch(PA.vicinity, PB.footprint, u)
  <2>1. CASE TestComplement
    <3>1. NoTouch(PA.vicinity, PB.footprint, WinStart, WinFinish)
      BY <1>2, <2>1 DEF FirstHits
    <3> QED
      BY <3>1 DEF NoTouch
  <2>2. CASE ~TestComplement
    <3>1. profA \in Profile /\ profB \in Profile
      BY DEF NInv, IInv, TypeOK
    <3>2. PA.vicinity = profA.footprint /\ PA.footprint = profA.footprint
          /\ PB.vicinity = profB.footprint /\ PB.footprint = profB.footprint
      BY <2>2, <3>1 DEF TestComplement, PA, PB, ConvertProfile, Profile
    <3>3. \A u : Touch(PA.vicinity, PB.footprint, u) <=> Touch(PA.footprint, PB.vicinity, u)
      BY <3>2 DEF Touch
    <3> QED
      BY <1>3, <3>3 DEF NoTouch
  <2> QED
    BY <2>1, <2>2
<1>5. \A u \in WinStart..WinFinish : ~CloseAt(u)
  BY <1>3, <1>4 DEF CloseAt, NoTouch
<1>6. \A t : CloseAt(t)' <=> CloseAt(t)
  BY <1>1, CloseStable
<1>7. dist' = dist
  BY <1>1, CloseStable
<1> QED
  BY <1>1, <1>5, <1>6, <1>7 DEF NInv, SeenClean, PendingInv

\* detect_approach without an output vector builds the differential only
\* when the vehicles are not approaching at the window start, and walks all
\* of its approach times.
LEMMA ApproachBeginN ==
  ASSUME NInv, ~Collect, ApproachBegin
  PROVE  SeenClean' /\ PendingInv'
<1>1. /\ UNCHANGED <<inputs, ta, tb, ia, ib, invSeen, appSeen>>
      /\ ~InitiallyApproaching(WinStart)
      /\ pending' = ApproachTimes(WinStart, WinFinish)
      /\ phase' = "approach_times"
  BY DEF ApproachBegin, ghost
<1>2. WinStart' = WinStart /\ WinFinish' = WinFinish
  BY <1>1 DEF WinStart, WinFinish
<1>3. PendingInv'
  BY <1>1, <1>2 DEF PendingInv, ApproachTimes, InitiallyApproaching, inputs
<1>4. SeenClean'
  <2>1. \A t : CloseAt(t)' <=> CloseAt(t)
    BY <1>1, CloseStable
  <2>2. dist' = dist
    BY <1>1, CloseStable
  <2> QED
    BY <1>1, <2>1, <2>2 DEF NInv, SeenClean
<1> QED
  BY <1>3, <1>4

\* still_close at the earliest approach time: a crash or a return leaves the
\* ghost sets alone; on a handover to invasion mode every instant before it
\* had the distance not shrinking, since no earlier approach time exists.
LEMMA ApproachTimeN ==
  ASSUME NInv, ~Collect, ApproachTime
  PROVE  SeenClean' /\ PendingInv'
<1>1. phase = "approach_times" /\ UNCHANGED inputs
  BY DEF ApproachTime
<1>2. PICK t \in pending :
        /\ \A u \in pending : t <= u
        /\ \/ /\ CheckOverlap(t) = "crash"
              /\ phase' = "crashed"
              /\ UNCHANGED <<loop, conflicts, result, ghost>>
           \/ /\ CheckOverlap(t) = "no"
              /\ phase' = "invasion"
              /\ appSeen' = appSeen \cup WinStart..(t - 1)
              /\ UNCHANGED <<result, invSeen>>
           \/ /\ CheckOverlap(t) = "yes"
              /\ ~Collect
              /\ phase' = "done"
              /\ UNCHANGED <<loop, conflicts, ghost>>
           \/ /\ CheckOverlap(t) = "yes"
              /\ Collect
  BY DEF ApproachTime
<1>3. TypeOK /\ PendingInv
  BY DEF NInv, IInv
<1>4. CASE phase' = "invasion" /\ appSeen' = appSeen \cup WinStart..(t - 1)
           /\ UNCHANGED invSeen
  <2>1. pending = ApproachTimes(WinStart, WinFinish)
    BY <1>1, <1>3 DEF PendingInv
  <2>2. t \in (WinStart + 1)..(WinFinish - 1)
    BY <2>1 DEF ApproachTimes
  <2>3. WinStart \in Times /\ WinFinish \in Times
    BY <1>1, <1>3, WindowType DEF TypeOK, Running
  <2>4. t \in Nat /\ t <= WinFinish
    BY <2>2, <2>3 DEF Times
  <2>5. \A u \in (WinStart + 1)..(t - 1) : u \notin pending
    <3>1. \A u \in pending : t <= u
      BY <1>2
    <3> QED
      BY <3>1, <2>4
  <2>6. \A u \in WinStart..(t - 1) : ~(dist[u + 1] < dist[u])
    BY <1>1, <1>3, <2>4, <2>5, ApproachSteady
  <2>7. \A u : CloseAt(u)' <=> CloseAt(u)
    BY <1>1, CloseStable
  <2>8. dist' = dist
    BY <1>1, CloseStable
  <2> QED
    BY <1>4, <2>6, <2>7, <2>8 DEF NInv, SeenClean, PendingInv
<1>5. CASE UNCHANGED ghost /\ phase' \in {"crashed", "done"}
  BY <1>1, <1>5, QuietN DEF ghost
<1> QED
  BY <1>2, <1>4, <1>5

\* The tail of detect_approach: with no approach time in the window the
\* distance does not shrink anywhere in it before its finish.
LEMMA ApproachEndN ==
  ASSUME NInv, ~Collect, ApproachEnd
  PROVE  SeenClean' /\ PendingInv'
<1>1. phase = "approach_times" /\ pending = {} /\ UNCHANGED inputs
  BY DEF ApproachEnd
<1>2. TypeOK /\ PendingInv
  BY DEF NInv, IInv
<1>3. CASE CheckOverlap(WinFinish) = "crash"
  <2>1. phase' = "crashed" /\ UNCHANGED ghost
    BY <1>3 DEF ApproachEnd
  <2> QED
    BY <1>1, <2>1, QuietN DEF ghost
<1>4. CASE CheckOverlap(WinFinish) # "crash"
  <2>1. /\ phase' \in {"approach", "invasion"}
        /\ appSeen' = appSeen \cup WinStart..(WinFinish - 1)
        /\ UNCHANGED invSeen
    BY <1>4 DEF ApproachEnd
  <2>2. WinFinish \in Nat
    BY <1>1, <1>2, WindowType DEF TypeOK, Running, Times
  <2>3. \A u \in WinStart..(WinFinish - 1) : ~(dist[u + 1] < dist[u])
    BY <1>1, <1>2, <2>2, ApproachSteady
  <2>4. \A u : CloseAt(u)' <=> CloseAt(u)
    BY <1>1, CloseStable
  <2>5. dist' = dist
    BY <1>1, CloseStable
  <2> QED
    BY <2>1, <2>3, <2>4, <2>5 DEF NInv, SeenClean, PendingInv
<1> QED
  BY <1>3, <1>4

-----------------------------------------------------------------------------
(* The inductive invariant and the theorem.                                *)

\* Before the call nothing has been inspected.
LEMMA InitN == Init => NInv
<1> SUFFICES ASSUME Init PROVE NInv
  OBVIOUS
<1>1. IInv
  BY InitIInv
<1> QED
  BY <1>1 DEF Init, NInv, SeenClean, PendingInv

\* NInv is inductive.
LEMMA NextN == NInv /\ [Next]_vars => NInv'
<1> SUFFICES ASSUME NInv, [Next]_vars PROVE NInv'
  OBVIOUS
<1>1. IInv'
  BY NextIInv DEF NInv
<1> SUFFICES ASSUME ~Collect PROVE SeenClean' /\ PendingInv'
  BY <1>1 DEF NInv
<1>2. CASE RejectTrajectory \/ EarlyReturn \/ InvasionHit \/ InvasionExit
           \/ ApproachReturn \/ ApproachExit
  <2>1. UNCHANGED <<inputs, invSeen, appSeen>> /\ phase' \in {"error", "done"}
    BY <1>2 DEF RejectTrajectory, EarlyReturn, InvasionHit, InvasionExit,
                ApproachReturn, ApproachExit, ghost
  <2> QED
    BY <2>1, QuietN
<1>3. CASE BeginDetection
  <2>1. PICK it \in InitialIterators :
          phase' = CASE CheckOverlap(Max2(trajA[it[1] - 1], trajB[it[2] - 1])) = "crash" -> "crashed"
                     [] CheckOverlap(Max2(trajA[it[1] - 1], trajB[it[2] - 1])) = "yes"   -> "approach"
                     [] CheckOverlap(Max2(trajA[it[1] - 1], trajB[it[2] - 1])) = "no"    -> "invasion"
    BY <1>3 DEF BeginDetection
  <2>2. phase' # "approach_times"
    BY <2>1, CheckOverlapType
  <2>3. UNCHANGED <<inputs, invSeen, appSeen>>
    BY <1>3 DEF BeginDetection
  <2> QED
    BY <2>2, <2>3, QuietN
<1>4. CASE InvasionAdvance
  BY <1>4, InvasionAdvanceN
<1>5. CASE ApproachBegin
  BY <1>5, ApproachBeginN
<1>6. CASE ApproachTime
  BY <1>6, ApproachTimeN
<1>7. CASE ApproachEnd
  BY <1>7, ApproachEndN
<1>8. CASE Terminated \/ UNCHANGED vars
  <2>1. UNCHANGED vars
    BY <1>8 DEF Terminated
  <2> QED
    BY <2>1, StutterN
<1> QED
  BY <1>2, <1>3, <1>4, <1>5, <1>6, <1>7, <1>8 DEF Next

\* between misses no conflict, for every horizon, trajectory length,
\* geometry and distance: when it returns none, no instant detect_invasion
\* inspected had the vehicles too close and no instant detect_approach
\* inspected had them close and getting closer (NoMissedConflict, checked by
\* the between run). Without an output vector is the
\* build those runs check; with one the property fails (between_all_missed).
THEOREM NoMissedConflictHolds ==
  ASSUME ~Collect
  PROVE  Spec => []NoMissedConflict
<1>1. NInv => NoMissedConflict
  BY DEF NInv, SeenClean, NoMissedConflict
<1> QED
  BY InitN, NextN, <1>1, PTL DEF Spec

=============================================================================
