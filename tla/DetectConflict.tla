--------------------------- MODULE DetectConflict ---------------------------
(***************************************************************************)
(* The control of DetectConflict::Implementation::between (rmf_traffic,    *)
(* src/rmf_traffic/src/rmf_traffic/DetectConflict.cpp): the input checks,  *)
(* the alignment of the two trajectory iterators, the close-start test,    *)
(* the lock-step loops of detect_invasion and detect_approach, the slicing *)
(* of both trajectories when approach mode hands over to invasion mode,    *)
(* and the output list of between_all.                                     *)
(*                                                                         *)
(* Geometry is abstracted to what the control reads of it.  Both vehicles  *)
(* have circular shapes (a radius from Radii, or NoShape), and dist[t] is  *)
(* the distance between their centres at instant t, sampled at the         *)
(* integer instants 0..MaxTime+1 (the last sample gives the direction of   *)
(* motion at MaxTime).  Two shapes touch at t when dist[t] is at most the  *)
(* sum of their radii.  The continuous-collision solver returns the first  *)
(* instant of a window at which the two shapes touch; the static overlap   *)
(* test is the touch test at one instant; the distance differential is     *)
(* the sign of dist[t+1] - dist[t].                                        *)
(***************************************************************************)
EXTENDS Integers, Sequences, FiniteSets

CONSTANTS
  MaxTime,   \* the last instant a trajectory waypoint may have
  MaxLen,    \* the largest number of waypoints of an input trajectory
  DistVals,  \* the centre distances the geometry may produce
  Radii,     \* the characteristic lengths of the shapes
  NoShape,   \* an absent shape (a null ConstFinalConvexShapePtr)
  Collect    \* TRUE for between_all (output_conflicts given), FALSE for between

ASSUME MaxTimeAssumption == MaxTime \in Nat
ASSUME MaxLenAssumption == MaxLen \in Nat \ {0}
ASSUME DistValsAssumption == DistVals \subseteq Nat /\ DistVals # {}
ASSUME RadiiAssumption == Radii \subseteq Nat /\ NoShape \notin Radii
ASSUME CollectAssumption == Collect \in BOOLEAN

Times == 0..MaxTime
Instants == 0..(MaxTime + 1)
None == -1                       \* rmf_utils::nullopt as a result time
Shape == Radii \cup {NoShape}
Profile == [footprint : Shape, vicinity : Shape]

\* A Trajectory: its waypoint times, strictly increasing.
Trajectories ==
  UNION {{s \in [1..n -> Times] : \A i, j \in 1..n : i < j => s[i] < s[j]} :
           n \in 1..MaxLen}

Phases == {"start", "invasion", "approach", "approach_times",
           "done", "error", "crashed"}
Terminal == {"done", "error", "crashed"}

VARIABLES
  trajA, trajB,   \* the input trajectories
  profA, profB,   \* the input profiles, before convert_profile
  dist,           \* the geometry: centre distance at each instant
  phase,          \* which part of between is running
  ta, tb,         \* the trajectories being iterated (sliced in approach mode)
  ia, ib,         \* a_it, b_it: index of the right waypoint of each spline
  pending,        \* approach_times not yet visited in the current pair
  conflicts,      \* output_conflicts: the times recorded, in order
  result,         \* the returned time, or None
  reach,          \* ghost: end of the time span inspected so far
  invSeen,        \* ghost: instants inspected in invasion mode
  appSeen,        \* ghost: instants whose motion was inspected in approach mode
  reused          \* ghost: leading entries of output_conflicts from before the call

inputs == <<trajA, trajB, profA, profB, dist>>
loop == <<ta, tb, ia, ib, pending>>
ghost == <<reach, invSeen, appSeen, reused>>
vars == <<inputs, phase, loop, conflicts, result, ghost>>

Max2(x, y) == IF x >= y THEN x ELSE y
Min2(x, y) == IF x <= y THEN x ELSE y
Last(s) == s[Len(s)]

-----------------------------------------------------------------------------
(* Profiles and shapes.                                                    *)

\* convert_profile: a missing vicinity becomes the footprint.
ConvertProfile(p) ==
  IF p.vicinity = NoShape THEN [p EXCEPT !.vicinity = p.footprint] ELSE p

PA == ConvertProfile(profA)
PB == ConvertProfile(profB)

\* test_complement compares shape pointers: after convert_profile the
\* vicinity is the footprint pointer exactly when no vicinity was given.
TestComplement == profA.vicinity # NoShape \/ profB.vicinity # NoShape

\* fcl::collide of two placed circles at instant t.
Touch(s1, s2, t) == s1 # NoShape /\ s2 # NoShape /\ dist[t] <= s1 + s2

\* check_collision on the window lo..hi returned contact time t, after
\* compute_time: the first instant of the window at which s1 and s2 touch.
IsFirstTouch(s1, s2, lo, hi, t) ==
  /\ t \in lo..hi
  /\ Touch(s1, s2, t)
  /\ \A u \in lo..(t - 1) : ~Touch(s1, s2, u)

NoTouch(s1, s2, lo, hi) == \A t \in lo..hi : ~Touch(s1, s2, t)

\* (mutant) a conflict is emplaced whether or not the solver hit.
FirstHitsUnguarded(s1, s2, lo, hi) ==
  {<<t>> : t \in {u \in lo..hi : IsFirstTouch(s1, s2, lo, hi, u)}}
    \cup (IF NoTouch(s1, s2, lo, hi) THEN {<<None>>} ELSE {})

\* The possible outcomes of one narrowphase test of a spline pair, as the
\* sequence of conflict times it contributes: <<t>> on a hit, <<>> if none.
\* The broadphase test of get_bounding_profile/overlap is sound, so it only
\* rules out pairs with a void box, i.e. an absent shape.
FirstHits(s1, s2, lo, hi) ==
  {<<t>> : t \in {u \in lo..hi : IsFirstTouch(s1, s2, lo, hi, u)}}
    \cup (IF NoTouch(s1, s2, lo, hi) THEN {<<>>} ELSE {})

\* check_overlap: footprint_a against vicinity_b, then vicinity_a against
\* footprint_b, dereferencing each shape pointer (an absent footprint is a
\* null pointer dereference, which ends the process).
CheckOverlap(t) ==
  IF PA.footprint = NoShape THEN "crash"
  ELSE IF Touch(PA.footprint, PB.vicinity, t) THEN "yes"
  ELSE IF PB.footprint = NoShape THEN "crash"
  ELSE IF Touch(PA.vicinity, PB.footprint, t) THEN "yes"
  ELSE "no"

-----------------------------------------------------------------------------
(* Trajectories, iterators and splines.                                    *)

\* have_time_overlap
HaveTimeOverlap ==
  /\ ~(Last(trajB) < trajA[1])
  /\ ~(Last(trajA) < trajB[1])

\* The common time span of the two input trajectories.
T0 == Max2(trajA[1], trajB[1])
T1 == Min2(Last(trajA), Last(trajB))

\* Trajectory::find(t) for start < t <= finish: the first waypoint whose
\* time is not before t, i.e. the spline containing t.
IsFind(s, t, i) ==
  /\ i \in 1..Len(s)
  /\ s[i] >= t
  /\ \A j \in 1..(i - 1) : s[j] < t

\* get_initial_iterators: the pairs of start iterators it may return.
InitialIterators ==
  IF trajA[1] < trajB[1]
    THEN {<<i, 2>> : i \in {j \in 1..Len(trajA) : IsFind(trajA, trajB[1], j)}}
  ELSE IF trajB[1] < trajA[1]
    THEN {<<2, i>> : i \in {j \in 1..Len(trajB) : IsFind(trajB, trajA[1], j)}}
  ELSE {<<2, 2>>}

InRange == ia <= Len(ta) /\ ib <= Len(tb)

\* The concurrent window of Spline(a_it) and Spline(b_it).
WinStart == Max2(ta[ia - 1], tb[ib - 1])
WinFinish == Min2(ta[ia], tb[ib])

\* (mutant) the spline finishing later is replaced.
AdvanceSwapped ==
  /\ ia' = IF ta[ia] >= tb[ib] THEN ia + 1 ELSE ia
  /\ ib' = IF tb[ib] >= ta[ia] THEN ib + 1 ELSE ib

\* (mutant) on a tie in finish time neither spline is replaced.
AdvanceNoTie ==
  /\ ia' = IF ta[ia] < tb[ib] THEN ia + 1 ELSE ia
  /\ ib' = IF tb[ib] < ta[ia] THEN ib + 1 ELSE ib

\* The lock-step advance: the spline(s) finishing first are replaced.
Advance ==
  /\ ia' = IF ta[ia] <= tb[ib] THEN ia + 1 ELSE ia
  /\ ib' = IF tb[ib] <= ta[ia] THEN ib + 1 ELSE ib

\* (mutant) the sliced trajectory lacks the synthetic waypoint at t.
SliceNoLead(s, i, t) == SubSeq(s, i, Len(s))

\* slice_trajectory: a waypoint at t followed by the waypoints from i on.
Slice(s, i, t) == <<t>> \o SubSeq(s, i, Len(s))

\* DistanceDifferential::initially_approaching at the window start.
InitiallyApproaching(lo) == dist[lo + 1] < dist[lo]

\* (mutant) the first instant inside the window is never an approach time.
ApproachTimesLate(lo, hi) ==
  {t \in (lo + 2)..(hi - 1) : dist[t] >= dist[t - 1] /\ dist[t + 1] < dist[t]}

\* DistanceDifferential::approach_times: the instants inside the window at
\* which the distance stops growing and starts shrinking.
ApproachTimes(lo, hi) ==
  {t \in (lo + 1)..(hi - 1) : dist[t] >= dist[t - 1] /\ dist[t + 1] < dist[t]}

\* output_conflicts as between_all receives it: between itself never clears
\* the vector, only detect_invasion does on entry, so a vector the caller
\* reuses may hold the conflicts of an earlier call (one, in the model).
Reused == {<<>>} \cup {<<t>> : t \in Times}

\* The value returned when a loop runs out of splines.
FrontOrNone == IF conflicts = <<>> THEN None ELSE Head(conflicts)

-----------------------------------------------------------------------------
(* The operation between.                                                  *)

Init ==
  /\ trajA \in Trajectories
  /\ trajB \in Trajectories
  /\ profA \in Profile
  /\ profB \in Profile
  /\ dist \in [Instants -> DistVals]
  /\ phase = "start"
  /\ ta = trajA
  /\ tb = trajB
  /\ ia = 1
  /\ ib = 1
  /\ pending = {}
  /\ conflicts \in IF Collect THEN Reused ELSE {<<>>}
  /\ result = None
  /\ reach = 0
  /\ invSeen = {}
  /\ appSeen = {}
  /\ reused = Len(conflicts)

\* A trajectory with fewer than two waypoints: invalid_trajectory_error.
RejectTrajectory ==
  /\ phase = "start"
  /\ Len(trajA) < 2 \/ Len(trajB) < 2
  /\ phase' = "error"
  /\ UNCHANGED <<inputs, loop, conflicts, result, ghost>>

\* (mutant) the size check of only one trajectory is needed to go on.
ValidInputEither == Len(trajA) >= 2 \/ Len(trajB) >= 2

ValidInput == Len(trajA) >= 2 /\ Len(trajB) >= 2

\* The early returns: no footprint at all, a missing vicinity, or no
\* overlap in time.
EarlyReturn ==
  /\ phase = "start"
  /\ ValidInput
  /\ \/ PA.footprint = NoShape /\ PB.footprint = NoShape
     \/ PA.vicinity = NoShape \/ PB.vicinity = NoShape
     \/ ~HaveTimeOverlap
  /\ phase' = "done"
  /\ result' = None
  /\ UNCHANGED <<inputs, loop, conflicts, ghost>>

\* Align the iterators and choose the mode by close_start; detect_invasion
\* clears output_conflicts on entry.
BeginDetection ==
  /\ phase = "start"
  /\ ValidInput
  /\ PA.footprint # NoShape \/ PB.footprint # NoShape
  /\ PA.vicinity # NoShape /\ PB.vicinity # NoShape
  /\ HaveTimeOverlap
  /\ \E it \in InitialIterators :
       LET start == Max2(trajA[it[1] - 1], trajB[it[2] - 1])
           close == CheckOverlap(start)
       IN /\ ia' = it[1]
          /\ ib' = it[2]
          /\ reach' = T0
          /\ phase' = CASE close = "crash" -> "crashed"
                        [] close = "yes"   -> "approach"
                        [] close = "no"    -> "invasion"
          /\ conflicts' = IF close = "no" THEN <<>> ELSE conflicts
          /\ reused' = IF close = "no" THEN 0 ELSE reused
  /\ UNCHANGED <<inputs, ta, tb, pending, result, invSeen, appSeen>>

(* detect_invasion, one iteration of its loop per step. *)

\* between: the first narrowphase hit of the pair is returned at once,
\* footprint_a against vicinity_b before the complement.
InvasionHit ==
  /\ phase = "invasion"
  /\ InRange
  /\ ~Collect
  /\ \E t \in WinStart..WinFinish :
       \/ IsFirstTouch(PA.footprint, PB.vicinity, WinStart, WinFinish, t)
       \/ /\ NoTouch(PA.footprint, PB.vicinity, WinStart, WinFinish)
          /\ TestComplement
          /\ IsFirstTouch(PA.vicinity, PB.footprint, WinStart, WinFinish, t)
       \* the first disjunct that holds fixes t: only one t satisfies it
     /\ result' = t
  /\ phase' = "done"
  /\ UNCHANGED <<inputs, loop, conflicts, ghost>>

\* No hit returned: record the hits (between_all) and advance the splines.
InvasionAdvance ==
  /\ phase = "invasion"
  /\ InRange
  /\ \E hfv \in FirstHits(PA.footprint, PB.vicinity, WinStart, WinFinish),
        hvf \in IF TestComplement
                  THEN FirstHits(PA.vicinity, PB.footprint, WinStart, WinFinish)
                  ELSE {<<>>} :
       /\ Collect \/ (hfv = <<>> /\ hvf = <<>>)
       /\ conflicts' = conflicts \o hfv \o hvf
  /\ Advance
  /\ reach' = WinFinish
  /\ invSeen' = invSeen \cup WinStart..WinFinish
  /\ UNCHANGED <<inputs, phase, ta, tb, pending, result, appSeen, reused>>

\* The loop ran out of splines.
InvasionExit ==
  /\ phase = "invasion"
  /\ ~InRange
  /\ phase' = "done"
  /\ result' = FrontOrNone
  /\ UNCHANGED <<inputs, loop, conflicts, ghost>>

(* detect_approach, one step for the head of each iteration, one per       *)
(* approach time, and one for its tail.                                    *)

\* between: approaching at the start of the pair is a conflict.
ApproachReturn ==
  /\ phase = "approach"
  /\ InRange
  /\ ~Collect
  /\ InitiallyApproaching(WinStart)
  /\ phase' = "done"
  /\ result' = WinStart
  /\ UNCHANGED <<inputs, loop, conflicts, ghost>>

\* Build the distance differential of the pair.
ApproachBegin ==
  /\ phase = "approach"
  /\ InRange
  /\ Collect \/ ~InitiallyApproaching(WinStart)
  /\ conflicts' = IF InitiallyApproaching(WinStart)
                    THEN Append(conflicts, WinStart) ELSE conflicts
  /\ pending' = ApproachTimes(WinStart, WinFinish)
  /\ phase' = "approach_times"
  /\ UNCHANGED <<inputs, ta, tb, ia, ib, result, ghost>>

\* The earliest approach time not yet visited.
ApproachTime ==
  /\ phase = "approach_times"
  /\ \E t \in pending :
       /\ \A u \in pending : t <= u
       /\ \/ /\ CheckOverlap(t) = "crash"
             /\ phase' = "crashed"
             /\ UNCHANGED <<loop, conflicts, result, ghost>>
          \* no longer close: invasion on both trajectories sliced at t
          \/ /\ CheckOverlap(t) = "no"
             /\ ta' = Slice(ta, ia, t)
             /\ tb' = Slice(tb, ib, t)
             /\ ia' = 2
             /\ ib' = 2
             /\ pending' = {}
             /\ conflicts' = <<>>
             /\ phase' = "invasion"
             /\ reach' = t
             /\ appSeen' = appSeen \cup WinStart..(t - 1)
             /\ reused' = 0
             /\ UNCHANGED <<result, invSeen>>
          \* still close while approaching: a conflict
          \/ /\ CheckOverlap(t) = "yes"
             /\ ~Collect
             /\ phase' = "done"
             /\ result' = t
             /\ UNCHANGED <<loop, conflicts, ghost>>
          \/ /\ CheckOverlap(t) = "yes"
             /\ Collect
             /\ conflicts' = Append(conflicts, t)
             /\ pending' = pending \ {t}
             /\ UNCHANGED <<phase, ta, tb, ia, ib, result, ghost>>
  /\ UNCHANGED inputs

\* (mutant) still_close is ignored: approach mode never hands over.
ApproachEndNoRevert ==
  /\ phase = "approach_times"
  /\ pending = {}
  /\ \/ /\ CheckOverlap(WinFinish) = "crash"
        /\ phase' = "crashed"
        /\ UNCHANGED <<loop, conflicts, ghost>>
     \/ /\ CheckOverlap(WinFinish) # "crash"
        /\ Advance
        /\ reach' = WinFinish
        /\ appSeen' = appSeen \cup WinStart..(WinFinish - 1)
        /\ phase' = "approach"
        /\ UNCHANGED <<ta, tb, pending, conflicts, invSeen, reused>>
  /\ UNCHANGED <<inputs, result>>

\* The tail: still_close at the window finish, advance, and hand over to
\* invasion mode if the vehicles are no longer close.
ApproachEnd ==
  /\ phase = "approach_times"
  /\ pending = {}
  /\ LET close == CheckOverlap(WinFinish) IN
       \/ /\ close = "crash"
          /\ phase' = "crashed"
          /\ UNCHANGED <<loop, conflicts, ghost>>
       \/ /\ close # "crash"
          /\ Advance
          /\ reach' = WinFinish
          /\ appSeen' = appSeen \cup WinStart..(WinFinish - 1)
          /\ phase' = IF close = "yes" THEN "approach" ELSE "invasion"
          /\ conflicts' = IF close = "yes" THEN conflicts ELSE <<>>
          /\ reused' = IF close = "yes" THEN reused ELSE 0
          /\ UNCHANGED <<ta, tb, pending, invSeen>>
  /\ UNCHANGED <<inputs, result>>

\* The loop ran out of splines.
ApproachExit ==
  /\ phase = "approach"
  /\ ~InRange
  /\ phase' = "done"
  /\ result' = FrontOrNone
  /\ UNCHANGED <<inputs, loop, conflicts, ghost>>

\* The call has returned, thrown or crashed.
Terminated ==
  /\ phase \in Terminal
  /\ UNCHANGED vars

Next ==
  \/ RejectTrajectory
  \/ EarlyReturn
  \/ BeginDetection
  \/ InvasionHit
  \/ InvasionAdvance
  \/ InvasionExit
  \/ ApproachReturn
  \/ ApproachBegin
  \/ ApproachTime
  \/ ApproachEnd
  \/ ApproachExit
  \/ Terminated

\* The call is synchronous and runs to completion: weak fairness.
Spec == Init /\ [][Next]_vars /\ WF_vars(Next)


-----------------------------------------------------------------------------
(* Properties.                                                             *)

Running == {"invasion", "approach", "approach_times"}

\* The vehicles are too close at t: a footprint inside the other's vicinity.
CloseAt(t) ==
  Touch(PA.footprint, PB.vicinity, t) \/ Touch(PA.vicinity, PB.footprint, t)

MinOf(S) == CHOOSE x \in S : \A y \in S : x <= y

\* The earliest instant of the common span at which the vehicles are close.
Earliest ==
  LET S == {t \in T0..T1 : CloseAt(t)} IN IF S = {} THEN None ELSE MinOf(S)

\* Every variable has its type; the iterators point at a spline while a
\* loop runs.
TypeOK ==
  /\ trajA \in Trajectories /\ trajB \in Trajectories
  /\ profA \in Profile /\ profB \in Profile
  /\ dist \in [Instants -> DistVals]
  /\ phase \in Phases
  /\ ta \in Seq(Times) /\ tb \in Seq(Times)
  /\ ia \in Nat /\ ib \in Nat
  /\ phase \in Running => ia \in 2..(Len(ta) + 1) /\ ib \in 2..(Len(tb) + 1)
  /\ phase = "approach_times" => InRange
  /\ pending \subseteq Times
  /\ conflicts \in Seq(Times)
  /\ result \in Times \cup {None}
  /\ reach \in Times
  /\ invSeen \subseteq Times
  /\ appSeen \subseteq Times
  /\ reused \in Nat

\* get_initial_iterators and the lock-step advance of both loops (and the
\* slicing at an approach time) visit concurrent windows that tile the
\* common span: each window starts where the inspected span ends, and a
\* loop only runs out of splines once the whole span is inspected.
Coverage ==
  phase \in Running =>
    /\ InRange => /\ WinStart = reach
                  /\ T0 <= WinStart
                  /\ WinStart <= WinFinish
                  /\ WinFinish <= T1
    /\ ~InRange => reach = T1

\* Every conflict time that between or between_all emplaces lies in the
\* common span and is an instant at which the vehicles are too close, and
\* so is the time returned, unless between_all returns the front of a
\* vector it was given non-empty and never cleared; in approach mode this
\* rests on still_close handing over to invasion mode.
ReportedAreConflicts ==
  /\ \A i \in DOMAIN conflicts :
       i > reused => conflicts[i] \in T0..T1 /\ CloseAt(conflicts[i])
  /\ phase = "done" /\ result # None /\ reused = 0 =>
       result \in T0..T1 /\ CloseAt(result)

\* Section 6 of the spec: between_all clears out_list, then populates it
\* with the conflicts it detects, and returns the earliest of them or none.
\* The returned time is then always an instant of the common span at which
\* the vehicles are too close.
BetweenAllResult ==
  Collect /\ phase = "done" /\ result # None =>
    result \in T0..T1 /\ CloseAt(result)

\* When between returns (or between_all returns none), no instant inspected
\* in invasion mode had the vehicles too close, and no instant inspected in
\* approach mode had them close and getting closer.
NoMissedConflict ==
  phase = "done" /\ (~Collect \/ result = None) =>
    /\ \A t \in invSeen : ~CloseAt(t)
    /\ \A t \in appSeen : ~(CloseAt(t) /\ dist[t + 1] < dist[t])

\* Every call of between returns, throws or crashes.
Termination == <>(phase \in Terminal)

\* Section 4.5 of the spec: in invasion mode between returns the earliest
\* time at which either vehicle invades the other's vicinity.
EarliestConflict ==
  phase = "done" /\ ValidInput /\ CheckOverlap(T0) = "no" => result = Earliest

\* A profile may have a vicinity and no footprint (Section 3: an absent
\* footprint is no physical presence): between never dereferences it.
NoCrash == phase # "crashed"

=============================================================================
