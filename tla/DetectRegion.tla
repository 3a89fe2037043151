---------------------------- MODULE DetectRegion ----------------------------
(***************************************************************************)
(* The control of rmf_traffic::internal::detect_conflicts                  *)
(* (src/rmf_traffic/src/rmf_traffic/DetectConflict.cpp): one trajectory    *)
(* tested against a stationary spacetime region.  The debug-build check of *)
(* the trajectory size, the early returns, the intersection of the         *)
(* trajectory with the region's time window, the choice of the begin and   *)
(* end iterators, and the loop over the splines in that range and over the *)
(* convex pieces of the region's shape, with first-hit and collect modes.  *)
(*                                                                         *)
(* Geometry is abstracted as in DetectConflict: the vehicle's vicinity is  *)
(* a circle (a radius from Radii, or NoShape), each convex piece of the    *)
(* region is a circle, and rdist[k][t] is the distance between the vehicle *)
(* and piece k at instant t.  The continuous-collision solver, followed by *)
(* compute_time, returns the first instant of the spline window at which   *)
(* the two touch.                                                          *)
(***************************************************************************)
EXTENDS Integers, Sequences, FiniteSets

CONSTANTS
  MaxTime,   \* the last instant a trajectory waypoint may have
  MaxLen,    \* the largest number of waypoints of an input trajectory
  DistVals,  \* the distances the geometry may produce
  Radii,     \* the characteristic lengths of the shapes
  NoShape,   \* an absent vicinity (profile.vicinity() is null)
  NPieces,   \* the number of convex pieces of the region's shape
  NoBound,   \* an absent lower or upper time bound of the region
  Collect,   \* TRUE when output_conflicts is given
  NDEBUG     \* TRUE for a release build (the size check is compiled out)

ASSUME RegionMaxTimeAssumption == MaxTime \in Nat
ASSUME RegionMaxLenAssumption == MaxLen \in Nat \ {0}
ASSUME RegionDistValsAssumption == DistVals \subseteq Nat /\ DistVals # {}
ASSUME RegionRadiiAssumption == Radii \subseteq Nat /\ NoShape \notin Radii
ASSUME NPiecesAssumption == NPieces \in Nat \ {0}
ASSUME NoBoundAssumption == NoBound \notin Nat
ASSUME RegionFlagsAssumption == Collect \in BOOLEAN /\ NDEBUG \in BOOLEAN

Times == 0..MaxTime
Pieces == 1..NPieces
Bound == Times \cup {NoBound}

\* A Trajectory: its waypoint times, strictly increasing.  A trajectory of
\* one waypoint is a legal object; only detect_conflicts' callers rule it out.
Trajectories ==
  UNION {{s \in [1..n -> Times] : \A i, j \in 1..n : i < j => s[i] < s[j]} :
           n \in 1..MaxLen}

\* DetectConflict::Implementation::Conflict{it, it, time}: the spline (its
\* right waypoint) and the contact time.
ConflictRec == [spline : 1..(MaxLen + 1), time : Times]

\* A conflict left in a reused output vector by an earlier call.
Stale == [spline |-> 2, time |-> 0]

Phases == {"start", "loop", "done", "error"}

VARIABLES
  traj,       \* the input trajectory's waypoint times
  vicinity,   \* profile.vicinity(): a radius, or NoShape
  lower,      \* region.lower_time_bound, or NoBound
  upper,      \* region.upper_time_bound, or NoBound
  pieces,     \* the radius of each convex piece of region.shape
  rdist,      \* the geometry: distance to each piece at each instant
  phase,      \* which part of detect_conflicts is running
  it,         \* the loop iterator: right waypoint of the current spline
  endIt,      \* end_it
  piece,      \* the region piece tested next against Spline(it)
  conflicts,  \* *output_conflicts
  result      \* the returned bool

inputs == <<traj, vicinity, lower, upper, pieces, rdist>>
vars == <<inputs, phase, it, endIt, piece, conflicts, result>>

Max2(x, y) == IF x >= y THEN x ELSE y
Min2(x, y) == IF x <= y THEN x ELSE y
Last(s) == s[Len(s)]

-----------------------------------------------------------------------------
(* Geometry, windows and iterators.                                        *)

\* fcl::collide of the vicinity and region piece k at instant t.
TouchP(k, t) == vicinity # NoShape /\ rdist[k][t] <= vicinity + pieces[k]

\* fcl::collide on the window lo..hi, then compute_time: t is the first
\* instant of the window at which the vicinity touches piece k.
IsFirstTouchP(k, lo, hi, t) ==
  /\ t \in lo..hi
  /\ TouchP(k, t)
  /\ \A u \in lo..(t - 1) : ~TouchP(k, u)

NoTouchP(k, lo, hi) == \A t \in lo..hi : ~TouchP(k, t)

\* start_time: the later of the region's lower bound and the trajectory start.
StartTime == IF lower = NoBound THEN traj[1] ELSE Max2(lower, traj[1])

\* finish_time: the earlier of the region's upper bound and the trajectory
\* finish.
FinishTime == IF upper = NoBound THEN Last(traj) ELSE Min2(upper, Last(traj))

\* Trajectory::find(t) for start <= t <= finish: the first waypoint whose
\* time is not before t.
Find(t) == CHOOSE i \in 1..Len(traj) :
             traj[i] >= t /\ \A j \in 1..(i - 1) : traj[j] < t

\* begin_it
BeginIt == IF traj[1] < StartTime THEN Find(StartTime) ELSE 2

\* (mutant) end_it without the increment of find's result.
EndItNoIncrement == IF FinishTime < Last(traj) THEN Find(FinishTime) ELSE Len(traj) + 1

\* (mutant) end_it one past the spline after find's result.
EndItOverrun == IF FinishTime < Last(traj) THEN Find(FinishTime) + 2 ELSE Len(traj) + 1

\* end_it
EndIt == IF FinishTime < Last(traj) THEN Find(FinishTime) + 1 ELSE Len(traj) + 1

\* (mutant) the spline window is not clipped to the region's lower bound.
SplineStartUnclipped(i) == traj[i - 1]

\* spline_start_time and spline_finish_time of Spline(i).
SplineStart(i) == Max2(traj[i - 1], StartTime)
SplineFinish(i) == Min2(traj[i], FinishTime)

-----------------------------------------------------------------------------
(* The operation detect_conflicts.                                         *)

Init ==
  /\ traj \in Trajectories
  /\ vicinity \in Radii \cup {NoShape}
  /\ lower \in Bound
  /\ upper \in Bound
  /\ pieces \in [Pieces -> Radii]
  /\ rdist \in [Pieces -> [Times -> DistVals]]
  /\ phase = "start"
  /\ it = 0
  /\ endIt = 0
  /\ piece = 1
  /\ conflicts \in IF Collect THEN {<<>>, <<Stale>>} ELSE {<<>>}
  /\ result = FALSE

\* #ifndef NDEBUG: fewer than two waypoints throws invalid_trajectory_error.
DebugThrow ==
  /\ phase = "start"
  /\ ~NDEBUG
  /\ Len(traj) < 2
  /\ phase' = "error"
  /\ UNCHANGED <<inputs, it, endIt, piece, conflicts, result>>

SizeChecked == NDEBUG \/ Len(traj) >= 2

\* No vicinity: return false.
NoVicinity ==
  /\ phase = "start"
  /\ SizeChecked
  /\ vicinity = NoShape
  /\ phase' = "done"
  /\ result' = FALSE
  /\ UNCHANGED <<inputs, it, endIt, piece, conflicts>>

\* The trajectory and the region do not overlap in time: return false.
NoTimeOverlap ==
  /\ phase = "start"
  /\ SizeChecked
  /\ vicinity # NoShape
  /\ FinishTime < StartTime
  /\ phase' = "done"
  /\ result' = FALSE
  /\ UNCHANGED <<inputs, it, endIt, piece, conflicts>>

\* Compute the iterators, clear the output and enter the loop.
BeginLoop ==
  /\ phase = "start"
  /\ SizeChecked
  /\ vicinity # NoShape
  /\ ~(FinishTime < StartTime)
  /\ it' = BeginIt
  /\ endIt' = EndIt
  /\ piece' = 1
  /\ conflicts' = IF Collect THEN <<>> ELSE conflicts
  /\ phase' = "loop"
  /\ UNCHANGED <<inputs, result>>

\* fcl::collide of Spline(it) and the current piece finds no contact.
CollideMiss ==
  /\ phase = "loop"
  /\ it # endIt
  /\ piece <= NPieces
  /\ NoTouchP(piece, SplineStart(it), SplineFinish(it))
  /\ piece' = piece + 1
  /\ UNCHANGED <<inputs, phase, it, endIt, conflicts, result>>

\* A contact and no output vector: return true.
CollideReturn ==
  /\ phase = "loop"
  /\ it # endIt
  /\ piece <= NPieces
  /\ ~Collect
  /\ ~NoTouchP(piece, SplineStart(it), SplineFinish(it))
  /\ phase' = "done"
  /\ result' = TRUE
  /\ UNCHANGED <<inputs, it, endIt, piece, conflicts>>

\* A contact with an output vector: emplace Conflict{it, it, compute_time}.
CollideRecord ==
  /\ phase = "loop"
  /\ it # endIt
  /\ piece <= NPieces
  /\ Collect
  /\ \E t \in Times :
       /\ IsFirstTouchP(piece, SplineStart(it), SplineFinish(it), t)
       /\ conflicts' = Append(conflicts, [spline |-> it, time |-> t])
  /\ piece' = piece + 1
  /\ UNCHANGED <<inputs, phase, it, endIt, result>>

\* Every piece was tested against Spline(it): ++it.
NextSpline ==
  /\ phase = "loop"
  /\ it # endIt
  /\ piece > NPieces
  /\ it' = it + 1
  /\ piece' = 1
  /\ UNCHANGED <<inputs, phase, endIt, conflicts, result>>

\* it == end_it: false without an output vector, else whether it is empty.
LoopExit ==
  /\ phase = "loop"
  /\ it = endIt
  /\ phase' = "done"
  /\ result' = (Collect /\ conflicts # <<>>)
  /\ UNCHANGED <<inputs, it, endIt, piece, conflicts>>

\* The call has returned or thrown.
Terminated ==
  /\ phase \in {"done", "error"}
  /\ UNCHANGED vars

Next ==
  \/ DebugThrow
  \/ NoVicinity
  \/ NoTimeOverlap
  \/ BeginLoop
  \/ CollideMiss
  \/ CollideReturn
  \/ CollideRecord
  \/ NextSpline
  \/ LoopExit
  \/ Terminated

\* The call is synchronous and runs to completion: weak fairness.
Spec == Init /\ [][Next]_vars /\ WF_vars(Next)

-----------------------------------------------------------------------------
(* Properties.                                                             *)

\* The vehicle's vicinity meets some piece of the region at instant t.
InRegion(t) == \E k \in Pieces : TouchP(k, t)

\* The window of the region's time bounds intersected with the trajectory.
Window == StartTime..FinishTime

\* The window is the trajectory's first instant alone: an upper bound equal
\* to the trajectory's start time.
DegenerateStart == StartTime = FinishTime /\ StartTime = traj[1]

\* Every variable has its type; the loop's iterator runs from begin_it up
\* to end_it and never passes it.
TypeOK ==
  /\ traj \in Trajectories
  /\ vicinity \in Radii \cup {NoShape}
  /\ lower \in Bound /\ upper \in Bound
  /\ pieces \in [Pieces -> Radii]
  /\ rdist \in [Pieces -> [Times -> DistVals]]
  /\ phase \in Phases
  /\ it \in 0..(MaxLen + 1) /\ endIt \in 0..(MaxLen + 1)
  /\ piece \in 1..(NPieces + 1)
  /\ phase = "loop" => 2 <= it /\ it <= endIt /\ endIt <= Len(traj) + 1
  /\ conflicts \in Seq(ConflictRec)
  /\ result \in BOOLEAN

\* detect_conflicts reports only real conflicts: a true result means the
\* vicinity meets the region inside the time window, and every conflict it
\* emplaces lies in the window and in its spline's time span, at an instant
\* at which the vicinity meets the region.
RegionSound ==
  /\ phase = "done" /\ result => \E t \in Window : InRegion(t)
  /\ Collect /\ (phase = "loop" \/ (phase = "done" /\ result)) =>
       \A i \in DOMAIN conflicts :
         LET c == conflicts[i] IN
           /\ c.spline \in 2..Len(traj)
           /\ c.time \in Window
           /\ traj[c.spline - 1] <= c.time /\ c.time <= traj[c.spline]
           /\ InRegion(c.time)

\* Apart from a window that is the trajectory's first instant alone, the
\* begin_it/end_it range covers the whole window: whenever the vicinity
\* meets the region in it, detect_conflicts returns true, and with an output
\* vector some spline whose span holds that instant reports a contact no
\* later than it.
RegionComplete ==
  phase = "done" /\ ~DegenerateStart =>
    \A t \in Window : InRegion(t) =>
      /\ result
      /\ Collect => \E i \in DOMAIN conflicts :
                      /\ conflicts[i].time <= t
                      /\ traj[conflicts[i].spline - 1] <= t
                      /\ t <= traj[conflicts[i].spline]

\* Section 4.5 of the spec: the trajectory is intersected with the region's
\* time window and tested inside it, so detect_conflicts reports a conflict
\* exactly when the vicinity meets the region at an instant of the window.
RegionWindowTested ==
  phase = "done" => (result <=> \E t \in Window : InRegion(t))

\* With an output vector, the result says whether the vector holds
\* conflicts (the last line of detect_conflicts), on every return path.
ResultMatchesOutput ==
  phase = "done" /\ Collect => (result <=> conflicts # <<>>)

=============================================================================
