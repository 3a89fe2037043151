# Verification of rmf_core conflict detection and reservations

This directory holds TLA+ models of the conflict detector of `rmf_traffic`
(`src/rmf_traffic/src/rmf_traffic/DetectConflict.cpp`) and of its reservation
scheduler, TLC configurations that model-check them, and TLAPS proofs about
them.

## The system and its parts

`DetectConflict::Implementation::between(profile_a, trajectory_a, profile_b,
trajectory_b, interpolation, output_conflicts)` decides whether two vehicles,
each with a *footprint* shape and a *vicinity* shape, come into conflict while
they follow their trajectories. It works in one of two modes:

* **first-conflict mode** (`output_conflicts == nullptr`, the public
  `DetectConflict::between`): it returns the first conflict time it finds, or
  none;
* **collect mode** (an output vector): it fills the vector with every conflict
  and returns the time of the first one in the vector.

The call is synchronous and single-threaded. Its steps:

1. It throws `invalid_trajectory_error` if a trajectory has fewer than two
   waypoints (lines 908-920).
2. `convert_profile` replaces a missing vicinity by the footprint (557-564).
3. It returns none early (922-940) if neither profile has a footprint, if a
   vicinity is missing, or if `have_time_overlap` (90-125) says the
   trajectories share no time.
4. `get_initial_iterators` (128-162) moves the trajectory that starts first to
   the spline containing the other one's start.
5. `close_start` (640-656) calls `check_overlap` (598-637), a static
   collision test of footprint_a/vicinity_b and vicinity_a/footprint_b at the
   start of the common window. It then chooses a mode:
   * **invasion** (`detect_invasion`, 659-771): for each concurrent window of a
     spline of a and a spline of b, it runs a broadphase box test and then
     `check_collision`, the fcl conservative-advancement solver. It runs this
     first for footprint_a/vicinity_b and then, if `test_complement`, for
     vicinity_a/footprint_b. Then it advances the spline(s) that finish first.
   * **approach** (`detect_approach`, 793-895): the vehicles start close, which
     is tolerated as long as they do not get closer. For each window, a
     `DistanceDifferential` gives:
     * whether they are approaching at the window start (a conflict);
     * the interior *approach times*.

     At each approach time, `check_overlap` decides whether they are still
     close:
     * if they are, this is a conflict;
     * if they are not, both trajectories are sliced at that time
       (`slice_trajectory`, 774-791) and invasion mode takes over.

     After the window, `still_close` at its finish time decides whether to
     stay in approach mode or to hand over to invasion mode on the remaining
     splines.

`internal::detect_conflicts` (974-1088) is a variant for one trajectory against
a fixed region. It intersects the trajectory with the region's time window, finds the begin
and end iterators of the splines in that window, and tests each spline against
each convex piece of the region's shape, returning on the first hit or
collecting every hit.

The reservation scheduler (`rmf_traffic::reservations`, specification section
4.6) grants time intervals on resources (waypoints). `reserve(start,
resources, duration)` tries the resources of a preference list in order, and
`cancel_reservation(id)` removes a reservation. Only its unit test,
`src/rmf_traffic/test/unit/reservation/test_ReservationSystem.cpp`, is in the
repository; the implementation is not. It shares no state with the conflict
detector.

The remaining files under `src/` are:
* the `agv::State` record of `rmf_tasks`;
* the `Shape` interface.

## Modules

| Module | Models |
|---|---|
| `DetectConflict` | `between` in both modes, with every helper it calls. |
| `MC_DetectConflict` | The TLC instance of `DetectConflict`. Its constants are given in the `.cfg` files. |
| `DetectConflictProofs` | The TLAPS proofs of type correctness and `Coverage`. |
| `DetectConflictSoundness` | The TLAPS proof of `ReportedAreConflicts`. |
| `DetectConflictCompleteness` | The TLAPS proof of `NoMissedConflict` (first-conflict mode). |
| `ConflictQuery` | What `between` promises, as an abstract specification. |
| `DetectConflictRefinement` | The refinement mapping from `DetectConflict` to `ConflictQuery`; a TLC run module. |
| `DetectConflictRefinementProofs` | The TLAPS proof of the refinement's safety part. |
| `DetectRegion`, `MC_DetectRegion` | `internal::detect_conflicts`, and its TLC instance. |
| `DetectRegionProofs` | The TLAPS proofs of `TypeOK`, `RegionSound` and `RegionComplete` for `DetectRegion`. |
| `Reservations` | The reservation scheduler, from the specification (see below). |
| `ReservationLedger` | What the scheduler promises, over sets of instants. |
| `ReservationsRefinement`, `MC_Reservations` | The mapping from `Reservations` to `ReservationLedger`, and the TLC instance. |
| `ReservationsProofs` | The TLAPS proofs of `TypeOK`, `NoOverlap` and the refinement. |

### Abstraction in `DetectConflict`

The geometry is data, and it is abstracted:
* a shape is a circle, given by its radius in `Radii`, or `NoShape` for a null
  pointer;
* a trajectory is a strictly increasing sequence of integer waypoint times;
* the motion is a function `dist` from the instants `0..MaxTime+1` to the
  distance between the centres. Two shapes touch at t when
  `dist[t] <= r1 + r2`.

The rest of the solvers is modelled by its contract:
* `check_collision` followed by `compute_time` returns the first touching
  instant of the window, or none (`FirstHits`, `IsFirstTouch`);
* the broadphase box test is sound, so it only rules out a pair with a void
  box;
* `check_overlap` is the static touch test at one instant. Dereferencing an
  absent footprint is the outcome `"crash"`;
* `DistanceDifferential` is the sign of `dist[t+1] - dist[t]`. Its approach
  times are the interior instants where the distance stops growing and starts
  shrinking.

The control is kept whole:
* every early return, with the order in which it is tested;
* the iterator arithmetic, with the slicing and its synthetic first waypoint;
* the order of the two narrowphase tests in a window;
* the lock-step advance, including ties;
* the clear of the output vector on entry to `detect_invasion`, on every
  path into it, and the absence of a clear anywhere else in `between`;
* every hand-over between the two modes.

`between` never clears `output_conflicts` itself, so the vector the caller
passes is part of the input. In collect mode `Init` lets it be empty or hold
one time of an earlier call (`Reused`).

### State and actions

The state of the model:
* The inputs are `trajA`, `trajB`, `profA`, `profB` and `dist`.
* `phase` is the function being executed.
* `ta`, `tb`, `ia` and `ib` are the trajectories being iterated, which become
  sliced copies after a hand-over, and 1-based iterators into them. `ia = k`
  is `begin()+k-1`, so the spline in use is `ta[ia-1]..ta[ia]`.
* `pending` holds the approach times not yet visited.
* `conflicts` is the output vector, and `result` is the return value.
* Three ghost variables record the span inspected so far: `reach`, `invSeen`
  and `appSeen`. A fourth, `reused`, counts the leading entries of the vector
  that were there before the call. It drops to 0 when `detect_invasion`
  clears the vector.

The actions:
* `RejectTrajectory`, `EarlyReturn` and `BeginDetection` model `between`.
* `InvasionHit`, `InvasionAdvance` and `InvasionExit` model one iteration and
  the tail of `detect_invasion`.
* `ApproachReturn`, `ApproachBegin`, `ApproachTime`, `ApproachEnd` and
  `ApproachExit` model `detect_approach`:
  * the head of an iteration;
  * one step per approach time, including the slice and hand-over;
  * `still_close` with the advance and the hand-over;
  * the tail.
* `Terminated` is the stutter step after the call has returned, thrown or
  crashed.

Each action includes every state change of the code it models.
`PROJECT.json` "map" gives the source lines of each definition.

### `DetectRegion`

`DetectRegion` models `internal::detect_conflicts` (lines 974-1088) with the
same geometry abstraction. The vicinity is a circle or `NoShape`, each of the
`NPieces` convex pieces of the region's shape is a circle, and `rdist[k][t]` is
the distance from the vehicle to piece k at instant t. The region's lower and
upper time bounds are instants or `NoBound`. `Collect` is the presence of the
output vector, and `NDEBUG` is the build: the size check of the trajectory is
compiled out in a release build.

The actions:
* `DebugThrow`: a trajectory of fewer than two waypoints in a debug build.
* `NoVicinity` and `NoTimeOverlap`: the two early returns (995-1016).
* `BeginLoop`: the begin and end iterators (1018-1024), and the clear of the
  output vector (1036), which comes after the early returns.
* `CollideMiss`, `CollideReturn` and `CollideRecord`: one test of a spline
  window against one convex piece, with its first-hit return or its emplace.
* `NextSpline`: the next spline, and `LoopExit`: the result.

The iterator search is modelled by what it does. `Find(t)` is the first
waypoint at or after t, as `find` returns it, and the spline windows are
clipped to the region's window as in lines 1043-1046. `Init` lets a reused
output vector hold a stale conflict.

### The refinement of `between`

`ConflictQuery` states what `between` promises, with the input reduced to
three facts: whether both trajectories are valid, the common time span, and
the set of instants at which the vehicles are close. A query either fails,
exactly when the input is invalid, or answers once with none or a time of the
span at which the vehicles are close. Its answer never changes.

`DetectConflictRefinement` maps the detailed state to it:
* `valid` is `ValidInput`, `span` is `T0..T1`, and `close` is the set of close
  instants;
* `status` is the phase once the call has ended, and `"busy"` before;
* `answer` is the result once it is `"done"`.

The mapping holds only for well-formed profiles: a vicinity must come with a
footprint. Without one, `between` dereferences a null pointer (finding 3).
`RefSpec` therefore starts from `RefInit == Init /\ WellFormed(profA) /\
WellFormed(profB)`.

### The reservation scheduler

The implementation of `rmf_traffic::reservations` is not part of the
repository, so `Reservations` is written from specification section 4.6, and
every definition of it is marked `spec_modelled` in the map. The unit test
fixes the API and the scenarios the model must allow.

The state:
* `table` maps the id of each live reservation to its resource, its start
  and its end. The end is `start + duration`, or `Forever` without a
  duration.
* `nextId` is the next id.
* `call` and `reply` are the arguments and the outcome of the last call. The
  arguments are state so that the refinement can relate each outcome to the
  request that produced it.

The admission of `[s, e)` on resource r follows the design of the
specification: the reservations on r are ordered by start, and only two
queries are made. The predecessor is the reservation with the greatest start
at or before s, and it must end by s. The successor is the reservation with
the least start after s, and it must start at or after e (`Fits`).

The actions:
* `ReserveAccepted` takes the first resource of the list that admits the
  request, under id `nextId`. `MaxReservations` bounds the ids.
* `ReserveRejected` returns none when no resource of the list admits the
  request.
* `Cancel` removes a live reservation.
* `CancelUnknown` is the `UnknownReservation` exception.

`ReservationLedger` is the contract. A hold is a resource and a set of
instants. A grant goes to the first resource of the preference list on which
every requested instant is free, under an id above every id issued before. A
refusal happens only when every listed resource is taken. A cancel removes
exactly the named hold. `ReservationsRefinement` maps an interval to
`Cover(start, end)`, its instants up to `Horizon == MaxTime + MaxDur`. Every
finite end is at most `Horizon`, and only an indefinite reservation covers
`Horizon` itself, so two intervals overlap exactly when their covers meet. The
ids issued so far are `0..nextId-1`.

## Properties and runs

The properties:
* `TypeOK` types every variable. It also requires that, while a loop runs, the
  iterators stay in `2..Len+1`, and that approach times are visited only while
  both iterators point at a spline.
* `Coverage`: the windows tile the common time span. Each window starts where
  the inspected span ends and lies inside `T0..T1`. A loop runs out of splines
  only once the whole span `T1` is reached, including across a slice.
* `ReportedAreConflicts`: every time the call emplaces lies in the common span
  and is an instant at which the vehicles are close. So is the returned time,
  unless `reused > 0`, i.e. the call returns the front of a vector it was given
  non-empty and never cleared. In collect mode, with a reused vector, this
  rests on the clear on every entry to `detect_invasion`.
* `BetweenAllResult` (violation run): in collect mode the returned time is a
  conflict of the call, as section 6 of the specification says.
* `NoMissedConflict`: when `between` returns (or collect mode returns none), no
  instant inspected in invasion mode had the vehicles close. Also, no instant
  inspected in approach mode had them close and approaching.
* `Termination`: the call always returns, throws or crashes.
* `EarliestConflict`: the returned time is the earliest close instant, given
  that the start is not close.
* `NoCrash`: no null dereference happens.
* `ConflictQuerySpec` (in `DetectConflictRefinement`): `between` implements
  `ConflictQuery`, including its weak fairness.

The properties of `DetectRegion`:
* `TypeOK` also bounds the iterators to `2..endIt` and `endIt` to `Len+1`.
* `RegionSound`: a true result has a meeting instant in the window. Every
  conflict in the output vector is real: it lies in its spline, in the window,
  and the vicinity meets the region then.
* `RegionComplete`: unless the window is the trajectory's first instant
  alone, every instant of the window at which the vicinity meets the region
  makes the result true. In collect mode it is also covered by an emplaced
  conflict of the same spline, at or before that instant.
* `RegionWindowTested` (violation run): the result is true exactly when the
  vicinity meets the region in the window.
* `ResultMatchesOutput` (violation run): in collect mode the result is true
  exactly when the output vector is not empty.

The properties of the reservation scheduler:
* `TypeOK` also says that every live id is below `nextId` and every interval
  is non-empty.
* `NoOverlap`: no two live reservations on one resource overlap. The
  admission test looks only at two neighbours, so this depends on the whole
  history of reserve and cancel calls.
* `LedgerSpec`: the scheduler implements `ReservationLedger`.

The runs:

| Run | cfg | Expect | Shows |
|---|---|---|---|
| `between` | `between.cfg` | pass | First-conflict mode over instants 0..3, with up to 3 waypoints, radii {1,2} and distances {1,3}, so that approach times fall strictly inside a window and the slice hand-over is exercised. Every profile combination is covered: footprint only, vicinity only, both, neither. Checks Coverage, ReportedAreConflicts, NoMissedConflict and Termination. |
| `between_all` | `between_all.cfg` | pass | Collect mode over instants 0..2 with distances {1,3,5}, and a vector that is empty or reused with one earlier time. Checks TypeOK, Coverage, ReportedAreConflicts and Termination. |
| `between_all_stale` | `between_all_stale.cfg` | violation | BetweenAllResult fails (finding 6). |
| `between_all_missed` | `between_all_missed.cfg` | violation | NoMissedConflict fails in collect mode. |
| `between_earliest` | `between_earliest.cfg` | violation | EarliestConflict fails in first-conflict mode. |
| `between_crash` | `between_crash.cfg` | violation | NoCrash fails. |
| `refinement` | `refinement.cfg` | pass | `between` in first-conflict mode implements `ConflictQuery`: instants 0..2, up to 3 waypoints, radii {1,2}, distances {1,3,5}. |
| `region` | `region.cfg` | pass | `detect_conflicts` without an output vector, in a debug build: instants 0..2, up to 3 waypoints, 2 convex pieces, every lower and upper bound. Checks TypeOK, RegionSound and RegionComplete. |
| `region_all` | `region_all.cfg` | pass | With a reused output vector, in a release build, so that one-waypoint trajectories reach the loop. Checks RegionSound and RegionComplete. |
| `region_start` | `region_start.cfg` | violation | RegionWindowTested fails (finding 4). |
| `region_stale` | `region_stale.cfg` | violation | ResultMatchesOutput fails (finding 5). |
| `reservations` | `reservations.cfg` | pass | Every sequence of calls on two waypoints, with the four preference lists of the test, starts 0..2, durations 1..2 or none, and up to 3 ids. Checks TypeOK, NoOverlap and LedgerSpec. |

**Why the bounds are enough.** Three waypoints give two splines per trajectory.
That produces:
* unequal start times, so that `find` is used;
* ties and non-ties in the advance;
* a window after a hand-over.

Four instants, in `between`, leave room for an interior approach time,
followed by further windows. At distance 3 the vehicles are close for radii
summing to 3 or more and apart for radii 1 and 1, and distance 1 is close for
all, so both outcomes of every test occur. The input sets hold every function
from instants to distances. `between_all` uses three instants and distances
{1,3,5} instead, so that the reused vector, which multiplies the initial
states, stays within the time limit. The runs reach about 1.5 and 3.0 million
distinct states, and every action and every disjunct fires.

For `detect_conflicts`, three waypoints over instants 0..2 give a window that
starts inside the trajectory, one that ends inside it, and the degenerate
window of finding 4. Two pieces exercise the inner loop, and the distances
{1,3} lie on both sides of the radius sum. For the scheduler, starts 0..2 and
durations 1..2 produce:
* touching intervals in both directions;
* a request that starts at the same instant as an existing reservation;
* a successor that starts inside a request;
* indefinite holds before and after finite ones.

Three ids allow a cancel followed by a new grant, and two waypoints make the
preference order matter, as in the test's "allocates waypoints in order". The
runs reach between 33 thousand and 507 thousand distinct states.
The refinement is checked in first-conflict mode only.

**Fairness.** `between` is a synchronous call that runs to completion on one
thread, so weak fairness of `Next` is justified. `Terminated` makes the end of
the call a stutter step rather than a deadlock. The same holds for
`detect_conflicts`. The scheduler has no fairness: its steps are calls by its
clients, and nothing obliges a client to call. No liveness is claimed of it,
and the always-enabled `CancelUnknown` keeps it free of deadlock.

**Mutants.** Each property of a passing run fails when a mapped definition is
replaced by a plausible bug (`PROJECT.json` "mutants"):
* the advance with its comparison swapped (`AdvanceSwapped`);
* the advance without the tie case (`AdvanceNoTie`);
* the slice without its lead waypoint (`SliceNoLead`);
* `still_close` ignored (`ApproachEndNoRevert`);
* a conflict emplaced without a hit (`FirstHitsUnguarded`);
* approach times found one instant late (`ApproachTimesLate`);
* the size check required of only one trajectory (`ValidInputEither`);
* the end iterator without its increment, or incremented twice
  (`EndItNoIncrement`, `EndItOverrun`);
* a spline window not clipped to the region's window (`SplineStartUnclipped`);
* a duration counted as an inclusive end (`EndInclusive`);
* a reservation starting exactly at the request left out of the predecessor
  query (`BelowStrict`);
* touching endpoints counted as an overlap (`EndsByStrict`).

## Findings

1. **Collect mode loses conflicts.** `detect_invasion` clears
   `output_conflicts` on entry (lines 684-685). `detect_approach` calls it at
   lines 842 and 881, after it may already have recorded conflicts in approach
   mode. TLC finds the following input:
   * a conflict is recorded at the start;
   * the vehicles separate by the end of the window;
   * invasion mode clears the vector;
   * `between_all` returns none, while `between` returns a conflict for the
     same input.
2. **Not the earliest time.** In first-conflict mode the footprint_a/vicinity_b
   hit is returned (711-718) before the complement is tested (727-737). A later
   time can therefore be returned when vicinity_a/footprint_b touches earlier
   in the same window.
3. **Null dereference.** A profile with a vicinity and no footprint passes both
   early returns (927, 935). `close_start` then reaches `check_overlap`, which
   dereferences the null footprint (624 or 629).

4. **A region window of one instant is not tested.** When the region's upper
   bound equals the trajectory's start time, the window is that single
   instant. `begin_it` is `++begin()` (line 1020), and `end_it` is
   `++find(finish_time)`, which is `++begin()` as well (line 1024). The loop
   therefore tests no spline, and `detect_conflicts` returns false even when
   the vicinity meets the region at that instant. The specification
   (section 4.5) says the trajectory is tested inside the region's window.
5. **A reused output vector keeps stale conflicts.** `detect_conflicts`
   clears `output_conflicts` only after its early returns (lines 997 and 1015,
   clear at 1036). On those paths an earlier call's conflicts stay in the
   vector while the call returns false. On the loop path the result is
   `!output_conflicts->empty()`. The specification does not say what the list
   holds on a none result.
6. **`between_all` can return an earlier call's time.** `between` never
   clears `output_conflicts` (lines 900-970); only `detect_invasion` does, on
   entry (684-685). TLC finds the following input:
   * the caller passes a vector holding time 2;
   * the common span is 0..1, and the vehicles start close, so the call goes
     to `detect_approach`;
   * they stay close without approaching, so nothing is emplaced;
   * line 894 returns `output_conflicts->front().time`, which is 2.

   The early returns at 927, 935 and 940 leave the vector untouched as well.
   Section 6 of the specification says `out_list` is cleared, then populated,
   and that the earliest detected time or none is returned.

## Proofs

`DetectConflictProofs` proves `THEOREM TypeCorrect == Spec => []TypeOK` for
every value of the constants. It relies on the named assumptions of
`DetectConflict` on `MaxTime`, `MaxLen`, `DistVals`, `Radii` and `Collect`.

`TypeOK` alone is not inductive: in phase `"start"` nothing ties `ta` and `tb`
to the inputs. The proof therefore uses `IInv == TypeOK /\ StartInv`, where
`StartInv` says that `ta = trajA` and `tb = trajB` before the iterators are
aligned. Then:
* `InitIInv` proves `Init => IInv`.
* `NextIInv` proves `IInv /\ [Next]_vars => IInv'`, with one case per action.
  Its steps rest on these lemmas:
  * `InitialIteratorsType`: `find` never returns `begin()` when the other
    trajectory starts later;
  * `WindowType`;
  * `AdvanceType`: the advance keeps the iterators within one past the end;
  * `SliceType`: a sliced trajectory keeps at least two waypoints;
  * `FirstHitsType`, `CheckOverlapType` and `FrontOrNoneType`.
* The theorem follows by PTL.

`THEOREM CoverageHolds == Spec => []Coverage` is proved the same way from
`CovInv == IInv /\ Increasing(trajA) /\ Increasing(trajB) /\ RunCov /\ PendingCov`.
`Coverage` is not inductive by itself, for three reasons:
* A window's successor is only aligned if the waypoints increase.
* "`T1` is reached when a loop runs out" needs the iterated trajectories to
  end where the inputs end. That has to survive slicing.
* The slice at an approach time `t` is only aligned if `t` lies strictly
  inside the current window.

`RunCov` carries the first two facts while a loop runs, and `PendingCov` the
third. The lemmas are:
* `AdvanceCoverage`: the next window starts where the current one finishes,
  or the current one finished at the earlier end;
* `BeginCoverage`: the first window starts at `T0`;
* `SliceCoverage`: a slice is increasing, starts at `t`, continues with the
  current waypoint and keeps the last waypoint;
* `LastIsLatest`, `SpanType` and `TrajectoryIncreasing`.

`InitCov` and `NextCov` are the two induction steps, and `CovInvCoverage`
gives `Coverage`. TLC checked `CovInv` as an invariant on instants 0..3, in
both modes, before it was proved.

`DetectConflictSoundness` proves `THEOREM ReportedAreConflictsHolds == Spec
=> []ReportedAreConflicts` from
`SoundInv == CovInv /\ AllAfter(conflicts, reused, Good) /\ ResultGood /\ ApproachClose`:
* `Good` is the set of close instants of the common span;
* every entry after the first `reused` is in `Good`, and so is a returned
  time when `reused = 0`;
* `ApproachClose` says that in approach mode the current window's start is in
  `Good`.

`ApproachClose` is what makes the invariant inductive. `ApproachReturn`
returns the window start when the vehicles are approaching there. That is a
real conflict only because approach mode is entered, and kept after
`still_close`, when the vehicles are close at that instant. The cases of
`NextSound` rest on two lemmas:
* `FirstHitsIn`: a contact time lies in its window;
* `WindowGood`: a window lies in the span;
* `AllAfterAppend`, `AllAfterConcat` and `AllAfterHead`: appending good
  times keeps `AllAfter`, and with nothing reused the front is good.

Every step into invasion mode clears the vector and sets `reused` to 0. That
is where the reused vector stops mattering: a collect-mode call that never
enters `detect_invasion` may return the reused front, and the theorem says
nothing of that time (finding 6).

`DetectConflictRefinementProofs` proves `THEOREM RefinementSafety == ASSUME
~Collect PROVE RefSpec => Abs!Init /\ [][Abs!Next]_Abs!vars`, the safety part
of `ConflictQuerySpec` for `between` without an output vector, the mode of the
`refinement` run. With a reused vector the answer can be a time that is no
conflict (finding 6). Its invariant is `RefInv == SoundInv /\ FootprintsInv /\
FreshInv`, where `FreshInv` says `reused = 0`.
`FootprintsInv` says:
* the profiles stay well-formed;
* the footprints are present once the early returns are passed, so nothing
  crashes;
* `ValidInput` holds exactly on the paths that get past the size check.

`StepRefines` shows that each step maps to `Reject`, `Answer` or a stutter.

`ReservationsProofs` proves three theorems about the scheduler for every value
of its constants. It uses the assumptions of `Reservations` on `MaxTime`,
`MaxDur`, `MaxReservations`, `Forever` and `Requests`.
* `THEOREM ReservationsTypeCorrect == Spec => []TypeOK` and
  `THEOREM NoOverlapHolds == Spec => []NoOverlap`. The invariant is `Inv ==
  TypeOK /\ NoOverlap`, which is inductive as it stands; both theorems
  follow from it. The proof rests on
  `FitsApart`: if the intervals on a resource are pairwise apart, a request
  that passes the two neighbour queries is apart from each of them.
  * An interval that starts at or before s and reaches past s is itself the
    predecessor, since every other such interval ends before it starts.
  * An interval that starts after s and before e starts no earlier than the
    successor, and the successor exists because a non-empty set of naturals
    has a least element (`NatMin`, from `WFMin` and `NatLessThanWellFounded`).
* `THEOREM LedgerRefinement == Spec => LedgerSpec`. This is the whole
  ledger specification, which has no fairness. It rests on three lemmas:
  * `CoverApart`: two intervals have disjoint covers exactly when they are
    apart;
  * `ApartFits`: the converse of `FitsApart`;
  * `FreeFits`: under `Inv`, `Fits` agrees with the ledger's `Free`.

  `AcceptedGrant` and `StepLedger` map each step to `Grant`, `Refuse`,
  `Release`, `Unknown` or a stutter.

`DetectRegionProofs` proves three theorems about `detect_conflicts` against a
region, for every trajectory, vicinity, region, number of pieces, build
(`NDEBUG`) and output mode (`Collect`). It uses the seven assumptions of
`DetectRegion`.
* `THEOREM RegionTypeCorrect == Spec => []TypeOK`. In the loop, `it` runs
  from `begin_it` to `end_it` and `end_it <= Len(traj) + 1`.
* `THEOREM RegionSoundHolds == Spec => []RegionSound`.

The inductive invariant is `RInv == TypeOK /\ RegionSound`. `RegionSound`
alone is not inductive: a conflict emplaced at `it` lies in
`2..Len(traj)` only because `TypeOK` bounds the iterator. The proof has one
lemma per group of actions. It rests on four facts about the iterators:
* `FindSpec`: `find(t)` returns the first waypoint at or after `t`. It
  exists by `RegionNatMin`, a least element of a set of naturals.
* `WindowBounds`: the window lies inside the trajectory's span.
* `BeginEnd`: for a non-empty window, `2 <= begin_it <= end_it <=
  Len(traj) + 1`, because `find` is monotone. This covers a one-waypoint
  trajectory in a release build, where the loop is empty.
* `SplineWindow`: the clipped window of a spline lies in the region's window
  and in the spline's own span.

A contact found by `CollideReturn` or `CollideRecord` therefore lies in the
window. At `LoopExit`, the first emplaced conflict is the witness of a true
result.

`THEOREM RegionCompleteHolds == Spec => []RegionComplete` is proved from
`CInv == RInv /\ LoopCovered /\ RegionComplete`. `RegionComplete` speaks of
the final state only, so it cannot be proved step by step without saying
what the loop has done so far. `LoopCovered` says this. In the loop, the
window is non-empty, `endIt = EndIt`, `begin_it <= it`, and every pair of a
spline and a piece already scanned is `Covered`: every contact of the piece
in the spline's clipped window was reported by a conflict of that spline no
later than the contact. Without an output vector, "covered" means there was
no contact at all, since a contact would have returned true at once.
* `CollideMiss` covers the current pair through `NoTouchP`.
* `CollideRecord` covers it with the new conflict, because its time is the
  first contact of the window (`IsFirstTouchP`).
* `Append` keeps earlier conflicts, so covered pairs stay covered
  (`CoveredStable`).

At `LoopExit`, `it = end_it`. `WindowCovered` shows that every instant of a
window that is not degenerate lies in the clipped window of some spline of
`begin_it..end_it - 1`. This rests on `FindMono`: `find` is monotone. Hence
each contact instant has a covering conflict, and the result is true.

`DetectConflictCompleteness` proves one theorem about `between`:
* `THEOREM NoMissedConflictHolds == ASSUME ~Collect PROVE Spec =>
  []NoMissedConflict`. This is first-conflict mode, the mode of the `between`
  run. In collect mode the property is false
  (`between_all_missed`), so the hypothesis is what the code allows, not a
  convenience. The invariant is `NInv == IInv /\ (~Collect => SeenClean /\
  PendingInv)`:
  * `SeenClean` says that the ghost sets hold only instants that are no
    conflict. It holds at every step, not only at the end.
  * `PendingInv` says that while approach times are walked, `pending` is
    still all of `ApproachTimes` of the window, and the window did not start
    approaching. Without an output vector, an approach time that is still
    close returns at once.

  `InvasionAdvance` adds a window only when both narrowphase tests miss. When
  the complement is skipped (`test_complement` false), both vicinities are
  the footprints, so the skipped test is the one that ran.
  `ApproachTime` (on a handover) and `ApproachEnd` add the instants before
  the earliest approach time, or before the window finish. There, the
  distance never shrinks. This is `NoApproachBefore`, proved by taking the
  least counterexample (`LeastInstant`): the instant before it does not
  shrink, so it would itself be an approach time, earlier than the earliest.

Each invariant was checked by TLC as an invariant of a run before it was
proved. This includes `CInv` on the `region` and `region_all` bounds, and
`NInv` on instants 0..2 and 0..3.

The following are checked by TLC only:
* Liveness: `Termination`, and the fairness part of `ConflictQuerySpec`. It is
  outside the prover's reach.
* `NoMissedConflict` in collect mode is not proved because it is false there.
  That is the `between_all_missed` finding.

## Not modelled

* **Geometry.** The floating-point geometry is abstracted as described above:
  fcl, the splines, and the disabled `#if 0` sweep test with
  `circle_ray_intersection`. Under it lies the broadphase:
  * `get_local_extrema` solves cubic derivatives with `sqrt` and
    `EPS`-thresholds;
  * `BoundingBox` uses `±infinity` and strict floating-point comparisons.

  These are real-valued computations, which TLC cannot enumerate. The
  models keep only their contract: the box test is sound.
* **`compute_time` truncation** (line 572) converts a solver fraction of a
  spline's duration into a time point. At the resolution of integer instants
  it is the identity, so its rounding is not represented.
* **`agv::State`** (`src/rmf_tasks/src/agv/State.cpp`) is a record
  of five fields with getters and setters. It has no control to check.
* **`Shape.hpp`** declares the shape interface only. Note that
  `FinalShapePtr` is an alias of `std::shared_ptr<Shape>`, not of
  `FinalShape`.
* **The reservation scheduler** is modelled from the specification because
  its implementation is absent. What is checked is the design the
  specification prescribes, not code.

## Plan

1. Compose two copies of `between`, for (A,B) and (B,A), to check the symmetry
   that the specification claims.
2. Prove the refinement `DetectRegion` would have against an abstract
   region query, once one is written.
