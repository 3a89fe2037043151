\* between: two trajectories over instants 0..3 with up to three waypoints,
\* every profile built from radii 1 and 2, every distance from {1,3}: a pair
\* at distance 3 is close for radii summing to 3 or more and apart for radii
\* 1 and 1, so approach times fall strictly inside a window and the slice
\* hand-over is exercised.
CONSTANTS
  MaxTime = 3
  MaxLen = 3
  DistVals = {1, 3}
  Radii = {1, 2}
  NoShape = NoShape
  Collect = FALSE
SPECIFICATION Spec
INVARIANTS Coverage ReportedAreConflicts NoMissedConflict
PROPERTIES Termination
