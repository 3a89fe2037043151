\* between_all_stale: between_all given a vector that already holds a time,
\* over instants 0..2 with up to three waypoints and distances {1,3,5}.
CONSTANTS
  MaxTime = 2
  MaxLen = 3
  DistVals = {1, 3, 5}
  Radii = {1, 2}
  NoShape = NoShape
  Collect = TRUE
SPECIFICATION Spec
INVARIANTS BetweenAllResult
