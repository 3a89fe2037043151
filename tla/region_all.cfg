\* detect_conflicts with a reused output vector, release build (one-waypoint trajectories reach the loop).
CONSTANTS
  MaxTime = 2
  MaxLen = 3
  DistVals = {1, 3}
  Radii = {1}
  NoShape = NoShape
  NPieces = 2
  NoBound = NoBound
  Collect = TRUE
  NDEBUG = TRUE
SPECIFICATION Spec
INVARIANTS RegionSound RegionComplete
