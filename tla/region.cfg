\* detect_conflicts without an output vector, debug build: trajectories of up to three waypoints over instants 0..2, every region time window, two region pieces.
CONSTANTS
  MaxTime = 2
  MaxLen = 3
  DistVals = {1, 3}
  Radii = {1}
  NoShape = NoShape
  NPieces = 2
  NoBound = NoBound
  Collect = FALSE
  NDEBUG = FALSE
SPECIFICATION Spec
INVARIANTS TypeOK RegionSound RegionComplete
