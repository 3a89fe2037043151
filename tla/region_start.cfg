\* Section 4.5: a conflict is reported exactly when the vicinity meets the region inside the time window.
CONSTANTS
  MaxTime = 2
  MaxLen = 3
  DistVals = {1, 3}
  Radii = {1}
  NoShape = NoShape
  NPieces = 2
  NoBound = NoBound
  Collect = FALSE
  NDEBUG = FALSE
SPECIFICATION Spec
INVARIANTS RegionWindowTested
