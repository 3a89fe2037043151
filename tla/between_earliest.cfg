\* between in first-conflict mode: is the returned time the earliest conflict?
CONSTANTS
  MaxTime = 2
  MaxLen = 3
  DistVals = {1, 3, 5}
  Radii = {1, 2}
  NoShape = NoShape
  Collect = FALSE
SPECIFICATION Spec
INVARIANTS EarliestConflict
