\* between_all with an output vector: does a none result mean no conflict?
CONSTANTS
  MaxTime = 2
  MaxLen = 3
  DistVals = {1, 3, 5}
  Radii = {1, 2}
  NoShape = NoShape
  Collect = TRUE
SPECIFICATION Spec
INVARIANTS NoMissedConflict
