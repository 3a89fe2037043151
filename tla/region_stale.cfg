\* The result of detect_conflicts and the contents of a reused output vector.
CONSTANTS
  MaxTime = 2
  MaxLen = 3
  DistVals = {1, 3}
  Radii = {1}
  NoShape = NoShape
  NPieces = 2
  NoBound = NoBound
  Collect = TRUE
  NDEBUG = FALSE
SPECIFICATION Spec
INVARIANTS ResultMatchesOutput
