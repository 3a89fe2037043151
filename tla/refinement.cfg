\* between, first-conflict mode, on well-formed profiles, against the
\* abstract query ConflictQuery.
CONSTANTS
  MaxTime = 2
  MaxLen = 3
  DistVals = {1, 3, 5}
  Radii = {1, 2}
  NoShape = NoShape
  Collect = FALSE
SPECIFICATION RefSpec
PROPERTIES ConflictQuerySpec
