\* between_all: instants 0..2, up to three waypoints, distances {1,3,5}, with
\* an output_conflicts vector that is empty or reused with one earlier entry.
CONSTANTS
  MaxTime = 2
  MaxLen = 3
  DistVals = {1, 3, 5}
  Radii = {1, 2}
  NoShape = NoShape
  Collect = TRUE
SPECIFICATION Spec
INVARIANTS TypeOK Coverage ReportedAreConflicts
PROPERTIES Termination
