CONSTANTS
  w0 = w0
  w1 = w1
  Resources = {w0, w1}
  Requests <- MCRequests
  MaxTime = 2
  MaxDur = 2
  MaxReservations = 3
  Forever = Forever
  NoDuration = NoDuration
SPECIFICATION Spec
INVARIANTS TypeOK NoOverlap
PROPERTIES LedgerSpec
