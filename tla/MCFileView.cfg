SPECIFICATION ViewSpec
CONSTANTS
  Readers = {r1, r2}
  Writers = {w1}
  SigOf <- MCSigs
  None = None
  MaxVer = 3
  MaxNotes = 1
  EventCap = 1
INVARIANTS
  NotOlderThanInfo
  SettledCacheIsFresh
SYMMETRY MCSymmetry
CHECK_DEADLOCK FALSE
