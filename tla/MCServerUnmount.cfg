SPECIFICATION Spec
CONSTANTS
  Waiters = {t1, d1}
  Terminals = {t1}
  Buckets = {"attach", "input"}
  Rate <- MCRate
  Burst <- MCBurst
  InputUnits = 3
  MaxTime = 2
  OtherUsers = FALSE
INVARIANTS
  UnmountedAtExit
CHECK_DEADLOCK FALSE
