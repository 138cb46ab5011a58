SPECIFICATION FairSpec
CONSTANTS
  Waiters = {t1, t2, d1}
  Terminals = {t1, t2}
  Buckets = {"attach", "input"}
  Rate <- MCRate
  Burst <- MCBurst
  InputUnits = 3
  MaxTime = 2
  OtherUsers = TRUE
INVARIANTS
  RateKept
PROPERTIES
  ShutdownCompletes
CHECK_DEADLOCK FALSE
