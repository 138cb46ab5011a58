SPECIFICATION ConnectSpec
CONSTANTS
  u1 = u1
  u2 = u2
  c1 = c1
  c2 = c2
  c3 = c3
  c4 = c4
  Users = {u1, u2}
  Conns = {c1, c2, c3, c4}
  UserOf <- MCUserOf
  None = None
  Readers = {r1}
  TTLs = {0, 1}
  MaxTime = 2
  SendCap = 1
  EventCap = 1
  MaxLevel = 2
INVARIANTS
  NoOrphanSession
  NoDeadEntry
  StartupOutcome
PROPERTIES
  ImplementsSlots
  CancelReturns
  FailureWindsDown
  RetriesUntilEstablished
CHECK_DEADLOCK FALSE
