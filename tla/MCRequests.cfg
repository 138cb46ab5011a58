SPECIFICATION FairSpec
CONSTANTS
  Handlers = {h1, h2}
  SortedKeys <- MCKeys
  Entries = {1, 2, 3, 4}
  None = None
  QueueSize = 1
  Closers = {c1, c2}
  Matched <- MCMatched
  InitialDisk <- MCDisk
  Requested <- MCRequested
  MaxRequests = 2
  Edits <- MCEdits
  MaxEdits = 1
INVARIANTS
  LockDiscipline
  DrainedBeforeClose
PROPERTIES
  SensitiveKept
  EverythingReturns
CHECK_DEADLOCK FALSE
