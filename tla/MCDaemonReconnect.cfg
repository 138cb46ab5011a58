SPECIFICATION DaemonSpec
CONSTANTS
  SendCap = 1
  EventCap = 1
  MaxLevel = 2
INVARIANT
  RunBlocksUntilCancelled
CHECK_DEADLOCK FALSE
