SPECIFICATION FairSpec
CONSTANTS
  Callers = {c1, c2}
  NoCaller = NoCaller
  SendBuffer = 1
  DaemonBuffer = 1
  WireBuffer = 1
  MaxChanges = 2
INVARIANTS
  OwnResponse
  ChannelDiscipline
  NoPendingLeak
PROPERTIES
  ReplacedIsFinal
  RequestReturns
CHECK_DEADLOCK FALSE
