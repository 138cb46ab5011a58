SPECIFICATION FairSpec
CONSTANTS
  Components = {"daemon", "pty"}
  MaxRetries = 3
  FailCap = 1
  RetryCap = 1
  EventCap = 1
INVARIANTS
  AbortsAtDeadEnd
  OneRetryPerFailure
  NoSendAfterClose
  TruthfulExit
PROPERTIES
  NotStranded
  RunEnds
CHECK_DEADLOCK FALSE
