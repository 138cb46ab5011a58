SPECIFICATION FairSpec
CONSTANTS
  OutCap = 1
  ResizeCap = 1
  MaxIn = 1
  MaxWinch = 1
  MaxOut = 1
INVARIANTS
  TerminalLeftClean
  OutcomeKept
PROPERTIES
  NoOutputAfterReset
  SessionEnds
CHECK_DEADLOCK FALSE
