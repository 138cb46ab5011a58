SPECIFICATION FairSpec
CONSTANTS
  Attaches = {a1}
  Other = Other
  None = None
  OutCap = 1
  ClientCap = 1
  TtyIn = 1
  TtyOut = 1
  MaxOut = 2
  MaxIn = 2
  ClientFrames = {"stdin", "resize", "detach", "bad"}
  IOFaults = TRUE
INVARIANTS
  SlotHasOwner
  OneAgentPerUser
  ExitAfterOutput
PROPERTIES
  PeerEOFReleasesSlot
CHECK_DEADLOCK FALSE
