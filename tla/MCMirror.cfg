SPECIFICATION Spec
CONSTANTS
  SortedPaths <- MCPaths
  InitialDisk <- MCDisk
  SizeOf <- MCSizes
  SigOf <- MCSizes
  Callers = {c1, c2}
  Fetchers = {f1, f2}
  Absent = Absent
  Dir = Dir
  None = None
  CacheMax = 2
  PrefetchMaxFile = 1
  PrefetchMaxPerDir = 1
  MaxVer = 4
  MaxCalls = 2
  MaxOps = 3
INVARIANTS
  TreeSound
  CacheSound
  PrefetchOnce
  DivergenceExplained
SYMMETRY MCSymmetry
CHECK_DEADLOCK FALSE
