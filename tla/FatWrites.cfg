\* Every filling of a four-slot root and of a markos directory, four calls.
CONSTANTS
  MaxCluster = 9
  SlotsPer = 4
  Names <- MCNames
  Short <- MCShort
  Lfn <- MCLfn
  Scrawl <- MCScrawl
  Paths <- MCPaths
  Sizes = {0, 1, 2}
  Bases <- AnyFill
  MaxCalls = 4
SPECIFICATION Spec
INVARIANTS
  KillSparesBystanders
  ClustersOwnedOnce
  SizeMatchesChain
  DiskAgrees
CHECK_DEADLOCK FALSE
