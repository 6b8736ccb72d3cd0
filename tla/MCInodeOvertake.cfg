SPECIFICATION Spec
CONSTANTS
  p1 = p1
  p2 = p2
  Procs = {p1, p2}
  NoProc = NoProc
  ninodes = 4
  NINODE = 3
  Names = {"a", "b"}
  Paths <- MCPaths
  Calls <- MCCalls
  Overtake = TRUE
INVARIANTS
  CacheCoherent
