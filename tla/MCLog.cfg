SPECIFICATION FairSpec
CONSTANTS
  Procs = {p1, p2}
  Blocks = {b1, b2}
  Values = {v0, v1}
  InitValue = v0
  AfterLog = b1
  MAXOPBLOCKS = 2
  OpBlocks = 2
  LOGSIZE = 6
  nlog = 6
INVARIANTS
  TypeOK
  QuiescentCommit
  LoggedOnce
PROPERTIES
  ImplementsAtomicStore
  
