SPECIFICATION FairSpec
CONSTANTS
  Procs = {p1, p2}
  Cpus = {c1, c2}
  NoProc = NoProc
  NoCpu = NoCpu
INVARIANTS
  TypeOK
  MutualExclusion
  NoLostWakeup
  NoPanic
  InterruptDiscipline
  
PROPERTIES
  ImplementsMutex
  SleeperRuns
