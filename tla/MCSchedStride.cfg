SPECIFICATION Spec
CONSTANTS
  NPROC = 6
  NumProcs = 4
  Cpus = {c1}
  NoCpu = NoCpu
  NMLFQ = 2
  DefaultTicks = 2
  StrideQuantum = 1
  BoostTicks = 4
  SelectorMod = 8
  ShareUnit = 1
  NSTRIDE = 6
  MIN_CPU_SHARE = 1
  MAX_CPU_SHARE = 6
  Required = {}
  InitialShare <- MixedShares
  Sleepers = {}
  Exiters = {}
  MaxCount = 18
CHECK_DEADLOCK FALSE
INVARIANTS
  TypeOK
  
  PassGap
  ServiceMatchesCharge
