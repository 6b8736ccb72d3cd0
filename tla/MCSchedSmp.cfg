SPECIFICATION FairSpec
CONSTANTS
  NPROC = 5
  NumProcs = 3
  Cpus = {c1, c2}
  NoCpu = NoCpu
  NMLFQ = 2
  DefaultTicks = 2
  StrideQuantum = 1
  BoostTicks = 3
  SelectorMod = 4
  ShareUnit = 1
  NSTRIDE = 6
  MIN_CPU_SHARE = 1
  MAX_CPU_SHARE = 2
  Required = {}
  InitialShare <- NoShares
  Sleepers = {1}
  Exiters = {}
  MaxCount = 0
PROPERTIES
  NoStarvation
