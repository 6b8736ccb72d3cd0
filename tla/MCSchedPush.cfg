SPECIFICATION Spec
CONSTANTS
  NPROC = 4
  NumProcs = 2
  Cpus = {c1}
  NoCpu = NoCpu
  NMLFQ = 2
  DefaultTicks = 2
  StrideQuantum = 1
  BoostTicks = 4
  SelectorMod = 4
  ShareUnit = 1
  NSTRIDE = 6
  MIN_CPU_SHARE = 1
  MAX_CPU_SHARE = 2
  Required = {1}
  InitialShare <- NoShares
  Sleepers = {}
  Exiters = {}
  MaxCount = 12
CHECK_DEADLOCK FALSE
INVARIANTS
  ShareMeansQueued
