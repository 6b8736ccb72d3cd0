SPECIFICATION FairSpec
CONSTANTS
  NPROC = 2
  PIPESIZE = 2
  UintSize = 4
  Bytes = {"a", "b"}
  Buffers <- MCBuffers
  Reads = {1, 2}
  NOFILE = 2
  MaxKills = 1
CHECK_DEADLOCK FALSE
INVARIANTS
  TypeOK
  NoUseAfterFree
  NoLostWakeup
PROPERTIES
  ImplementsStream
  HangUpSeen
