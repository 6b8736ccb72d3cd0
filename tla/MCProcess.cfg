SPECIFICATION Spec
CONSTANTS
  NPROC = 4
  NCPU = 2
  PgDirs = {1, 2, 3}
  Gap = 2
  Uses = {"fork", "exec", "kill", "thread_create"}
  MaxPid = 4
  MaxTid = 2
  MaxExec = 1
CHECK_DEADLOCK FALSE
INVARIANTS
  TypeOK
  
  
  ParentAlive
  KilledOnPurpose
