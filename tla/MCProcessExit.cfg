SPECIFICATION Spec
CONSTANTS
  NPROC = 4
  NCPU = 1
  PgDirs = {1, 2, 3}
  Gap = 2
  Uses = {"fork", "device", "thread_create", "exit_threaded", "exit_in_thread", "wait_in_thread", "stack_fails"}
  MaxPid = 4
  MaxTid = 2
  MaxExec = 1
CHECK_DEADLOCK FALSE
INVARIANTS
  ExitSeen
  
PROPERTIES
  ThreadExitEndsProcess
  
