------------------------------- MODULE Mutex -------------------------------
(***************************************************************************)
(* What a sleep lock promises its callers: at most one process owns it,    *)
(* a process becomes owner only when nobody is, and only the owner gives   *)
(* it up.  SleepLock implements this.                                      *)
(***************************************************************************)
CONSTANTS
  Procs,    \* the processes
  NoProc    \* the lock is free

VARIABLE owner

Init == owner = NoProc

Acquire(p) ==
  /\ owner = NoProc
  /\ owner' = p

Release(p) ==
  /\ owner = p
  /\ owner' = NoProc

Next == \E p \in Procs : Acquire(p) \/ Release(p)

Spec == Init /\ [][Next]_owner
=============================================================================
