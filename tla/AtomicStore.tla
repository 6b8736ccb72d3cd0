---------------------------- MODULE AtomicStore ----------------------------
(***************************************************************************)
(* What the log promises the file system: the blocks a reader would find   *)
(* after a crash change only all at once, to the blocks in memory, at a    *)
(* moment when no file system call is half done.                           *)
(***************************************************************************)
CONSTANTS Procs, Blocks, Values, InitValue

VARIABLES
  mem,      \* the blocks as the running system sees them
  store,    \* the blocks a crash would leave behind
  active    \* the processes inside begin_op ... end_op

vars == <<mem, store, active>>

Init ==
  /\ mem = [b \in Blocks |-> InitValue]
  /\ store = mem
  /\ active = {}

Begin(p) ==
  /\ p \notin active
  /\ active' = active \cup {p}
  /\ UNCHANGED <<mem, store>>

Write(p, b, v) ==
  /\ p \in active
  /\ mem' = [mem EXCEPT ![b] = v]
  /\ UNCHANGED <<store, active>>

End(p) ==
  /\ p \in active
  /\ active' = active \ {p}
  /\ UNCHANGED <<mem, store>>

Commit ==
  /\ active = {}
  /\ store' = mem
  /\ UNCHANGED <<mem, active>>

Crash ==
  /\ mem' = store
  /\ active' = {}
  /\ UNCHANGED store

Next ==
  \/ \E p \in Procs : Begin(p) \/ End(p)
  \/ \E p \in Procs, b \in Blocks, v \in Values : Write(p, b, v)
  \/ Commit
  \/ Crash

Spec == Init /\ [][Next]_vars
=============================================================================
