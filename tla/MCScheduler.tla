---------------------------- MODULE MCScheduler ----------------------------
(* Instances of Scheduler for TLC: the initial shares of the runs. *)
EXTENDS Scheduler

NoShares == [p \in 1..NumProcs |-> 0]
EqualShares == [p \in 1..NumProcs |-> 1]
\* Three processes in the stride queue, the fourth in the MLFQ.
MixedShares == [p \in 1..NumProcs |-> IF p <= 3 THEN p ELSE 0]
=============================================================================
