----------------------------- MODULE StrideHeap -----------------------------
(***************************************************************************)
(* The stride queue of proc.c: a binary heap of processes in the array     *)
(* ptable.stride_queue[1..NPROC], ordered by stride_count.  The operators  *)
(* return the array a C function leaves behind.                            *)
(*                                                                         *)
(* A process is the number of its slot in ptable.proc, so that comparing   *)
(* two pointers is comparing two numbers, and NULL is 0.  q is the array,  *)
(* size is stride_queue_size, and cnt gives the stride_count of a process. *)
(***************************************************************************)
EXTENDS Naturals, FiniteSetsExt

CONSTANT NPROC    \* length of the array; at least one more than it ever holds

ASSUME NPROCAssumption == NPROC \in Nat \ {0, 1}

NULL == 0
Slots == 1..NPROC
EmptyQueue == [i \in Slots |-> NULL]

\* j is i or one of the indices i/2, i/4, ... of its ancestors.
IsAncestor(j, i) == \E k \in 0..NPROC : i \div 2^k = j

-----------------------------------------------------------------------------
\* stride_queue_heapify_up: the hole moves up while the entry is below its
\* parent's, comparing the pointers themselves.
HeapifyUp(q, idx) ==
  LET hole[i \in Slots] ==
        IF i # 1 /\ q[i] < q[i \div 2] THEN hole[i \div 2] ELSE i
      stop == hole[idx]
  IN [i \in Slots |->
        IF i = stop THEN q[idx]
        ELSE IF i > stop /\ IsAncestor(i, idx) THEN q[i \div 2]
        ELSE q[i]]

\* Mutant: the left child is taken whatever the right one is.
HeapifyDownLeft(q, size, cnt, idx) ==
  IF 2 * idx <= size /\ cnt[q[2 * idx]] < cnt[q[idx]]
  THEN [q EXCEPT ![idx] = q[2 * idx], ![2 * idx] = q[idx]]
  ELSE q

\* Mutant: the process stays where it is.
HeapifyDownNowhere(q, size, cnt, idx) == q

\* stride_queue_heapify_down: the hole moves to the child with the smaller
\* stride_count while that is smaller than the moved process's.
HeapifyDown(q, size, cnt, idx) ==
  LET p == q[idx]
      smaller(i) == IF cnt[q[2*i]] < cnt[q[2*i + 1]] THEN 2*i ELSE 2*i + 1
      hole[i \in Slots] ==
        IF ~(i * 2 < NPROC /\ i <= size) \/ q[2*i] = NULL THEN i
        ELSE IF q[2*i + 1] # NULL
             THEN IF cnt[q[smaller(i)]] < cnt[p] THEN hole[smaller(i)] ELSE i
             ELSE IF cnt[q[2*i]] < cnt[p] THEN 2*i ELSE i
      stop == hole[idx]
      next(i) == IF IsAncestor(2*i, stop) THEN 2*i ELSE 2*i + 1
  IN [i \in Slots |->
        IF i = stop THEN p
        ELSE IF i >= idx /\ i < stop /\ IsAncestor(i, stop) THEN q[next(i)]
        ELSE q[i]]

\* stride_queue_push: the new process becomes the root, the path from the new
\* last place to the root moves down by one.
Push(q, size, p) ==
  [i \in Slots |->
     IF i = 1 THEN p
     ELSE IF IsAncestor(i, size + 1) THEN q[i \div 2]
     ELSE q[i]]

\* The stride_count that stride_queue_push gives a new process: the root's.
PushCount(q, cnt, p) == IF q[1] # NULL THEN cnt[q[1]] ELSE cnt[p]

\* Mutant: the last process does not take the place of the deleted one.
DeleteClearsLast(q, size, cnt, p, flag) == [q EXCEPT ![size] = NULL]

\* stride_queue_delete, for a process that is in the queue.  flag is what the
\* local variable heapify_up holds when no branch assigns it: at -O0 whatever
\* its stack slot held before.
Delete(q, size, cnt, p, flag) ==
  LET idx  == CHOOSE i \in Slots : q[i] = p /\ \A j \in 1..(i - 1) : q[j] # p
      q1   == [[q EXCEPT ![idx] = q[size]] EXCEPT ![size] = NULL]
      up   == IF idx = 1 THEN FALSE
              ELSE IF idx <= size - 1 THEN cnt[q1[idx]] < cnt[q1[idx \div 2]]
              ELSE flag
  IN IF size - 1 \in {0, 1} THEN q1
     ELSE IF up THEN HeapifyDown(q1, size - 1, cnt, idx)
     ELSE HeapifyUp(q1, idx)

-----------------------------------------------------------------------------
FAULT == 0   \* find_idx_of_stride_to_run reads through a null pointer

\* The walk of find_idx_of_stride_to_run from the root along the smaller
\* children to the first RUNNABLE process; size+1 when it falls off a leaf.
WalkIdx(q, size, cnt, runnable) ==
  LET walk[i \in 1..(2 * NPROC + 1)] ==
        IF i > size THEN size + 1
        ELSE IF q[i] = NULL THEN FAULT
        ELSE IF q[i] \in runnable THEN i
        ELSE IF 2*i + 1 <= size
             THEN IF NULL \in {q[2*i], q[2*i + 1]} THEN FAULT
                  ELSE IF cnt[q[2*i]] < cnt[q[2*i + 1]]
                       THEN walk[2*i] ELSE walk[2*i + 1]
             ELSE IF 2*i > size THEN size + 1 ELSE walk[2*i]
  IN walk[1]

\* Its second search, over the whole array.
ScanIdx(q, size, runnable) ==
  LET hits == {i \in 1..size : q[i] \in runnable \cup {NULL}}
  IN IF hits = {} THEN size + 1
     ELSE IF q[Min(hits)] = NULL THEN FAULT ELSE Min(hits)
=============================================================================
