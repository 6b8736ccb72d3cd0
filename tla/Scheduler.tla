----------------------------- MODULE Scheduler -----------------------------
(***************************************************************************)
(* The scheduler of proc.c with the timer part of trap.c: a multi-level    *)
(* feedback queue (MLFQ) and a stride queue that share the CPU, on one or  *)
(* several CPUs.                                                           *)
(*                                                                         *)
(* A step is one turn of the scheduler's for loop (ptable.lock is held     *)
(* from "enter" to the dispatch and again from a process's switch back),   *)
(* one timer interrupt, or one stretch of a process between two points     *)
(* where it can be preempted.  set_cpu_share holds no lock: it is three    *)
(* steps.  tick_used and stride_tick_used, which nothing reads, are left   *)
(* out.                                                                    *)
(***************************************************************************)
EXTENDS Integers, FiniteSets, StrideHeap

CONSTANTS
  NumProcs,       \* live processes, in slots 1..NumProcs of ptable.proc
  Cpus,
  NoCpu,          \* ptable.lock is free
  NMLFQ,          \* levels of the MLFQ
  DefaultTicks,   \* time quantum of level 0 (5), doubled at each level
  StrideQuantum,  \* stride_time_quantum (1)
  BoostTicks,     \* MLFQ ticks between two priority boosts (100)
  SelectorMod,    \* period of queue_selector (100)
  ShareUnit,      \* cpu_share of one turn of the selector (10)
  NSTRIDE, MIN_CPU_SHARE, MAX_CPU_SHARE,
  Required,       \* arguments of set_cpu_share, times ten as the syscall does
  InitialShare,   \* cpu_share of each process at the start
  Sleepers,       \* processes that call sleep()
  Exiters,        \* processes that call exit()
  MaxCount        \* bound on stride_count

Procs == 1..NumProcs
Min2(a, b) == IF a < b THEN a ELSE b

ASSUME SchedulerAssumption ==
  /\ NumProcs < NPROC
  /\ NMLFQ \in Nat \ {0} /\ BoostTicks \in Nat \ {0} /\ SelectorMod \in Nat \ {0}
  /\ NoCpu \notin Cpus
  /\ InitialShare \in [1..NumProcs -> 0..MAX_CPU_SHARE]

VARIABLES
  state,      \* p->state
  level,      \* p->level_of_MLFQ
  used,       \* p->time_quantum_used
  share,      \* p->cpu_share
  count,      \* p->stride_count
  call,       \* where p is in set_cpu_share, and its locals
  queue,      \* ptable.stride_queue
  size,       \* ptable.stride_queue_size
  sum,        \* ptable.sum_cpu_share
  mlfqTicks,  \* ptable.MLFQ_tick_used
  atMost,     \* ptable.queue_level_at_most
  minLevel,   \* ptable.min_of_run_proc_level
  selector,   \* queue_selector
  lock,       \* the CPU that holds ptable.lock
  cpu,        \* each CPU's scheduler locals, see CpuType
  owed,       \* history: how often p was charged a stride less how often it was
              \* run for one, within -2..2
  panicked

procVars  == <<state, level, used>>
shareVars == <<share, count, call, queue, size>>
mlfqVars  == <<mlfqTicks, atMost, minLevel>>
vars == <<procVars, shareVars, sum, mlfqVars, selector, lock, cpu, owed, panicked>>

CpuType ==
  [at       : {"top", "scan", "run"},   \* outside the lock, in the loop, in a process
   p        : 1..(NumProcs + 1),        \* the loop variable p
   proc     : Procs \cup {NULL},        \* cpu->proc
   choosing : BOOLEAN,                  \* choosing_stride_or_MLFQ
   stride   : BOOLEAN,                  \* stride_is_selected
   before   : 0..BoostTicks,            \* before_MLFQ_used_tick
   leave    : {"no", "RUNNABLE", "SLEEPING", "ZOMBIE"}]
                                        \* on its way into sched() with this state

Stride(p) == IF share[p] = 0 THEN 0 ELSE NSTRIDE \div share[p]
RunnableProcs == {p \in Procs : state[p] = "RUNNABLE"}

\* get_time_quantum with the table that pinit fills, for a process on level l.
TimeQuantum(p, l) == IF share[p] # 0 THEN StrideQuantum ELSE DefaultTicks * 2^l

-----------------------------------------------------------------------------
(***************************************************************************)
(* scheduler()                                                             *)
(***************************************************************************)
\* The head of the for loop.
StartScan(u) == [u EXCEPT !.at = "scan", !.p = 1]

Enter(c) ==
  /\ cpu[c].at = "top" /\ lock = NoCpu
  /\ lock' = c
  /\ atMost' = NMLFQ - 1
  /\ minLevel' = NMLFQ - 1
  /\ cpu' = [cpu EXCEPT ![c] = [StartScan(@) EXCEPT !.choosing = TRUE]]
  /\ UNCHANGED <<procVars, shareVars, sum, mlfqTicks, selector, owed, panicked>>

\* Mutant: queue_selector is not reduced modulo 100.
ChoiceNoWrap(u) ==
  IF sum = 0 \/ ~u.choosing
  THEN [stride |-> FALSE, choosing |-> FALSE, selector |-> selector, sum |-> sum]
  ELSE [stride |-> selector + 1 < sum \div ShareUnit /\ size # 0, choosing |-> TRUE,
        selector |-> selector + 1, sum |-> sum]

\* select_stride_or_MLFQ and the two assignments before it: the new values of
\* stride_is_selected, choosing_stride_or_MLFQ, queue_selector, sum_cpu_share.
Choice(u) ==
  LET sel == (selector + 1) % SelectorMod
      hit == sel < sum \div ShareUnit
  IN IF sum = 0
     THEN [stride |-> FALSE, choosing |-> FALSE, selector |-> selector, sum |-> 0]
     ELSE IF ~u.choosing
     THEN [stride |-> u.stride, choosing |-> FALSE, selector |-> selector, sum |-> sum]
     ELSE [stride |-> hit /\ size # 0, choosing |-> TRUE, selector |-> sel,
           sum |-> IF hit /\ size = 0 THEN 0 ELSE sum]

\* proc = p, p->state = RUNNING, swtch.  The process releases ptable.lock, and
\* its return from sched() clears time_quantum_used.
Dispatch(c, p, ch) ==
  /\ cpu' = [cpu EXCEPT ![c] =
               [@ EXCEPT !.at = "run", !.p = p, !.proc = p, !.before = mlfqTicks,
                         !.stride = ch.stride, !.choosing = ch.choosing]]
  /\ state' = [state EXCEPT ![p] = "RUNNING"]
  /\ used' = [used EXCEPT ![p] = 0]
  /\ lock' = NoCpu

\* continue: on to the next slot, in the MLFQ.
NextSlot(c) ==
  /\ cpu' = [cpu EXCEPT ![c] = [@ EXCEPT !.p = @ + 1, !.stride = FALSE,
                                         !.choosing = FALSE]]
  /\ UNCHANGED <<state, used, lock>>

\* The accounts after p has been charged and r is run.
Settle(p, r) ==
  IF p = r THEN owed
  ELSE [owed EXCEPT ![p] = Min2(@ + 1, 2), ![r] = IF @ > -2 THEN @ - 1 ELSE @]

\* Mutant: the index is taken for one into an array that starts at 0.
ChosenOffByOne(q, idx) == q[idx + 1]

\* p = ptable.stride_queue[stride_idx_to_be_run]
Chosen(q, idx) == q[idx]

\* A turn of the loop that goes to the stride queue: find_idx_of_stride_to_run
\* charges the process it finds and moves it down; the scheduler then runs what
\* stands at the index it returns.
StrideTurn(c) ==
  LET ch   == Choice(cpu[c])
      walk == WalkIdx(queue, size, count, RunnableProcs)
      paid == [count EXCEPT ![queue[walk]] = @ + Stride(queue[walk])]
      scan == ScanIdx(queue, size, RunnableProcs)
  IN
  /\ cpu[c].at = "scan" /\ cpu[c].p <= NumProcs /\ ch.stride
  /\ selector' = ch.selector
  /\ panicked' = (walk = FAULT \/ (walk > size /\ scan = FAULT))
  /\ IF walk \in 1..size
     THEN /\ paid[queue[walk]] <= MaxCount
          /\ count' = paid
          /\ queue' = HeapifyDown(queue, size, paid, walk)
          /\ Dispatch(c, Chosen(queue', walk), ch)
          /\ owed' = Settle(queue[walk], Chosen(queue', walk))
     ELSE /\ UNCHANGED <<queue, count, owed>>
          /\ IF walk # FAULT /\ scan \in 1..size
             THEN Dispatch(c, Chosen(queue, scan), ch)
             ELSE NextSlot(c)
  /\ UNCHANGED <<level, share, call, size, sum, mlfqVars>>

\* What the MLFQ part of the loop does not skip.
Eligible(p) == state[p] = "RUNNABLE" /\ share[p] = 0 /\ level[p] <= atMost

MlfqTurn(c) ==
  LET p == cpu[c].p  ch == Choice(cpu[c]) IN
  /\ cpu[c].at = "scan" /\ p <= NumProcs /\ ~ch.stride
  /\ selector' = ch.selector
  /\ sum' = ch.sum
  /\ IF Eligible(p)
     THEN /\ atMost' = Min2(level[p], atMost)
          /\ minLevel' = atMost'
          /\ Dispatch(c, p, ch)
     ELSE /\ NextSlot(c)
          /\ UNCHANGED <<atMost, minLevel>>
  /\ UNCHANGED <<level, shareVars, mlfqTicks, owed, panicked>>

\* Mutant: queue_level_at_most is never raised.
EndScanNeverRaises(c) ==
  /\ cpu[c].at = "scan" /\ cpu[c].p > NumProcs
  /\ minLevel' = NMLFQ - 1
  /\ cpu' = [cpu EXCEPT ![c] = StartScan(@)]
  /\ UNCHANGED <<procVars, shareVars, sum, mlfqTicks, atMost, selector, lock, owed, panicked>>

\* The end of the for loop and of a turn of the while loop.
EndScan(c) ==
  LET m == IF minLevel = NMLFQ - 1 THEN atMost + 1 ELSE atMost IN
  /\ cpu[c].at = "scan" /\ cpu[c].p > NumProcs
  /\ atMost' = m
  /\ IF m < NMLFQ
     THEN /\ minLevel' = NMLFQ - 1
          /\ cpu' = [cpu EXCEPT ![c] = StartScan(@)]
          /\ UNCHANGED lock
     ELSE /\ lock' = NoCpu
          /\ cpu' = [cpu EXCEPT ![c] = [@ EXCEPT !.at = "top", !.p = 1]]
          /\ UNCHANGED minLevel
  /\ UNCHANGED <<procVars, shareVars, sum, mlfqTicks, selector, owed, panicked>>

-----------------------------------------------------------------------------
(***************************************************************************)
(* A running process: the timer, yield, sleep, exit and set_cpu_share      *)
(***************************************************************************)
Running(c) == cpu[c].at = "run" /\ cpu[c].leave = "no"

\* priority_boost(), called by trap() when it is due.
Boosted ==
  IF mlfqTicks >= BoostTicks
  THEN [level |-> [p \in Procs |-> 0], used |-> [p \in Procs |-> 0], ticks |-> 0]
  ELSE [level |-> level, used |-> used, ticks |-> mlfqTicks]

\* The timer interrupt of a CPU that runs a process.
Tick(c) ==
  LET p == cpu[c].proc
      b == Boosted
      n == b.used[p] + 1
  IN
  /\ Running(c) /\ state[p] = "RUNNING"
  /\ mlfqTicks' = b.ticks + (IF share[p] = 0 THEN 1 ELSE 0)
  /\ IF n >= TimeQuantum(p, b.level[p])
     THEN /\ level' = [b.level EXCEPT ![p] = Min2(@ + 1, NMLFQ - 1)]
          /\ used' = [b.used EXCEPT ![p] = 0]
          /\ cpu' = [cpu EXCEPT ![c].leave = "RUNNABLE"]
     ELSE /\ level' = b.level
          /\ used' = [b.used EXCEPT ![p] = n]
          /\ UNCHANGED cpu
  /\ UNCHANGED <<state, shareVars, sum, atMost, minLevel, selector, lock, owed, panicked>>

\* An interrupt that finds no process running can only boost.
IdleTrap(c) ==
  /\ cpu[c].at = "top" /\ mlfqTicks >= BoostTicks
  /\ level' = Boosted.level /\ used' = Boosted.used /\ mlfqTicks' = Boosted.ticks
  /\ UNCHANGED <<state, shareVars, sum, atMost, minLevel, selector, lock, cpu, owed, panicked>>

\* sys_yield, sleep and exit, up to the acquire of ptable.lock.
Leave(c, s) ==
  /\ Running(c) /\ call[cpu[c].proc].at = "no"
  /\ s = "SLEEPING" => cpu[c].proc \in Sleepers
  /\ s = "ZOMBIE" => cpu[c].proc \in Exiters
  /\ cpu' = [cpu EXCEPT ![c].leave = s]
  /\ UNCHANGED <<procVars, shareVars, sum, mlfqVars, selector, lock, owed, panicked>>

\* The scheduler's code after swtch: run an MLFQ process again that has not
\* used a tick while the stride queue is in use; after a stride process the
\* loop goes on from p_mlfq, which was saved after p had become that process.
AfterSwtch(u, p, s, total) ==
  LET again == /\ ~u.stride /\ total # 0 /\ s = "RUNNABLE"
               /\ share[p] = 0 /\ mlfqTicks = u.before
  IN [u EXCEPT !.at = "scan", !.proc = NULL, !.leave = "no",
               !.choosing = ~again,
               !.p = IF again \/ u.stride THEN p ELSE p + 1]

\* yield, sleep or exit with ptable.lock, then sched() and the scheduler.
SwitchOut(c) ==
  LET p == cpu[c].proc
      s == cpu[c].leave
      deleted == s = "ZOMBIE" /\ share[p] # 0
      total == IF deleted THEN sum - share[p] ELSE sum
  IN
  /\ cpu[c].at = "run" /\ s # "no" /\ lock = NoCpu
  /\ lock' = c
  /\ state' = [state EXCEPT ![p] = s]
  /\ sum' = total
  /\ IF deleted
     THEN /\ \E flag \in BOOLEAN : queue' = Delete(queue, size, count, p, flag)
          /\ size' = size - 1
     ELSE UNCHANGED <<queue, size>>
  /\ cpu' = [cpu EXCEPT ![c] = AfterSwtch(@, p, s, total)]
  /\ UNCHANGED <<level, used, share, count, call, mlfqVars, selector, owed, panicked>>

Wakeup(p) ==
  /\ state[p] = "SLEEPING" /\ lock = NoCpu
  /\ state' = [state EXCEPT ![p] = "RUNNABLE"]
  /\ UNCHANGED <<level, used, shareVars, sum, mlfqVars, selector, lock, cpu, owed, panicked>>

-----------------------------------------------------------------------------
(***************************************************************************)
(* set_cpu_share(), which holds no lock and can be preempted anywhere      *)
(***************************************************************************)
NoCall == [at |-> "no", required |-> 0, desired |-> 0]

\* The tests; a call that fails one changes nothing.
ShareCheck(c, r) ==
  LET p == cpu[c].proc  desired == sum - share[p] + r IN
  /\ Running(c) /\ call[p].at = "no"
  /\ MIN_CPU_SHARE <= r /\ r <= MAX_CPU_SHARE /\ desired <= MAX_CPU_SHARE
  /\ call' = [call EXCEPT ![p] = [at |-> "set", required |-> r, desired |-> desired]]
  /\ UNCHANGED <<procVars, share, count, queue, size, sum, mlfqVars, selector, lock, cpu,
                 owed, panicked>>

ShareSet(c) ==
  LET p == cpu[c].proc IN
  /\ Running(c) /\ call[p].at = "set"
  /\ sum' = call[p].desired
  /\ share' = [share EXCEPT ![p] = call[p].required]
  /\ call' = [call EXCEPT ![p] = IF share[p] = 0 THEN [@ EXCEPT !.at = "push"] ELSE NoCall]
  /\ UNCHANGED <<procVars, count, queue, size, mlfqVars, selector, lock, cpu, owed, panicked>>

SharePush(c) ==
  LET p == cpu[c].proc IN
  /\ Running(c) /\ call[p].at = "push"
  /\ count' = [count EXCEPT ![p] = PushCount(queue, count, p)]
  /\ queue' = Push(queue, size, p)
  /\ size' = size + 1
  /\ call' = [call EXCEPT ![p] = NoCall]
  /\ UNCHANGED <<procVars, share, sum, mlfqVars, selector, lock, cpu, owed, panicked>>

-----------------------------------------------------------------------------
\* After pinit and fork, with the processes of InitialShare in the stride queue,
\* pushed in the order of their slots.
Init ==
  LET pushed[n \in 0..NumProcs] ==
        IF n = 0 THEN [queue |-> EmptyQueue, size |-> 0, sum |-> 0]
        ELSE IF InitialShare[n] = 0 THEN pushed[n - 1]
        ELSE [queue |-> Push(pushed[n - 1].queue, pushed[n - 1].size, n),
              size  |-> pushed[n - 1].size + 1,
              sum   |-> pushed[n - 1].sum + InitialShare[n]]
  IN
  /\ state = [p \in Procs |-> "RUNNABLE"]
  /\ level = [p \in Procs |-> 0]
  /\ used = [p \in Procs |-> 0]
  /\ share = InitialShare
  /\ count = [p \in Procs |-> 0]
  /\ call = [p \in Procs |-> NoCall]
  /\ queue = pushed[NumProcs].queue
  /\ size = pushed[NumProcs].size
  /\ sum = pushed[NumProcs].sum
  /\ mlfqTicks = 0 /\ atMost = NMLFQ - 1 /\ minLevel = NMLFQ - 1
  /\ selector = -1
  /\ lock = NoCpu
  /\ cpu = [c \in Cpus |-> [at |-> "top", p |-> 1, proc |-> NULL, choosing |-> TRUE,
                            stride |-> FALSE, before |-> 0, leave |-> "no"]]
  /\ owed = [p \in Procs |-> 0]
  /\ panicked = FALSE

\* What a CPU goes on with by itself.
Schedule(c) ==
  ~panicked /\ (Enter(c) \/ StrideTurn(c) \/ MlfqTurn(c) \/ EndScan(c) \/ SwitchOut(c))

Next ==
  /\ ~panicked
  /\ \/ \E c \in Cpus :
          \/ Schedule(c) \/ Tick(c) \/ IdleTrap(c)
          \/ \E s \in {"RUNNABLE", "SLEEPING", "ZOMBIE"} : Leave(c, s)
          \/ \E r \in Required : ShareCheck(c, r)
          \/ ShareSet(c) \/ SharePush(c)
     \/ \E p \in Procs : Wakeup(p)

Spec == Init /\ [][Next]_vars

(***************************************************************************)
(* Fairness: a CPU goes on in the scheduler, and the timer does not miss   *)
(* running processes for ever: a process that always gives up the CPU      *)
(* just in time would have to know when the interrupt comes.               *)
(***************************************************************************)
FairSpec ==
  /\ Spec
  /\ \A c \in Cpus : SF_vars(Schedule(c)) /\ SF_vars(~panicked /\ Tick(c))

-----------------------------------------------------------------------------
\* The types of the fields of ptable that the scheduler and the timer use; the level that
\* the scans share passes the last one by at most one for each CPU.
TypeOK ==
  /\ state \in [Procs -> {"RUNNABLE", "RUNNING", "SLEEPING", "ZOMBIE"}]
  /\ level \in [Procs -> 0..(NMLFQ - 1)]
  /\ used \in [Procs -> Nat]
  /\ share \in [Procs -> 0..MAX_CPU_SHARE]
  /\ count \in [Procs -> 0..MaxCount]
  /\ call \in [Procs -> [at : {"no", "set", "push"}, required : Required \cup {0},
                         desired : Int]]
  /\ queue \in [Slots -> Procs \cup {NULL}]
  /\ size \in 0..NumProcs
  /\ sum \in Int
  /\ mlfqTicks \in 0..BoostTicks
  /\ atMost \in 0..(NMLFQ - 1 + Cardinality(Cpus))
  /\ minLevel \in 0..(NMLFQ - 1)
  /\ selector \in -1..(SelectorMod - 1)
  /\ lock \in Cpus \cup {NoCpu}
  /\ cpu \in [Cpus -> CpuType]
  /\ owed \in [Procs -> -2..2]
  /\ panicked \in BOOLEAN

\* "To prevent starvation, priority boost function is called regularly": every
\* process that can run gets a CPU again, whatever the others do.
NoStarvation == \A p \in Procs : state[p] = "RUNNABLE" ~> state[p] # "RUNNABLE"

\* The processes that are in the stride queue for good.
InStride == {p \in Procs : share[p] # 0 /\ call[p].at # "push" /\ state[p] # "ZOMBIE"}

\* The stride queue holds each process with a share once, in the first places,
\* whatever was pushed, deleted and moved before, so that no walk of the heap
\* meets an empty place.  (The deletion of the last element: "Do nothing.
\* Heapify is not needed.")
QueueSound ==
  /\ size = Cardinality(InStride)
  /\ {queue[i] : i \in 1..size} = InStride
  /\ \A i \in Slots : i > size => queue[i] = NULL
  /\ ~panicked

\* The root of the stride queue has the smallest stride_count: "The scheduler
\* chooses a process who has smallest 'pass value'".
HeapOrder ==
  \A i \in 2..size :
    NULL \notin {queue[i], queue[i \div 2]} => count[queue[i \div 2]] <= count[queue[i]]

\* Proportional share: no process in the stride queue is ever more than its own
\* stride ahead of another one that can run all the time.
PassGap == \A p, q \in InStride : count[p] <= count[q] + Stride(p)

\* A process is run as often as it is charged, give or take one, although the
\* scheduler runs the process that took the charged one's place in the heap.
ServiceMatchesCharge == \A p \in Procs : owed[p] \in -1..1

\* A process runs on one CPU at most: what the scheduler takes from the stride
\* queue is "a process whose state is RUNNABLE".
OneCpu == \A c, d \in Cpus : cpu[c].proc = cpu[d].proc /\ cpu[c].proc # NULL => c = d

\* "Skip a process whose value of cpu_share is not zero, which means that the
\* process is in the stride_queue, not in the MLFQ": a process that waits for a
\* CPU can be found in one of the two.
ShareMeansQueued ==
  \A p \in RunnableProcs : share[p] # 0 => \E i \in 1..size : queue[i] = p

=============================================================================
