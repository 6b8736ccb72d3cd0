----------------------------- MODULE SleepLock -----------------------------
(***************************************************************************)
(* Spin locks, sleep/wakeup and sleep locks, on several CPUs: spinlock.c,  *)
(* sleeplock.c and the part of proc.c that puts a process to sleep, wakes  *)
(* it, takes the CPU from it and gives it one.                             *)
(*                                                                         *)
(* Processes run kernel code that takes and gives up one sleep lock.  A    *)
(* step is what a CPU does between two points where another CPU, or the    *)
(* timer, can get in: turning interrupts off, taking a spin lock, and the  *)
(* code up to the release of one.  Dispatch takes any RUNNABLE process:    *)
(* the order among them is Scheduler's.                                    *)
(***************************************************************************)
EXTENDS Integers, FiniteSets

CONSTANTS
  Procs,    \* the slots of ptable.proc that hold a live process
  Cpus,     \* the CPUs
  NoProc,   \* cpu->proc = 0, sleeplock.pid = 0
  NoCpu     \* spinlock.locked = 0

ASSUME NoProcAssumption == NoProc \notin Procs
ASSUME NoCpuAssumption == NoCpu \notin Cpus

VARIABLES
  lk,       \* the CPU holding the sleep lock's spin lock (lk->lk.cpu)
  pt,       \* the CPU holding ptable.lock
  locked,   \* sleeplock.locked
  pid,      \* sleeplock.pid
  state,    \* p->state
  chan,     \* p->chan = the sleep lock
  pc,       \* where the process is
  ret,      \* what the timer interrupted
  saved,    \* sched()'s local intena
  cpu,      \* ncli, intena and the interrupt flag of each CPU
  proc,     \* cpu->proc
  spc,      \* where the scheduler loop of the CPU is
  panicked

lockVars  == <<lk, pt, locked, pid>>
procVars  == <<state, chan, pc, ret, saved>>
cpuVars   == <<cpu, proc, spc>>
vars      == <<lockVars, procVars, cpuVars, panicked>>

-----------------------------------------------------------------------------
(***************************************************************************)
(* Program points.  A process is interruptible at the first three only:    *)
(* everywhere else it holds a spin lock, spins for one, or is off the CPU. *)
(***************************************************************************)
Open == {"out",      \* anywhere else in the kernel or in user code
         "cs",       \* between acquiresleep and releasesleep
         "as_again"} \* in sleep(), between release(ptable) and acquire(lk)

Points == Open \cup
  {"forkret",                                   \* first run
   "as_spin", "as_test",                        \* acquiresleep
   "sl_spin", "sl_rel", "sl_sched", "sl_ret",   \* sleep
   "rs_spin", "rs_body", "rs_rel",              \* releasesleep
   "wk_spin", "wk_body",                        \* wakeup
   "k_spin",                                    \* kill
   "y_spin", "y_sched", "y_ret"}                \* trap -> yield

pushcli(u) ==
  [ncli   |-> u.ncli + 1,
   intena |-> IF u.ncli = 0 THEN u.intr ELSE u.intena,
   intr   |-> FALSE]

\* Mutant: the nesting count never goes down.
PopcliKeepsCount(u) ==
  [ncli |-> u.ncli, intena |-> u.intena, intr |-> u.intr \/ u.intena]

popcli(u) ==
  [ncli   |-> u.ncli - 1,
   intena |-> u.intena,
   intr   |-> u.intr \/ (u.ncli = 1 /\ u.intena)]

\* sti, the interrupt gate's cli, and iret set the flag alone.
SetIF(u, b) == [ncli |-> u.ncli, intena |-> u.intena, intr |-> b]

PopcliOK(u) == ~u.intr /\ u.ncli >= 1

Goto(p, l) == pc' = [pc EXCEPT ![p] = l]

\* acquire() up to its xchg loop: interrupts go off, and a CPU that already
\* holds the lock panics instead of spinning for ever.
BeginAcquire(c, lock) ==
  /\ cpu' = [cpu EXCEPT ![c] = pushcli(@)]
  /\ panicked' = (lock = c)

\* release(): the CPU must hold the lock, and popcli has two checks.
EndHolding(c, lock) ==
  /\ cpu' = [cpu EXCEPT ![c] = popcli(@)]
  /\ panicked' = ~(lock = c /\ PopcliOK(cpu[c]))

-----------------------------------------------------------------------------
(***************************************************************************)
(* acquiresleep                                                            *)
(***************************************************************************)
AcquireSleepCall(c) ==
  LET p == proc[c] IN
  /\ p \in Procs /\ pc[p] \in {"out", "as_again"}
  /\ BeginAcquire(c, lk)
  /\ Goto(p, "as_spin")
  /\ UNCHANGED <<lockVars, state, chan, ret, saved, proc, spc>>

AcquireSleepLk(c) ==
  LET p == proc[c] IN
  /\ p \in Procs /\ pc[p] = "as_spin"
  /\ lk = NoCpu
  /\ lk' = c
  /\ Goto(p, "as_test")
  /\ UNCHANGED <<pt, locked, pid, state, chan, ret, saved, cpuVars, panicked>>

\* Mutant: an if in place of the while, a woken process does not test again.
AcquireSleepTakeUntested(c) ==
  LET p == proc[c] IN
  /\ p \in Procs /\ pc[p] = "as_test"
  /\ locked' = TRUE
  /\ pid' = p
  /\ lk' = NoCpu
  /\ EndHolding(c, lk)
  /\ Goto(p, "cs")
  /\ UNCHANGED <<pt, state, chan, ret, saved, proc, spc>>

\* while(lk->locked) fails: take the sleep lock and release the spin lock.
AcquireSleepTake(c) ==
  LET p == proc[c] IN
  /\ p \in Procs /\ pc[p] = "as_test"
  /\ ~locked
  /\ locked' = TRUE
  /\ pid' = p
  /\ lk' = NoCpu
  /\ EndHolding(c, lk)
  /\ Goto(p, "cs")
  /\ UNCHANGED <<pt, state, chan, ret, saved, proc, spc>>

\* while(lk->locked) holds: call sleep(lk, &lk->lk), which wants ptable.lock.
AcquireSleepWait(c) ==
  LET p == proc[c] IN
  /\ p \in Procs /\ pc[p] = "as_test"
  /\ locked
  /\ BeginAcquire(c, pt)
  /\ Goto(p, "sl_spin")
  /\ UNCHANGED <<lockVars, state, chan, ret, saved, proc, spc>>

-----------------------------------------------------------------------------
(***************************************************************************)
(* sleep, sched and the return from it                                     *)
(***************************************************************************)
SleepPt(c) ==
  LET p == proc[c] IN
  /\ p \in Procs /\ pc[p] = "sl_spin"
  /\ pt = NoCpu
  /\ pt' = c
  /\ Goto(p, "sl_rel")
  /\ UNCHANGED <<lk, locked, pid, state, chan, ret, saved, cpuVars, panicked>>

\* Mutant: sleep() forgets to release the caller's spin lock.
SleepKeepsLk(c) ==
  LET p == proc[c] IN
  /\ p \in Procs /\ pc[p] = "sl_rel"
  /\ Goto(p, "sl_sched")
  /\ UNCHANGED <<lockVars, state, chan, ret, saved, cpuVars, panicked>>

SleepReleaseLk(c) ==
  LET p == proc[c] IN
  /\ p \in Procs /\ pc[p] = "sl_rel"
  /\ lk' = NoCpu
  /\ EndHolding(c, lk)
  /\ Goto(p, "sl_sched")
  /\ UNCHANGED <<pt, locked, pid, state, chan, ret, saved, proc, spc>>

\* sched(): its four panics, then swtch to the CPU's scheduler, which finds
\* ptable.lock held by its CPU.
Sched(c, p) ==
  /\ panicked' = ~(pt = c /\ cpu[c].ncli = 1 /\ state'[p] # "RUNNING"
                          /\ ~cpu[c].intr)
  /\ saved' = [saved EXCEPT ![p] = cpu[c].intena]
  /\ proc' = [proc EXCEPT ![c] = NoProc]
  /\ spc' = [spc EXCEPT ![c] = "scan"]
  /\ UNCHANGED cpu

\* Mutant: the channel is not recorded.
SleepSchedNoChan(c) ==
  LET p == proc[c] IN
  /\ p \in Procs /\ pc[p] = "sl_sched"
  /\ state' = [state EXCEPT ![p] = "SLEEPING"]
  /\ Sched(c, p)
  /\ Goto(p, "sl_ret")
  /\ UNCHANGED <<lockVars, chan, ret>>

SleepSched(c) ==
  LET p == proc[c] IN
  /\ p \in Procs /\ pc[p] = "sl_sched"
  /\ chan' = [chan EXCEPT ![p] = TRUE]
  /\ state' = [state EXCEPT ![p] = "SLEEPING"]
  /\ Sched(c, p)
  /\ Goto(p, "sl_ret")
  /\ UNCHANGED <<lockVars, ret>>

\* Mutant: sched() does not restore intena.
SchedReturnNoIntena(c, p, iret) ==
  /\ pt' = NoCpu
  /\ panicked' = ~(pt = c /\ PopcliOK(cpu[c]))
  /\ cpu' = [cpu EXCEPT ![c] = IF iret THEN SetIF(popcli(@), TRUE) ELSE popcli(@)]

\* Back from swtch with ptable.lock held: sched() restores intena, then
\* ptable.lock is released.
SchedReturn(c, p, iret) ==
  LET u == [ncli |-> cpu[c].ncli, intena |-> saved[p], intr |-> cpu[c].intr] IN
  /\ pt' = NoCpu
  /\ panicked' = ~(pt = c /\ PopcliOK(u))
  /\ cpu' = [cpu EXCEPT ![c] = IF iret THEN SetIF(popcli(u), TRUE) ELSE popcli(u)]

SleepReturn(c) ==
  LET p == proc[c] IN
  /\ p \in Procs /\ pc[p] = "sl_ret"
  /\ chan' = [chan EXCEPT ![p] = FALSE]
  /\ SchedReturn(c, p, FALSE)
  /\ Goto(p, "as_again")
  /\ UNCHANGED <<lk, locked, pid, state, ret, saved, proc, spc>>

-----------------------------------------------------------------------------
(***************************************************************************)
(* releasesleep and the wakeup it makes                                    *)
(***************************************************************************)
ReleaseSleepCall(c) ==
  LET p == proc[c] IN
  /\ p \in Procs /\ pc[p] = "cs"
  /\ BeginAcquire(c, lk)
  /\ Goto(p, "rs_spin")
  /\ UNCHANGED <<lockVars, state, chan, ret, saved, proc, spc>>

ReleaseSleepLk(c) ==
  LET p == proc[c] IN
  /\ p \in Procs /\ pc[p] = "rs_spin"
  /\ lk = NoCpu
  /\ lk' = c
  /\ Goto(p, "rs_body")
  /\ UNCHANGED <<pt, locked, pid, state, chan, ret, saved, cpuVars, panicked>>

\* Mutant: the owner's pid stays behind.
ReleaseSleepKeepsPid(c) ==
  LET p == proc[c] IN
  /\ p \in Procs /\ pc[p] = "rs_body"
  /\ locked' = FALSE
  /\ BeginAcquire(c, pt)
  /\ Goto(p, "wk_spin")
  /\ UNCHANGED <<lk, pt, pid, state, chan, ret, saved, proc, spc>>

\* locked = 0, pid = 0, and wakeup(lk) wants ptable.lock.
ReleaseSleepFree(c) ==
  LET p == proc[c] IN
  /\ p \in Procs /\ pc[p] = "rs_body"
  /\ locked' = FALSE
  /\ pid' = NoProc
  /\ BeginAcquire(c, pt)
  /\ Goto(p, "wk_spin")
  /\ UNCHANGED <<lk, pt, state, chan, ret, saved, proc, spc>>

WakeupPt(c) ==
  LET p == proc[c] IN
  /\ p \in Procs /\ pc[p] = "wk_spin"
  /\ pt = NoCpu
  /\ pt' = c
  /\ Goto(p, "wk_body")
  /\ UNCHANGED <<lk, locked, pid, state, chan, ret, saved, cpuVars, panicked>>

\* Mutant: the scan misses the first slot of the table.
WakeupFromSecond ==
  LET first == CHOOSE q \in Procs : TRUE IN
  [q \in Procs |-> IF state[q] = "SLEEPING" /\ chan[q] /\ q # first
                   THEN "RUNNABLE" ELSE state[q]]

wakeup1 ==
  [q \in Procs |-> IF state[q] = "SLEEPING" /\ chan[q]
                   THEN "RUNNABLE" ELSE state[q]]

Wakeup(c) ==
  LET p == proc[c] IN
  /\ p \in Procs /\ pc[p] = "wk_body"
  /\ state' = wakeup1
  /\ pt' = NoCpu
  /\ EndHolding(c, pt)
  /\ Goto(p, "rs_rel")
  /\ UNCHANGED <<lk, locked, pid, chan, ret, saved, proc, spc>>

ReleaseSleepDone(c) ==
  LET p == proc[c] IN
  /\ p \in Procs /\ pc[p] = "rs_rel"
  /\ lk' = NoCpu
  /\ EndHolding(c, lk)
  /\ Goto(p, "out")
  /\ UNCHANGED <<pt, locked, pid, state, chan, ret, saved, proc, spc>>

-----------------------------------------------------------------------------
(***************************************************************************)
(* kill: a sleeper is made runnable although nobody released the lock      *)
(***************************************************************************)
KillCall(c) ==
  LET p == proc[c] IN
  /\ p \in Procs /\ pc[p] = "out"
  /\ BeginAcquire(c, pt)
  /\ Goto(p, "k_spin")
  /\ UNCHANGED <<lockVars, state, chan, ret, saved, proc, spc>>

Kill(c, victim) ==
  LET p == proc[c] IN
  /\ p \in Procs /\ pc[p] = "k_spin"
  /\ pt = NoCpu
  /\ state' = [state EXCEPT ![victim] = IF @ = "SLEEPING" THEN "RUNNABLE" ELSE @]
  /\ cpu' = [cpu EXCEPT ![c] = popcli(@)]
  /\ panicked' = ~PopcliOK(cpu[c])
  /\ Goto(p, "out")
  /\ UNCHANGED <<lockVars, chan, ret, saved, proc, spc>>

-----------------------------------------------------------------------------
(***************************************************************************)
(* The timer interrupt ends in yield().  The gate turns interrupts off, so *)
(* the pushcli of yield's acquire records intena = 0; iret turns them on.  *)
(***************************************************************************)
TimerTrap(c) ==
  LET p == proc[c] IN
  /\ p \in Procs /\ pc[p] \in Open
  /\ cpu[c].intr
  /\ cpu' = [cpu EXCEPT ![c] = pushcli(SetIF(@, FALSE))]
  /\ panicked' = (pt = c)
  /\ ret' = [ret EXCEPT ![p] = pc[p]]
  /\ Goto(p, "y_spin")
  /\ UNCHANGED <<lockVars, state, chan, saved, proc, spc>>

YieldPt(c) ==
  LET p == proc[c] IN
  /\ p \in Procs /\ pc[p] = "y_spin"
  /\ pt = NoCpu
  /\ pt' = c
  /\ Goto(p, "y_sched")
  /\ UNCHANGED <<lk, locked, pid, state, chan, ret, saved, cpuVars, panicked>>

YieldSched(c) ==
  LET p == proc[c] IN
  /\ p \in Procs /\ pc[p] = "y_sched"
  /\ state' = [state EXCEPT ![p] = "RUNNABLE"]
  /\ Sched(c, p)
  /\ Goto(p, "y_ret")
  /\ UNCHANGED <<lockVars, chan, ret>>

YieldReturn(c) ==
  LET p == proc[c] IN
  /\ p \in Procs /\ pc[p] = "y_ret"
  /\ SchedReturn(c, p, TRUE)
  /\ Goto(p, ret[p])
  /\ UNCHANGED <<lk, locked, pid, state, chan, ret, saved, proc, spc>>

-----------------------------------------------------------------------------
(***************************************************************************)
(* The CPU's scheduler loop.  Which RUNNABLE process it takes is any here. *)
(***************************************************************************)
\* sti(); acquire(&ptable.lock) up to the spin.
SchedulerTop(c) ==
  /\ proc[c] = NoProc /\ spc[c] = "top"
  /\ cpu' = [cpu EXCEPT ![c] = pushcli(SetIF(@, TRUE))]
  /\ panicked' = (pt = c)
  /\ spc' = [spc EXCEPT ![c] = "spin"]
  /\ UNCHANGED <<lockVars, procVars, proc>>

SchedulerPt(c) ==
  /\ proc[c] = NoProc /\ spc[c] = "spin"
  /\ pt = NoCpu
  /\ pt' = c
  /\ spc' = [spc EXCEPT ![c] = "scan"]
  /\ UNCHANGED <<lk, locked, pid, procVars, cpu, proc, panicked>>

\* Mutant: the state of the process is not looked at.
DispatchAny(c, p) ==
  /\ proc[c] = NoProc /\ spc[c] = "scan"
  /\ proc' = [proc EXCEPT ![c] = p]
  /\ state' = [state EXCEPT ![p] = "RUNNING"]
  /\ UNCHANGED <<lockVars, chan, pc, ret, saved, cpu, spc, panicked>>

Dispatch(c, p) ==
  /\ proc[c] = NoProc /\ spc[c] = "scan"
  /\ state[p] = "RUNNABLE"
  /\ proc' = [proc EXCEPT ![c] = p]
  /\ state' = [state EXCEPT ![p] = "RUNNING"]
  /\ UNCHANGED <<lockVars, chan, pc, ret, saved, cpu, spc, panicked>>

SchedulerRelease(c) ==
  /\ proc[c] = NoProc /\ spc[c] = "scan"
  /\ pt' = NoCpu
  /\ EndHolding(c, pt)
  /\ spc' = [spc EXCEPT ![c] = "top"]
  /\ UNCHANGED <<lk, locked, pid, procVars, proc>>

\* A new process starts here with ptable.lock held and leaves by iret.  It
\* does not restore intena: the value is that of whoever ran before.
Forkret(c) ==
  LET p == proc[c] IN
  /\ p \in Procs /\ pc[p] = "forkret"
  /\ pt' = NoCpu
  /\ cpu' = [cpu EXCEPT ![c] = SetIF(popcli(@), TRUE)]
  /\ panicked' = ~(pt = c /\ PopcliOK(cpu[c]))
  /\ Goto(p, "out")
  /\ UNCHANGED <<lk, locked, pid, state, chan, ret, saved, proc, spc>>

-----------------------------------------------------------------------------
Init ==
  /\ lk = NoCpu /\ pt = NoCpu
  /\ locked = FALSE /\ pid = NoProc
  /\ state = [p \in Procs |-> "RUNNABLE"]
  /\ chan = [p \in Procs |-> FALSE]
  /\ pc = [p \in Procs |-> "forkret"]
  /\ ret = [p \in Procs |-> "out"]
  /\ saved = [p \in Procs |-> FALSE]
  /\ cpu = [c \in Cpus |-> [ncli |-> 0, intena |-> FALSE, intr |-> FALSE]]
  /\ proc = [c \in Cpus |-> NoProc]
  /\ spc = [c \in Cpus |-> "top"]
  /\ panicked = FALSE

\* Taking a spin lock, one disjunct per place that spins.
Take(c) ==
  \/ AcquireSleepLk(c) \/ SleepPt(c) \/ ReleaseSleepLk(c) \/ WakeupPt(c)
  \/ YieldPt(c) \/ SchedulerPt(c) \/ \E p \in Procs : Kill(c, p)

\* What a CPU goes on with by itself.
Go(c) ==
  \/ AcquireSleepTake(c) \/ AcquireSleepWait(c)
  \/ SleepReleaseLk(c) \/ SleepSched(c) \/ SleepReturn(c)
  \/ ReleaseSleepCall(c) \/ ReleaseSleepFree(c) \/ Wakeup(c)
  \/ ReleaseSleepDone(c) \/ YieldSched(c) \/ YieldReturn(c)
  \/ SchedulerTop(c) \/ SchedulerRelease(c) \/ Forkret(c)

Step(c) ==
  /\ ~panicked
  /\ \/ Take(c) \/ Go(c)
     \/ AcquireSleepCall(c) \/ KillCall(c) \/ TimerTrap(c)
     \/ \E p \in Procs : Dispatch(c, p)

Next == \E c \in Cpus : Step(c)

Spec == Init /\ [][Next]_vars

(***************************************************************************)
(* Fairness.  A CPU that can go on does.  A CPU spinning in acquire gets   *)
(* the lock if it is free again and again: the bus serves the locked xchg  *)
(* of every CPU.  A timer interrupt stays pending until interrupts are on. *)
(* An owner that gets to run releases.  A RUNNABLE process is run if CPUs  *)
(* scan the table again and again (which one they take is the scheduler's  *)
(* matter).                                                                *)
(***************************************************************************)
Fairness ==
  /\ \A c \in Cpus : WF_vars(~panicked /\ Go(c))
  /\ \A c \in Cpus : SF_vars(~panicked /\ Take(c))
  /\ \A c \in Cpus : SF_vars(~panicked /\ TimerTrap(c))
  /\ \A p \in Procs : SF_vars(\E c \in Cpus : ~panicked /\ Dispatch(c, p))
  /\ \A p \in Procs :
       SF_vars(\E c \in Cpus : ~panicked /\ proc[c] = p /\ ReleaseSleepCall(c))

FairSpec == Spec /\ Fairness

-----------------------------------------------------------------------------
\* The types of the locks, of the processes and of each CPU; ncli of pushcli is at most 2.
TypeOK ==
  /\ lk \in Cpus \cup {NoCpu}
  /\ pt \in Cpus \cup {NoCpu}
  /\ locked \in BOOLEAN
  /\ pid \in Procs \cup {NoProc}
  /\ state \in [Procs -> {"RUNNABLE", "RUNNING", "SLEEPING"}]
  /\ chan \in [Procs -> BOOLEAN]
  /\ pc \in [Procs -> Points]
  /\ ret \in [Procs -> Open]
  /\ saved \in [Procs -> BOOLEAN]
  /\ cpu \in [Cpus -> [ncli : 0..2, intena : BOOLEAN, intr : BOOLEAN]]
  /\ proc \in [Cpus -> Procs \cup {NoProc}]
  /\ spc \in [Cpus -> {"top", "spin", "scan"}]
  /\ panicked \in BOOLEAN

\* The code the process is in, a timer interrupt seen through.
At(p) == IF pc[p] \in {"y_spin", "y_sched", "y_ret"} THEN ret[p] ELSE pc[p]

\* The processes between acquiresleep and the end of their hold.
Owners == {p \in Procs : At(p) \in {"cs", "rs_spin", "rs_body"}}

-----------------------------------------------------------------------------
\* At most one process is between acquiresleep and releasesleep, and it is
\* the one the lock records, whoever was woken, killed or preempted meanwhile.
MutualExclusion ==
  /\ \A p, q \in Owners : p = q
  /\ \A p \in Owners : locked /\ pid = p

\* A process asleep on a free lock is about to be woken: the CPU that freed the
\* lock has not reached wakeup1 yet.  sleep() takes ptable.lock before it
\* lets lk go so that no wakeup falls between the test and the sleep.
NoLostWakeup ==
  (~locked /\ \E p \in Procs : state[p] = "SLEEPING")
     => \E q \in Procs : pc[q] \in {"wk_spin", "wk_body"}

\* None of the panics of acquire, release, popcli and sched is reached: no
\* second acquire by the holder, no sched with another spin lock held, with
\* interrupts on or in state RUNNING.
NoPanic == ~panicked

\* A CPU that holds a spin lock has interrupts off, so an interrupt handler
\* never spins for a lock that its own CPU holds; and kernel code that
\* ran with interrupts on finds them on again after sched() brought it back,
\* on whatever CPU (the intena that sched() saves).
InterruptDiscipline ==
  \A c \in Cpus :
    /\ c \in {lk, pt} => ~cpu[c].intr /\ cpu[c].ncli > 0
    /\ proc[c] \in Procs /\ pc[proc[c]] \in Open => cpu[c].intr /\ cpu[c].ncli = 0

\* A process runs on one CPU at most, and is RUNNING exactly while it has one.
OneCpuPerProcess ==
  /\ \A c, d \in Cpus : proc[c] = proc[d] /\ proc[c] # NoProc => c = d
  /\ \A p \in Procs : state[p] = "RUNNING" <=> \E c \in Cpus : proc[c] = p

\* A sleeper does not sleep for ever as long as owners release.
SleeperRuns == \A p \in Procs : state[p] = "SLEEPING" ~> state[p] = "RUNNING"

\* The sleep lock implements a mutex: taken only when free, given up only by
\* its owner.
AbstractLock == INSTANCE Mutex WITH owner <- pid
ImplementsMutex == AbstractLock!Spec
=============================================================================
