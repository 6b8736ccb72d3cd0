-------------------------- MODULE SleepLockProofs --------------------------
(***************************************************************************)
(* The safety properties of SleepLock for any set of processes and CPUs.   *)
(***************************************************************************)
EXTENDS SleepLock, TLAPS

HoldsLk == {"as_test", "sl_spin", "sl_rel", "rs_body", "wk_spin", "wk_body",
            "rs_rel"}
HoldsPt == {"sl_rel", "sl_sched", "sl_ret", "wk_body", "y_sched", "y_ret",
            "forkret"}
Nested  == {"sl_spin", "sl_rel", "wk_spin", "wk_body"}
OffCpu  == {"sl_ret", "y_ret", "forkret"}
InTrap  == {"y_spin", "y_sched", "y_ret"}
Freed   == {"wk_spin", "wk_body"}

\* What a CPU looks like while process p runs on it.
BusyInv(c, p) ==
  /\ cpu[c].ncli = IF pc[p] \in Open THEN 0 ELSE IF pc[p] \in Nested THEN 2 ELSE 1
  /\ cpu[c].intr <=> pc[p] \in Open
  /\ pc[p] \notin Open \cup InTrap \cup OffCpu => cpu[c].intena
  /\ lk = c <=> pc[p] \in HoldsLk
  /\ pt = c <=> pc[p] \in HoldsPt

\* What it looks like in its scheduler loop.
IdleInv(c) ==
  /\ lk # c
  /\ pt = c <=> spc[c] = "scan"
  /\ cpu[c].ncli = IF spc[c] = "top" THEN 0 ELSE 1
  /\ spc[c] # "top" => ~cpu[c].intr

CpuInv ==
  \A c \in Cpus :
    /\ proc[c] \in Procs => BusyInv(c, proc[c])
    /\ proc[c] = NoProc => IdleInv(c)

ProcInv ==
  \A p \in Procs :
    /\ (\A c \in Cpus : proc[c] # p) => pc[p] \in OffCpu
    /\ pc[p] = "sl_ret" => chan[p] /\ saved[p]
    /\ state[p] = "SLEEPING" => pc[p] = "sl_ret"

OwnerInv ==
  /\ ~locked => pid = NoProc
  /\ locked => pid \in Procs
  /\ \A p \in Procs : p \in Owners <=> pid = p

WaitInv ==
  \A p \in Procs :
    /\ pc[p] \in {"sl_spin", "sl_rel"} => locked
    /\ pc[p] = "sl_sched" \/ state[p] = "SLEEPING"
         => locked \/ \E q \in Procs : pc[q] \in Freed

IInv ==
  /\ TypeOK
  /\ NoPanic
  /\ OneCpuPerProcess
  /\ CpuInv
  /\ ProcInv
  /\ OwnerInv
  /\ WaitInv

\* pushcli on an interrupt flag just set keeps a CPU record a CPU record.
LEMMA PushcliSetIF ==
  ASSUME NEW u \in [ncli : 0..2, intena : BOOLEAN, intr : BOOLEAN], u.ncli < 2,
         NEW b \in BOOLEAN
  PROVE  pushcli(SetIF(u, b)) \in [ncli : 0..2, intena : BOOLEAN, intr : BOOLEAN]
<1>1. /\ SetIF(u, b).ncli = u.ncli
      /\ SetIF(u, b).intena = u.intena
      /\ SetIF(u, b).intr = b
  BY DEF SetIF
<1>2. IF u.ncli = 0 THEN b \in BOOLEAN ELSE u.intena \in BOOLEAN
  OBVIOUS
<1>3. u.ncli + 1 \in 0..2
  OBVIOUS
<1> QED BY <1>1, <1>2, <1>3 DEF pushcli

\* The invariant survives acquiresleep turning interrupts off and starting to spin for lk.
LEMMA AcquireSleepCallInv ==
  ASSUME IInv, NEW c \in Cpus, AcquireSleepCall(c)
  PROVE  IInv'
<1> USE NoProcAssumption, NoCpuAssumption
<1> USE DEF IInv, AcquireSleepCall, Goto, lockVars, procVars, cpuVars, BeginAcquire
<1>1. TypeOK'
  BY DEF TypeOK, Points, Open, CpuInv, BusyInv, IdleInv, Nested, pushcli,
       popcli, SetIF
<1>2. NoPanic'
  BY DEF TypeOK, NoPanic, CpuInv, BusyInv, IdleInv, HoldsLk, HoldsPt,
       Nested, Open, PopcliOK
<1>3. OneCpuPerProcess'
  BY DEF TypeOK, OneCpuPerProcess
<1>4. CpuInv'
  BY DEF TypeOK, OneCpuPerProcess, ProcInv, CpuInv, BusyInv, IdleInv,
       HoldsLk, HoldsPt, Nested, Open, OffCpu, InTrap, pushcli, popcli, SetIF,
       Points
<1>5. ProcInv'
  BY DEF TypeOK, ProcInv, OneCpuPerProcess, OffCpu, CpuInv, BusyInv, Open,
       InTrap
<1>6. OwnerInv'
  BY DEF TypeOK, OwnerInv, Owners, At, Open, Points
<1>7. WaitInv'
  BY DEF TypeOK, WaitInv, Freed, CpuInv, BusyInv, HoldsLk, HoldsPt,
       ProcInv, OffCpu
<1> QED BY <1>1, <1>2, <1>3, <1>4, <1>5, <1>6, <1>7

\* The invariant survives acquiresleep's xchg on lk succeeding.
LEMMA AcquireSleepLkInv ==
  ASSUME IInv, NEW c \in Cpus, AcquireSleepLk(c)
  PROVE  IInv'
<1> USE NoProcAssumption, NoCpuAssumption
<1> USE DEF IInv, AcquireSleepLk, Goto, lockVars, procVars, cpuVars
<1>1. TypeOK'
  BY DEF TypeOK, Points, Open, CpuInv, BusyInv, IdleInv, Nested, pushcli,
       popcli, SetIF
<1>2. NoPanic'
  BY DEF TypeOK, NoPanic, CpuInv, BusyInv, IdleInv, HoldsLk, HoldsPt,
       Nested, Open, PopcliOK
<1>3. OneCpuPerProcess'
  BY DEF TypeOK, OneCpuPerProcess
<1>4. CpuInv'
  BY DEF TypeOK, OneCpuPerProcess, ProcInv, CpuInv, BusyInv, IdleInv,
       HoldsLk, HoldsPt, Nested, Open, OffCpu, InTrap, pushcli, popcli, SetIF,
       Points
<1>5. ProcInv'
  BY DEF TypeOK, ProcInv, OneCpuPerProcess, OffCpu, CpuInv, BusyInv, Open,
       InTrap
<1>6. OwnerInv'
  BY DEF TypeOK, OwnerInv, Owners, At, Open, Points
<1>7. WaitInv'
  BY DEF TypeOK, WaitInv, Freed, CpuInv, BusyInv, HoldsLk, HoldsPt,
       ProcInv, OffCpu
<1> QED BY <1>1, <1>2, <1>3, <1>4, <1>5, <1>6, <1>7

\* The invariant survives acquiresleep taking the free sleep lock.
LEMMA AcquireSleepTakeInv ==
  ASSUME IInv, NEW c \in Cpus, AcquireSleepTake(c)
  PROVE  IInv'
<1> USE NoProcAssumption, NoCpuAssumption
<1> USE DEF IInv, AcquireSleepTake, Goto, lockVars, procVars, cpuVars, EndHolding
<1>1. TypeOK'
  BY DEF TypeOK, Points, Open, CpuInv, BusyInv, IdleInv, Nested, pushcli,
       popcli, SetIF
<1>2. NoPanic'
  BY DEF TypeOK, NoPanic, CpuInv, BusyInv, IdleInv, HoldsLk, HoldsPt,
       Nested, Open, PopcliOK
<1>3. OneCpuPerProcess'
  BY DEF TypeOK, OneCpuPerProcess
<1>4. CpuInv'
  BY DEF TypeOK, OneCpuPerProcess, ProcInv, CpuInv, BusyInv, IdleInv,
       HoldsLk, HoldsPt, Nested, Open, OffCpu, InTrap, pushcli, popcli, SetIF,
       Points
<1>5. ProcInv'
  BY DEF TypeOK, ProcInv, OneCpuPerProcess, OffCpu, CpuInv, BusyInv, Open,
       InTrap
<1>6. OwnerInv'
  BY DEF TypeOK, OwnerInv, Owners, At, Open, Points
<1>7. WaitInv'
  BY DEF TypeOK, WaitInv, Freed, CpuInv, BusyInv, HoldsLk, HoldsPt,
       ProcInv, OffCpu
<1> QED BY <1>1, <1>2, <1>3, <1>4, <1>5, <1>6, <1>7

\* The invariant survives acquiresleep finding the lock taken and calling sleep.
LEMMA AcquireSleepWaitInv ==
  ASSUME IInv, NEW c \in Cpus, AcquireSleepWait(c)
  PROVE  IInv'
<1> USE NoProcAssumption, NoCpuAssumption
<1> USE DEF IInv, AcquireSleepWait, Goto, lockVars, procVars, cpuVars, BeginAcquire
<1>1. TypeOK'
  BY DEF TypeOK, Points, Open, CpuInv, BusyInv, IdleInv, Nested, pushcli,
       popcli, SetIF
<1>2. NoPanic'
  BY DEF TypeOK, NoPanic, CpuInv, BusyInv, IdleInv, HoldsLk, HoldsPt,
       Nested, Open, PopcliOK
<1>3. OneCpuPerProcess'
  BY DEF TypeOK, OneCpuPerProcess
<1>4. CpuInv'
  BY DEF TypeOK, OneCpuPerProcess, ProcInv, CpuInv, BusyInv, IdleInv,
       HoldsLk, HoldsPt, Nested, Open, OffCpu, InTrap, pushcli, popcli, SetIF,
       Points
<1>5. ProcInv'
  BY DEF TypeOK, ProcInv, OneCpuPerProcess, OffCpu, CpuInv, BusyInv, Open,
       InTrap
<1>6. OwnerInv'
  BY DEF TypeOK, OwnerInv, Owners, At, Open, Points
<1>7. WaitInv'
  BY DEF TypeOK, WaitInv, Freed, CpuInv, BusyInv, HoldsLk, HoldsPt,
       ProcInv, OffCpu
<1> QED BY <1>1, <1>2, <1>3, <1>4, <1>5, <1>6, <1>7

\* The invariant survives sleep taking ptable.lock while it still holds lk.
LEMMA SleepPtInv ==
  ASSUME IInv, NEW c \in Cpus, SleepPt(c)
  PROVE  IInv'
<1> USE NoProcAssumption, NoCpuAssumption
<1> USE DEF IInv, SleepPt, Goto, lockVars, procVars, cpuVars
<1>1. TypeOK'
  BY DEF TypeOK, Points, Open, CpuInv, BusyInv, IdleInv, Nested, pushcli,
       popcli, SetIF
<1>2. NoPanic'
  BY DEF TypeOK, NoPanic, CpuInv, BusyInv, IdleInv, HoldsLk, HoldsPt,
       Nested, Open, PopcliOK
<1>3. OneCpuPerProcess'
  BY DEF TypeOK, OneCpuPerProcess
<1>4. CpuInv'
  BY DEF TypeOK, OneCpuPerProcess, ProcInv, CpuInv, BusyInv, IdleInv,
       HoldsLk, HoldsPt, Nested, Open, OffCpu, InTrap, pushcli, popcli, SetIF,
       Points
<1>5. ProcInv'
  BY DEF TypeOK, ProcInv, OneCpuPerProcess, OffCpu, CpuInv, BusyInv, Open,
       InTrap
<1>6. OwnerInv'
  BY DEF TypeOK, OwnerInv, Owners, At, Open, Points
<1>7. WaitInv'
  BY DEF TypeOK, WaitInv, Freed, CpuInv, BusyInv, HoldsLk, HoldsPt,
       ProcInv, OffCpu
<1> QED BY <1>1, <1>2, <1>3, <1>4, <1>5, <1>6, <1>7

\* The invariant survives sleep releasing lk under ptable.lock.
LEMMA SleepReleaseLkInv ==
  ASSUME IInv, NEW c \in Cpus, SleepReleaseLk(c)
  PROVE  IInv'
<1> USE NoProcAssumption, NoCpuAssumption
<1> USE DEF IInv, SleepReleaseLk, Goto, lockVars, procVars, cpuVars, EndHolding
<1>1. TypeOK'
  BY DEF TypeOK, Points, Open, CpuInv, BusyInv, IdleInv, Nested, pushcli,
       popcli, SetIF
<1>2. NoPanic'
  BY DEF TypeOK, NoPanic, CpuInv, BusyInv, IdleInv, HoldsLk, HoldsPt,
       Nested, Open, PopcliOK
<1>3. OneCpuPerProcess'
  BY DEF TypeOK, OneCpuPerProcess
<1>4. CpuInv'
  BY DEF TypeOK, OneCpuPerProcess, ProcInv, CpuInv, BusyInv, IdleInv,
       HoldsLk, HoldsPt, Nested, Open, OffCpu, InTrap, pushcli, popcli, SetIF,
       Points
<1>5. ProcInv'
  BY DEF TypeOK, ProcInv, OneCpuPerProcess, OffCpu, CpuInv, BusyInv, Open,
       InTrap
<1>6. OwnerInv'
  BY DEF TypeOK, OwnerInv, Owners, At, Open, Points
<1>7. WaitInv'
  BY DEF TypeOK, WaitInv, Freed, CpuInv, BusyInv, HoldsLk, HoldsPt,
       ProcInv, OffCpu
<1> QED BY <1>1, <1>2, <1>3, <1>4, <1>5, <1>6, <1>7

\* The invariant survives sleep marking the process SLEEPING and giving up the CPU.
LEMMA SleepSchedInv ==
  ASSUME IInv, NEW c \in Cpus, SleepSched(c)
  PROVE  IInv'
<1> USE NoProcAssumption, NoCpuAssumption
<1> USE DEF IInv, SleepSched, Goto, lockVars, procVars, cpuVars, Sched
<1>1. TypeOK'
  BY DEF TypeOK, Points, Open, CpuInv, BusyInv, IdleInv, Nested, pushcli,
       popcli, SetIF
<1>2. NoPanic'
  BY DEF TypeOK, NoPanic, CpuInv, BusyInv, IdleInv, HoldsLk, HoldsPt,
       Nested, Open, PopcliOK
<1>3. OneCpuPerProcess'
  BY DEF TypeOK, OneCpuPerProcess
<1>4. CpuInv'
  BY DEF TypeOK, OneCpuPerProcess, ProcInv, CpuInv, BusyInv, IdleInv,
       HoldsLk, HoldsPt, Nested, Open, OffCpu, InTrap, pushcli, popcli, SetIF,
       Points
<1>5. ProcInv'
  BY DEF TypeOK, ProcInv, OneCpuPerProcess, OffCpu, CpuInv, BusyInv, Open,
       InTrap
<1>6. OwnerInv'
  BY DEF TypeOK, OwnerInv, Owners, At, Open, Points
<1>7. WaitInv'
  BY DEF TypeOK, WaitInv, Freed, CpuInv, BusyInv, HoldsLk, HoldsPt,
       ProcInv, OffCpu
<1> QED BY <1>1, <1>2, <1>3, <1>4, <1>5, <1>6, <1>7

\* The invariant survives a woken process coming back from sched in sleep.
LEMMA SleepReturnInv ==
  ASSUME IInv, NEW c \in Cpus, SleepReturn(c)
  PROVE  IInv'
<1> USE NoProcAssumption, NoCpuAssumption
<1> USE DEF IInv, SleepReturn, Goto, lockVars, procVars, cpuVars, SchedReturn
<1>1. TypeOK'
  BY DEF TypeOK, Points, Open, CpuInv, BusyInv, IdleInv, Nested, pushcli,
       popcli, SetIF
<1>2. NoPanic'
  BY DEF TypeOK, NoPanic, CpuInv, BusyInv, IdleInv, HoldsLk, HoldsPt,
       Nested, Open, PopcliOK
<1>3. OneCpuPerProcess'
  BY DEF TypeOK, OneCpuPerProcess
<1>4. CpuInv'
  BY DEF TypeOK, OneCpuPerProcess, ProcInv, CpuInv, BusyInv, IdleInv,
       HoldsLk, HoldsPt, Nested, Open, OffCpu, InTrap, pushcli, popcli, SetIF,
       Points
<1>5. ProcInv'
  BY DEF TypeOK, ProcInv, OneCpuPerProcess, OffCpu, CpuInv, BusyInv, Open,
       InTrap
<1>6. OwnerInv'
  BY DEF TypeOK, OwnerInv, Owners, At, Open, Points
<1>7. WaitInv'
  BY DEF TypeOK, WaitInv, Freed, CpuInv, BusyInv, HoldsLk, HoldsPt,
       ProcInv, OffCpu
<1> QED BY <1>1, <1>2, <1>3, <1>4, <1>5, <1>6, <1>7

\* The invariant survives releasesleep starting to spin for lk.
LEMMA ReleaseSleepCallInv ==
  ASSUME IInv, NEW c \in Cpus, ReleaseSleepCall(c)
  PROVE  IInv'
<1> USE NoProcAssumption, NoCpuAssumption
<1> USE DEF IInv, ReleaseSleepCall, Goto, lockVars, procVars, cpuVars, BeginAcquire
<1>1. TypeOK'
  BY DEF TypeOK, Points, Open, CpuInv, BusyInv, IdleInv, Nested, pushcli,
       popcli, SetIF
<1>2. NoPanic'
  BY DEF TypeOK, NoPanic, CpuInv, BusyInv, IdleInv, HoldsLk, HoldsPt,
       Nested, Open, PopcliOK
<1>3. OneCpuPerProcess'
  BY DEF TypeOK, OneCpuPerProcess
<1>4. CpuInv'
  BY DEF TypeOK, OneCpuPerProcess, ProcInv, CpuInv, BusyInv, IdleInv,
       HoldsLk, HoldsPt, Nested, Open, OffCpu, InTrap, pushcli, popcli, SetIF,
       Points
<1>5. ProcInv'
  BY DEF TypeOK, ProcInv, OneCpuPerProcess, OffCpu, CpuInv, BusyInv, Open,
       InTrap
<1>6. OwnerInv'
  BY DEF TypeOK, OwnerInv, Owners, At, Open, Points
<1>7. WaitInv'
  BY DEF TypeOK, WaitInv, Freed, CpuInv, BusyInv, HoldsLk, HoldsPt,
       ProcInv, OffCpu
<1> QED BY <1>1, <1>2, <1>3, <1>4, <1>5, <1>6, <1>7

\* The invariant survives releasesleep's xchg on lk succeeding.
LEMMA ReleaseSleepLkInv ==
  ASSUME IInv, NEW c \in Cpus, ReleaseSleepLk(c)
  PROVE  IInv'
<1> USE NoProcAssumption, NoCpuAssumption
<1> USE DEF IInv, ReleaseSleepLk, Goto, lockVars, procVars, cpuVars
<1>1. TypeOK'
  BY DEF TypeOK, Points, Open, CpuInv, BusyInv, IdleInv, Nested, pushcli,
       popcli, SetIF
<1>2. NoPanic'
  BY DEF TypeOK, NoPanic, CpuInv, BusyInv, IdleInv, HoldsLk, HoldsPt,
       Nested, Open, PopcliOK
<1>3. OneCpuPerProcess'
  BY DEF TypeOK, OneCpuPerProcess
<1>4. CpuInv'
  BY DEF TypeOK, OneCpuPerProcess, ProcInv, CpuInv, BusyInv, IdleInv,
       HoldsLk, HoldsPt, Nested, Open, OffCpu, InTrap, pushcli, popcli, SetIF,
       Points
<1>5. ProcInv'
  BY DEF TypeOK, ProcInv, OneCpuPerProcess, OffCpu, CpuInv, BusyInv, Open,
       InTrap
<1>6. OwnerInv'
  BY DEF TypeOK, OwnerInv, Owners, At, Open, Points
<1>7. WaitInv'
  BY DEF TypeOK, WaitInv, Freed, CpuInv, BusyInv, HoldsLk, HoldsPt,
       ProcInv, OffCpu
<1> QED BY <1>1, <1>2, <1>3, <1>4, <1>5, <1>6, <1>7

\* The invariant survives releasesleep freeing the lock and calling wakeup.
LEMMA ReleaseSleepFreeInv ==
  ASSUME IInv, NEW c \in Cpus, ReleaseSleepFree(c)
  PROVE  IInv'
<1> USE NoProcAssumption, NoCpuAssumption
<1> USE DEF IInv, ReleaseSleepFree, Goto, lockVars, procVars, cpuVars, BeginAcquire
<1>1. TypeOK'
  <2>1. cpu[c].ncli < 2
    BY DEF TypeOK, CpuInv, BusyInv, Open, Nested
  <2>2. cpu' \in [Cpus -> [ncli : 0..2, intena : BOOLEAN, intr : BOOLEAN]]
    BY <2>1 DEF TypeOK, pushcli, SetIF
  <2> QED BY <2>2 DEF TypeOK, Points, Open
<1>2. NoPanic'
  BY DEF TypeOK, NoPanic, CpuInv, BusyInv, IdleInv, HoldsLk, HoldsPt,
       Nested, Open, PopcliOK
<1>3. OneCpuPerProcess'
  BY DEF TypeOK, OneCpuPerProcess
<1>4. CpuInv'
  BY DEF TypeOK, OneCpuPerProcess, ProcInv, CpuInv, BusyInv, IdleInv,
       HoldsLk, HoldsPt, Nested, Open, OffCpu, InTrap, pushcli, popcli, SetIF,
       Points
<1>5. ProcInv'
  BY DEF TypeOK, ProcInv, OneCpuPerProcess, OffCpu, CpuInv, BusyInv, Open,
       InTrap
<1>6. OwnerInv'
  BY DEF TypeOK, OwnerInv, Owners, At, Open, Points
<1>7. WaitInv'
  BY DEF TypeOK, WaitInv, Freed, CpuInv, BusyInv, HoldsLk, HoldsPt,
       ProcInv, OffCpu
<1> QED BY <1>1, <1>2, <1>3, <1>4, <1>5, <1>6, <1>7

\* The invariant survives wakeup's xchg on ptable.lock succeeding.
LEMMA WakeupPtInv ==
  ASSUME IInv, NEW c \in Cpus, WakeupPt(c)
  PROVE  IInv'
<1> USE NoProcAssumption, NoCpuAssumption
<1> USE DEF IInv, WakeupPt, Goto, lockVars, procVars, cpuVars
<1>1. TypeOK'
  BY DEF TypeOK, Points, Open, CpuInv, BusyInv, IdleInv, Nested, pushcli,
       popcli, SetIF
<1>2. NoPanic'
  BY DEF TypeOK, NoPanic, CpuInv, BusyInv, IdleInv, HoldsLk, HoldsPt,
       Nested, Open, PopcliOK
<1>3. OneCpuPerProcess'
  BY DEF TypeOK, OneCpuPerProcess
<1>4. CpuInv'
  BY DEF TypeOK, OneCpuPerProcess, ProcInv, CpuInv, BusyInv, IdleInv,
       HoldsLk, HoldsPt, Nested, Open, OffCpu, InTrap, pushcli, popcli, SetIF,
       Points
<1>5. ProcInv'
  BY DEF TypeOK, ProcInv, OneCpuPerProcess, OffCpu, CpuInv, BusyInv, Open,
       InTrap
<1>6. OwnerInv'
  BY DEF TypeOK, OwnerInv, Owners, At, Open, Points
<1>7. WaitInv'
  BY DEF TypeOK, WaitInv, Freed, CpuInv, BusyInv, HoldsLk, HoldsPt,
       ProcInv, OffCpu
<1> QED BY <1>1, <1>2, <1>3, <1>4, <1>5, <1>6, <1>7

\* The invariant survives wakeup1 making every sleeper RUNNABLE.
LEMMA WakeupInv ==
  ASSUME IInv, NEW c \in Cpus, Wakeup(c)
  PROVE  IInv'
<1> USE NoProcAssumption, NoCpuAssumption
<1> USE DEF IInv, Wakeup, Goto, lockVars, procVars, cpuVars, EndHolding, wakeup1
<1>1. TypeOK'
  BY DEF TypeOK, Points, Open, CpuInv, BusyInv, IdleInv, Nested, pushcli,
       popcli, SetIF
<1>2. NoPanic'
  BY DEF TypeOK, NoPanic, CpuInv, BusyInv, IdleInv, HoldsLk, HoldsPt,
       Nested, Open, PopcliOK
<1>3. OneCpuPerProcess'
  BY DEF TypeOK, OneCpuPerProcess
<1>4. CpuInv'
  BY DEF TypeOK, OneCpuPerProcess, ProcInv, CpuInv, BusyInv, IdleInv,
       HoldsLk, HoldsPt, Nested, Open, OffCpu, InTrap, pushcli, popcli, SetIF,
       Points
<1>5. ProcInv'
  BY DEF TypeOK, ProcInv, OneCpuPerProcess, OffCpu, CpuInv, BusyInv, Open,
       InTrap
<1>6. OwnerInv'
  BY DEF TypeOK, OwnerInv, Owners, At, Open, Points
<1>7. WaitInv'
  BY DEF TypeOK, WaitInv, Freed, CpuInv, BusyInv, HoldsLk, HoldsPt,
       ProcInv, OffCpu
<1> QED BY <1>1, <1>2, <1>3, <1>4, <1>5, <1>6, <1>7

\* The invariant survives releasesleep releasing lk.
LEMMA ReleaseSleepDoneInv ==
  ASSUME IInv, NEW c \in Cpus, ReleaseSleepDone(c)
  PROVE  IInv'
<1> USE NoProcAssumption, NoCpuAssumption
<1> USE DEF IInv, ReleaseSleepDone, Goto, lockVars, procVars, cpuVars, EndHolding
<1>1. TypeOK'
  BY DEF TypeOK, Points, Open, CpuInv, BusyInv, IdleInv, Nested, pushcli,
       popcli, SetIF
<1>2. NoPanic'
  BY DEF TypeOK, NoPanic, CpuInv, BusyInv, IdleInv, HoldsLk, HoldsPt,
       Nested, Open, PopcliOK
<1>3. OneCpuPerProcess'
  BY DEF TypeOK, OneCpuPerProcess
<1>4. CpuInv'
  BY DEF TypeOK, OneCpuPerProcess, ProcInv, CpuInv, BusyInv, IdleInv,
       HoldsLk, HoldsPt, Nested, Open, OffCpu, InTrap, pushcli, popcli, SetIF,
       Points
<1>5. ProcInv'
  BY DEF TypeOK, ProcInv, OneCpuPerProcess, OffCpu, CpuInv, BusyInv, Open,
       InTrap
<1>6. OwnerInv'
  BY DEF TypeOK, OwnerInv, Owners, At, Open, Points
<1>7. WaitInv'
  BY DEF TypeOK, WaitInv, Freed, CpuInv, BusyInv, HoldsLk, HoldsPt,
       ProcInv, OffCpu
<1> QED BY <1>1, <1>2, <1>3, <1>4, <1>5, <1>6, <1>7

\* The invariant survives kill starting to spin for ptable.lock.
LEMMA KillCallInv ==
  ASSUME IInv, NEW c \in Cpus, KillCall(c)
  PROVE  IInv'
<1> USE NoProcAssumption, NoCpuAssumption
<1> USE DEF IInv, KillCall, Goto, lockVars, procVars, cpuVars, BeginAcquire
<1>1. TypeOK'
  BY DEF TypeOK, Points, Open, CpuInv, BusyInv, IdleInv, Nested, pushcli,
       popcli, SetIF
<1>2. NoPanic'
  BY DEF TypeOK, NoPanic, CpuInv, BusyInv, IdleInv, HoldsLk, HoldsPt,
       Nested, Open, PopcliOK
<1>3. OneCpuPerProcess'
  BY DEF TypeOK, OneCpuPerProcess
<1>4. CpuInv'
  BY DEF TypeOK, OneCpuPerProcess, ProcInv, CpuInv, BusyInv, IdleInv,
       HoldsLk, HoldsPt, Nested, Open, OffCpu, InTrap, pushcli, popcli, SetIF,
       Points
<1>5. ProcInv'
  BY DEF TypeOK, ProcInv, OneCpuPerProcess, OffCpu, CpuInv, BusyInv, Open,
       InTrap
<1>6. OwnerInv'
  BY DEF TypeOK, OwnerInv, Owners, At, Open, Points
<1>7. WaitInv'
  BY DEF TypeOK, WaitInv, Freed, CpuInv, BusyInv, HoldsLk, HoldsPt,
       ProcInv, OffCpu
<1> QED BY <1>1, <1>2, <1>3, <1>4, <1>5, <1>6, <1>7

\* The invariant survives the timer interrupt calling yield.
LEMMA TimerTrapInv ==
  ASSUME IInv, NEW c \in Cpus, TimerTrap(c)
  PROVE  IInv'
<1> USE NoProcAssumption, NoCpuAssumption
<1> USE DEF IInv, TimerTrap, Goto, lockVars, procVars, cpuVars
<1>1. TypeOK'
  <2>1. cpu[c].ncli < 2
    BY DEF TypeOK, CpuInv, BusyInv, Open
  <2>2. cpu' \in [Cpus -> [ncli : 0..2, intena : BOOLEAN, intr : BOOLEAN]]
    BY <2>1, PushcliSetIF DEF TypeOK
  <2> QED BY <2>2 DEF TypeOK, Points, Open
<1>2. NoPanic'
  BY DEF TypeOK, NoPanic, CpuInv, BusyInv, IdleInv, HoldsLk, HoldsPt,
       Nested, Open, PopcliOK
<1>3. OneCpuPerProcess'
  BY DEF TypeOK, OneCpuPerProcess
<1>4. CpuInv'
  BY DEF TypeOK, OneCpuPerProcess, ProcInv, CpuInv, BusyInv, IdleInv,
       HoldsLk, HoldsPt, Nested, Open, OffCpu, InTrap, pushcli, popcli, SetIF,
       Points
<1>5. ProcInv'
  BY DEF TypeOK, ProcInv, OneCpuPerProcess, OffCpu, CpuInv, BusyInv, Open,
       InTrap
<1>6. OwnerInv'
  BY DEF TypeOK, OwnerInv, Owners, At, Open, Points
<1>7. WaitInv'
  BY DEF TypeOK, WaitInv, Freed, Open, CpuInv, BusyInv, HoldsLk, HoldsPt,
       ProcInv, OffCpu
<1> QED BY <1>1, <1>2, <1>3, <1>4, <1>5, <1>6, <1>7

\* The invariant survives yield taking ptable.lock.
LEMMA YieldPtInv ==
  ASSUME IInv, NEW c \in Cpus, YieldPt(c)
  PROVE  IInv'
<1> USE NoProcAssumption, NoCpuAssumption
<1> USE DEF IInv, YieldPt, Goto, lockVars, procVars, cpuVars
<1>1. TypeOK'
  BY DEF TypeOK, Points, Open, CpuInv, BusyInv, IdleInv, Nested, pushcli,
       popcli, SetIF
<1>2. NoPanic'
  BY DEF TypeOK, NoPanic, CpuInv, BusyInv, IdleInv, HoldsLk, HoldsPt,
       Nested, Open, PopcliOK
<1>3. OneCpuPerProcess'
  BY DEF TypeOK, OneCpuPerProcess
<1>4. CpuInv'
  BY DEF TypeOK, OneCpuPerProcess, ProcInv, CpuInv, BusyInv, IdleInv,
       HoldsLk, HoldsPt, Nested, Open, OffCpu, InTrap, pushcli, popcli, SetIF,
       Points
<1>5. ProcInv'
  BY DEF TypeOK, ProcInv, OneCpuPerProcess, OffCpu, CpuInv, BusyInv, Open,
       InTrap
<1>6. OwnerInv'
  BY DEF TypeOK, OwnerInv, Owners, At, Open, Points
<1>7. WaitInv'
  BY DEF TypeOK, WaitInv, Freed, CpuInv, BusyInv, HoldsLk, HoldsPt,
       ProcInv, OffCpu
<1> QED BY <1>1, <1>2, <1>3, <1>4, <1>5, <1>6, <1>7

\* The invariant survives yield giving up the CPU.
LEMMA YieldSchedInv ==
  ASSUME IInv, NEW c \in Cpus, YieldSched(c)
  PROVE  IInv'
<1> USE NoProcAssumption, NoCpuAssumption
<1> USE DEF IInv, YieldSched, Goto, lockVars, procVars, cpuVars, Sched
<1>1. TypeOK'
  BY DEF TypeOK, Points, Open, CpuInv, BusyInv, IdleInv, Nested, pushcli,
       popcli, SetIF
<1>2. NoPanic'
  BY DEF TypeOK, NoPanic, CpuInv, BusyInv, IdleInv, HoldsLk, HoldsPt,
       Nested, Open, PopcliOK
<1>3. OneCpuPerProcess'
  BY DEF TypeOK, OneCpuPerProcess
<1>4. CpuInv'
  BY DEF TypeOK, OneCpuPerProcess, ProcInv, CpuInv, BusyInv, IdleInv,
       HoldsLk, HoldsPt, Nested, Open, OffCpu, InTrap, pushcli, popcli, SetIF,
       Points
<1>5. ProcInv'
  BY DEF TypeOK, ProcInv, OneCpuPerProcess, OffCpu, CpuInv, BusyInv, Open,
       InTrap
<1>6. OwnerInv'
  BY DEF TypeOK, OwnerInv, Owners, At, Open, Points
<1>7. WaitInv'
  BY DEF TypeOK, WaitInv, Freed, CpuInv, BusyInv, HoldsLk, HoldsPt,
       ProcInv, OffCpu
<1> QED BY <1>1, <1>2, <1>3, <1>4, <1>5, <1>6, <1>7

\* The invariant survives a preempted process coming back from sched in yield.
LEMMA YieldReturnInv ==
  ASSUME IInv, NEW c \in Cpus, YieldReturn(c)
  PROVE  IInv'
<1> USE NoProcAssumption, NoCpuAssumption
<1> USE DEF IInv, YieldReturn, Goto, lockVars, procVars, cpuVars, SchedReturn
<1>1. TypeOK'
  BY DEF TypeOK, Points, Open, CpuInv, BusyInv, IdleInv, Nested, pushcli,
       popcli, SetIF
<1>2. NoPanic'
  BY DEF TypeOK, NoPanic, CpuInv, BusyInv, IdleInv, HoldsLk, HoldsPt,
       Nested, Open, PopcliOK
<1>3. OneCpuPerProcess'
  BY DEF TypeOK, OneCpuPerProcess
<1>4. CpuInv'
  BY DEF TypeOK, OneCpuPerProcess, ProcInv, CpuInv, BusyInv, IdleInv,
       HoldsLk, HoldsPt, Nested, Open, OffCpu, InTrap, pushcli, popcli, SetIF,
       Points
<1>5. ProcInv'
  BY DEF TypeOK, ProcInv, OneCpuPerProcess, OffCpu, CpuInv, BusyInv, Open,
       InTrap
<1>6. OwnerInv'
  BY DEF TypeOK, OwnerInv, Owners, At, Open, Points
<1>7. WaitInv'
  BY DEF TypeOK, WaitInv, Freed, Open, CpuInv, BusyInv, HoldsLk, HoldsPt,
       ProcInv, OffCpu
<1> QED BY <1>1, <1>2, <1>3, <1>4, <1>5, <1>6, <1>7

\* The invariant survives the scheduler loop starting to spin for ptable.lock.
LEMMA SchedulerTopInv ==
  ASSUME IInv, NEW c \in Cpus, SchedulerTop(c)
  PROVE  IInv'
<1> USE NoProcAssumption, NoCpuAssumption
<1> USE DEF IInv, SchedulerTop, Goto, lockVars, procVars, cpuVars
<1>1. TypeOK'
  <2>1. cpu[c].ncli < 2
    BY DEF TypeOK, CpuInv, IdleInv
  <2>2. cpu' \in [Cpus -> [ncli : 0..2, intena : BOOLEAN, intr : BOOLEAN]]
    BY <2>1, PushcliSetIF DEF TypeOK
  <2> QED BY <2>2 DEF TypeOK, Points, Open
<1>2. NoPanic'
  BY DEF TypeOK, NoPanic, CpuInv, BusyInv, IdleInv, HoldsLk, HoldsPt,
       Nested, Open, PopcliOK
<1>3. OneCpuPerProcess'
  BY DEF TypeOK, OneCpuPerProcess
<1>4. CpuInv'
  BY DEF TypeOK, OneCpuPerProcess, ProcInv, CpuInv, BusyInv, IdleInv,
       HoldsLk, HoldsPt, Nested, Open, OffCpu, InTrap, pushcli, popcli, SetIF,
       Points
<1>5. ProcInv'
  BY DEF TypeOK, ProcInv, OneCpuPerProcess, OffCpu, CpuInv, BusyInv, Open,
       InTrap
<1>6. OwnerInv'
  BY DEF TypeOK, OwnerInv, Owners, At, Open, Points
<1>7. WaitInv'
  BY DEF TypeOK, WaitInv, Freed, CpuInv, BusyInv, HoldsLk, HoldsPt,
       ProcInv, OffCpu
<1> QED BY <1>1, <1>2, <1>3, <1>4, <1>5, <1>6, <1>7

\* The invariant survives the scheduler taking ptable.lock.
LEMMA SchedulerPtInv ==
  ASSUME IInv, NEW c \in Cpus, SchedulerPt(c)
  PROVE  IInv'
<1> USE NoProcAssumption, NoCpuAssumption
<1> USE DEF IInv, SchedulerPt, Goto, lockVars, procVars, cpuVars
<1>1. TypeOK'
  BY DEF TypeOK, Points, Open, CpuInv, BusyInv, IdleInv, Nested, pushcli,
       popcli, SetIF
<1>2. NoPanic'
  BY DEF TypeOK, NoPanic, CpuInv, BusyInv, IdleInv, HoldsLk, HoldsPt,
       Nested, Open, PopcliOK
<1>3. OneCpuPerProcess'
  BY DEF TypeOK, OneCpuPerProcess
<1>4. CpuInv'
  BY DEF TypeOK, OneCpuPerProcess, ProcInv, CpuInv, BusyInv, IdleInv,
       HoldsLk, HoldsPt, Nested, Open, OffCpu, InTrap, pushcli, popcli, SetIF,
       Points
<1>5. ProcInv'
  BY DEF TypeOK, ProcInv, OneCpuPerProcess, OffCpu, CpuInv, BusyInv, Open,
       InTrap
<1>6. OwnerInv'
  BY DEF TypeOK, OwnerInv, Owners, At, Open, Points
<1>7. WaitInv'
  BY DEF TypeOK, WaitInv, Freed, CpuInv, BusyInv, HoldsLk, HoldsPt,
       ProcInv, OffCpu
<1> QED BY <1>1, <1>2, <1>3, <1>4, <1>5, <1>6, <1>7

\* The invariant survives the scheduler releasing ptable.lock.
LEMMA SchedulerReleaseInv ==
  ASSUME IInv, NEW c \in Cpus, SchedulerRelease(c)
  PROVE  IInv'
<1> USE NoProcAssumption, NoCpuAssumption
<1> USE DEF IInv, SchedulerRelease, Goto, lockVars, procVars, cpuVars, EndHolding
<1>1. TypeOK'
  BY DEF TypeOK, Points, Open, CpuInv, BusyInv, IdleInv, Nested, pushcli,
       popcli, SetIF
<1>2. NoPanic'
  BY DEF TypeOK, NoPanic, CpuInv, BusyInv, IdleInv, HoldsLk, HoldsPt,
       Nested, Open, PopcliOK
<1>3. OneCpuPerProcess'
  BY DEF TypeOK, OneCpuPerProcess
<1>4. CpuInv'
  BY DEF TypeOK, OneCpuPerProcess, ProcInv, CpuInv, BusyInv, IdleInv,
       HoldsLk, HoldsPt, Nested, Open, OffCpu, InTrap, pushcli, popcli, SetIF,
       Points
<1>5. ProcInv'
  BY DEF TypeOK, ProcInv, OneCpuPerProcess, OffCpu, CpuInv, BusyInv, Open,
       InTrap
<1>6. OwnerInv'
  BY DEF TypeOK, OwnerInv, Owners, At, Open, Points
<1>7. WaitInv'
  BY DEF TypeOK, WaitInv, Freed, CpuInv, BusyInv, HoldsLk, HoldsPt,
       ProcInv, OffCpu
<1> QED BY <1>1, <1>2, <1>3, <1>4, <1>5, <1>6, <1>7

\* The invariant survives a new process releasing ptable.lock in forkret.
LEMMA ForkretInv ==
  ASSUME IInv, NEW c \in Cpus, Forkret(c)
  PROVE  IInv'
<1> USE NoProcAssumption, NoCpuAssumption
<1> USE DEF IInv, Forkret, Goto, lockVars, procVars, cpuVars
<1>1. TypeOK'
  BY DEF TypeOK, Points, Open, CpuInv, BusyInv, IdleInv, Nested, pushcli,
       popcli, SetIF
<1>2. NoPanic'
  BY DEF TypeOK, NoPanic, CpuInv, BusyInv, IdleInv, HoldsLk, HoldsPt,
       Nested, Open, PopcliOK
<1>3. OneCpuPerProcess'
  BY DEF TypeOK, OneCpuPerProcess
<1>4. CpuInv'
  BY DEF TypeOK, OneCpuPerProcess, ProcInv, CpuInv, BusyInv, IdleInv,
       HoldsLk, HoldsPt, Nested, Open, OffCpu, InTrap, pushcli, popcli, SetIF,
       Points
<1>5. ProcInv'
  BY DEF TypeOK, ProcInv, OneCpuPerProcess, OffCpu, CpuInv, BusyInv, Open,
       InTrap
<1>6. OwnerInv'
  BY DEF TypeOK, OwnerInv, Owners, At, Open, Points
<1>7. WaitInv'
  BY DEF TypeOK, WaitInv, Freed, CpuInv, BusyInv, HoldsLk, HoldsPt,
       ProcInv, OffCpu
<1> QED BY <1>1, <1>2, <1>3, <1>4, <1>5, <1>6, <1>7

\* The invariant survives kill making its victim RUNNABLE.
LEMMA KillInv ==
  ASSUME IInv, NEW c \in Cpus, NEW q \in Procs, Kill(c, q)
  PROVE  IInv'
<1> USE NoProcAssumption, NoCpuAssumption
<1> USE DEF IInv, Kill, Goto, lockVars, procVars, cpuVars
<1>1. TypeOK'
  BY DEF TypeOK, Points, Open, CpuInv, BusyInv, IdleInv, Nested, pushcli,
       popcli, SetIF
<1>2. NoPanic'
  BY DEF TypeOK, NoPanic, CpuInv, BusyInv, IdleInv, HoldsLk, HoldsPt,
       Nested, Open, PopcliOK
<1>3. OneCpuPerProcess'
  BY DEF TypeOK, OneCpuPerProcess
<1>4. CpuInv'
  BY DEF TypeOK, OneCpuPerProcess, ProcInv, CpuInv, BusyInv, IdleInv,
       HoldsLk, HoldsPt, Nested, Open, OffCpu, InTrap, pushcli, popcli, SetIF,
       Points
<1>5. ProcInv'
  BY DEF TypeOK, ProcInv, OneCpuPerProcess, OffCpu, CpuInv, BusyInv, Open,
       InTrap
<1>6. OwnerInv'
  BY DEF TypeOK, OwnerInv, Owners, At, Open, Points
<1>7. WaitInv'
  BY DEF TypeOK, WaitInv, Freed, CpuInv, BusyInv, HoldsLk, HoldsPt,
       ProcInv, OffCpu
<1> QED BY <1>1, <1>2, <1>3, <1>4, <1>5, <1>6, <1>7

\* The invariant survives the scheduler switching to a RUNNABLE process.
LEMMA DispatchInv ==
  ASSUME IInv, NEW c \in Cpus, NEW q \in Procs, Dispatch(c, q)
  PROVE  IInv'
<1> USE NoProcAssumption, NoCpuAssumption
<1> USE DEF IInv, Dispatch, Goto, lockVars, procVars, cpuVars
<1>1. TypeOK'
  BY DEF TypeOK, Points, Open, CpuInv, BusyInv, IdleInv, Nested, pushcli,
       popcli, SetIF
<1>2. NoPanic'
  BY DEF TypeOK, NoPanic, CpuInv, BusyInv, IdleInv, HoldsLk, HoldsPt,
       Nested, Open, PopcliOK
<1>3. OneCpuPerProcess'
  BY DEF TypeOK, OneCpuPerProcess
<1>4. CpuInv'
  BY DEF TypeOK, OneCpuPerProcess, ProcInv, CpuInv, BusyInv, IdleInv,
       HoldsLk, HoldsPt, Nested, Open, OffCpu, InTrap, pushcli, popcli, SetIF,
       Points
<1>5. ProcInv'
  BY DEF TypeOK, ProcInv, OneCpuPerProcess, OffCpu, CpuInv, BusyInv, Open,
       InTrap
<1>6. OwnerInv'
  BY DEF TypeOK, OwnerInv, Owners, At, Open, Points
<1>7. WaitInv'
  BY DEF TypeOK, WaitInv, Freed, CpuInv, BusyInv, HoldsLk, HoldsPt,
       ProcInv, OffCpu
<1> QED BY <1>1, <1>2, <1>3, <1>4, <1>5, <1>6, <1>7

-----------------------------------------------------------------------------
\* The machine starts with every CPU in its scheduler loop and every process
\* waiting for its first run, which satisfies the invariant.
LEMMA InitInv == Init => IInv
<1> SUFFICES ASSUME Init PROVE IInv
  OBVIOUS
<1> USE NoProcAssumption, NoCpuAssumption DEF Init
<1>1. TypeOK
  <2>1. cpu \in [Cpus -> [ncli : 0..2, intena : BOOLEAN, intr : BOOLEAN]]
    OBVIOUS
  <2> QED BY <2>1 DEF TypeOK, Points, Open
<1>2. NoPanic /\ OneCpuPerProcess
  BY DEF NoPanic, OneCpuPerProcess
<1>3. CpuInv
  BY DEF CpuInv, BusyInv, IdleInv
<1>4. ProcInv /\ OwnerInv /\ WaitInv
  BY DEF ProcInv, OwnerInv, WaitInv, Owners, At, OffCpu, Open
<1> QED BY <1>1, <1>2, <1>3, <1>4 DEF IInv

\* Every step of every CPU keeps the invariant.
LEMMA NextInv == IInv /\ [Next]_vars => IInv'
<1> SUFFICES ASSUME IInv, [Next]_vars PROVE IInv'
  OBVIOUS
<1>1. CASE UNCHANGED vars
  BY <1>1 DEF vars, lockVars, procVars, cpuVars, IInv, TypeOK, NoPanic,
     OneCpuPerProcess, CpuInv, BusyInv, IdleInv, ProcInv, OwnerInv, Owners, At,
     WaitInv
<1>2. ASSUME NEW c \in Cpus, Step(c) PROVE IInv'
  <2>1. CASE Take(c)
    BY <2>1, AcquireSleepLkInv, SleepPtInv, ReleaseSleepLkInv, WakeupPtInv,
       YieldPtInv, SchedulerPtInv, KillInv DEF Take
  <2>2. CASE Go(c)
    BY <2>2, AcquireSleepTakeInv, AcquireSleepWaitInv, SleepReleaseLkInv,
       SleepSchedInv, SleepReturnInv, ReleaseSleepCallInv, ReleaseSleepFreeInv,
       WakeupInv, ReleaseSleepDoneInv, YieldSchedInv, YieldReturnInv,
       SchedulerTopInv, SchedulerReleaseInv, ForkretInv DEF Go
  <2>3. CASE AcquireSleepCall(c) \/ KillCall(c) \/ TimerTrap(c)
    BY <2>3, AcquireSleepCallInv, KillCallInv, TimerTrapInv
  <2>4. CASE \E p \in Procs : Dispatch(c, p)
    BY <2>4, DispatchInv
  <2> QED BY <1>2, <2>1, <2>2, <2>3, <2>4 DEF Step
<1> QED BY <1>1, <1>2 DEF Next

\* The inductive invariant holds in every reachable state.
THEOREM Invariance == Spec => []IInv
BY InitInv, NextInv, PTL DEF Spec

\* Type correctness for any number of processes and CPUs.
THEOREM TypeCorrect == Spec => []TypeOK
<1>1. IInv => TypeOK
  BY DEF IInv
<1> QED BY <1>1, Invariance, PTL

\* acquiresleep/releasesleep exclude: at most one process is between the two,
\* and it is the one the lock names.
THEOREM Exclusion == Spec => []MutualExclusion
<1>1. IInv => MutualExclusion
  BY NoProcAssumption DEF IInv, OwnerInv, MutualExclusion, Owners
<1> QED BY <1>1, Invariance, PTL

\* sleep() and wakeup() lose no wakeup: a process asleep on a free lock has
\* its wakeup1 still to come.
THEOREM WakeupKept == Spec => []NoLostWakeup
<1>1. IInv => NoLostWakeup
  BY DEF IInv, WaitInv, NoLostWakeup, Freed
<1> QED BY <1>1, Invariance, PTL

\* The panics of acquire, release, popcli and sched are unreachable.
THEOREM PanicFree == Spec => []NoPanic
<1>1. IInv => NoPanic
  BY DEF IInv
<1> QED BY <1>1, Invariance, PTL

\* Spin locks are held with interrupts off only, and code that ran with
\* interrupts on gets them back after any sleep or preemption.
THEOREM InterruptsRight == Spec => []InterruptDiscipline
<1>1. IInv => InterruptDiscipline
  BY NoCpuAssumption DEF IInv, TypeOK, CpuInv, BusyInv, IdleInv, HoldsLk,
       HoldsPt,
     Open, Nested, InterruptDiscipline
<1> QED BY <1>1, Invariance, PTL

\* A process is RUNNING on exactly one CPU or not RUNNING at all.
THEOREM OneCpu == Spec => []OneCpuPerProcess
<1>1. IInv => OneCpuPerProcess
  BY DEF IInv
<1> QED BY <1>1, Invariance, PTL

\* The sleep lock implements the abstract mutex: pid goes from free to the
\* taker and from the owner to free, in any number of processes and CPUs.
THEOREM Refinement == Spec => ImplementsMutex
<1>1. Init => AbstractLock!Init
  BY DEF Init, AbstractLock!Init
<1>2. IInv /\ [Next]_vars => [AbstractLock!Next]_pid
  <2> SUFFICES ASSUME IInv, [Next]_vars, pid' # pid PROVE AbstractLock!Next
    OBVIOUS
  <2> USE DEF AbstractLock!Next, AbstractLock!Acquire, AbstractLock!Release
  <2>1. PICK c \in Cpus : Step(c)
    BY DEF Next, vars, lockVars
  <2>2. AcquireSleepTake(c) \/ ReleaseSleepFree(c)
    BY <2>1 DEF Step, Take, Go, lockVars, procVars, cpuVars, AcquireSleepCall,
       AcquireSleepLk, AcquireSleepWait, SleepPt, SleepReleaseLk, SleepSched,
       SleepReturn, ReleaseSleepCall, ReleaseSleepLk, WakeupPt, Wakeup,
       ReleaseSleepDone, KillCall, Kill, TimerTrap, YieldPt, YieldSched,
       YieldReturn, SchedulerTop, SchedulerPt, SchedulerRelease, Forkret, Dispatch
  <2>3. CASE AcquireSleepTake(c)
    BY <2>3 DEF AcquireSleepTake, IInv, OwnerInv
  <2>4. CASE ReleaseSleepFree(c)
    BY <2>4 DEF ReleaseSleepFree, IInv, OwnerInv, Owners, At
  <2> QED BY <2>2, <2>3, <2>4
<1> QED BY <1>1, <1>2, Invariance, PTL DEF Spec, ImplementsMutex, AbstractLock!Spec
=============================================================================
