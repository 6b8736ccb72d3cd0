------------------------------ MODULE Process ------------------------------
(***************************************************************************)
(* Processes and light-weight threads: the process table of proc.c with    *)
(* fork, exit, wait, kill, thread_create, thread_exit, thread_join, and    *)
(* exec's change of the address space.                                     *)
(*                                                                         *)
(* A step is what a process does between two points where it can be        *)
(* preempted or another CPU can get in: mostly one critical section of     *)
(* ptable.lock or thread_lock.  Open files and the working directory are   *)
(* one reference, cwd.  Addresses count pairs of pages above the program   *)
(* that exec has loaded.  CPU shares are left to Scheduler.                *)
(***************************************************************************)
EXTENDS Integers, FiniteSets, FiniteSetsExt

CONSTANTS
  NPROC,     \* slots of ptable.proc; initproc has the first
  NCPU,      \* CPUs
  PgDirs,    \* page directories there is memory for
  Gap,       \* distance of two thread stacks (4MB), in pairs of pages
  Uses,      \* what user programs do, a subset of AllUses
  MaxPid,    \* bound on nextpid
  MaxTid,    \* bound on next_thread_id
  MaxExec    \* bound on the calls of exec

AllUses == {"fork", "exec", "kill", "device",
            "thread_create",    \* by a process that is not a thread
            "nested_create",    \* thread_create in a thread
            "exit_threaded",    \* exit of a process that has threads
            "exit_in_thread",   \* exit in a thread
            "create_at_exit",   \* thread_create while another thread is in exit
            "kill_threaded",    \* kill of a process that has threads or creates one
            "kill_embryo",      \* kill of a pid that fork has not yet returned
            "exec_threaded",    \* exec in a process that has threads, or in a thread
            "fork_threaded",    \* fork of a process that has threads
            "wait_in_thread",   \* wait in a thread
            "stack_fails"}      \* no memory for a thread's stack

Slots == 1..NPROC
initproc == 1
NoProc == 0                     \* a null struct proc*
Device == NPROC + 1             \* any chan that is not a struct proc*
NoDir == 0
Idx == 0..(NPROC - 1)           \* of pgdir_ref

ASSUME ProcessAssumption ==
  /\ NPROC \in Nat \ {0, 1} /\ NCPU \in Nat \ {0} /\ Gap \in Nat \ {0, 1}
  /\ PgDirs \subseteq Nat \ {NoDir} /\ Cardinality(PgDirs) > 1
  /\ Uses \subseteq AllUses
  /\ MaxPid \in Nat /\ MaxTid \in Nat /\ MaxExec \in Nat

VARIABLES
  ptable,    \* ptable.proc, see ProcType
  vm,        \* address spaces: pgdir_ref, its next index, and the pages mapped
  nextpid,
  tidNext,   \* next_thread_id
  execs,     \* calls of exec so far, for the bound alone
  running,   \* the processes that are on a CPU
  pc,        \* where each process is
  arg,       \* the slot its loop or call works on (np, p)
  aux,       \* the argument of thread_join, or exit's master_thread
  tlock,     \* thread_lock was left locked by a failed thread_create
  targets,   \* history: the pids kill was called for
  panicked

locals == <<pc, arg, aux>>
ids == <<nextpid, tidNext, execs>>
vars == <<ptable, vm, ids, running, locals, tlock, targets, panicked>>

Live == {"EMBRYO", "SLEEPING", "RUNNABLE", "RUNNING", "ZOMBIE"}

ProcType ==
  [state  : Live \cup {"UNUSED"},
   pid    : 0..MaxPid, tid : 0..MaxTid,
   parent : Slots \cup {NoProc},
   killed : BOOLEAN,
   num    : Int,                        \* num_of_threads
   ref    : Idx \cup {-1},              \* pgdir_ref_idx
   pgdir  : PgDirs \cup {NoDir},
   sz     : Nat,
   cwd    : BOOLEAN,
   chan   : 0..Device]

World == [t |-> ptable, vm |-> vm]
Become(w) == ptable' = w.t /\ vm' = w.vm
\* A panic stops every CPU.
On(p) == p \in running /\ ~panicked
At(p, l) == On(p) /\ pc[p] = l
Goto(p, l) == pc' = [pc EXCEPT ![p] = l]

\* A process may enter a system call: trap() makes a killed one exit instead.
Calls(p) == At(p, "user") /\ ~ptable[p].killed
Threaded(p) == ptable[p].tid # 0 \/ ptable[p].num # 0
InCreate == {"t_tid", "t_share", "t_stack", "run_np"}
Creating(p) == pc[p] \in InCreate /\ (pc[p] = "run_np" => ptable[arg[p]].tid # 0)
InThreadExit == {"t_scan", "t_drop", "t_zombie", "tm_drop", "tm_zombie"}
Nobody(p, at) == \A s \in Slots : ptable[s].pid = ptable[p].pid => pc[s] \notin at

-----------------------------------------------------------------------------
(***************************************************************************)
(* What the critical sections do to the table and the address spaces       *)
(***************************************************************************)
\* Mutant: whoever has the chan is woken, asleep or not.
WakeupAnyState(t, c) ==
  [s \in Slots |-> IF t[s].chan = c THEN [t[s] EXCEPT !.state = "RUNNABLE"] ELSE t[s]]

\* wakeup1(chan)
wakeup1(t, c) ==
  [s \in Slots |-> IF t[s].state = "SLEEPING" /\ t[s].chan = c
                   THEN [t[s] EXCEPT !.state = "RUNNABLE"] ELSE t[s]]

\* Mutant: the children of an exiting process keep it as their parent.
CommonExitKeepsChildren(t, p) ==
  [wakeup1(t, t[p].parent) EXCEPT ![p].state = "ZOMBIE"]

\* Mutant: nobody is woken.
CommonExitSilent(t, p) ==
  [s \in Slots |->
     [t[s] EXCEPT !.parent = IF t[s].parent = p THEN initproc ELSE @,
                  !.state = IF s = p THEN "ZOMBIE" ELSE @]]

\* common_exit() from the acquire of ptable.lock on.
CommonExit(t, p) ==
  LET woken == wakeup1(t, t[p].parent)
      kids  == {s \in Slots : t[s].parent = p}
      given == [s \in Slots |-> [woken[s] EXCEPT !.parent = IF s \in kids THEN initproc ELSE @]]
  IN [(IF \E s \in kids : t[s].state = "ZOMBIE" THEN wakeup1(given, initproc) ELSE given)
        EXCEPT ![p].state = "ZOMBIE"]

FreeVm(v, d) == [v EXCEPT !.dirs = @ \ {d}, !.mapped[d] = {}]

\* Mutant: every process that is cleared frees the address space it used.
DropPgdirAlways(v, i, d) == FreeVm(IF i = -1 THEN v ELSE [v EXCEPT !.refs[i] = 0], d)

\* check_pgdir_counter_and_call_freevm
DropPgdir(v, i, d) ==
  CASE i = -1         -> FreeVm(v, d)
    [] v.refs[i] <= 1 -> FreeVm([v EXCEPT !.refs[i] = 0], d)
    [] OTHER          -> [v EXCEPT !.refs[i] = @ - 1]

\* The index allocate_new_pgdir_idx finds, or -1 where it panics.
FreshIdx(v) ==
  LET free == {i \in Idx : v.refs[(v.next + i) % NPROC] = 0}
  IN IF free = {} THEN -1 ELSE (v.next + Min(free)) % NPROC

\* Mutant: the next index to try is not wrapped around.
TakeIdxNoWrap(v, i) == [v EXCEPT !.refs[i] = 1, !.next = i + 1]

TakeIdx(v, i) == [v EXCEPT !.refs[i] = 1, !.next = (i + 1) % NPROC]

\* Mutant: killed is not cleared.
ClearProcKeepsKilled(w, p) ==
  [t  |-> [w.t EXCEPT ![p] = [@ EXCEPT !.state = "UNUSED", !.pid = 0, !.parent = NoProc,
             !.tid = 0, !.ref = -1, !.num = 0, !.pgdir = NoDir, !.sz = 0]],
   vm |-> DropPgdir(w.vm, w.t[p].ref, w.t[p].pgdir)]

\* clear_proc.  (pgdir and sz are stale from here on, and never read.)
ClearProc(w, p) ==
  [t  |-> [w.t EXCEPT ![p] = [@ EXCEPT !.state = "UNUSED", !.pid = 0, !.parent = NoProc,
             !.killed = FALSE, !.tid = 0, !.ref = -1, !.num = 0, !.pgdir = NoDir, !.sz = 0]],
   vm |-> DropPgdir(w.vm, w.t[p].ref, w.t[p].pgdir)]

\* A thread that another thread's exit finds before thread_create has given it a
\* parent and a counter: remove_thread_stack follows wild pointers.
Wild(p) == ptable[p].ref = -1 \/ ptable[p].parent = NoProc

\* Mutant: sz goes down, the pages stay mapped.
RemoveThreadStackKeepsPages(w, p) ==
  LET old    == w.t[p].sz - 1
      parent == w.t[p].parent
      shared == w.vm.refs[w.t[p].ref] > 1
  IN [t  |-> [w.t EXCEPT ![parent] =
                [@ EXCEPT !.num = @ - 1, !.sz = IF shared /\ old < @ THEN old ELSE @]],
      vm |-> w.vm]

\* remove_thread_stack
RemoveThreadStack(w, p) ==
  LET old    == w.t[p].sz - 1
      parent == w.t[p].parent
      shared == w.vm.refs[w.t[p].ref] > 1
  IN [t  |-> [w.t EXCEPT ![parent] =
                [@ EXCEPT !.num = @ - 1, !.sz = IF shared /\ old < @ THEN old ELSE @]],
      vm |-> IF shared THEN [w.vm EXCEPT !.mapped[w.t[p].pgdir] = @ \ {old}] ELSE w.vm]

-----------------------------------------------------------------------------
(***************************************************************************)
(* The CPUs                                                                *)
(***************************************************************************)
\* The scheduler takes a process; one that has slept clears its chan first of all.
Dispatch(p) ==
  /\ ptable[p].state = "RUNNABLE" /\ p \notin running /\ Cardinality(running) < NCPU
  /\ ~panicked
  /\ running' = running \cup {p}
  /\ ptable' = [ptable EXCEPT ![p] = [@ EXCEPT !.state = "RUNNING", !.chan = 0]]
  /\ UNCHANGED <<vm, ids, locals, tlock, targets, panicked>>

\* yield() sets the state whatever it has become meanwhile.
Yield(p) ==
  /\ On(p)
  /\ running' = running \ {p}
  /\ ptable' = [ptable EXCEPT ![p].state = "RUNNABLE"]
  /\ UNCHANGED <<vm, ids, locals, tlock, targets, panicked>>

\* A system call that sleeps for anything but a process, and its wakeup.
SleepDevice(p) ==
  /\ Calls(p) /\ "device" \in Uses
  /\ ptable' = [ptable EXCEPT ![p] = [@ EXCEPT !.state = "SLEEPING", !.chan = Device]]
  /\ running' = running \ {p}
  /\ UNCHANGED <<vm, ids, locals, tlock, targets, panicked>>

WakeDevice ==
  /\ \E s \in Slots : ptable[s].state = "SLEEPING" /\ ptable[s].chan = Device
  /\ ~panicked
  /\ ptable' = wakeup1(ptable, Device)
  /\ UNCHANGED <<vm, ids, running, locals, tlock, targets, panicked>>

Kill(p, n) ==
  LET hit == {s \in Slots : ptable[s].pid = n} IN
  /\ Calls(p) /\ "kill" \in Uses /\ n # ptable[initproc].pid
  /\ hit # {}
  /\ "kill_embryo" \in Uses \/ \E s \in hit : ptable[s].state \notin {"UNUSED", "EMBRYO"}
  /\ \A s \in hit : Threaded(s) \/ Creating(s) => "kill_threaded" \in Uses
  /\ ptable' = [ptable EXCEPT ![Min(hit)] =
                  [@ EXCEPT !.killed = TRUE,
                            !.state = IF @ = "SLEEPING" THEN "RUNNABLE" ELSE @]]
  /\ targets' = targets \cup {n}
  /\ UNCHANGED <<vm, ids, running, locals, tlock, panicked>>

-----------------------------------------------------------------------------
(***************************************************************************)
(* fork and thread_create                                                  *)
(***************************************************************************)
\* allocproc up to the release of ptable.lock.  It does not touch killed.
Alloc(p, l) ==
  LET np == Min({s \in Slots : ptable[s].state = "UNUSED"}) IN
  /\ \E s \in Slots : ptable[s].state = "UNUSED"
  /\ nextpid <= MaxPid
  /\ ptable' = [ptable EXCEPT ![np] = [@ EXCEPT !.state = "EMBRYO", !.pid = nextpid,
                                        !.tid = 0, !.ref = -1, !.num = 0]]
  /\ nextpid' = nextpid + 1
  /\ arg' = [arg EXCEPT ![p] = np]
  /\ Goto(p, l)
  /\ UNCHANGED <<vm, tidNext, execs, running, aux, tlock, targets, panicked>>

\* A thread's fork returns -1 at once.
Fork(p) ==
  /\ Calls(p) /\ "fork" \in Uses /\ ptable[p].tid = 0
  /\ Threaded(p) => "fork_threaded" \in Uses
  /\ Alloc(p, "f_copy")

\* kalloc or copyuvm fails: the slot is given back without a lock.
AllocFails(p) ==
  /\ On(p) /\ pc[p] \in {"f_copy", "t_tid"}
  /\ ptable' = [ptable EXCEPT ![arg[p]].state = "UNUSED"]
  /\ Goto(p, "user")
  /\ arg' = [arg EXCEPT ![p] = 0]
  /\ UNCHANGED <<vm, ids, running, aux, tlock, targets, panicked>>

\* copyuvm copies [0, sz) and panics at a hole.
ForkCopy(p) ==
  LET np == arg[p]
      me == ptable[p]
      d  == Min(PgDirs \ vm.dirs)
      i  == FreshIdx(vm)
      below == 0..(me.sz - 1)
  IN
  /\ At(p, "f_copy") /\ PgDirs \ vm.dirs # {}
  /\ panicked' = (tlock \/ i = -1 \/ ~(below \subseteq vm.mapped[me.pgdir]))
  /\ vm' = TakeIdx([vm EXCEPT !.dirs = @ \cup {d}, !.mapped[d] = below], IF i = -1 THEN 0 ELSE i)
  /\ ptable' = [ptable EXCEPT ![np] = [@ EXCEPT !.pgdir = d, !.sz = me.sz, !.parent = p,
                                        !.ref = i, !.cwd = TRUE]]
  /\ Goto(p, "run_np")
  /\ UNCHANGED <<ids, running, arg, aux, tlock, targets>>

\* The end of fork and of thread_create.
RunNew(p) ==
  /\ At(p, "run_np")
  /\ ptable' = [ptable EXCEPT ![arg[p]].state = "RUNNABLE"]
  /\ pc' = [pc EXCEPT ![p] = "user", ![arg[p]] = "user"]
  /\ arg' = [arg EXCEPT ![p] = 0, ![arg[p]] = 0]
  /\ aux' = [aux EXCEPT ![arg[p]] = 0]
  /\ UNCHANGED <<vm, ids, running, tlock, targets, panicked>>

ThreadCreate(p) ==
  /\ Calls(p) /\ p # initproc /\ tidNext <= MaxTid
  /\ (IF ptable[p].tid = 0 THEN "thread_create" ELSE "nested_create") \in Uses
  /\ Nobody(p, InThreadExit) \/ "create_at_exit" \in Uses
  /\ Alloc(p, "t_tid")

\* np->tid = next_thread_id++ is not atomic: this is the load.
ThreadTid(p) ==
  /\ At(p, "t_tid")
  /\ ptable' = [ptable EXCEPT ![arg[p]] = [@ EXCEPT !.pid = ptable[p].pid, !.tid = tidNext]]
  /\ Goto(p, "t_share")
  /\ UNCHANGED <<vm, ids, running, arg, aux, tlock, targets, panicked>>

\* Mutant: the thread does not count as a user of the address space.
ThreadShareUncounted(p) ==
  LET np == arg[p]  me == ptable[p] IN
  /\ At(p, "t_share")
  /\ tidNext' = ptable[np].tid + 1
  /\ panicked' = tlock
  /\ ptable' = [ptable EXCEPT ![np] = [@ EXCEPT !.pgdir = me.pgdir, !.sz = me.sz,
                                        !.parent = p, !.ref = me.ref, !.cwd = TRUE]]
  /\ Goto(p, "t_stack")
  /\ UNCHANGED <<vm, nextpid, execs, running, arg, aux, tlock, targets>>

\* The store, and everything up to the allocation of the stack.
ThreadShare(p) ==
  LET np == arg[p]  me == ptable[p] IN
  /\ At(p, "t_share")
  /\ tidNext' = ptable[np].tid + 1
  /\ panicked' = tlock
  /\ vm' = [vm EXCEPT !.refs[me.ref] = @ + 1]
  /\ ptable' = [ptable EXCEPT ![np] = [@ EXCEPT !.pgdir = me.pgdir, !.sz = me.sz,
                                        !.parent = p, !.ref = me.ref, !.cwd = TRUE]]
  /\ Goto(p, "t_stack")
  /\ UNCHANGED <<nextpid, execs, running, arg, aux, tlock, targets>>

\* thread_create allocates the stack and lets the thread run.
ThreadStack(p) ==
  LET np == arg[p]
      a == ptable[p].sz
      d == ptable[p].pgdir
      master == IF ptable[p].tid = 0 THEN p ELSE ptable[p].parent
      grown == [ptable EXCEPT ![np].sz = a + 1, ![p].sz = a + Gap]
  IN
  /\ At(p, "t_stack")
  /\ panicked' = (tlock \/ a \in vm.mapped[d])
  /\ vm' = [vm EXCEPT !.mapped[d] = @ \cup {a}]
  /\ ptable' = [grown EXCEPT ![master].num = @ + 1]
  /\ Goto(p, "run_np")
  /\ UNCHANGED <<ids, running, arg, aux, tlock, targets>>

\* allocuvm fails: return -1 with thread_lock held and the slot EMBRYO.
ThreadStackFails(p) ==
  /\ At(p, "t_stack") /\ "stack_fails" \in Uses
  /\ tlock' = TRUE
  /\ panicked' = tlock
  /\ ptable' = [ptable EXCEPT ![arg[p]].sz = 0]
  /\ Goto(p, "user")
  /\ UNCHANGED <<vm, ids, running, arg, aux, targets>>

-----------------------------------------------------------------------------
(***************************************************************************)
(* exec, from the point where it commits to the new image                  *)
(***************************************************************************)
ExecCommit(p) ==
  LET me  == ptable[p]
      d   == Min(PgDirs \ vm.dirs)
      new == [vm EXCEPT !.dirs = @ \cup {d}]
  IN
  /\ Calls(p) /\ "exec" \in Uses /\ PgDirs \ vm.dirs # {}
  /\ Threaded(p) => "exec_threaded" \in Uses
  /\ vm' = IF me.ref # -1 /\ vm.refs[me.ref] > 1 THEN new
           ELSE DropPgdir(new, me.ref, me.pgdir)
  /\ panicked' = tlock
  /\ ptable' = [ptable EXCEPT ![p] = [@ EXCEPT !.pgdir = d, !.sz = 0]]
  /\ execs < MaxExec /\ execs' = execs + 1
  /\ Goto(p, "e_idx")
  /\ UNCHANGED <<nextpid, tidNext, running, arg, aux, tlock, targets>>

ExecIdx(p) ==
  LET i == FreshIdx(vm) IN
  /\ At(p, "e_idx")
  /\ panicked' = (tlock \/ i = -1)
  /\ vm' = TakeIdx(vm, IF i = -1 THEN 0 ELSE i)
  /\ ptable' = [ptable EXCEPT ![p].ref = i]
  /\ Goto(p, "user")
  /\ UNCHANGED <<ids, running, arg, aux, tlock, targets>>

-----------------------------------------------------------------------------
(***************************************************************************)
(* exit and thread_exit.  The points of common_exit are named after who is *)
(* removed: "x" the caller, by itself; "m" a thread, by its process; "t" a *)
(* thread, "tm" the process and "ts" the caller, by a thread's exit.       *)
(***************************************************************************)
MayExit(p) ==
  /\ At(p, "user") /\ p # initproc
  /\ ptable[p].tid # 0 => ptable[p].killed \/ "exit_in_thread" \in Uses
  /\ ptable[p].tid # 0 => Nobody(p, InCreate) \/ "create_at_exit" \in Uses
  /\ ptable[p].tid = 0 /\ ptable[p].num # 0 => ptable[p].killed \/ "exit_threaded" \in Uses

Exit(p) ==
  LET me == ptable[p] IN
  /\ MayExit(p)
  /\ Goto(p, IF me.tid # 0 THEN "t_scan" ELSE IF me.num # 0 THEN "m_scan" ELSE "x_drop")
  /\ arg' = [arg EXCEPT ![p] = IF me.tid = 0 /\ me.num = 0 THEN p ELSE 0]
  /\ aux' = [aux EXCEPT ![p] = IF me.tid # 0 THEN me.parent ELSE 0]
  /\ panicked' = (me.tid # 0 /\ me.num # 0)
  /\ UNCHANGED <<ptable, vm, ids, running, tlock, targets>>

ThreadExit(p) ==
  /\ Calls(p) /\ ptable[p].tid # 0
  /\ Goto(p, "x_drop")
  /\ arg' = [arg EXCEPT ![p] = p]
  /\ UNCHANGED <<ptable, vm, ids, running, aux, tlock, targets, panicked>>

\* The threads that exit's loop has still to come to.
Others(p) == {s \in Slots : s > arg[p] /\ s # p /\ ptable[s].pid = ptable[p].pid
                                       /\ ptable[s].tid # 0}

\* The loop of a process that has threads.
ExitScan(p) ==
  /\ At(p, "m_scan")
  /\ IF Others(p) = {}
     THEN Goto(p, "x_drop") /\ arg' = [arg EXCEPT ![p] = p] /\ UNCHANGED aux
     ELSE LET q == Min(Others(p)) IN
          /\ Goto(p, "m_drop")
          /\ arg' = [arg EXCEPT ![p] = q]
          /\ aux' = [aux EXCEPT ![p] = ptable[q].tid]
  /\ UNCHANGED <<ptable, vm, ids, running, tlock, targets, panicked>>

\* Mutant: the process itself is left running.
ThreadExitScanKeepsMaster(p) ==
  /\ At(p, "t_scan")
  /\ IF Others(p) = {}
     THEN /\ Goto(p, "ts_stack")
          /\ UNCHANGED <<ptable, vm, arg, panicked>>
     ELSE LET q == Min(Others(p)) IN
          /\ Goto(p, "t_drop")
          /\ arg' = [arg EXCEPT ![p] = q]
          /\ panicked' = (tlock \/ Wild(q))
          /\ IF Wild(q) THEN UNCHANGED <<ptable, vm>> ELSE Become(RemoveThreadStack(World, q))
  /\ UNCHANGED <<ids, running, aux, tlock, targets>>

\* The loop of a thread's exit; a thread it finds loses its stack first.
ThreadExitScan(p) ==
  /\ At(p, "t_scan")
  /\ IF Others(p) = {}
     THEN /\ Goto(p, "tm_drop")
          /\ arg' = [arg EXCEPT ![p] = aux[p]]
          /\ UNCHANGED <<ptable, vm, panicked>>
     ELSE LET q == Min(Others(p)) IN
          /\ Goto(p, "t_drop")
          /\ arg' = [arg EXCEPT ![p] = q]
          /\ panicked' = (tlock \/ Wild(q))
          /\ IF Wild(q) THEN UNCHANGED <<ptable, vm>> ELSE Become(RemoveThreadStack(World, q))
  /\ UNCHANGED <<ids, running, aux, tlock, targets>>

DropAt == {"x_drop", "m_drop", "t_drop", "tm_drop", "ts_drop"}
ZombieAt(l) == CASE l = "x_drop" -> "x_zombie" [] l = "m_drop" -> "m_zombie"
                 [] l = "t_drop" -> "t_zombie" [] l = "tm_drop" -> "tm_zombie"
                 [] l = "ts_drop" -> "ts_zombie"

\* common_exit closes the files and puts the working directory.
Drop(p) ==
  /\ On(p) /\ pc[p] \in DropAt
  /\ ptable' = [ptable EXCEPT ![arg[p]].cwd = FALSE]
  /\ panicked' = (tlock /\ ptable[arg[p]].cwd)
  /\ Goto(p, ZombieAt(pc[p]))
  /\ UNCHANGED <<vm, ids, running, arg, aux, tlock, targets>>

\* common_exit(proc), then sched().
ZombieSelf(p) ==
  /\ At(p, "x_zombie")
  /\ ptable' = CommonExit(ptable, p)
  /\ running' = running \ {p}
  /\ Goto(p, "dead")
  /\ UNCHANGED <<vm, ids, arg, aux, tlock, targets, panicked>>

\* common_exit of a thread, by its process, which joins it next.
ZombieThread(p) ==
  /\ At(p, "m_zombie")
  /\ ptable' = CommonExit(ptable, arg[p])
  /\ Goto(p, "m_join")
  /\ UNCHANGED <<vm, ids, running, arg, aux, tlock, targets, panicked>>

\* common_exit and clear_proc of a thread, by another thread.
ZombieClear(p) ==
  /\ At(p, "t_zombie")
  /\ Become(ClearProc([t |-> CommonExit(ptable, arg[p]), vm |-> vm], arg[p]))
  /\ panicked' = tlock
  /\ Goto(p, "t_scan")
  /\ UNCHANGED <<ids, running, arg, aux, tlock, targets>>

\* common_exit of the process, by a thread, which has initproc as its parent
\* from then on; and the removal of the thread's own stack.
ZombieMaster(p) ==
  /\ At(p, "tm_zombie")
  /\ ptable' = CommonExit(ptable, arg[p])
  /\ Goto(p, "ts_stack")
  /\ UNCHANGED <<vm, ids, running, arg, aux, tlock, targets, panicked>>

OwnStack(p) ==
  /\ At(p, "ts_stack")
  /\ Become(RemoveThreadStack(World, p))
  /\ panicked' = tlock
  /\ arg' = [arg EXCEPT ![p] = p]
  /\ Goto(p, "ts_drop")
  /\ UNCHANGED <<ids, running, aux, tlock, targets>>

\* common_exit(proc), then state = UNUSED, without clear_proc.
UnusedSelf(p) ==
  /\ At(p, "ts_zombie")
  /\ ptable' = [CommonExit(ptable, p) EXCEPT ![p].state = "UNUSED"]
  /\ running' = running \ {p}
  /\ Goto(p, "dead")
  /\ UNCHANGED <<vm, ids, arg, aux, tlock, targets, panicked>>

-----------------------------------------------------------------------------
(***************************************************************************)
(* wait and thread_join                                                    *)
(***************************************************************************)
Wait(p) ==
  /\ Calls(p)
  /\ ptable[p].tid # 0 => "wait_in_thread" \in Uses
  /\ Goto(p, "wait")
  /\ UNCHANGED <<ptable, vm, ids, running, arg, aux, tlock, targets, panicked>>

ThreadJoin(p, t) ==
  /\ Calls(p)
  /\ \E s \in Slots : ptable[s].parent = p /\ ptable[s].tid = t
  /\ Goto(p, "join")
  /\ aux' = [aux EXCEPT ![p] = t]
  /\ UNCHANGED <<ptable, vm, ids, running, arg, tlock, targets, panicked>>

\* sleep(proc, &ptable.lock), and the test again after it.
SleepOn(p, c) ==
  /\ ptable' = [ptable EXCEPT ![p] = [@ EXCEPT !.state = "SLEEPING", !.chan = c]]
  /\ running' = running \ {p}
  /\ UNCHANGED <<vm, locals, panicked>>

\* The children wait() looks for, and its chan: in a thread it is
\* proc_forked_in_thread, which only code behind fork's early return sets.
WaitKey(p) == IF ptable[p].tid = 0 THEN p ELSE NoProc
WaitKids(p) == {s \in Slots : /\ ptable[s].parent = WaitKey(p)
                              /\ ptable[p].tid = 0 => ptable[s].tid = 0}
Zombies(S) == {s \in S : ptable[s].state = "ZOMBIE"}

WaitScan(p) ==
  LET kids == WaitKids(p) IN
  /\ At(p, "wait")
  /\ \/ /\ Zombies(kids) # {}
        /\ Become(ClearProc(World, Min(Zombies(kids))))
        /\ panicked' = tlock
        /\ Goto(p, "user")
        /\ UNCHANGED <<running, arg, aux>>
     \/ /\ Zombies(kids) = {} /\ (kids = {} \/ ptable[p].killed)
        /\ Goto(p, "user")
        /\ UNCHANGED <<ptable, vm, running, arg, aux, panicked>>
     \/ /\ Zombies(kids) = {} /\ kids # {} /\ ~ptable[p].killed
        /\ SleepOn(p, WaitKey(p))
  /\ UNCHANGED <<ids, tlock, targets>>

JoinKids(p) == {s \in Slots : ptable[s].parent = p /\ ptable[s].tid = aux[p]}

\* thread_join, called by the program or by exit.
JoinScan(p) ==
  LET kids == JoinKids(p)
      back == /\ Goto(p, IF pc[p] = "join" THEN "user" ELSE "m_scan")
              /\ aux' = [aux EXCEPT ![p] = 0]
              /\ UNCHANGED <<running, arg>>
      q == Min(Zombies(kids))
  IN
  /\ On(p) /\ pc[p] \in {"join", "m_join"}
  /\ \/ /\ Zombies(kids) # {}
        /\ Become(ClearProc(RemoveThreadStack(World, q), q))
        /\ panicked' = tlock
        /\ back
     \/ /\ Zombies(kids) = {} /\ (kids = {} \/ ptable[p].killed)
        /\ back
        /\ UNCHANGED <<ptable, vm, panicked>>
     \/ /\ Zombies(kids) = {} /\ kids # {} /\ ~ptable[p].killed
        /\ SleepOn(p, p)
  /\ UNCHANGED <<ids, tlock, targets>>

-----------------------------------------------------------------------------
Unused ==
  [state |-> "UNUSED", pid |-> 0, tid |-> 0, parent |-> NoProc, killed |-> FALSE,
   num |-> 0, ref |-> -1, pgdir |-> NoDir, sz |-> 0, cwd |-> FALSE, chan |-> 0]

\* userinit, and init's exec.
Init ==
  LET d == Min(PgDirs) IN
  /\ ptable = [s \in Slots |->
                 IF s = initproc
                 THEN [Unused EXCEPT !.state = "RUNNABLE", !.pid = 1, !.ref = 0, !.pgdir = d,
                                     !.cwd = TRUE]
                 ELSE Unused]
  /\ vm = [refs |-> [i \in Idx |-> IF i = 0 THEN 1 ELSE 0], next |-> 1 % NPROC, dirs |-> {d},
           mapped |-> [e \in PgDirs |-> {}]]
  /\ nextpid = 2 /\ tidNext = 1 /\ execs = 0
  /\ running = {}
  /\ pc = [s \in Slots |-> IF s = initproc THEN "user" ELSE "dead"]
  /\ arg = [s \in Slots |-> 0] /\ aux = [s \in Slots |-> 0]
  /\ tlock = FALSE /\ targets = {} /\ panicked = FALSE

Next ==
  \/ \E p \in Slots :
       \/ Dispatch(p) \/ Yield(p) \/ SleepDevice(p)
       \/ \E n \in 1..MaxPid : Kill(p, n)
       \/ Fork(p) \/ AllocFails(p) \/ ForkCopy(p) \/ RunNew(p)
       \/ ThreadCreate(p) \/ ThreadTid(p) \/ ThreadShare(p) \/ ThreadStack(p)
       \/ ThreadStackFails(p) \/ ExecCommit(p) \/ ExecIdx(p)
       \/ Exit(p) \/ ThreadExit(p) \/ ExitScan(p) \/ ThreadExitScan(p) \/ Drop(p)
       \/ ZombieSelf(p) \/ ZombieThread(p) \/ ZombieClear(p) \/ ZombieMaster(p)
       \/ OwnStack(p) \/ UnusedSelf(p)
       \/ Wait(p) \/ WaitScan(p) \/ JoinScan(p)
       \/ \E t \in 1..MaxTid : ThreadJoin(p, t)
  \/ WakeDevice

Spec == Init /\ [][Next]_vars

-----------------------------------------------------------------------------
(***************************************************************************)
(* Properties                                                              *)
(***************************************************************************)
\* Every field has its type; pgdir_ref_next_idx stays an index of pgdir_ref.
TypeOK ==
  /\ ptable \in [Slots -> ProcType]
  /\ vm.refs \in [Idx -> 0..NPROC]
  /\ vm.next \in Idx
  /\ vm.dirs \subseteq PgDirs
  /\ vm.mapped \in [PgDirs -> SUBSET Nat]
  /\ nextpid \in 2..(MaxPid + 1)
  /\ tidNext \in 1..(MaxTid + 1)
  /\ execs \in 0..MaxExec
  /\ running \subseteq Slots /\ Cardinality(running) <= NCPU
  /\ arg \in [Slots -> Slots \cup {0}]
  /\ aux \in [Slots -> Nat]
  /\ tlock \in BOOLEAN
  /\ targets \subseteq 1..MaxPid
  /\ panicked \in BOOLEAN

Alive(s) == ptable[s].state \notin {"UNUSED", "EMBRYO", "ZOMBIE"}

\* The slots that use counter i of pgdir_ref.
Users(i) == {s \in Slots : ptable[s].state # "UNUSED" /\ ptable[s].ref = i /\ pc[s] # "e_idx"}

\* pgdir_ref counts: a counter is the number of processes and threads that use its
\* address space, so clear_proc frees it with the last of them.  (Between exec's two
\* steps the caller has given its counter up.)
PgdirCounted == \A i \in Idx : vm.refs[i] = Cardinality(Users(i))

\* An address space is never freed while a process or thread that wait() or
\* thread_join() has not yet cleared uses it, and is not kept after the last one.
DirsInUse ==
  vm.dirs = {ptable[s].pgdir : s \in {s \in Slots : ptable[s].state # "UNUSED"}} \ {NoDir}

\* A process that has exited can be waited for: the parent of every process is alive,
\* because common_exit gives the children to initproc.
ParentAlive ==
  \A s \in Slots \ {initproc} :
     ptable[s].state \notin {"UNUSED", "EMBRYO"} => ptable[s].parent # NoProc /\ Alive(ptable[s].parent)

\* No process sleeps in wait() or thread_join() while a child it waits for is a ZOMBIE:
\* the wakeup in common_exit reaches it.
ExitSeen ==
  \A p \in Slots :
    ptable[p].state = "SLEEPING" =>
      /\ pc[p] = "wait" => Zombies(WaitKids(p)) = {}
      /\ pc[p] \in {"join", "m_join"} => Zombies(JoinKids(p)) = {}

\* Only processes that kill() was called for are killed: a slot that is used again does
\* not inherit the flag, although allocproc does not clear it.
KilledOnPurpose ==
  \A s \in Slots : ptable[s].state # "UNUSED" /\ ptable[s].killed => ptable[s].pid \in targets

\* None of the panics is reached (a remap in thread_create, a hole in copyuvm, no free
\* counter, a thread that has threads) unless a failed thread_create has left
\* thread_lock locked: after that the code does panic, at its next acquire, and
\* this property says nothing of what follows.
NoPanic == panicked => tlock

\* When a thread that called exit() is gone, no thread of its process can run.
ThreadExitEndsProcess ==
  [][\A p \in Slots : pc[p] = "ts_zombie" /\ pc'[p] = "dead" =>
       \A s \in Slots : ptable'[s].pid = ptable[p].pid =>
          ptable'[s].state \notin {"SLEEPING", "RUNNABLE", "RUNNING"}]_vars

\* A ZOMBIE stays one until it is cleared: nothing wakes or schedules it.
ZombieStays ==
  [][\A s \in Slots : ptable[s].state = "ZOMBIE" => ptable'[s].state \in {"ZOMBIE", "UNUSED"}]_vars
=============================================================================
