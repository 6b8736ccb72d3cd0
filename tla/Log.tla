-------------------------------- MODULE Log --------------------------------
(***************************************************************************)
(* The write-ahead log, log.c: concurrent file system calls grouped into   *)
(* one transaction, its commit block by block, a crash at any point, and   *)
(* recovery at boot, which may crash as well.                              *)
(*                                                                         *)
(* A block write is one step (a block is one disk sector, BSIZE = 512).    *)
(* The buffer cache is modelled by the contents the kernel sees: a logged  *)
(* block stays in the cache, being B_DIRTY, until it is installed.         *)
(***************************************************************************)
EXTENDS Integers, Sequences, FiniteSets

CONSTANTS
  Procs,         \* processes making file system calls
  Blocks,        \* home blocks
  Values,        \* block contents
  InitValue,     \* contents at mkfs
  AfterLog,      \* the home block that follows the log on disk
  MAXOPBLOCKS,   \* blocks begin_op reserves for a call
  LOGSIZE,       \* entries of logheader.block
  nlog,          \* log.size: blocks of the log on disk, the header included
  OpBlocks       \* blocks a call really writes at most

ASSUME LogAssumption ==
  /\ InitValue \in Values
  /\ AfterLog \in Blocks
  /\ MAXOPBLOCKS \in Nat /\ LOGSIZE \in Nat /\ OpBlocks \in Nat
  /\ nlog \in Nat \ {0}

VARIABLES
  disk,         \* home blocks on disk
  dlog,         \* log blocks on disk, log.start+1 ...
  dhead,        \* header block on disk, lh.block[0..lh.n)
  cache,        \* home blocks as the kernel sees them
  lh,           \* log.lh in memory
  outstanding,  \* log.outstanding
  committing,   \* log.committing
  tail,         \* the loop variable of write_log and install_trans
  boot,         \* "read", "inst", "clear": recovery; "up"; "panic"
  pc,           \* where each process is
  wrote,        \* the blocks its call has logged so far
  blk           \* the block it holds in log_write

diskVars == <<disk, dlog, dhead>>
callVars == <<pc, wrote, blk>>
vars == <<diskVars, cache, lh, outstanding, committing, tail, boot, callVars>>

Logged(b) == \E i \in 1..Len(lh) : lh[i] = b

Goto(p, l) == pc' = [pc EXCEPT ![p] = l]

\* wakeup(&log)
Woken(f) == [p \in Procs |-> IF f[p] = "sleep" THEN "begin" ELSE f[p]]

-----------------------------------------------------------------------------
(***************************************************************************)
(* begin_op                                                                *)
(***************************************************************************)
\* Mutant: a call may start while a commit is under way.
MustWaitForSpaceOnly == Len(lh) + (outstanding + 1) * MAXOPBLOCKS > LOGSIZE

MustWait ==
  \/ committing
  \/ Len(lh) + (outstanding + 1) * MAXOPBLOCKS > LOGSIZE

BeginOpSleep(p) ==
  /\ boot = "up" /\ pc[p] \in {"idle", "begin"}
  /\ MustWait
  /\ Goto(p, "sleep")
  /\ UNCHANGED <<diskVars, cache, lh, outstanding, committing, tail, boot, wrote, blk>>

BeginOpEnter(p) ==
  /\ boot = "up" /\ pc[p] \in {"idle", "begin"}
  /\ ~MustWait
  /\ outstanding' = outstanding + 1
  /\ wrote' = [wrote EXCEPT ![p] = {}]
  /\ Goto(p, "op")
  /\ UNCHANGED <<diskVars, cache, lh, committing, tail, boot, blk>>

-----------------------------------------------------------------------------
(***************************************************************************)
(* A block write in a call: bread, modify, log_write.  The size check is   *)
(* made before log.lock is taken, so the length may have grown when the    *)
(* block is appended.  The buffer stays locked from one step to the other. *)
(* panic() stops the machine: what is in memory is lost, as in a crash.    *)
(***************************************************************************)
TooBig == Len(lh) >= LOGSIZE \/ Len(lh) >= nlog - 1

LogWriteCheck(p, b, v) ==
  /\ boot = "up" /\ pc[p] = "op"
  /\ b \in wrote[p] \/ Cardinality(wrote[p]) < OpBlocks
  /\ \A q \in Procs : pc[q] = "lw" => blk[q] # b
  /\ boot' = IF TooBig \/ outstanding < 1 THEN "panic" ELSE boot
  /\ cache' = [cache EXCEPT ![b] = v]
  /\ wrote' = [wrote EXCEPT ![p] = @ \cup {b}]
  /\ blk' = [blk EXCEPT ![p] = b]
  /\ Goto(p, "lw")
  /\ UNCHANGED <<diskVars, lh, outstanding, committing, tail>>

\* Mutant: no absorption, a block logged before is logged again.
LogWriteAlwaysAppends(p) ==
  /\ boot = "up" /\ pc[p] = "lw"
  /\ lh' = Append(lh, blk[p])
  /\ Goto(p, "op")
  /\ UNCHANGED <<diskVars, cache, outstanding, committing, tail, boot, wrote, blk>>

LogWriteAppend(p) ==
  /\ boot = "up" /\ pc[p] = "lw"
  /\ lh' = IF Logged(blk[p]) THEN lh ELSE Append(lh, blk[p])
  /\ Goto(p, "op")
  /\ UNCHANGED <<diskVars, cache, outstanding, committing, tail, boot, wrote, blk>>

-----------------------------------------------------------------------------
(***************************************************************************)
(* end_op and commit                                                       *)
(***************************************************************************)
\* Mutant: the count is decremented once more in the branch that commits.
EndOpCountsTwice(p) ==
  /\ boot = "up" /\ pc[p] = "op"
  /\ outstanding' = IF outstanding = 1 THEN -1 ELSE outstanding - 1
  /\ boot' = IF committing THEN "panic" ELSE boot
  /\ committing' = (outstanding = 1)
  /\ pc' = [pc EXCEPT ![p] = IF outstanding = 1 THEN "commit" ELSE "idle"]
  /\ UNCHANGED <<diskVars, cache, lh, tail, wrote, blk>>

EndOp(p) ==
  /\ boot = "up" /\ pc[p] = "op"
  /\ outstanding' = outstanding - 1
  /\ boot' = IF committing THEN "panic" ELSE boot
  /\ committing' = (outstanding' = 0)
  /\ pc' = IF outstanding' = 0
           THEN [pc EXCEPT ![p] = "commit"]
           ELSE Woken([pc EXCEPT ![p] = "idle"])
  /\ UNCHANGED <<diskVars, cache, lh, tail, wrote, blk>>

\* Mutant: commit() writes the header without write_log().
CommitSkipsWriteLog(p) ==
  /\ boot = "up" /\ pc[p] = "commit"
  /\ Goto(p, IF lh = <<>> THEN "done" ELSE "whead")
  /\ tail' = 1
  /\ UNCHANGED <<diskVars, cache, lh, outstanding, committing, boot, wrote, blk>>

\* commit(): nothing to do for an empty transaction.
CommitStart(p) ==
  /\ boot = "up" /\ pc[p] = "commit"
  /\ Goto(p, IF lh = <<>> THEN "done" ELSE "wlog")
  /\ tail' = 1
  /\ UNCHANGED <<diskVars, cache, lh, outstanding, committing, boot, wrote, blk>>

\* The contents of log block i; past the log's end it is a home block.
LogBlock(i) == IF i < nlog THEN dlog[i] ELSE cache[AfterLog]

WriteLog(p) ==
  LET v == cache[lh[tail]] IN
  /\ boot = "up" /\ pc[p] = "wlog"
  /\ IF tail < nlog
     THEN dlog' = [dlog EXCEPT ![tail] = v] /\ UNCHANGED <<disk, cache>>
     ELSE /\ disk' = [disk EXCEPT ![AfterLog] = v]
          /\ cache' = [cache EXCEPT ![AfterLog] = v]
          /\ UNCHANGED dlog
  /\ tail' = tail + 1
  /\ Goto(p, IF tail = Len(lh) THEN "whead" ELSE "wlog")
  /\ UNCHANGED <<dhead, lh, outstanding, committing, boot, wrote, blk>>

\* write_head: the commit point.
WriteHead(p) ==
  /\ boot = "up" /\ pc[p] = "whead"
  /\ dhead' = lh
  /\ tail' = 1
  /\ Goto(p, "inst")
  /\ UNCHANGED <<disk, dlog, cache, lh, outstanding, committing, boot, wrote, blk>>

\* One round of install_trans: copy a log block home, through the cache.
InstallBlock ==
  /\ disk' = [disk EXCEPT ![lh[tail]] = LogBlock(tail)]
  /\ cache' = [cache EXCEPT ![lh[tail]] = LogBlock(tail)]
  /\ tail' = tail + 1

InstallTrans(p) ==
  /\ boot = "up" /\ pc[p] = "inst"
  /\ InstallBlock
  /\ Goto(p, IF tail = Len(lh) THEN "clear" ELSE "inst")
  /\ UNCHANGED <<dlog, dhead, lh, outstanding, committing, boot, wrote, blk>>

\* lh.n = 0; write_head() erases the transaction.
ClearHead(p) ==
  /\ boot = "up" /\ pc[p] = "clear"
  /\ lh' = <<>>
  /\ dhead' = <<>>
  /\ Goto(p, "done")
  /\ UNCHANGED <<disk, dlog, cache, outstanding, committing, tail, boot, wrote, blk>>

\* Mutant: end_op does not wake the waiters after the commit.
CommitDoneNoWakeup(p) ==
  /\ boot = "up" /\ pc[p] = "done"
  /\ committing' = FALSE
  /\ Goto(p, "idle")
  /\ UNCHANGED <<diskVars, cache, lh, outstanding, tail, boot, wrote, blk>>

CommitDone(p) ==
  /\ boot = "up" /\ pc[p] = "done"
  /\ committing' = FALSE
  /\ pc' = Woken([pc EXCEPT ![p] = "idle"])
  /\ UNCHANGED <<diskVars, cache, lh, outstanding, tail, boot, wrote, blk>>

-----------------------------------------------------------------------------
(***************************************************************************)
(* Crash, and initlog at the next boot                                     *)
(***************************************************************************)
Crash ==
  /\ boot' = "read"
  /\ cache' = disk
  /\ lh' = <<>> /\ outstanding' = 0 /\ committing' = FALSE /\ tail' = 1
  /\ pc' = [p \in Procs |-> "idle"]
  /\ wrote' = [p \in Procs |-> {}]
  /\ blk' = [p \in Procs |-> AfterLog]
  /\ UNCHANGED diskVars

ReadHead ==
  /\ boot = "read"
  /\ lh' = dhead
  /\ tail' = 1
  /\ boot' = IF dhead = <<>> THEN "clear" ELSE "inst"
  /\ UNCHANGED <<diskVars, cache, outstanding, committing, callVars>>

RecoverInstall ==
  /\ boot = "inst"
  /\ InstallBlock
  /\ boot' = IF tail = Len(lh) THEN "clear" ELSE "inst"
  /\ UNCHANGED <<dlog, dhead, lh, outstanding, committing, callVars>>

RecoverClear ==
  /\ boot = "clear"
  /\ lh' = <<>>
  /\ dhead' = <<>>
  /\ boot' = "up"
  /\ UNCHANGED <<disk, dlog, cache, outstanding, committing, tail, callVars>>

-----------------------------------------------------------------------------
Init ==
  /\ disk = [b \in Blocks |-> InitValue]
  /\ dlog = [i \in 1..(nlog - 1) |-> InitValue]
  /\ dhead = <<>>
  /\ cache = disk
  /\ lh = <<>> /\ outstanding = 0 /\ committing = FALSE /\ tail = 1
  /\ boot = "read"
  /\ pc = [p \in Procs |-> "idle"]
  /\ wrote = [p \in Procs |-> {}]
  /\ blk = [p \in Procs |-> AfterLog]

\* The steps a process goes on with once it is in a call.
Go(p) ==
  \/ LogWriteAppend(p) \/ CommitStart(p) \/ WriteLog(p) \/ WriteHead(p)
  \/ InstallTrans(p) \/ ClearHead(p) \/ CommitDone(p)

Recover == ReadHead \/ RecoverInstall \/ RecoverClear

Next ==
  \/ \E p \in Procs : BeginOpSleep(p) \/ BeginOpEnter(p) \/ Go(p) \/ EndOp(p)
  \/ \E p \in Procs, b \in Blocks, v \in Values : LogWriteCheck(p, b, v)
  \/ Recover
  \/ Crash

Spec == Init /\ [][Next]_vars

\* A process in the kernel goes on, and every call ends.
FairSpec ==
  /\ Spec
  /\ \A p \in Procs : WF_vars(Go(p)) /\ SF_vars(EndOp(p))
  /\ WF_vars(Recover)

-----------------------------------------------------------------------------
\* The types of the disk, of the buffers, of the log in memory and of the calls of log.c.
TypeOK ==
  /\ disk \in [Blocks -> Values]
  /\ dlog \in [1..(nlog - 1) -> Values]
  /\ dhead \in Seq(Blocks)
  /\ cache \in [Blocks -> Values]
  /\ lh \in Seq(Blocks)
  /\ outstanding \in Nat
  /\ committing \in BOOLEAN
  /\ tail \in Nat \ {0}
  /\ boot \in {"read", "inst", "clear", "up", "panic"}
  /\ pc \in [Procs -> {"idle", "begin", "sleep", "op", "lw", "commit", "wlog",
                       "whead", "inst", "clear", "done"}]
  /\ wrote \in [Procs -> SUBSET Blocks]
  /\ blk \in [Procs -> Blocks]

\* What a boot would make of the disk: the logged blocks win.
Recovered ==
  [b \in Blocks |->
     IF \E i \in 1..Len(dhead) : dhead[i] = b
     THEN LET i == CHOOSE i \in 1..Len(dhead) : dhead[i] = b
          IN  IF i < nlog THEN dlog[i] ELSE disk[AfterLog]
     ELSE disk[b]]

\* The calls between begin_op and end_op.
Active == {p \in Procs : pc[p] \in {"op", "lw"}}

\* File system calls are atomic and a crash at any block write, in the middle
\* of a commit or of a recovery, leaves all or nothing of a transaction:
\* the disk a boot would recover changes only at write_head, and then to what
\* the running system sees, with no call in progress.
Abstract == INSTANCE AtomicStore WITH
  mem    <- IF boot = "up" THEN cache ELSE Recovered,
  store  <- Recovered,
  active <- IF boot = "up" THEN Active ELSE {}
ImplementsAtomicStore == Abstract!Spec

\* "The logging system only commits when there are no FS system calls active":
\* outstanding counts the calls, one process commits at most, and none is
\* inside a call while it does.
QuiescentCommit ==
  boot = "up" =>
    /\ outstanding = Cardinality(Active)
    /\ committing => outstanding = 0
    /\ Cardinality({p \in Procs : pc[p] \in {"commit", "wlog", "whead", "inst",
                                             "clear", "done"}})
         = IF committing THEN 1 ELSE 0

\* Log absorption: whichever calls write a block, and however often, the
\* transaction in memory and on disk holds it once, so that recovery does not
\* depend on the order in which it installs.
LoggedOnce ==
  /\ \A i, j \in 1..Len(lh) : lh[i] = lh[j] => i = j
  /\ \A i, j \in 1..Len(dhead) : dhead[i] = dhead[j] => i = j

\* A call that went to sleep in begin_op is woken: by an end_op that leaves
\* room, or by the end of the commit.
WaiterWoken == \A p \in Procs : pc[p] = "sleep" ~> pc[p] # "sleep"
=============================================================================
