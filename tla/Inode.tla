------------------------------- MODULE Inode --------------------------------
(***************************************************************************)
(* Inodes, directories and path names: the inode cache of fs.c and the     *)
(* system calls of sysfile.c that name files.                              *)
(*                                                                         *)
(* A step is what a process does with one sleep lock of an inode held, or  *)
(* one critical section of icache.lock.  icache is indexed by inode        *)
(* number, because iget keeps one entry for each.  The content of a        *)
(* directory is a function from names to inode numbers; the content of a   *)
(* file is left to Log and to the block layer.  Every call runs inside a   *)
(* transaction of Log.  A relative path starts at the working directory.   *)
(*                                                                         *)
(* Where the code calls iput with another inode still locked, the model    *)
(* unlocks first: iput takes no sleep lock, so this only adds behaviours.  *)
(***************************************************************************)
EXTENDS Integers, Sequences, FiniteSets, FiniteSetsExt, SequencesExt

CONSTANTS
  Procs, NoProc,
  ninodes,   \* of the superblock; inode 0 is not used
  NINODE,    \* entries of icache
  Names,     \* file names, without the dots
  Paths,     \* the paths programs use
  Calls,     \* the system calls each process makes
  Overtake   \* whether a create may fall between the steps of an iput that frees

ROOTINO == 1
Inums == 1..(ninodes - 1)
NoInum == 0
Dots == {".", ".."}
AllCalls == {"open", "create", "mkdir", "link", "unlink", "chdir"}

ASSUME InodeAssumption ==
  /\ NoProc \notin Procs /\ ninodes \in Nat \ {0, 1} /\ NINODE \in Nat \ {0}
  /\ Names \cap Dots = {}
  /\ Paths \subseteq Seq(Names \cup Dots)
  /\ Calls \in [Procs -> SUBSET AllCalls] /\ Overtake \in BOOLEAN

VARIABLES
  disk,      \* the dinodes: type and nlink
  ents,      \* the entries of each directory
  icache,    \* ref, valid, type, nlink of each cached inode
  lock,      \* the sleep locks that are held from one step to the next
  cwd, file, \* the working directory and the open file of each process
  pc, call,  \* where a process is, in which system call
  path, new, \* what is left of the path; link's second path
  at,        \* the inode its walk has come to
  old,       \* link's inode, or the directory create and unlink have locked
  puts,      \* the inodes it has yet to iput before it goes on
  freeing,   \* how far an iput that frees the inode has come
  panic      \* what the kernel has panicked for

store == <<disk, ents>>
args == <<call, path, new>>
vars == <<store, icache, lock, cwd, file, pc, args, at, old, puts, freeing, panic>>

Free == "free"
NoEnts == [n \in {} |-> NoInum]
Has(d, n) == n \in DOMAIN ents[d]

\* A process goes on with its call when it has nothing to iput.
At(p, l) == pc[p] = l /\ puts[p] = <<>> /\ panic = "no"
Goto(p, l) == pc' = [pc EXCEPT ![p] = l]
Put(p, s) == puts' = [puts EXCEPT ![p] = s]

-----------------------------------------------------------------------------
(***************************************************************************)
(* The inode cache                                                         *)
(***************************************************************************)
\* Mutant: a cached inode is found without a new reference.
igetNoRef(c, i) ==
  [c EXCEPT ![i] = IF @.ref > 0 THEN @ ELSE [@ EXCEPT !.ref = 1, !.valid = FALSE]]

\* iget and idup, in a cache c.
iget(c, i) ==
  [c EXCEPT ![i] = IF @.ref > 0 THEN [@ EXCEPT !.ref = @ + 1]
                   ELSE [@ EXCEPT !.ref = 1, !.valid = FALSE]]

\* iget finds no entry to recycle.
NoEntry(i) == icache[i].ref = 0 /\ Cardinality({j \in Inums : icache[j].ref > 0}) >= NINODE

\* ilock: the inode is read from disk if it is not valid.
Loaded(i) ==
  IF icache[i].valid THEN icache
  ELSE [icache EXCEPT ![i] = [@ EXCEPT !.valid = TRUE, !.type = disk[i].type, !.nlink = disk[i].nlink]]

MayLock(i) == lock[i] = NoProc

\* What ilock panics for, and dirlookup.
IlockPanic(i) == icache[i].ref < 1 \/ (~icache[i].valid /\ disk[i].type = Free)
NotDir(i) == Loaded(i)[i].type # "dir"

\* panic, for a broken data structure or for a table that is full.
Panic(broken, full) == panic' = IF broken THEN "broken" ELSE IF full THEN "full" ELSE "no"

\* Mutant: the link count is not copied.
iupdateNoNlink(c, S) ==
  disk' = [i \in Inums |-> IF i \in S THEN [disk[i] EXCEPT !.type = c[i].type] ELSE disk[i]]

\* iupdate of the inodes S of a cache c.
iupdate(c, S) ==
  disk' = [i \in Inums |-> IF i \in S THEN [type |-> c[i].type, nlink |-> c[i].nlink] ELSE disk[i]]

\* Mutant: the link count is not tested.
LastPutNoLinkTest(i) == icache[i].ref = 1 /\ icache[i].valid

\* Mutant: the reference count is not tested.
LastPutNoRefTest(i) == icache[i].valid /\ icache[i].nlink = 0

\* Mutant: the count is tested as if it had been lowered.
LastPutOffByOne(i) == icache[i].ref = 0 /\ icache[i].valid /\ icache[i].nlink = 0

\* The last reference to an inode without links goes.
LastPut(i) == icache[i].ref = 1 /\ icache[i].valid /\ icache[i].nlink = 0

\* iput, its first critical section.
Iput(p) ==
  LET i == Head(puts[p]) IN
  /\ puts[p] # <<>> /\ freeing[p] = "no" /\ panic = "no"
  /\ IF LastPut(i)
     THEN freeing' = [freeing EXCEPT ![p] = "itrunc"] /\ UNCHANGED <<icache, puts>>
     ELSE /\ icache' = [icache EXCEPT ![i].ref = @ - 1]
          /\ Put(p, Tail(puts[p]))
          /\ UNCHANGED freeing
  /\ UNCHANGED <<store, lock, cwd, file, pc, args, at, old, panic>>

\* It frees the inode, with no lock at all.
IputItrunc(p) ==
  LET i == Head(puts[p]) IN
  /\ freeing[p] = "itrunc" /\ panic = "no"
  /\ disk' = [disk EXCEPT ![i] = [type |-> Free, nlink |-> icache[i].nlink]]
  /\ ents' = [ents EXCEPT ![i] = NoEnts]
  /\ icache' = [icache EXCEPT ![i].type = Free]
  /\ freeing' = [freeing EXCEPT ![p] = "flags"]
  /\ UNCHANGED <<lock, cwd, file, pc, args, at, old, puts, panic>>

\* Its second critical section.
IputFreed(p) ==
  LET i == Head(puts[p]) IN
  /\ freeing[p] = "flags" /\ panic = "no"
  /\ icache' = [icache EXCEPT ![i] = [@ EXCEPT !.valid = FALSE, !.ref = @ - 1]]
  /\ freeing' = [freeing EXCEPT ![p] = "no"]
  /\ Put(p, Tail(puts[p]))
  /\ UNCHANGED <<store, lock, cwd, file, pc, args, at, old, panic>>

-----------------------------------------------------------------------------
(***************************************************************************)
(* namex                                                                   *)
(***************************************************************************)
\* Where a call goes on when its path is found, and whether that is the parent's.
After == [open |-> "open", create |-> "create", mkdir |-> "create", link |-> "link_old",
          link_new |-> "link_new", unlink |-> "unlink", chdir |-> "chdir"]
nameiparent(c) == c \in {"create", "mkdir", "link_new", "unlink"}

\* A system call begins: namex takes its first reference.
Begin(p, c, from, s, t) ==
  /\ At(p, "user")
  /\ c = "open" \/ c = "create" => file[p] = NoInum
  /\ Goto(p, "walk")
  /\ call' = [call EXCEPT ![p] = c]
  /\ path' = [path EXCEPT ![p] = s]
  /\ new' = [new EXCEPT ![p] = t]
  /\ at' = [at EXCEPT ![p] = from]
  /\ icache' = iget(icache, from)
  /\ Panic(FALSE, NoEntry(from))
  /\ UNCHANGED <<store, lock, cwd, file, old, puts, freeing>>

\* A call goes to l, done with its walk.
Leave(p, l) ==
  /\ Goto(p, l)
  /\ call' = [call EXCEPT ![p] = "none"]
  /\ path' = [path EXCEPT ![p] = <<>>]
  /\ new' = [new EXCEPT ![p] = <<>>]
  /\ at' = [at EXCEPT ![p] = NoInum]

\* A system call has nothing left to do but its iputs.
Done(p) == Leave(p, "user")

\* Mutant: namex returns 0 without iunlockput.
NotFoundKeepsRef(p) ==
  Leave(p, IF call[p] = "link_new" THEN "link_bad" ELSE "user") /\ Put(p, <<>>)

\* The path is not found: the call fails, and link has its count to take back.
NotFound(p) ==
  /\ Leave(p, IF call[p] = "link_new" THEN "link_bad" ELSE "user")
  /\ Put(p, <<at[p]>>)

\* One turn of namex's loop, from ilock to iunlockput.
Walk(p) ==
  LET i == at[p]
      c == Loaded(i)
      name == Head(path[p])
      dir == c[i].type = "dir"
      stop == nameiparent(call[p]) /\ Len(path[p]) = 1
  IN
  /\ At(p, "walk") /\ path[p] # <<>> /\ MayLock(i)
  /\ \/ /\ dir /\ stop
        /\ Goto(p, After[call[p]])
        /\ icache' = c
        /\ Panic(IlockPanic(i), FALSE)
        /\ UNCHANGED <<args, at, puts>>
     \/ /\ dir /\ ~stop /\ Has(i, name)
        /\ path' = [path EXCEPT ![p] = Tail(@)]
        /\ at' = [at EXCEPT ![p] = ents[i][name]]
        /\ icache' = iget(c, ents[i][name])
        /\ Panic(IlockPanic(i), NoEntry(ents[i][name]))
        /\ Put(p, <<i>>)
        /\ UNCHANGED <<pc, call, new>>
     \/ /\ ~dir \/ (~stop /\ ~Has(i, name))
        /\ icache' = c
        /\ Panic(IlockPanic(i), FALSE)
        /\ NotFound(p)
  /\ UNCHANGED <<store, lock, cwd, file, old, freeing>>

\* The loop ends: a path without a last name has no parent.
WalkEnd(p) ==
  /\ At(p, "walk") /\ path[p] = <<>>
  /\ IF nameiparent(call[p]) THEN NotFound(p)
     ELSE Goto(p, After[call[p]]) /\ UNCHANGED <<args, at, puts>>
  /\ UNCHANGED <<store, icache, lock, cwd, file, old, freeing, panic>>

-----------------------------------------------------------------------------
(***************************************************************************)
(* open, close and chdir                                                   *)
(***************************************************************************)
\* sys_open with the inode that namei has found, or that create has found or made.
\* It fails for want of a file or descriptor, and for a directory to be written.
SysOpen(p) ==
  LET i == at[p] IN
  /\ At(p, "open") /\ MayLock(i)
  /\ icache' = Loaded(i)
  /\ Panic(IlockPanic(i), FALSE)
  /\ \/ file' = [file EXCEPT ![p] = i] /\ UNCHANGED puts
     \/ Put(p, <<i>>) /\ UNCHANGED file
  /\ Done(p)
  /\ UNCHANGED <<store, lock, cwd, old, freeing>>

\* sys_close of the last descriptor for the file.
SysClose(p) ==
  /\ At(p, "user") /\ file[p] # NoInum
  /\ Put(p, <<file[p]>>)
  /\ file' = [file EXCEPT ![p] = NoInum]
  /\ UNCHANGED <<store, icache, lock, cwd, pc, args, at, old, freeing, panic>>

SysChdir(p) ==
  LET i == at[p]  c == Loaded(i) IN
  /\ At(p, "chdir") /\ MayLock(i)
  /\ icache' = c
  /\ Panic(IlockPanic(i), FALSE)
  /\ IF c[i].type = "dir"
     THEN Put(p, <<cwd[p]>>) /\ cwd' = [cwd EXCEPT ![p] = i]
     ELSE Put(p, <<i>>) /\ UNCHANGED cwd
  /\ Done(p)
  /\ UNCHANGED <<store, lock, file, old, freeing>>

-----------------------------------------------------------------------------
(***************************************************************************)
(* create, link and unlink                                                 *)
(***************************************************************************)
\* Mutant: the parent is unlocked after the lookup.
HoldNothing(p, d) == UNCHANGED lock

\* The parent stays locked.
Hold(p, d) == lock' = [lock EXCEPT ![d] = p]

FreeInums == {i \in Inums : disk[i].type = Free}

\* create, with the parent locked, to the iget of dirlookup or of ialloc.
CreateLookup(p) ==
  LET d == at[p]
      c == Loaded(d)
      name == Head(path[p])
      i == IF Has(d, name) THEN ents[d][name] ELSE Min(FreeInums)
  IN
  /\ At(p, "create") /\ MayLock(d) /\ (Has(d, name) \/ FreeInums # {})
  /\ Overtake \/ \A q \in Procs : freeing[q] # "flags"
  /\ icache' = iget(c, i)
  /\ Panic(IlockPanic(d) \/ NotDir(d), NoEntry(i))
  /\ at' = [at EXCEPT ![p] = i]
  /\ IF Has(d, name)
     THEN /\ Put(p, <<d>>)
          /\ Goto(p, "create_old")
          /\ UNCHANGED <<disk, old, lock>>
     ELSE /\ disk' = [disk EXCEPT ![i] = [type |-> IF call[p] = "mkdir" THEN "dir" ELSE "file",
                                          nlink |-> 0]]
          /\ old' = [old EXCEPT ![p] = d]
          /\ Hold(p, d)
          /\ Goto(p, "create_new")
          /\ UNCHANGED puts
  /\ UNCHANGED <<ents, cwd, file, call, path, new, freeing>>

\* ialloc finds no free inode.
IallocFull(p) ==
  /\ At(p, "create") /\ MayLock(at[p]) /\ ~Has(at[p], Head(path[p])) /\ FreeInums = {}
  /\ Panic(IlockPanic(at[p]) \/ NotDir(at[p]), TRUE)
  /\ UNCHANGED <<store, icache, lock, cwd, file, pc, args, at, old, puts, freeing>>

\* create finds the name taken: O_CREATE may open a file, mkdir fails.
CreateOld(p) ==
  LET i == at[p]  c == Loaded(i) IN
  /\ At(p, "create_old") /\ MayLock(i)
  /\ icache' = c
  /\ Panic(IlockPanic(i), FALSE)
  /\ \/ /\ call[p] = "create" /\ c[i].type = "file"
        /\ file' = [file EXCEPT ![p] = i]
        /\ UNCHANGED puts
     \/ Put(p, <<i>>) /\ UNCHANGED file
  /\ Done(p)
  /\ UNCHANGED <<store, lock, cwd, old, freeing>>

\* create goes on with the new inode, both locked.
CreateNew(p) ==
  LET i == at[p]
      d == old[p]
      dir == call[p] = "mkdir"
      c == [Loaded(i) EXCEPT ![i].nlink = 1, ![d].nlink = IF dir THEN @ + 1 ELSE @]
      dots == [n \in Dots |-> IF n = "." THEN i ELSE d]
      name == Head(path[p])
  IN
  /\ At(p, "create_new") /\ MayLock(i)
  /\ icache' = c
  /\ Panic(IlockPanic(i) \/ (dir /\ NotDir(i)) \/ Has(d, name), FALSE)
  /\ iupdate(c, {i, d})
  /\ ents' = [ents EXCEPT ![i] = IF dir THEN dots ELSE NoEnts,
                          ![d] = [n \in DOMAIN @ \cup {name} |-> IF n = name THEN i ELSE @[n]]]
  /\ lock' = [lock EXCEPT ![d] = NoProc]
  /\ old' = [old EXCEPT ![p] = NoInum]
  /\ \/ ~dir /\ file' = [file EXCEPT ![p] = i] /\ Put(p, <<d>>)
     \/ Put(p, <<d, i>>) /\ UNCHANGED file
  /\ Done(p)
  /\ UNCHANGED <<cwd, freeing>>

\* sys_unlink, with the parent locked, to the iget of dirlookup.
UnlinkLookup(p) ==
  LET d == at[p]
      c == Loaded(d)
      name == Head(path[p])
  IN
  /\ At(p, "unlink") /\ MayLock(d)
  /\ IF name \in Dots \/ ~Has(d, name)
     THEN /\ icache' = c
          /\ Panic(IlockPanic(d), FALSE)
          /\ Put(p, <<d>>)
          /\ Done(p)
          /\ UNCHANGED <<old, lock>>
     ELSE LET i == ents[d][name] IN
          /\ icache' = iget(c, i)
          /\ Panic(IlockPanic(d) \/ NotDir(d), NoEntry(i))
          /\ at' = [at EXCEPT ![p] = i]
          /\ old' = [old EXCEPT ![p] = d]
          /\ Hold(p, d)
          /\ Goto(p, "unlink_ip")
          /\ UNCHANGED <<args, puts>>
  /\ UNCHANGED <<store, cwd, file, freeing>>

isdirempty(i) == DOMAIN ents[i] \subseteq Dots

\* sys_unlink, with both locked, to the iunlockput of the parent.
UnlinkEntry(p) ==
  LET i == at[p]
      d == old[p]
      c == Loaded(i)
      dir == c[i].type = "dir"
      less == [c EXCEPT ![d].nlink = IF dir THEN @ - 1 ELSE @]
  IN
  /\ At(p, "unlink_ip") /\ MayLock(i)
  /\ Panic(IlockPanic(i) \/ c[i].nlink < 1, FALSE)
  /\ IF dir /\ ~isdirempty(i)
     THEN /\ icache' = c
          /\ lock' = [lock EXCEPT ![d] = NoProc]
          /\ Put(p, <<i, d>>)
          /\ Done(p)
          /\ UNCHANGED store
     ELSE /\ icache' = less
          /\ iupdate(less, {d})
          /\ ents' = [ents EXCEPT ![d] = [n \in DOMAIN @ \ {Head(path[p])} |-> @[n]]]
          /\ lock' = [lock EXCEPT ![d] = NoProc, ![i] = p]
          /\ Put(p, <<d>>)
          /\ Goto(p, "unlink_nlink")
          /\ UNCHANGED <<args, at>>
  /\ old' = [old EXCEPT ![p] = NoInum]
  /\ UNCHANGED <<cwd, file, freeing>>

\* sys_unlink, after the parent is put.
UnlinkNlink(p) ==
  LET i == at[p]
      less == [icache EXCEPT ![i].nlink = @ - 1]
  IN
  /\ At(p, "unlink_nlink")
  /\ icache' = less
  /\ iupdate(less, {i})
  /\ lock' = [lock EXCEPT ![i] = NoProc]
  /\ Put(p, <<i>>)
  /\ Done(p)
  /\ UNCHANGED <<ents, cwd, file, old, freeing, panic>>

\* sys_link, with the old inode locked; then it walks to the new name's parent.
LinkOld(p) ==
  LET i == at[p]
      c == Loaded(i)
      more == [c EXCEPT ![i].nlink = @ + 1]
  IN
  /\ At(p, "link_old") /\ MayLock(i)
  /\ IF c[i].type = "dir"
     THEN /\ icache' = c
          /\ Panic(IlockPanic(i), FALSE)
          /\ Put(p, <<i>>)
          /\ Done(p)
          /\ UNCHANGED <<disk, old>>
     ELSE \E from \in {ROOTINO, cwd[p]} :
          /\ icache' = iget(more, from)
          /\ Panic(IlockPanic(i), NoEntry(from))
          /\ iupdate(more, {i})
          /\ old' = [old EXCEPT ![p] = i]
          /\ call' = [call EXCEPT ![p] = "link_new"]
          /\ path' = [path EXCEPT ![p] = new[p]]
          /\ new' = [new EXCEPT ![p] = <<>>]
          /\ at' = [at EXCEPT ![p] = from]
          /\ Goto(p, "walk")
          /\ UNCHANGED puts
  /\ UNCHANGED <<ents, lock, cwd, file, freeing>>

\* dirlink in the new parent, which fails if the name is taken.
LinkNew(p) ==
  LET d == at[p]
      c == Loaded(d)
      name == Head(path[p])
      i == old[p]
  IN
  /\ At(p, "link_new") /\ MayLock(d)
  /\ IF Has(d, name)
     THEN LET there == ents[d][name] IN
          /\ icache' = iget(c, there)
          /\ Panic(IlockPanic(d) \/ NotDir(d), NoEntry(there))
          /\ Put(p, <<there, d>>)
          /\ Leave(p, "link_bad")
          /\ UNCHANGED <<ents, old>>
     ELSE /\ icache' = c
          /\ Panic(IlockPanic(d) \/ NotDir(d), FALSE)
          /\ ents' = [ents EXCEPT ![d] = [n \in DOMAIN @ \cup {name} |-> IF n = name THEN i ELSE @[n]]]
          /\ Put(p, <<d, i>>)
          /\ old' = [old EXCEPT ![p] = NoInum]
          /\ Done(p)
  /\ UNCHANGED <<disk, lock, cwd, file, freeing>>

LinkBad(p) ==
  LET i == old[p]
      c == [Loaded(i) EXCEPT ![i].nlink = @ - 1]
  IN
  /\ At(p, "link_bad") /\ MayLock(i)
  /\ icache' = c
  /\ Panic(IlockPanic(i), FALSE)
  /\ iupdate(c, {i})
  /\ Put(p, <<i>>)
  /\ old' = [old EXCEPT ![p] = NoInum]
  /\ Done(p)
  /\ UNCHANGED <<ents, lock, cwd, file, freeing>>

-----------------------------------------------------------------------------
\* mkfs makes a root directory and nothing else; every process starts there.
Init ==
  /\ disk = [i \in Inums |-> IF i = ROOTINO THEN [type |-> "dir", nlink |-> 1]
                             ELSE [type |-> Free, nlink |-> 0]]
  /\ ents = [i \in Inums |-> IF i = ROOTINO THEN [n \in Dots |-> ROOTINO] ELSE NoEnts]
  /\ icache = [i \in Inums |-> [ref |-> IF i = ROOTINO THEN Cardinality(Procs) ELSE 0,
                                valid |-> FALSE, type |-> Free, nlink |-> 0]]
  /\ lock = [i \in Inums |-> NoProc]
  /\ cwd = [p \in Procs |-> ROOTINO] /\ file = [p \in Procs |-> NoInum]
  /\ pc = [p \in Procs |-> "user"] /\ call = [p \in Procs |-> "none"]
  /\ path = [p \in Procs |-> <<>>] /\ new = [p \in Procs |-> <<>>]
  /\ at = [p \in Procs |-> NoInum] /\ old = [p \in Procs |-> NoInum]
  /\ puts = [p \in Procs |-> <<>>] /\ freeing = [p \in Procs |-> "no"]
  /\ panic = "no"

\* What a process goes on with by itself.
Go(p) ==
  \/ Iput(p) \/ IputItrunc(p) \/ IputFreed(p) \/ Walk(p) \/ WalkEnd(p) \/ SysOpen(p) \/ SysChdir(p)
  \/ CreateLookup(p) \/ IallocFull(p) \/ CreateOld(p) \/ CreateNew(p)
  \/ UnlinkLookup(p) \/ UnlinkEntry(p) \/ UnlinkNlink(p)
  \/ LinkOld(p) \/ LinkNew(p) \/ LinkBad(p)

\* A kernel that has panicked stands still.
Halted == panic # "no" /\ UNCHANGED vars

Next ==
  \/ Halted
  \/ \E p \in Procs :
       \/ Go(p)
       \/ SysClose(p)
       \/ \E c \in Calls[p], s \in Paths, from \in {ROOTINO, cwd[p]} :
            \E t \in IF c = "link" THEN Paths ELSE {<<>>} : Begin(p, c, from, s, t)

Spec == Init /\ [][Next]_vars

-----------------------------------------------------------------------------
(***************************************************************************)
(* Properties                                                              *)
(***************************************************************************)
Types == {Free, "file", "dir"}

\* The types of the variables, of the dinodes, the cache and the calls of fs.c and sysfile.c.
TypeOK ==
  /\ disk \in [Inums -> [type : Types, nlink : Nat]]
  /\ \A i \in Inums : DOMAIN ents[i] \subseteq Names \cup Dots
                     /\ \A n \in DOMAIN ents[i] : ents[i][n] \in Inums
  /\ icache \in [Inums -> [ref : Nat, valid : BOOLEAN, type : Types, nlink : Nat]]
  /\ lock \in [Inums -> Procs \cup {NoProc}]
  /\ cwd \in [Procs -> Inums]
  /\ {file, at, old} \subseteq [Procs -> Inums \cup {NoInum}]
  /\ \A p \in Procs : path[p] \in Seq(Names \cup Dots) /\ puts[p] \in Seq(Inums)
  /\ freeing \in [Procs -> {"no", "itrunc", "flags"}]
  /\ panic \in {"no", "broken", "full"}

References(p) == <<cwd[p], file[p], at[p], old[p]>> \o puts[p]

\* The reference count of a cached inode is the number of pointers to it that
\* processes have: working directories, open files and the variables of calls
\* under way.  iget and idup take one and iput gives it back, on every path
\* through namex, create, sys_link, sys_unlink, sys_open and sys_chdir.
RefsCounted ==
  \A i \in Inums :
    icache[i].ref = MapThenSumSet(
      LAMBDA p : Cardinality({k \in DOMAIN References(p) : References(p)[k] = i}), Procs)

\* A cached inode that is valid agrees with the inode on the disk: whoever
\* changes one calls iupdate before it lets go of the lock, and iput clears
\* the flag of an inode that it frees.
CacheCoherent ==
  \A i \in Inums :
    icache[i].ref > 0 /\ icache[i].valid =>
      icache[i].type = disk[i].type /\ icache[i].nlink = disk[i].nlink

Linked(i) == {e \in Inums \X Names : Has(e[1], e[2]) /\ ents[e[1]][e[2]] = i}

\* A directory entry never outlives its inode: what an entry names is allocated
\* and has a link count that covers all the entries that name it, whatever
\* creates, links, removals and failing links are under way.
EntriesBacked ==
  \A i \in Inums : Linked(i) # {} => disk[i].type # Free /\ disk[i].nlink >= Cardinality(Linked(i))

\* iput frees an inode only when nobody uses it: open files, working directories
\* and the inodes of walks and calls under way are allocated, even after their
\* last name has been removed.
HeldAllocated ==
  \A p \in Procs : \A i \in {cwd[p], file[p], at[p], old[p]} \ {NoInum} : disk[i].type # Free

\* An inode without links does not stay behind: while it is allocated some
\* process has a reference to it, whose iput will free it.
OrphansHeld ==
  \A i \in Inums : disk[i].type # Free /\ disk[i].nlink = 0 => icache[i].ref > 0

\* The kernel does not panic for an inode without a type, a directory that is
\* none, a link count of zero or a name that create finds taken.
NoPanic == panic # "broken"
=============================================================================
