-------------------------------- MODULE Pipe --------------------------------
(***************************************************************************)
(* Pipes and the references to them: pipe.c, the file table of file.c, and *)
(* the system calls pipe, dup, close, read, write, fork and exit as far as *)
(* they reach it.                                                          *)
(*                                                                         *)
(* One pipe is followed, with the two files that are its ends.  Files of   *)
(* other kinds may take any part of the file table and of a process's      *)
(* descriptors, so both may be full at any time.  The counters nread and   *)
(* nwrite are unsigned and wrap at UintSize, 2^32 in the code.  A critical *)
(* section of the pipe's lock is one step, except that kill() can come     *)
(* between the test of proc->killed and the sleep.                         *)
(***************************************************************************)
EXTENDS Integers, Sequences, FiniteSets, FiniteSetsExt, SequencesExt

CONSTANTS
  NPROC,      \* slots of the process table; the first is in use at first
  PIPESIZE,
  UintSize,   \* the counters' range
  Bytes,
  Buffers,    \* what processes write
  Reads,      \* the numbers of bytes they ask for
  NOFILE,     \* descriptors of a process
  MaxKills    \* bound on the calls of kill

Procs == 1..NPROC
NoProc == 0

Ends == {"read", "write"}
Chans == {"nread", "nwrite"}
Awake == "none"                \* chan of a process that is not asleep

ASSUME PipeAssumption ==
  /\ NPROC \in Nat \ {0} /\ MaxKills \in Nat
  /\ PIPESIZE \in Nat \ {0} /\ UintSize \in Nat /\ NOFILE \in Nat \ {0, 1}
  /\ UintSize % PIPESIZE = 0 /\ UintSize > PIPESIZE
  /\ Buffers \subseteq Seq(Bytes) /\ Reads \subseteq Nat \ {0}

VARIABLES
  ref,       \* f->ref of the two files
  page,      \* the pipe's page is allocated
  nread, nwrite, data,
  open,      \* the ends e whose p->readopen or p->writeopen is set
  lock,      \* p->lock between the test and the sleep
  ofile,     \* the number of descriptors each process has for each end
  pc,        \* where a process is
  todo,      \* the bytes it has left to write
  want,      \* the number of bytes it asked for
  closing,   \* the end whose last reference the process has dropped
  chan, killed,
  unwoken    \* history: a killed writer left bytes, and no wakeup of readers since then

pipe == <<page, nread, nwrite, data, open, unwoken>>
calls == <<pc, todo, want, closing>>
vars == <<ref, pipe, lock, ofile, calls, chan, killed>>

Goto(p, l) == pc' = [pc EXCEPT ![p] = l]
Calls(p) == pc[p] = "user" /\ ~killed[p]

\* wakeup(c)
wakeup(c) == chan' = [p \in Procs |-> IF chan[p] = c THEN Awake ELSE chan[p]]

Used == (nwrite - nread) % UintSize
Contents == [i \in 1..Used |-> data[(nread + i - 1) % PIPESIZE]]

-----------------------------------------------------------------------------
(***************************************************************************)
(* Descriptors and files                                                   *)
(***************************************************************************)
\* sys_pipe.  It fails without a trace when a file, the page or the descriptors are
\* not to be had: what was allocated is closed again.
SysPipe(p) ==
  /\ Calls(p) /\ ~page /\ \A e \in Ends : ref[e] = 0
  /\ page' = TRUE /\ open' = Ends
  /\ nread' = 0 /\ nwrite' = 0 /\ unwoken' = FALSE /\ UNCHANGED data
  /\ ref' = [e \in Ends |-> 1]
  /\ \/ /\ ofile' = [ofile EXCEPT ![p] = [e \in Ends |-> 1]]
        /\ UNCHANGED pc
     \/ /\ UNCHANGED ofile                  \* fdalloc fails
        /\ Goto(p, "undo_read")
  /\ UNCHANGED <<todo, want, closing, lock, chan, killed>>

\* sys_dup
SysDup(p, e) ==
  /\ Calls(p) /\ ofile[p][e] > 0 /\ ofile[p]["read"] + ofile[p]["write"] < NOFILE
  /\ ofile' = [ofile EXCEPT ![p][e] = @ + 1]
  /\ ref' = [ref EXCEPT ![e] = @ + 1]
  /\ UNCHANGED <<pipe, lock, calls, chan, killed>>

\* fork and thread_create give the child every descriptor of the caller.
Fork(p) ==
  LET unused == {s \in Procs : pc[s] = "unused"}
      q == Min(unused)
  IN
  /\ Calls(p) /\ unused # {}
  /\ ofile' = [ofile EXCEPT ![q] = ofile[p]]
  /\ ref' = [e \in Ends |-> ref[e] + ofile[p][e]]
  /\ Goto(q, "user")
  /\ UNCHANGED <<pipe, lock, todo, want, closing, chan, killed>>

\* Mutant: the last reference is one too early.
fileclose_early(p, e, next) ==
  /\ ref' = [ref EXCEPT ![e] = @ - 1]
  /\ IF ref[e] > 2
     THEN Goto(p, next) /\ UNCHANGED closing
     ELSE Goto(p, "pipeclose") /\ closing' = [closing EXCEPT ![p] = <<e, next>>]
  /\ UNCHANGED <<pipe, lock, todo, want, chan, killed>>

\* fileclose, up to its call of pipeclose; next is where its caller goes on.
fileclose(p, e, next) ==
  /\ ref' = [ref EXCEPT ![e] = @ - 1]
  /\ IF ref[e] > 1
     THEN Goto(p, next) /\ UNCHANGED closing
     ELSE Goto(p, "pipeclose") /\ closing' = [closing EXCEPT ![p] = <<e, next>>]
  /\ UNCHANGED <<pipe, lock, todo, want, chan, killed>>

\* sys_close
SysClose(p, e) ==
  /\ Calls(p) /\ ofile[p][e] > 0
  /\ ofile' = [ofile EXCEPT ![p][e] = @ - 1]
  /\ fileclose(p, e, "user")

\* The two fileclose calls of a sys_pipe without descriptors.
UndoPipe(p) ==
  /\ pc[p] \in {"undo_read", "undo_write"}
  /\ IF pc[p] = "undo_read" THEN fileclose(p, "read", "undo_write") ELSE fileclose(p, "write", "user")
  /\ UNCHANGED ofile

\* Mutant: the writers are not woken when the last reader goes.
pipeclose_silent(p) ==
  LET e == closing[p][1]  left == open \ {e} IN
  /\ pc[p] = "pipeclose" /\ lock = NoProc
  /\ open' = left
  /\ IF e = "write" THEN wakeup("nread") ELSE UNCHANGED chan
  /\ page' = (left # {})
  /\ unwoken' = (unwoken /\ e # "write")
  /\ Goto(p, closing[p][2])
  /\ closing' = [closing EXCEPT ![p] = <<>>]
  /\ UNCHANGED <<ref, nread, nwrite, data, lock, ofile, todo, want, killed>>

\* pipeclose
pipeclose(p) ==
  LET e == closing[p][1]  left == open \ {e} IN
  /\ pc[p] = "pipeclose" /\ lock = NoProc
  /\ open' = left
  /\ wakeup(IF e = "write" THEN "nread" ELSE "nwrite")
  /\ page' = (left # {})
  /\ unwoken' = (unwoken /\ e # "write")
  /\ Goto(p, closing[p][2])
  /\ closing' = [closing EXCEPT ![p] = <<>>]
  /\ UNCHANGED <<ref, nread, nwrite, data, lock, ofile, todo, want, killed>>

\* exit(), by itself or because the process was killed, and its loop over the files.
Exit(p) ==
  /\ pc[p] = "user"
  /\ Goto(p, "exit")
  /\ UNCHANGED <<ref, pipe, lock, ofile, todo, want, closing, chan, killed>>

ExitClose(p) ==
  /\ pc[p] = "exit"
  /\ \/ \E e \in Ends : /\ ofile[p][e] > 0
                        /\ e = "read" \/ ofile[p]["read"] = 0
                        /\ ofile' = [ofile EXCEPT ![p][e] = @ - 1]
                        /\ fileclose(p, e, "exit")
     \/ /\ \A e \in Ends : ofile[p][e] = 0
        /\ Goto(p, "gone")
        /\ killed' = [killed EXCEPT ![p] = FALSE]
        /\ UNCHANGED <<ref, pipe, lock, ofile, todo, want, closing, chan>>

\* kill(): the process comes back from its sleep.
Kill(p) ==
  /\ pc[p] \notin {"unused", "gone"} /\ ~killed[p]
  /\ Cardinality({s \in Procs : killed[s]}) < MaxKills
  /\ killed' = [killed EXCEPT ![p] = TRUE]
  /\ chan' = [chan EXCEPT ![p] = Awake]
  /\ UNCHANGED <<ref, pipe, lock, ofile, calls>>

-----------------------------------------------------------------------------
(***************************************************************************)
(* pipewrite and piperead                                                  *)
(***************************************************************************)
\* filewrite calls pipewrite(p, addr, n).
Write(p, buf) ==
  /\ Calls(p) /\ ofile[p]["write"] > 0
  /\ Goto(p, "write")
  /\ todo' = [todo EXCEPT ![p] = buf]
  /\ UNCHANGED <<ref, pipe, lock, ofile, want, closing, chan, killed>>

\* Mutant: nwrite grows without end.
PutNoWrap(s, k) ==
  /\ data' = [i \in DOMAIN data |->
                LET j == (i - nwrite) % PIPESIZE IN IF j < k THEN s[j + 1] ELSE data[i]]
  /\ nwrite' = nwrite + k
  /\ UNCHANGED nread

\* The for loop puts k bytes: cell i gets the one that is its distance from nwrite on.
Put(s, k) ==
  /\ data' = [i \in DOMAIN data |->
                LET j == (i - nwrite) % PIPESIZE IN IF j < k THEN s[j + 1] ELSE data[i]]
  /\ nwrite' = (nwrite + k) % UintSize
  /\ UNCHANGED nread

Room == PIPESIZE - Used

\* The writer has the lock, and puts all it has, or what there is room for.
PipeWrite(p) ==
  LET s == todo[p]
      k == Min({Len(s), Room})
  IN
  /\ pc[p] = "write" /\ chan[p] = Awake /\ lock = NoProc
  /\ Put(s, k)
  /\ \/ /\ k = Len(s)
        /\ wakeup("nread") /\ unwoken' = FALSE
        /\ todo' = [todo EXCEPT ![p] = <<>>]
        /\ Goto(p, "user")
        /\ UNCHANGED lock
     \/ /\ k < Len(s) /\ ("read" \notin open \/ killed[p])
        /\ unwoken' = (unwoken \/ k > 0)
        /\ todo' = [todo EXCEPT ![p] = <<>>]
        /\ Goto(p, "user")
        /\ UNCHANGED <<lock, chan>>
     \/ /\ k < Len(s) /\ "read" \in open /\ ~killed[p]
        /\ wakeup("nread") /\ unwoken' = FALSE
        /\ todo' = [todo EXCEPT ![p] = SubSeq(s, k + 1, Len(s))]
        /\ Goto(p, "write_sleep")
        /\ lock' = p
  /\ UNCHANGED <<ref, page, open, ofile, want, closing, killed>>

\* sleep(&p->nwrite, &p->lock)
PipeWriteSleep(p) ==
  /\ pc[p] = "write_sleep"
  /\ chan' = [chan EXCEPT ![p] = "nwrite"]
  /\ lock' = NoProc
  /\ Goto(p, "write")
  /\ UNCHANGED <<ref, pipe, ofile, todo, want, closing, killed>>

Read(p, n) ==
  /\ Calls(p) /\ ofile[p]["read"] > 0
  /\ Goto(p, "read")
  /\ want' = [want EXCEPT ![p] = n]
  /\ UNCHANGED <<ref, pipe, lock, ofile, todo, closing, chan, killed>>

\* Mutant: a read takes one byte too many from an almost empty pipe.
PipeReadOver(p) ==
  LET k == Min({want[p], Used + 1}) IN
  /\ pc[p] = "read" /\ chan[p] = Awake /\ lock = NoProc
  /\ \/ /\ Used = 0 /\ "write" \in open /\ ~killed[p]
        /\ Goto(p, "read_sleep")
        /\ lock' = p
        /\ UNCHANGED <<nread, want, chan>>
     \/ /\ Used = 0 /\ "write" \in open /\ killed[p]
        /\ want' = [want EXCEPT ![p] = 0]
        /\ Goto(p, "user")
        /\ UNCHANGED <<nread, lock, chan>>
     \/ /\ Used > 0 \/ "write" \notin open
        /\ nread' = (nread + k) % UintSize
        /\ wakeup("nwrite")
        /\ want' = [want EXCEPT ![p] = 0]
        /\ Goto(p, "user")
        /\ UNCHANGED lock
  /\ UNCHANGED <<ref, page, nwrite, data, open, unwoken, ofile, todo, closing, killed>>

\* Mutant: a reader of an empty pipe sleeps even if there is no writer.
PipeReadIgnoresClose(p) ==
  LET k == Min({want[p], Used}) IN
  /\ pc[p] = "read" /\ chan[p] = Awake /\ lock = NoProc
  /\ \/ /\ Used = 0 /\ ~killed[p]
        /\ Goto(p, "read_sleep")
        /\ lock' = p
        /\ UNCHANGED <<nread, want, chan>>
     \/ /\ Used = 0 /\ killed[p]
        /\ want' = [want EXCEPT ![p] = 0]
        /\ Goto(p, "user")
        /\ UNCHANGED <<nread, lock, chan>>
     \/ /\ Used > 0
        /\ nread' = (nread + k) % UintSize
        /\ wakeup("nwrite")
        /\ want' = [want EXCEPT ![p] = 0]
        /\ Goto(p, "user")
        /\ UNCHANGED lock
  /\ UNCHANGED <<ref, page, nwrite, data, open, unwoken, ofile, todo, closing, killed>>

PipeRead(p) ==
  LET k == Min({want[p], Used}) IN
  /\ pc[p] = "read" /\ chan[p] = Awake /\ lock = NoProc
  /\ \/ /\ Used = 0 /\ "write" \in open /\ ~killed[p]
        /\ Goto(p, "read_sleep")
        /\ lock' = p
        /\ UNCHANGED <<nread, want, chan>>
     \/ /\ Used = 0 /\ "write" \in open /\ killed[p]
        /\ want' = [want EXCEPT ![p] = 0]
        /\ Goto(p, "user")
        /\ UNCHANGED <<nread, lock, chan>>
     \/ /\ Used > 0 \/ "write" \notin open
        /\ nread' = (nread + k) % UintSize
        /\ wakeup("nwrite")
        /\ want' = [want EXCEPT ![p] = 0]
        /\ Goto(p, "user")
        /\ UNCHANGED lock
  /\ UNCHANGED <<ref, page, nwrite, data, open, unwoken, ofile, todo, closing, killed>>

\* sleep(&p->nread, &p->lock)
PipeReadSleep(p) ==
  /\ pc[p] = "read_sleep"
  /\ chan' = [chan EXCEPT ![p] = "nread"]
  /\ lock' = NoProc
  /\ Goto(p, "read")
  /\ UNCHANGED <<ref, pipe, ofile, todo, want, closing, killed>>

-----------------------------------------------------------------------------
Init ==
  /\ ref = [e \in Ends |-> 0]
  /\ page = FALSE /\ nread = 0 /\ nwrite = 0 /\ open = {} /\ unwoken = FALSE
  /\ \E b \in Bytes : data = [i \in 0..(PIPESIZE - 1) |-> b]
  /\ lock = NoProc
  /\ ofile = [p \in Procs |-> [e \in Ends |-> 0]]
  /\ pc = [p \in Procs |-> IF p = 1 THEN "user" ELSE "unused"]
  /\ todo = [p \in Procs |-> <<>>] /\ want = [p \in Procs |-> 0] /\ closing = [p \in Procs |-> <<>>]
  /\ chan = [p \in Procs |-> Awake] /\ killed = [p \in Procs |-> FALSE]

\* What a process goes on with by itself once it is in the kernel.
Go(p) ==
  \/ UndoPipe(p) \/ pipeclose(p) \/ ExitClose(p)
  \/ PipeWrite(p) \/ PipeWriteSleep(p) \/ PipeRead(p) \/ PipeReadSleep(p)

Next ==
  \E p \in Procs :
    \/ Go(p) \/ SysPipe(p) \/ Exit(p) \/ Kill(p)
    \/ \E e \in Ends : SysDup(p, e) \/ SysClose(p, e)
    \/ Fork(p)
    \/ \E buf \in Buffers : Write(p, buf)
    \/ \E n \in Reads : Read(p, n)

Spec == Init /\ [][Next]_vars

\* A process in the kernel goes on; one that spins for the lock gets it in the end.
FairSpec == Spec /\ \A p \in Procs : SF_vars(Go(p))

-----------------------------------------------------------------------------
(***************************************************************************)
(* Properties                                                              *)
(***************************************************************************)
\* Every variable has its type; no file is referenced more often than descriptors allow.
TypeOK ==
  /\ ref \in [Ends -> 0..(NOFILE * Cardinality(Procs) + 1)]
  /\ page \in BOOLEAN
  /\ nread \in 0..(UintSize - 1) /\ nwrite \in 0..(UintSize - 1)
  /\ data \in [0..(PIPESIZE - 1) -> Bytes]
  /\ open \subseteq Ends
  /\ lock \in Procs \cup {NoProc}
  /\ ofile \in [Procs -> [Ends -> 0..NOFILE]]
  /\ pc \in [Procs -> {"unused", "user", "undo_read", "undo_write", "pipeclose", "exit", "gone",
                       "write", "write_sleep", "read", "read_sleep"}]
  /\ chan \in [Procs -> Chans \cup {Awake}]
  /\ killed \in [Procs -> BOOLEAN]
  /\ unwoken \in BOOLEAN

\* The pipe is there as long as somebody is inside it: no process reads, writes, sleeps
\* in or closes an end that is closed, or a pipe that kfree has taken.
NoUseAfterFree ==
  /\ page = (open # {})
  /\ \A p \in Procs :
       /\ pc[p] \in {"read", "read_sleep"} => "read" \in open
       /\ pc[p] \in {"write", "write_sleep"} => "write" \in open
       /\ pc[p] = "pipeclose" => closing[p][1] \in open /\ ref[closing[p][1]] = 0

\* A process that sleeps in the pipe has a reason to: a writer a full pipe and a reader
\* at the other end, a reader an empty pipe and a writer.  There is one exception in the
\* code, and no other: a writer that finds the pipe full and itself killed returns
\* without a wakeup for the bytes that it has just put, so readers sleep beside them
\* until the next writer wakes them.
NoLostWakeup ==
  \A p \in Procs :
    /\ chan[p] = "nwrite" => Used = PIPESIZE /\ "read" \in open
    /\ chan[p] = "nread" => /\ "write" \in open
                            /\ Used = 0 \/ unwoken

\* The ring of PIPESIZE cells with its wrapping counters, and the reference counts of its
\* ends, implement a byte stream.
Stream == INSTANCE ByteStream WITH
  Capacity <- PIPESIZE, ends <- open, inflight <- IF page THEN Contents ELSE <<>>
ImplementsStream == Stream!Spec

\* A reader or writer whose other end has been closed by everybody gets its answer.
HangUpSeen ==
  \A p \in Procs :
    /\ pc[p] \in {"read", "read_sleep"} /\ "write" \notin open ~> pc[p] \notin {"read", "read_sleep"}
    /\ pc[p] \in {"write", "write_sleep"} /\ "read" \notin open ~> pc[p] \notin {"write", "write_sleep"}
=============================================================================
