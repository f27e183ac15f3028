--------------------------------- MODULE Pipe ---------------------------------
(***************************************************************************)
(* A pipe of kernel/pipe.c, shared by processes that read, write, fork,    *)
(* close their ends and are killed.                                        *)
(*                                                                         *)
(* pi->lock is explicit.  sleep(chan, &pi->lock) gives the lock up and     *)
(* registers the sleeper in one step, which is what the p->lock protocol   *)
(* of module Proc provides; a woken process goes back to acquire().  Each  *)
(* iteration of the byte loops is one step, because kill() does not take   *)
(* pi->lock and may fall between two iterations.                           *)
(***************************************************************************)
EXTENDS Integers, Sequences

CONSTANTS
  Procs,
  Byte,
  PIPESIZE,
  WRAP,       \* 2^32: the counters are of type uint
  MaxN,       \* bound: bytes asked for in one call
  Killable,   \* processes that may be killed
  Free,       \* pi->lock has no holder
  Junk        \* what kfree() fills a page with

ASSUME PipeAssumption ==
  /\ PIPESIZE \in Nat \ {0}
  /\ WRAP \in Nat /\ WRAP > PIPESIZE
  /\ WRAP % PIPESIZE = 0
  /\ MaxN \in Nat
  /\ Killable \subseteq Procs
  /\ Free \notin Procs
  /\ Junk \notin Byte \cup {"eof", "nothing"}

VARIABLES
  data, nread, nwrite, readopen, writeopen,  \* struct pipe
  lock,     \* holder of pi->lock
  page,     \* the page of the pipe is allocated
  ends,     \* which ends of the pipe a process has open
  killed,
  pc, i, n, \* where a process is in the kernel; locals of the byte loops
  seen      \* the last byte or end-of-file that piperead() delivered

pipe  == <<data, nread, nwrite, readopen, writeopen>>
local == <<i, n>>
vars  == <<pipe, lock, page, ends, killed, pc, local, seen>>

Reading == {"r_lock", "r_test", "r_block", "r_sleep", "r_copy"}
Writing == {"w_lock", "w_loop", "w_block", "w_sleep"}
Closing == {"close_r", "close_w", "free"}

TypeOK ==
  /\ data \in [0..PIPESIZE-1 -> Byte \cup {Junk}]
  /\ nread \in 0..WRAP-1 /\ nwrite \in 0..WRAP-1
  /\ readopen \in BOOLEAN /\ writeopen \in BOOLEAN /\ page \in BOOLEAN
  /\ lock \in Procs \cup {Free}
  /\ ends \in [Procs -> SUBSET {"r", "w"}]
  /\ killed \in [Procs -> BOOLEAN]
  /\ pc \in [Procs -> Reading \cup Writing \cup Closing \cup {"user"}]
  /\ i \in [Procs -> 0..MaxN] /\ n \in [Procs -> 0..MaxN]
  /\ seen \in Byte \cup {"eof", "nothing"}

Init ==
  /\ data = [k \in 0..PIPESIZE-1 |-> Junk]
  /\ nread = 0 /\ nwrite = 0
  /\ readopen = FALSE /\ writeopen = FALSE
  /\ lock = Free
  /\ page = FALSE
  /\ ends = [p \in Procs |-> {}]
  /\ killed = [p \in Procs |-> FALSE]
  /\ pc = [p \in Procs |-> "user"]
  /\ i = [p \in Procs |-> 0] /\ n = [p \in Procs |-> 0]
  /\ seen = "nothing"

Goto(p, l) == pc' = [pc EXCEPT ![p] = l]

\* The locals of a call end with it.
Done(p) == i' = [i EXCEPT ![p] = 0] /\ n' = [n EXCEPT ![p] = 0]

\* wakeup(chan) while p moves on to l: every process that sleeps at
\* `asleep' returns to acquire() at `again'.
WakeAndGoto(p, l, asleep, again) ==
  pc' = [x \in Procs |-> IF x = p THEN l
                         ELSE IF pc[x] = asleep THEN again ELSE pc[x]]

Empty == nread = nwrite
Full  == nwrite = (nread + PIPESIZE) % WRAP

HasEnd(e) == \E p \in Procs : e \in ends[p]

-------------------------------------------------------------------------------
(* The life of the pipe and of its ends.                                   *)

\* pipealloc(): counters and flags are set, the buffer is not.
PipeAlloc(p) ==
  /\ ~page
  /\ pc[p] = "user" /\ ~killed[p]
  /\ page' = TRUE
  /\ readopen' = TRUE /\ writeopen' = TRUE
  /\ nread' = 0 /\ nwrite' = 0
  /\ lock' = Free
  /\ ends' = [ends EXCEPT ![p] = {"r", "w"}]
  /\ UNCHANGED <<data, killed, pc, local, seen>>

\* kfork(): the child, in a slot that holds nothing, inherits the open files.
Fork(p, child) ==
  /\ pc[p] = "user" /\ ~killed[p]
  /\ ends[p] # {}
  /\ pc[child] = "user" /\ ends[child] = {}
  /\ ends' = [ends EXCEPT ![child] = ends[p]]
  /\ killed' = [killed EXCEPT ![child] = FALSE]
  /\ UNCHANGED <<pipe, lock, page, pc, local, seen>>

\* fileclose(): the reference is dropped, also by exit; whoever drops the last
\* one goes on to pipeclose().
FileClose(p, e) ==
  /\ pc[p] = "user"
  /\ e \in ends[p]
  /\ ends' = [ends EXCEPT ![p] = @ \ {e}]
  /\ Goto(p, IF \E x \in Procs \ {p} : e \in ends[x] THEN "user"
             ELSE IF e = "r" THEN "close_r" ELSE "close_w")
  /\ UNCHANGED <<pipe, lock, page, killed, local, seen>>

\* pipeclose(pi, 0)
PipeCloseRead(p) ==
  /\ pc[p] = "close_r"
  /\ lock = Free
  /\ readopen' = FALSE
  /\ WakeAndGoto(p, IF writeopen THEN "user" ELSE "free", "w_sleep", "w_lock")
  /\ UNCHANGED <<data, nread, nwrite, writeopen, lock, page, ends, killed, local, seen>>

\* As PipeCloseWrite, but it frees the page whatever the read end is.
PipeCloseWriteFrees(p) ==
  /\ pc[p] = "close_w"
  /\ lock = Free
  /\ writeopen' = FALSE
  /\ WakeAndGoto(p, "free", "r_sleep", "r_lock")
  /\ UNCHANGED <<data, nread, nwrite, readopen, lock, page, ends, killed, local, seen>>

\* As PipeCloseWrite, but it wakes the writers' channel.
PipeCloseWriteWakesWriters(p) ==
  /\ pc[p] = "close_w"
  /\ lock = Free
  /\ writeopen' = FALSE
  /\ WakeAndGoto(p, IF readopen THEN "user" ELSE "free", "w_sleep", "w_lock")
  /\ UNCHANGED <<data, nread, nwrite, readopen, lock, page, ends, killed, local, seen>>

\* pipeclose(pi, 1)
PipeCloseWrite(p) ==
  /\ pc[p] = "close_w"
  /\ lock = Free
  /\ writeopen' = FALSE
  /\ WakeAndGoto(p, IF readopen THEN "user" ELSE "free", "r_sleep", "r_lock")
  /\ UNCHANGED <<data, nread, nwrite, readopen, lock, page, ends, killed, local, seen>>

\* kfree(pi), after the lock has been released.
PipeFree(p) ==
  /\ pc[p] = "free"
  /\ page' = FALSE
  /\ data' = [k \in 0..PIPESIZE-1 |-> Junk]
  /\ Goto(p, "user")
  /\ UNCHANGED <<nread, nwrite, readopen, writeopen, lock, ends, killed, local, seen>>

\* kkill(): marks the process and makes it runnable if it sleeps.
Kill(p) ==
  /\ p \in Killable /\ ~killed[p]
  /\ ends[p] # {} \/ pc[p] # "user"
  /\ killed' = [killed EXCEPT ![p] = TRUE]
  /\ Goto(p, CASE pc[p] = "r_sleep" -> "r_lock"
               [] pc[p] = "w_sleep" -> "w_lock"
               [] OTHER -> pc[p])
  /\ UNCHANGED <<pipe, lock, page, ends, local, seen>>

-------------------------------------------------------------------------------
(* pipewrite()                                                             *)

WriteBegin(p, k) ==
  /\ pc[p] = "user" /\ ~killed[p]
  /\ "w" \in ends[p]
  /\ n' = [n EXCEPT ![p] = k]
  /\ Goto(p, "w_lock")
  /\ UNCHANGED <<pipe, lock, page, ends, killed, i, seen>>

WriteLock(p) ==
  /\ pc[p] = "w_lock"
  /\ lock = Free
  /\ lock' = p
  /\ Goto(p, "w_loop")
  /\ UNCHANGED <<pipe, page, ends, killed, local, seen>>

\* The read end is closed or the process is killed: -1, whatever was written.
WriteFails(p) ==
  /\ pc[p] = "w_loop"
  /\ i[p] < n[p]
  /\ ~readopen \/ killed[p]
  /\ lock' = Free
  /\ Goto(p, "user")
  /\ Done(p)
  /\ UNCHANGED <<pipe, page, ends, killed, seen>>

\* The pipe is full: wake the readers, then sleep(&pi->nwrite, &pi->lock).
WriteFull(p) ==
  /\ pc[p] = "w_loop"
  /\ i[p] < n[p]
  /\ readopen /\ ~killed[p]
  /\ Full
  /\ WakeAndGoto(p, "w_block", "r_sleep", "r_lock")
  /\ UNCHANGED <<pipe, lock, page, ends, killed, local, seen>>

WriteSleep(p) ==
  /\ pc[p] = "w_block"
  /\ lock' = Free
  /\ Goto(p, "w_sleep")
  /\ UNCHANGED <<pipe, page, ends, killed, local, seen>>

\* As WriteByte, but the room is tested by comparing the counters.
WriteByteCompares(p, b) ==
  /\ pc[p] = "w_loop"
  /\ i[p] < n[p]
  /\ readopen /\ ~killed[p]
  /\ nwrite < nread + PIPESIZE
  /\ data' = [data EXCEPT ![nwrite % PIPESIZE] = b]
  /\ nwrite' = (nwrite + 1) % WRAP
  /\ i' = [i EXCEPT ![p] = @ + 1]
  /\ UNCHANGED <<nread, readopen, writeopen, lock, page, ends, killed, pc, n, seen>>

\* copyin() delivers b and it goes into the next slot.
WriteByte(p, b) ==
  /\ pc[p] = "w_loop"
  /\ i[p] < n[p]
  /\ readopen /\ ~killed[p]
  /\ ~Full
  /\ data' = [data EXCEPT ![nwrite % PIPESIZE] = b]
  /\ nwrite' = (nwrite + 1) % WRAP
  /\ i' = [i EXCEPT ![p] = @ + 1]
  /\ UNCHANGED <<nread, readopen, writeopen, lock, page, ends, killed, pc, n, seen>>

\* As WriteEnd, but it does not wake the readers.
WriteEndSilently(p) ==
  /\ pc[p] = "w_loop"
  /\ i[p] < n[p] => readopen /\ ~killed[p] /\ ~Full
  /\ lock' = Free
  /\ Goto(p, "user")
  /\ Done(p)
  /\ UNCHANGED <<pipe, page, ends, killed, seen>>

\* All is written, or copyin() fails where there is room: wake the readers
\* and return i.
WriteEnd(p) ==
  /\ pc[p] = "w_loop"
  /\ i[p] < n[p] => readopen /\ ~killed[p] /\ ~Full
  /\ lock' = Free
  /\ WakeAndGoto(p, "user", "r_sleep", "r_lock")
  /\ Done(p)
  /\ UNCHANGED <<pipe, page, ends, killed, seen>>

-------------------------------------------------------------------------------
(* piperead()                                                              *)

ReadBegin(p, k) ==
  /\ pc[p] = "user" /\ ~killed[p]
  /\ "r" \in ends[p]
  /\ n' = [n EXCEPT ![p] = k]
  /\ Goto(p, "r_lock")
  /\ UNCHANGED <<pipe, lock, page, ends, killed, i, seen>>

ReadLock(p) ==
  /\ pc[p] = "r_lock"
  /\ lock = Free
  /\ lock' = p
  /\ Goto(p, "r_test")
  /\ UNCHANGED <<pipe, page, ends, killed, local, seen>>

\* The wait loop: leave it, or go to sleep unless killed.
ReadTest(p) ==
  /\ pc[p] = "r_test"
  /\ Empty /\ writeopen => ~killed[p]
  /\ Goto(p, IF Empty /\ writeopen THEN "r_block" ELSE "r_copy")
  /\ UNCHANGED <<pipe, lock, page, ends, killed, local, seen>>

\* Killed in front of an empty pipe: -1.
ReadFails(p) ==
  /\ pc[p] = "r_test"
  /\ Empty /\ writeopen /\ killed[p]
  /\ lock' = Free
  /\ Goto(p, "user")
  /\ Done(p)
  /\ UNCHANGED <<pipe, page, ends, killed, seen>>

ReadSleep(p) ==
  /\ pc[p] = "r_block"
  /\ lock' = Free
  /\ Goto(p, "r_sleep")
  /\ UNCHANGED <<pipe, page, ends, killed, local, seen>>

\* copyout() delivers the oldest byte; only then is it consumed.
ReadByte(p) ==
  /\ pc[p] = "r_copy"
  /\ i[p] < n[p]
  /\ ~Empty
  /\ seen' = data[nread % PIPESIZE]
  /\ nread' = (nread + 1) % WRAP
  /\ i' = [i EXCEPT ![p] = @ + 1]
  /\ UNCHANGED <<data, nwrite, readopen, writeopen, lock, page, ends, killed, pc, n>>

\* As ReadEnd, but the writers are woken only when the pipe was drained.
ReadEndWakesIfEmpty(p) ==
  /\ pc[p] = "r_copy"
  /\ lock' = Free
  /\ seen' = IF i[p] = 0 /\ n[p] > 0 /\ Empty THEN "eof" ELSE seen
  /\ WakeAndGoto(p, "user", IF Empty THEN "w_sleep" ELSE "none", "w_lock")
  /\ Done(p)
  /\ UNCHANGED <<pipe, page, ends, killed>>

\* n bytes are read, the pipe is empty, or copyout() fails: wake the writers
\* and return.  The value is 0, end-of-file, when the pipe was empty before
\* the first byte.
ReadEnd(p) ==
  /\ pc[p] = "r_copy"
  /\ lock' = Free
  /\ seen' = IF i[p] = 0 /\ n[p] > 0 /\ Empty THEN "eof" ELSE seen
  /\ WakeAndGoto(p, "user", "w_sleep", "w_lock")
  /\ Done(p)
  /\ UNCHANGED <<pipe, page, ends, killed>>

-------------------------------------------------------------------------------
Step(p) ==
  \/ PipeFree(p)
  \/ WriteFails(p) \/ WriteFull(p) \/ WriteSleep(p) \/ WriteEnd(p)
  \/ \E b \in Byte : WriteByte(p, b)
  \/ ReadTest(p) \/ ReadFails(p) \/ ReadSleep(p) \/ ReadByte(p) \/ ReadEnd(p)

\* The steps that begin with acquire(&pi->lock).
Acquire(p) ==
  PipeCloseRead(p) \/ PipeCloseWrite(p) \/ WriteLock(p) \/ ReadLock(p)

Next ==
  \E p \in Procs :
    \/ Step(p) \/ Acquire(p)
    \/ PipeAlloc(p) \/ Kill(p)
    \/ \E x \in Procs \ {p} : Fork(p, x)
    \/ \E e \in {"r", "w"} : FileClose(p, e)
    \/ \E k \in 0..MaxN : WriteBegin(p, k) \/ ReadBegin(p, k)

Spec == Init /\ [][Next]_vars

\* A process that runs in the kernel goes on, and a CPU that spins on pi->lock
\* gets it in the end.
Fairness ==
  \A p \in Procs : WF_vars(Step(p)) /\ SF_vars(Acquire(p))

FairSpec == Spec /\ Fairness

-------------------------------------------------------------------------------
(* Properties.                                                             *)

\* The bytes between the two counters, oldest first.
Window ==
  [k \in 1..((nwrite - nread) % WRAP) |-> data[(nread + k - 1) % PIPESIZE]]

Stream == INSTANCE ByteStream WITH
  Capacity <- PIPESIZE,
  q        <- IF readopen \/ writeopen THEN Window ELSE <<>>,
  rdopen   <- readopen,
  wropen   <- writeopen

\* pipewrite() and piperead() implement the byte stream, also when the uint
\* counters wrap around: bytes arrive once, in order and unchanged, never more
\* than PIPESIZE are stored, and a read of 0 bytes means end-of-file.
StreamsBytes == Stream!StreamSpec

\* pipeclose() frees the page only when nobody can reach it: from the moment
\* it decides to, no other process has an end open or is inside the pipe code,
\* asleep or waiting for the lock.
FreedPageUnused ==
  /\ TypeOK
  /\ ~page => \A p \in Procs : ends[p] = {} /\ pc[p] = "user"
  /\ \A p \in Procs : pc[p] = "free" =>
       /\ page /\ lock = Free
       /\ \A x \in Procs \ {p} : ends[x] = {} /\ pc[x] = "user"

\* No reader sleeps in piperead() while there is something to read or the
\* write end is closed: the wakeup(&pi->nread) calls suffice.
ReaderNotStranded ==
  lock = Free => \A p \in Procs : pc[p] = "r_sleep" => Empty /\ writeopen

\* No writer sleeps in pipewrite() while there is room or the read end is
\* closed: the wakeup(&pi->nwrite) calls suffice, kill or no kill.
WriterNotStranded ==
  lock = Free => \A p \in Procs : pc[p] = "w_sleep" => Full /\ readopen

\* When the last write end is gone every read returns, and when the last read
\* end is gone every write returns: no reader that was about to sleep misses
\* end-of-file, and no writer sleeps on in front of a full pipe.
CloseReachesPeers ==
  \A p \in Procs :
    /\ (pc[p] \in Reading /\ ~HasEnd("w")) ~> pc[p] = "user"
    /\ (pc[p] \in Writing /\ ~HasEnd("r")) ~> pc[p] = "user"
===============================================================================
