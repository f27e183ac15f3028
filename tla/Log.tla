--------------------------------- MODULE Log ---------------------------------
(***************************************************************************)
(* The redo log of kernel/log.c on top of the buffer cache, with crashes.  *)
(*                                                                         *)
(* Processes bracket file-system operations with begin_op()/end_op(),      *)
(* lock a buffer (bread), change it and register it (log_write), release   *)
(* it (brelse).  The process whose end_op() leaves no operation            *)
(* outstanding commits the whole group.  A crash keeps only the disk;      *)
(* the first process then runs recover_from_log() before any other exists. *)
(*                                                                         *)
(* Critical sections under log.lock are single steps; every disk write is  *)
(* a step of its own, so a crash may fall between any two of them.  The    *)
(* buffer cache appears as its contract: at most one buffer per block,     *)
(* an exclusive sleep-lock on it, recycled only while unreferenced.        *)
(* Buffers of log blocks are written through under their lock, so only     *)
(* their disk copies are kept.                                             *)
(***************************************************************************)
EXTENDS Integers, Sequences, FiniteSets

CONSTANTS
  Procs,        \* processes that make file-system calls
  Readers,      \* those that also read blocks outside an operation (fileread)
  Blocks,       \* home block numbers
  Data,         \* block contents
  Nobody, NoBuf,
  LOGBLOCKS,    \* slots in the on-disk log
  MAXOPBLOCKS,  \* log slots begin_op() reserves per operation
  OPBLOCKS,     \* distinct blocks an operation really registers
  MaxCrashes    \* bound: how many crashes a behaviour has

ASSUME ConstantsAssumption ==
  /\ Readers \subseteq Procs
  /\ IsFiniteSet(Procs)
  /\ Nobody \notin Procs
  /\ NoBuf \notin Data
  /\ LOGBLOCKS \in Nat \ {0}
  /\ MAXOPBLOCKS \in Nat \ {0}
  /\ OPBLOCKS \in 1..MAXOPBLOCKS
  /\ MaxCrashes \in Nat

VARIABLES
  home, logd, head,             \* disk: home blocks, log slots, log header
  cache,                        \* buffer contents by block, or NoBuf
  owner,                        \* holder of each block's buffer sleep-lock
  pins,                         \* references held by the log (bpin)
  lh, outstanding, committing,  \* struct log
  tail,                         \* loop index of write_log/install_trans
  boot,                         \* progress of recover_from_log
  pc, buf, wrote,               \* per process: location, buffer, blocks logged
  crashes

disk    == <<home, logd, head>>
bcache  == <<cache, owner, pins>>
logvars == <<lh, outstanding, committing>>
local   == <<pc, buf, wrote>>
vars    == <<disk, bcache, logvars, tail, boot, local, crashes>>

Locations == {"off", "idle", "read", "begin", "asleep", "op", "hold",
              "commit", "write_log", "write_head", "install", "clear",
              "end_commit"}

Logged == {lh[i] : i \in 1..Len(lh)}

TypeOK ==
  /\ home \in [Blocks -> Data]
  /\ logd \in [1..LOGBLOCKS -> Data]
  /\ head \in Seq(Blocks)
  /\ cache \in [Blocks -> Data \cup {NoBuf}]
  /\ owner \in [Blocks -> Procs \cup {Nobody}]
  /\ pins \in [Blocks -> Nat]
  /\ lh \in Seq(Blocks)
  /\ outstanding \in Nat
  /\ committing \in BOOLEAN
  /\ tail \in Nat
  /\ boot \in {"read_head", "install", "clear", "up"}
  /\ pc \in [Procs -> Locations]
  /\ buf \in [Procs -> Blocks \cup {NoBuf}]
  /\ wrote \in [Procs -> SUBSET Blocks]
  /\ crashes \in 0..MaxCrashes

\* Volatile state of a machine that is about to run recover_from_log().
PowerOn ==
  /\ cache = [b \in Blocks |-> NoBuf]
  /\ owner = [b \in Blocks |-> Nobody]
  /\ pins = [b \in Blocks |-> 0]
  /\ lh = <<>>
  /\ outstanding = 0
  /\ committing = FALSE
  /\ tail = 0
  /\ boot = "read_head"
  /\ pc = [p \in Procs |-> "off"]
  /\ buf = [p \in Procs |-> NoBuf]
  /\ wrote = [p \in Procs |-> {}]

\* A disk as mkfs writes it: a consistent image with an empty log.
Init ==
  /\ \E v \in Data : home = [b \in Blocks |-> v]
  /\ \E v \in Data : logd = [i \in 1..LOGBLOCKS |-> v]
  /\ head = <<>>
  /\ crashes = 0
  /\ PowerOn

-------------------------------------------------------------------------------
(* The buffer cache, as its users see it (kernel/bio.c).                   *)

\* bread() of block b: the cached contents, else the disk's.
Contents(b) == IF cache[b] # NoBuf THEN cache[b] ELSE home[b]

Bread(p, b) ==
  /\ pc[p] = "op" \/ (pc[p] = "idle" /\ p \in Readers)
  /\ owner[b] = Nobody
  /\ owner' = [owner EXCEPT ![b] = p]
  /\ cache' = [cache EXCEPT ![b] = Contents(b)]
  /\ buf' = [buf EXCEPT ![p] = b]
  /\ pc' = [pc EXCEPT ![p] = IF @ = "op" THEN "hold" ELSE "read"]
  /\ UNCHANGED <<disk, pins, logvars, tail, boot, wrote, crashes>>

Brelse(p) ==
  /\ pc[p] \in {"hold", "read"}
  /\ owner' = [owner EXCEPT ![buf[p]] = Nobody]
  /\ buf' = [buf EXCEPT ![p] = NoBuf]
  /\ pc' = [pc EXCEPT ![p] = IF @ = "hold" THEN "op" ELSE "idle"]
  /\ UNCHANGED <<disk, cache, pins, logvars, tail, boot, wrote, crashes>>

\* bget() gives the buffer of an unreferenced block to another block.
Recycle(b) ==
  /\ cache[b] # NoBuf
  /\ owner[b] = Nobody
  /\ pins[b] = 0
  /\ cache' = [cache EXCEPT ![b] = NoBuf]
  /\ UNCHANGED <<disk, owner, pins, logvars, tail, boot, local, crashes>>

-------------------------------------------------------------------------------
(* begin_op, log_write, end_op.                                            *)

\* Mutation: admission forgets the operation it is about to admit.
MustWaitForgetsItself ==
  \/ committing
  \/ Len(lh) + outstanding * MAXOPBLOCKS > LOGBLOCKS

MustWait ==
  \/ committing
  \/ Len(lh) + (outstanding + 1) * MAXOPBLOCKS > LOGBLOCKS

BeginWait(p) ==
  /\ pc[p] \in {"idle", "begin"}
  /\ MustWait
  /\ pc' = [pc EXCEPT ![p] = "asleep"]
  /\ UNCHANGED <<disk, bcache, logvars, tail, boot, buf, wrote, crashes>>

BeginOp(p) ==
  /\ pc[p] \in {"idle", "begin"}
  /\ ~MustWait
  /\ outstanding' = outstanding + 1
  /\ pc' = [pc EXCEPT ![p] = "op"]
  /\ wrote' = [wrote EXCEPT ![p] = {}]
  /\ UNCHANGED <<disk, bcache, lh, committing, tail, boot, buf, crashes>>

\* wakeup(&log), with p itself moving on to location l.
WakeupLog(p, l) ==
  pc' = [q \in Procs |-> IF q = p THEN l
                         ELSE IF pc[q] = "asleep" THEN "begin" ELSE pc[q]]

\* kkill() makes a sleeper runnable; begin_op() only tests its condition again.
KillSleeper(p) ==
  /\ pc[p] = "asleep"
  /\ pc' = [pc EXCEPT ![p] = "begin"]
  /\ UNCHANGED <<disk, bcache, logvars, tail, boot, buf, wrote, crashes>>

\* The callers' side of the contract: an operation registers at most OPBLOCKS
\* distinct blocks, each as often as it likes.
MayLog(p) ==
  /\ pc[p] = "hold"
  /\ buf[p] \in wrote[p] \/ Cardinality(wrote[p]) < OPBLOCKS

\* Mutation: an absorbed write pins the buffer once more.
LogWritePinsAgain(p, v) ==
  LET b == buf[p] IN
  /\ MayLog(p)
  /\ Len(lh) < LOGBLOCKS
  /\ outstanding >= 1
  /\ cache' = [cache EXCEPT ![b] = v]
  /\ lh' = IF b \in Logged THEN lh ELSE Append(lh, b)
  /\ pins' = [pins EXCEPT ![b] = @ + 1]
  /\ wrote' = [wrote EXCEPT ![p] = @ \cup {b}]
  /\ UNCHANGED <<disk, owner, outstanding, committing, tail, boot, pc, buf, crashes>>

\* The holder changes b->data to v and calls log_write(b).
LogWrite(p, v) ==
  LET b == buf[p] IN
  /\ MayLog(p)
  /\ Len(lh) < LOGBLOCKS      \* else panic("too big a transaction")
  /\ outstanding >= 1         \* else panic("log_write outside of trans")
  /\ cache' = [cache EXCEPT ![b] = v]
  /\ IF b \in Logged
     THEN UNCHANGED <<lh, pins>>
     ELSE /\ lh' = Append(lh, b)
          /\ pins' = [pins EXCEPT ![b] = @ + 1]
  /\ wrote' = [wrote EXCEPT ![p] = @ \cup {b}]
  /\ UNCHANGED <<disk, owner, outstanding, committing, tail, boot, pc, buf, crashes>>

\* Mutation: the last end_op() leaves the group to a later one.
EndOpForgetsCommit(p) ==
  /\ pc[p] = "op"
  /\ ~committing
  /\ outstanding' = outstanding - 1
  /\ wrote' = [wrote EXCEPT ![p] = {}]
  /\ WakeupLog(p, "idle")
  /\ UNCHANGED <<disk, bcache, lh, committing, tail, boot, buf, crashes>>

EndOp(p) ==
  /\ pc[p] = "op"
  /\ ~committing              \* else panic("log.committing")
  /\ outstanding' = outstanding - 1
  /\ wrote' = [wrote EXCEPT ![p] = {}]
  /\ IF outstanding' = 0
     THEN /\ committing' = TRUE
          /\ pc' = [pc EXCEPT ![p] = "commit"]
     ELSE /\ UNCHANGED committing
          /\ WakeupLog(p, "idle")
  /\ UNCHANGED <<disk, bcache, lh, tail, boot, buf, crashes>>

-------------------------------------------------------------------------------
(* commit(), run by the last process of the group.                         *)

\* Mutation: the header is written before the log blocks.
CommitHeadFirst(p) ==
  /\ pc[p] = "commit"
  /\ pc' = [pc EXCEPT ![p] = IF lh # <<>> THEN "write_head" ELSE "end_commit"]
  /\ tail' = 0
  /\ UNCHANGED <<disk, bcache, logvars, boot, buf, wrote, crashes>>

Commit(p) ==
  /\ pc[p] = "commit"
  /\ pc' = [pc EXCEPT ![p] = IF lh # <<>> THEN "write_log" ELSE "end_commit"]
  /\ tail' = 0
  /\ UNCHANGED <<disk, bcache, logvars, boot, buf, wrote, crashes>>

\* One iteration of write_log(): cache block to log slot.
WriteLog(p) ==
  LET b == lh[tail + 1] IN
  /\ pc[p] = "write_log"
  /\ tail < Len(lh)
  /\ owner[b] = Nobody
  /\ logd' = [logd EXCEPT ![tail + 1] = Contents(b)]
  /\ cache' = [cache EXCEPT ![b] = Contents(b)]
  /\ tail' = tail + 1
  /\ pc' = [pc EXCEPT ![p] = IF tail' = Len(lh) THEN "write_head" ELSE @]
  /\ UNCHANGED <<home, head, owner, pins, logvars, boot, buf, wrote, crashes>>

\* Mutation: commit() does not install before it erases the log.
WriteHeadSkipsInstall(p) ==
  /\ pc[p] = "write_head"
  /\ head' = lh
  /\ tail' = 0
  /\ pc' = [pc EXCEPT ![p] = "clear"]
  /\ UNCHANGED <<home, logd, bcache, logvars, boot, buf, wrote, crashes>>

\* write_head(): the commit point.
WriteHead(p) ==
  /\ pc[p] = "write_head"
  /\ head' = lh
  /\ tail' = 0
  /\ pc' = [pc EXCEPT ![p] = "install"]
  /\ UNCHANGED <<home, logd, bcache, logvars, boot, buf, wrote, crashes>>

\* One iteration of install_trans(): log slot to home block.
InstallBlock(b) ==
  /\ tail < Len(lh)
  /\ owner[b] = Nobody
  /\ home' = [home EXCEPT ![b] = logd[tail + 1]]
  /\ cache' = [cache EXCEPT ![b] = logd[tail + 1]]
  /\ tail' = tail + 1

Install(p) ==
  LET b == lh[tail + 1] IN
  /\ pc[p] = "install"
  /\ InstallBlock(b)
  /\ pins' = [pins EXCEPT ![b] = @ - 1]
  /\ pc' = [pc EXCEPT ![p] = IF tail' = Len(lh) THEN "clear" ELSE @]
  /\ UNCHANGED <<logd, head, owner, logvars, boot, buf, wrote, crashes>>

\* log.lh.n = 0; write_head().
ClearHead(p) ==
  /\ pc[p] = "clear"
  /\ lh' = <<>>
  /\ head' = <<>>
  /\ pc' = [pc EXCEPT ![p] = "end_commit"]
  /\ UNCHANGED <<home, logd, bcache, outstanding, committing, tail, boot, buf, wrote, crashes>>

\* Mutation: no wakeup(&log) after a commit.
EndCommitNoWakeup(p) ==
  /\ pc[p] = "end_commit"
  /\ committing' = FALSE
  /\ pc' = [pc EXCEPT ![p] = "idle"]
  /\ UNCHANGED <<disk, bcache, lh, outstanding, tail, boot, buf, wrote, crashes>>

EndCommit(p) ==
  /\ pc[p] = "end_commit"
  /\ committing' = FALSE
  /\ WakeupLog(p, "idle")
  /\ UNCHANGED <<disk, bcache, lh, outstanding, tail, boot, buf, wrote, crashes>>

-------------------------------------------------------------------------------
(* Crash, and recover_from_log() in the first process.                     *)

Crash ==
  /\ crashes < MaxCrashes
  /\ crashes' = crashes + 1
  /\ cache' = [b \in Blocks |-> NoBuf]
  /\ owner' = [b \in Blocks |-> Nobody]
  /\ pins' = [b \in Blocks |-> 0]
  /\ lh' = <<>>
  /\ outstanding' = 0
  /\ committing' = FALSE
  /\ tail' = 0
  /\ boot' = "read_head"
  /\ pc' = [p \in Procs |-> "off"]
  /\ buf' = [p \in Procs |-> NoBuf]
  /\ wrote' = [p \in Procs |-> {}]
  /\ UNCHANGED disk

ReadHead ==
  /\ boot = "read_head"
  /\ lh' = head
  /\ tail' = 0
  /\ boot' = IF head # <<>> THEN "install" ELSE "clear"
  /\ UNCHANGED <<disk, bcache, outstanding, committing, local, crashes>>

RecoverInstall ==
  /\ boot = "install"
  /\ InstallBlock(lh[tail + 1])
  /\ boot' = IF tail' = Len(lh) THEN "clear" ELSE boot
  /\ UNCHANGED <<logd, head, owner, pins, logvars, local, crashes>>

RecoverClear ==
  /\ boot = "clear"
  /\ lh' = <<>>
  /\ head' = <<>>
  /\ boot' = "up"
  /\ pc' = [p \in Procs |-> "idle"]
  /\ UNCHANGED <<home, logd, bcache, outstanding, committing, tail, buf, wrote, crashes>>

-------------------------------------------------------------------------------
Step(p) ==
  \/ \E b \in Blocks : Bread(p, b)
  \/ Brelse(p)
  \/ BeginWait(p)
  \/ BeginOp(p)
  \/ KillSleeper(p)
  \/ \E v \in Data : LogWrite(p, v)
  \/ EndOp(p)
  \/ Commit(p)
  \/ WriteLog(p)
  \/ WriteHead(p)
  \/ Install(p)
  \/ ClearHead(p)
  \/ EndCommit(p)

Recover == ReadHead \/ RecoverInstall \/ RecoverClear

Next ==
  \/ \E p \in Procs : Step(p)
  \/ \E b \in Blocks : Recycle(b)
  \/ Crash
  \/ Recover

Spec == Init /\ [][Next]_vars

-------------------------------------------------------------------------------
(* Fairness.  The scheduler keeps running every process that is inside the *)
(* kernel and not asleep, disk requests complete, and every begin_op()/    *)
(* end_op() interval in the kernel is a bounded piece of code, so it       *)
(* reaches its end_op().  Nothing makes a process start an operation, a    *)
(* crash happen or a kill arrive.                                          *)
Fairness ==
  /\ WF_vars(Recover)
  /\ \A p \in Procs :
       /\ WF_vars(Brelse(p))
       /\ WF_vars(pc[p] = "begin" /\ (BeginWait(p) \/ BeginOp(p)))
       /\ SF_vars(EndOp(p))
       /\ WF_vars(Commit(p))
       /\ WF_vars(WriteLog(p))
       /\ WF_vars(WriteHead(p))
       /\ WF_vars(Install(p))
       /\ WF_vars(ClearHead(p))
       /\ WF_vars(EndCommit(p))

FairSpec == Spec /\ Fairness

-------------------------------------------------------------------------------
(* Properties.                                                             *)

\* What recover_from_log() would make of the disk as it is now.
Recovered ==
  [b \in Blocks |->
     IF \E i \in 1..Len(head) : head[i] = b
     THEN logd[CHOOSE i \in 1..Len(head) : head[i] = b]
     ELSE home[b]]

\* What a bread() returns now, counting what recovery still has to install.
Current ==
  [b \in Blocks |-> IF cache[b] # NoBuf THEN cache[b] ELSE Recovered[b]]

Disk == INSTANCE AtomicDisk
          WITH mem <- Current, durable <- Recovered, active <- outstanding

\* log.c:10-16.  Whatever the instant of a crash, also of one in the middle of
\* recovery, the disk comes back with the effects of whole groups of finished
\* operations and of nothing else; and while the machine is up neither commit
\* nor install nor the recycling of a buffer changes what a bread() returns.
AtomicGroups == Disk!Spec

\* log_write() never finds the log full (log.c:221): what begin_op() admits
\* leaves a free slot for every process that may still call log_write().
LogNeverFull ==
  \A p \in Procs : MayLog(p) => Len(lh) < LOGBLOCKS

At(l) == \E p \in Procs : pc[p] = l

\* Blocks registered by log_write() that install_trans() has not reached yet.
Uninstalled ==
  LET installed == IF At("install") \/ At("clear") THEN tail ELSE 0
  IN IF boot = "up" THEN {lh[i] : i \in (installed + 1)..Len(lh)} ELSE {}

\* bpin()/bunpin() balance (log.c:80, 232): the log holds exactly one
\* reference to the buffer of every registered block that is not installed
\* yet, and none to any other, so no change is recycled before it is on disk
\* and no buffer stays in the cache for ever.
PinnedExactly ==
  \A b \in Blocks : pins[b] = IF b \in Uninstalled THEN 1 ELSE 0

\* A buffer differs from what the disk would recover only if its block is
\* registered in the log (absorption keeps one entry per block), so a block
\* that is not registered may be recycled or lost in a crash without loss.
DirtyIsLogged ==
  /\ \A b \in Blocks : Current[b] # Recovered[b] => b \in Logged
  /\ \A i, j \in 1..Len(lh) : lh[i] = lh[j] => i = j

\* A process asleep in begin_op() is always woken: no end_op() or end of a
\* commit that makes room forgets it.
SleeperWakes == \A p \in Procs : pc[p] = "asleep" ~> pc[p] # "asleep"

\* When the last operation of a group has ended, the group becomes durable and
\* its slots are given back.
GroupBecomesDurable == outstanding = 0 ~> lh = <<>> /\ Current = Recovered
===============================================================================
