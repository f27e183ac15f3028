# xv6-riscv: TLA+ models, model checking and proofs

This directory models the concurrent and crash-prone parts of the repository in
TLA+. The repository has two halves, and so have the models:

* the **kernel** (`kernel/*.c`): redo log, process table, pipes, buffer cache,
  virtio driver, and the file system on disk;
* the **tutorial's host programs** (`docs/xv6-tutorial/resources/*/*.py`):
  thirteen runners that export the source, patch and build it, drive QEMU, judge
  what it prints and write a report, and `fsck.py`, which judges disk images.

TLC checks every module on small instances (`MC*.tla`, `MC*.cfg`). TLAPS proves,
for every value of the constants, the safety properties of five kernel
components, the three refinements included, and those of the lab runners.
`PROJECT.json` lists components, runs, mutants, hazards and theorems, and maps
each definition to the lines it translates.

## Modules

| Module | Models | State and actions |
|---|---|---|
| `Log` | `kernel/log.c` over the contract of `bio.c` | disk (home blocks, log slots, header), buffers, pins, `log.lh`, `outstanding`, `committing`; one action per critical section and per disk write, crash and recovery included |
| `AtomicDisk` | what the log promises | a disk whose durable state changes only between groups of finished operations |
| `Proc` | `kernel/proc.c` | process table, `p->lock` and `wait_lock` held by CPUs, which stack a CPU runs on; scheduler, sched, yield, sleep, wakeup, fork, exit, wait, kill, traps |
| `Pipe`, `ByteStream` | `kernel/pipe.c`, and a bounded byte queue | ring buffer with wrapping counters, `pi->lock`, ends per process; open, fork, close, read, write byte by byte, kill |
| `Bcache`, `BlockStore` | `kernel/bio.c` with `sleeplock.c`, and one owned variable per block | buffers, reference counts, the doubly linked LRU list with its pointers; bget, bread, bwrite, brelse, bpin, bunpin |
| `VirtioDisk` | `kernel/virtio_disk.c` and the device | descriptors, avail and used rings with wrapping indexes, the interrupt; the device may finish requests in any order |
| `FsTree` | `kernel/fs.c`, `sysfile.c`, `file.c` on a logged disk | inodes, bitmap, directory and indirect blocks; open, create, mkdir, link, unlink, write, truncate, close, the block writes of a commit, power loss, replay, `ireclaim`; damage to an image |
| `Fsck` | `recovery/fsck.py` | pure operators over an image, one per function or loop of the program |
| `SyncLab` | `syncproject.patch` (guest) and the oracle in `scheduling-and-synchronization/run-lab.py` | waiter, producer and parent as lists of atomic accesses on two harts, gates, locks, event records, the steered scheduler; the expected orders and validators |
| `RunnerStyles`, `Supervise` | process supervision in the thirteen runners | a table of how each copy stops, drains and waits; processes that ignore SIGTERM, hang, fork and exit; deadlines and Ctrl-C at every wait |
| `RunnerPrograms`, `LabRun` | `main`/`run` of the twelve runners that write a report | each run as a program with Python's exceptions and `finally`; faults and interrupts at every call, edits of the shared repository |
| `LabShapes` | the texts of the twelve runs | what the proofs use of `RunnerPrograms`, as an assumption that TLC evaluates |
| `LogProofs`, `LogTheorems`, `ProcProofs`, `ProcTheorems`, `PipeTheorems`, `BcacheTheorems`, `VirtioTheorems` | proofs about the modules they are named after | inductive invariants, one lemma per action, theorems |
| `RunnerTheorems` | proofs about `Supervise` and `LabRun` | likewise |
| `MCTutorial` | the host side together | a behaviour is about one of supervised call, run, file system or experiment; the others rest in a finished state, so the state spaces add and do not multiply |

The kernel's layers are composed by contract. `Log` sees buffers as `BlockStore`
promises them (`Bcache` is proved to keep that promise). `FsTree` sees an
operation as one group of the log, which is `AtomicDisk`'s promise, and opens up
the commit only where the disk can be seen half-written. `Pipe` uses `sleep` and
`wakeup` as `Proc` shows them to behave: releasing the caller's lock and
registering the sleeper look like one step.

### Correspondence with the code

A critical section under one spinlock is one step, unless the lock is held over
`swtch()` or while something else that is shared changes. Loops that take a lock
per iteration (`wakeup`, `kwait`, `reparent`) are one step per iteration, and so
are the byte loops of a pipe, since `kill()` may fall between two bytes. Every
disk write is a step. Counters that wrap in C wrap in the model: `WRAP` stands
for 2^32 in `Pipe` and 2^16 in `VirtioDisk`.

In `FsTree` an inode has one direct address and one indirect block with one
entry, a directory is one block, and a block is either entries or a pointer. This
keeps the cases the code distinguishes (direct, indirect, hole, trailing block)
and drops the arithmetic. Operations are serialised; how they interleave inside
a group is `Log`'s subject.

In `SyncLab` a record takes two steps, as `record_event()` does: it claims its
slot, and reads locks and nesting later. Acquiring a spinlock and setting its
owner is one step, and so is `yield()`.

## Runs

| Run | Instance | What it shows |
|---|---|---|
| `log_atomic` | 2 processes, 2 blocks, 4 slots, 2 crashes | crash atomicity (`AtomicGroups`, a refinement of `AtomicDisk`), one pin per registered block, dirty buffers are registered |
| `log_live` | 2 processes, 4 blocks, 1 crash, fair | the log never overflows; sleepers in `begin_op` wake; an ended group becomes durable |
| `proc_safe` | 2 CPUs, 3 slots, 4 pids | one CPU per kernel stack, the preconditions of `sched()`, locks released by their holder, no lost wakeup of a parent, living parents, kills reach whom they name |
| `proc_live` | 1 CPU, 3 slots, fair | orphans are reaped by init; a killed process exits |
| `proc_kill0` | as `proc_safe`, with `kill(0)` | **violation**: `kill(0)` marks an unused slot, and the next process there is born killed |
| `pipe_share` | 3 processes, 2-byte pipe | a freed page is never touched; a writer never sleeps for ever beside room or a closed end; the pipe implements `ByteStream` |
| `pipe_live` | 3 processes, 1-byte pipe, fair | readers are not stranded; a close reaches the peers |
| `pipe_killed` | 3 processes that may be killed | **violation**: a writer that finds itself killed returns without waking the readers its bytes are for |
| `bcache` | 2 processes, 4 blocks, 3 buffers | the list is in LRU order through every pointer update; reference counts are exact; a free buffer is always found; the cache implements `BlockStore` |
| `virtio` | 3 processes, 7 descriptors | the device reads only complete chains, completions reach their requester, descriptors are neither lost nor shared, nobody sleeps past a completion or a freed descriptor |
| `tutorial` | all runners, 2 faults; file system with 3 inodes, 4 blocks, 4 operations, 1 crash; both experiments | see below |
| `cow_digest` | copy-on-write runner | **violation**: the digest of the shared repository covers ignored files only, so a run passes over an edit of a file that `git status` already lists |

`tutorial` checks, for the **runners**: a supervised call leaves nothing running,
except in the ways `MayLeave` and `NothingLeftBehind` list; a report says only
what was established; a success means that every step was done, nothing was
swallowed, and no edit of what the runner compares went unseen; failures do not
keep patches from being reversed; calls and runs end. For the **file system**:
whatever step the power fails at, `fsck.py` finds only unlinked inodes (exactly
the open ones, once the system is up) and the extra block of a short write; each
damage of the tool's self-test, done to *every* image the kernel leaves and not
to one, gets the diagnosis the test asks for; and an image is called clean
exactly when replaying its log gives a file system that is sound by a definition
that does not walk it. For the **experiment**: every interleaving that two
harts, their timers and the steered scheduler allow ends, and ends in a
transcript the host accepts.

### Bounds

Two processes contend for every lock and log slot, and a third can wake or be
woken by mistake; two crashes put one inside the recovery from another. Three
process slots make a parent, a child and an orphan for init, with a slot that is
reused. With three processes and seven descriptors the third request finds one
descriptor and has to give it back. Three buffers for two processes and one pin is the
least number with which `bget` must not panic, so every recycling decision is
forced. Four file-system operations make a directory, a file with an indirect
block, its unlink while open and its last close; five were also run without
damage. Two faults let a cleanup fail while it handles a failure. Damage is one
field at a time, to images of a system that did not crash before.

`MaxCrashes`, `MaxPid`, `MaxN`, `MaxPins`, `MaxOps` and `MaxFaults` are bounds of
the models, not of the code. `CHECK_DEADLOCK FALSE` is set for the pipe, where
all processes may have closed their ends and be done, and for the host side,
whose runs end.

### Fairness

* `Log`: a process inside the kernel goes on, disk writes finish, and an
  operation reaches its `end_op()` (strong, since it competes for buffers).
  Nothing makes operations start, crashes happen or kills arrive.
* `Proc`: a switch completes and a timer interrupt is taken; the scheduler's
  round over the table does not pass a runnable process over for ever; a
  spinlock released again and again is acquired in the end; init calls `wait()`
  for ever. Nothing is assumed of other programs.
* `Pipe`: weak for steps in the kernel, strong for acquiring `pi->lock`.
* `Supervise`, `LabRun`: the runner goes on, deadlines pass, and a signal that
  ends a process does so eventually; a process killed with SIGKILL is gone
  before a deadline that started afterwards has passed.
* `SyncLab`: some hart that can execute an instruction does. This is strong,
  because a timer interrupt may take the thread away in between, but a time
  slice is long enough for an instruction. The schedulers' own steps and the
  timer are weakly fair. The selection of the waiter is strongly fair, since its
  lock comes and goes.

## Proofs

| Theorem | Statement |
|---|---|
| `LogTheorems!CrashAtomicity` | `Spec => AtomicGroups`: the log implements `AtomicDisk` |
| `LogTheorems!PinBalance`, `DirtyLogged`, `TypeCorrect` | the log's invariants |
| `LogTheorems!NeverFull` | with `OPBLOCKS < MAXOPBLOCKS`, `log_write()` never finds the log full |
| `ProcTheorems!StacksAreExclusive` | no two CPUs run on one kernel stack, none on the stack of a free slot |
| `ProcTheorems!SchedNeverPanics`, `LocksFollowTheCpu` | locks around `swtch()` |
| `ProcTheorems!WakeupsArrive`, `ParentsAreAlive`, `KillsAreMeant`, `TypeCorrect` | families and kills |
| `PipeTheorems!PipeImplementsStream` | `Spec => StreamsBytes`: the pipe implements `ByteStream` |
| `PipeTheorems!FreedPageIsUnused`, `WritersAreWoken` | the page is freed once nobody can reach it; no lost wakeup of a writer |
| `PipeTheorems!ReadersAreWoken` | if no process may be killed, no lost wakeup of a reader |
| `BcacheTheorems!CacheStoresBlocks` | `Spec => StoresBlocks`: the cache implements `BlockStore` |
| `BcacheTheorems!ListStaysLru` | the list stays a ring through all buffers, in the order of their last release |
| `BcacheTheorems!ReferencesAreCounted`, `BuffersAlwaysSuffice`, `SleepersAreWoken` | reference counts are exact; `bget()` does not run out of buffers; no sleeper on a free sleeplock |
| `VirtioTheorems!DescriptorsAreAccounted`, `PublishedStaysComplete` | chains are neither lost nor shared; what the device may read is complete |
| `VirtioTheorems!UsedEntriesAreWaitedFor`, `DoneRequestsAreDone`, `NobodyIsStranded` | completions reach their requester, after the transfer, and no wakeup is lost |
| `RunnerTheorems!CallsLeaveNothing` | a supervised call leaves no process running, except in the ways `MayLeave` names |
| `RunnerTheorems!ReportsAreTruthful`, `PassesAreEarned` | a report states what was established; exit status 0 means that all was done and nothing was swallowed |
| `RunnerTheorems!PatchesAreReversed` | three runners reverse their patches whatever else fails |

**Log.** The assumptions are `ConstantsAssumption`: finitely many processes,
positive sizes, `OPBLOCKS` at most `MAXOPBLOCKS`. `AtomicGroups` speaks of what
recovery *would* make of the disk, which depends on how far a commit or an
earlier recovery has come; hence the inductive invariant `IInv` (`LogProofs`).
Nothing else runs before recovery has ended (`BootInv`). There is one committer
and no operation beside it (`CommitInv`). The header on disk equals the one in
memory between commit point and erase and is empty otherwise (`PhaseInv`).
Headers fit the log and list no block twice (`HeaderInv`). Cache, log slot and
home block agree as far as the loops have come (`CopyInv`), and pins balance
(`PinnedExactly`). `LogProofs` and `LogTheorems` show that every action preserves
it and maps to a step of `AtomicDisk` or a stutter.
`CountInv` says that `outstanding` is the number of running operations.
`NeverFull` adds `SpaceInv`: the entries in use and the reservations not yet used
fit in the log. Its hypothesis is strict, because operations that all use their
whole reservation fill the log, and `log_write()` tests for a full log before it
looks for absorption.

**Proc.** `IInv` (`ProcTheorems`) is `TypeOK /\ Stacks /\ FamilyInv /\ WakeInv`.
`Stacks` (`ProcProofs`) relates who runs where, who holds which lock and what
each location of a kernel thread implies; it is needed because locks travel with
the CPU through `swtch()`. `FamilyInv` is about parents, `WakeInv` about exits a
parent has not seen yet. The hypothesis of `KillsAreMeant`, that `kill(0)` is not
called, is what `proc_kill0` shows to be needed.

**Pipe.** The assumption is that the counters' width is a larger multiple of
`PIPESIZE`, as 2^32 is of 512. `PipeInv` says who holds `pi->lock` where, that an
end some process has open is open in an allocated page, that the closer of an end
is the last who had it, and that a sleeping writer faces a full pipe or a reader
that holds the lock and will wake it. Its `WindowInv` is what the refinement
needs: between `nread` and `nwrite` there are at most `PIPESIZE` bytes, wherever
the counters wrap, and the slots they stand for have been written. The mapping
takes those slots, modulo `PIPESIZE`, for the queue; a byte is appended to it by
`pipewrite()` and its first one taken by `piperead()`.
`ReaderInv` does for readers what `PipeInv` does for writers. It is inductive
only without kills, and `pipe_killed` shows that the hypothesis
`Killable = {}` is needed.

**Bcache.** The assumptions are finitely many processes, at least one buffer and
at least one value. `IInv` joins `BufInv` (holders of sleeplocks, one buffer per
block, a buffer that differs from the disk is held or pinned), `Ring` (`next` and
`prev` are inverse walks through `head` and every buffer, in the order of last
release) and `CountInv` (`refcnt` counts users and pins). That the six pointer
assignments of `brelse()` take a ring to a ring is proved for every position of
the buffer, next to `head` included. `BuffersAlwaysSuffice` is a pigeonhole: a
process outside `bget()` leaves fewer users and pins than buffers. In the
refinement the content of a block is that of its valid buffer or else that of the
disk (`Content`), and its owner the process that holds it (`Owner`); `StoreFacts`
says that this is well defined. The second loop of `bget()` takes only a buffer
with `refcnt = 0`, which is neither held nor pinned and hence equals its block on
the disk, so recycling is a stutter.

**VirtioDisk.** The assumptions are at least three descriptors and ring indexes
whose range is a multiple of the ring size, as 2^16 is of 8. `VInv` says of the
requests between `alloc3_desc()` and `free_chain()` that they own three
descriptors each and the rest is free (`OwnInv`), linked and filled in for them
(`ChainInv`); that each is either about to be published (`FilledInv`), in the
avail ring (`AvailInv`), with the device (`WorkInv`), in the used ring
(`UsedInv`) or done, and nowhere twice; and that status 0 means transferred
(`TransferInv`). That neither ring overflows is a consequence: only heads of
chains are in a ring, two descriptors of every chain are not heads, so there are
fewer entries than slots, and a slot about to be written is not one that is still
to be read (`Room`, `SlotsApart`). The code has no test for this.

**Supervise.** There are no constants, but thirteen copies of the code that
differ. What the proof needs of them are the lemmas `CheckedStyles`,
`DriverStyles` and `SessionStyles` (for example: a copy without a `finally`
clause is `subprocess.run`). The argument is that processes only end and SIGKILL
is never withdrawn (`Fades`), so what can be left only shrinks. `SupInv` says at
which places of the runner it is down to nothing (`SignalInv`), which copies and
kinds of call can be at a place (`KindInv`), and that `make` outlives its child
unless a signal ended it (`BodyInv`). The last one is what makes it enough for
some copies to look at the leader alone.

**LabRun.** The theorems hold for any `MaxFaults`. The twelve runs, in two modes
each, are one interpreter of Python's exceptions and twenty-four given texts. The
proofs argue about the interpreter. Of the texts they use `ProgramsAssumption`
(`LabShapes`), which is about finitely many given sequences and which TLC decides
whenever `MCTutorial` is loaded: cleanups are closed, a report is outside every
cleanup and after all that it states, and in the three thorough runners every
patch that is pending at an instruction is still pending where an exception of
that instruction lands. A runner whose report moved before its comparison, or
whose second `finally` was dropped, makes that assumption false. `RunInv` says
that an exception is on its way only where the text unwinds (`UnwindInv`), that a
run which raised nothing has recorded exactly what the text before it says
(`SmoothInv`), and that the export holds what was recorded and is still pending
in the text (`PatchInv`). The last one must hold at every instruction, not only
at the cleanups, since an exception may come while a cleanup handles another.

**Only model-checked.** All liveness: fairness and `ENABLED` are out of the
prover's reach. `SyncLab` has no constant to generalise over: the instance TLC
explores is the whole experiment. `FsTree` and `Fsck` walk a tree with a
recursive operator, for which the prover has no support. The inductions over
numbers that lists, rings and programs need are done through least
counterexamples (lemma `Least`).

## Findings

* `kernel/proc.c:599`: `kkill(0)` matches unused slots (pid 0), run `proc_kill0`.
* `kernel/pipe.c:84`: the early return of a killed writer skips
  `wakeup(&pi->nread)`, run `pipe_killed`.
* `copy-on-write/run-project.py:253`: `git ls-files -c -o -i` prints ignored
  files only, unlike what the docstring says, run `cow_digest`.

The models also record weaknesses that no text of the repository contradicts, as
exceptions in the properties: the copies of `stop_group` in filesystem, device-io
and persistence test the group right after their second SIGKILL; the same three
runners boot QEMU under `except Exception`, so that an interrupt leaves it
running; `subprocess.run` with a timeout kills only its direct child; persistence
writes its report before the last comparison; syscall-roundtrip compares nothing
in its static mode.

## Not modelled

* **Virtual memory, page allocator, exec**: sequential arithmetic on one
  process's page table. Failures they report are choices in `Proc`.
* **Traps, PLIC, trampoline, `start.c`**: registers and assembly. Timer
  interrupts, faults and device interrupts are actions of the modules they
  affect.
* **Console, UART, `printk`**: device registers and line editing. The sleeping
  protocol is the one of `Pipe` and `VirtioDisk`.
* **Inode table, file table, descriptors**: `FsTree` keeps only which inodes are
  referenced. It leaves out the lock windows of `iget`/`iput`, file offsets,
  devices, directories of more than one block, and paths relative to a removed
  directory. The log's header block is written atomically.
* **Init killed or exiting**: in the passing runs nobody kills init.
* **Trace and static checkers of the other labs** and **`tools/*.py`**: parsers
  and comparisons of text (console lines, disassembly, Markdown, JSON) with
  literal expectations. They keep no state between calls and nothing runs beside
  them. What they contain is the wording that these models abstract from, so a
  model would copy them. The `--self-test` modes feed them fixed texts. The
  self-test of `fsck.py` is modelled.
* **`test-xv6.py`**: a script of blocking reads around one QEMU. The crashes it
  provokes are those of `Log` and `FsTree`.
* **Other hazards that no module reaches**: `iput()` between the test of `ref` and
  the inode's lock, offsets shared by two processes, counters that take 2^31
  steps to wrap (`nextpid`, `nlink`, `ticks`), and a log kept from committing by
  operations that always overlap, which no fairness of the scheduler excludes
  (`GroupBecomesDurable` starts when the last operation has ended).
* **User programs**: clients of the system calls. Init's loop is part of `Proc`.
