--------------------------------- MODULE Proc ---------------------------------
(***************************************************************************)
(* The process table of kernel/proc.c: scheduler(), sched(), yield(),      *)
(* sleep(), wakeup(), fork, exit, wait and kill on several CPUs.           *)
(*                                                                         *)
(* A CPU executes either its scheduler loop or the kernel thread of one    *)
(* process, on that process's kernel stack.  A spinlock is held by a CPU,  *)
(* so a p->lock taken before swtch() is released by whoever runs on the    *)
(* same CPU afterwards.  A critical section that is entered and left       *)
(* without touching anything else that is shared is one step, enabled when *)
(* its lock is free; the locks that are held across several steps, or      *)
(* across swtch(), are explicit.                                           *)
(***************************************************************************)
EXTENDS Integers, FiniteSets

CONSTANTS
  CPUs,
  NPROC,      \* size of the process table
  MaxPid,     \* bound: pids allocated before fork() is no longer tried
  KillPids    \* pids that kill() is called with or that may fault

ASSUME ConstantsAssumption ==
  /\ NPROC \in Nat \ {0}
  /\ MaxPid \in Nat \ {0}
  /\ 0 \notin CPUs
  /\ KillPids \subseteq 0..MaxPid

Slots    == 1..NPROC
NoProc   == 0
initproc == 1

VARIABLES
  state, chan, killed, pid, parent,  \* struct proc
  plock,                             \* CPU that holds p->lock, or 0
  wait_lock,                         \* CPU that holds wait_lock, or 0
  nextpid,
  cproc,                             \* c->proc
  on,                                \* process on whose stack a CPU runs, 0: scheduler
  pc, back,                          \* kernel thread: location; where yield() returns to
  np, todo,                          \* locals: kfork's child; slots a loop has still to visit
  asked                              \* pids that kill() was called with, or that faulted

table  == <<state, chan, killed, pid, parent>>
locks  == <<plock, wait_lock>>
cpu    == <<cproc, on>>
thread == <<pc, back, np, todo>>
vars   == <<table, locks, nextpid, cpu, thread, asked>>

States == {"UNUSED", "USED", "SLEEPING", "RUNNABLE", "RUNNING", "ZOMBIE"}

\* Where a kernel thread holds no spinlock, so that a timer interrupt may
\* make it yield().
Interruptible == {"user", "syscall", "fork_parent", "fork_run", "exit_lock",
                  "wait_lock"}

Locations == Interruptible \cup
  {"none", "forkret", "yield", "yielded", "reparent", "wake_init", "wake_parent",
   "exit_zombie", "exit", "dead", "wait_scan", "wait_sleep",
   "sleep", "sleeping", "woken"}

TypeOK ==
  /\ state \in [Slots -> States]
  /\ chan \in [Slots -> Slots \cup {NoProc}]
  /\ killed \in [Slots -> BOOLEAN]
  /\ pid \in [Slots -> 0..MaxPid]
  /\ parent \in [Slots -> Slots \cup {NoProc}]
  /\ plock \in [Slots -> CPUs \cup {0}]
  /\ wait_lock \in CPUs \cup {0}
  /\ nextpid \in 1..(MaxPid + 1)
  /\ cproc \in [CPUs -> Slots \cup {NoProc}]
  /\ on \in [CPUs -> Slots \cup {NoProc}]
  /\ pc \in [Slots -> Locations]
  /\ back \in [Slots -> Interruptible]
  /\ np \in [Slots -> Slots \cup {NoProc}]
  /\ todo \in [Slots -> SUBSET Slots]
  /\ asked \in SUBSET (0..MaxPid)

\* userinit() has run: the first process is ready, nothing has been scheduled.
Init ==
  /\ state = [s \in Slots |-> IF s = initproc THEN "RUNNABLE" ELSE "UNUSED"]
  /\ chan = [s \in Slots |-> NoProc]
  /\ killed = [s \in Slots |-> FALSE]
  /\ pid = [s \in Slots |-> IF s = initproc THEN 1 ELSE 0]
  /\ parent = [s \in Slots |-> NoProc]
  /\ plock = [s \in Slots |-> 0]
  /\ wait_lock = 0
  /\ nextpid = 2
  /\ cproc = [c \in CPUs |-> NoProc]
  /\ on = [c \in CPUs |-> NoProc]
  /\ pc = [s \in Slots |-> IF s = initproc THEN "forkret" ELSE "none"]
  /\ back = [s \in Slots |-> "user"]
  /\ np = [s \in Slots |-> NoProc]
  /\ todo = [s \in Slots |-> {}]
  /\ asked = {}

Goto(s, l) == pc' = [pc EXCEPT ![s] = l]

\* The loops over the table visit its slots in ascending order.
IsFirst(k, S) == k \in S /\ \A t \in S : k <= t

Kids(s) == {k \in Slots : parent[k] = s}

-------------------------------------------------------------------------------
(* scheduler(), sched() and yield().                                       *)

\* As SchedPick, but p->lock is released before the switch.
SchedPickReleases(c, s) ==
  /\ on[c] = NoProc
  /\ cproc[c] = NoProc
  /\ plock[s] = 0
  /\ state[s] = "RUNNABLE"
  /\ state' = [state EXCEPT ![s] = "RUNNING"]
  /\ cproc' = [cproc EXCEPT ![c] = s]
  /\ on' = [on EXCEPT ![c] = s]
  /\ UNCHANGED <<chan, killed, pid, parent, locks, nextpid, thread, asked>>

\* scheduler() finds p RUNNABLE and switches to it with p->lock held.
SchedPick(c, s) ==
  /\ on[c] = NoProc
  /\ cproc[c] = NoProc
  /\ plock[s] = 0
  /\ state[s] = "RUNNABLE"
  /\ plock' = [plock EXCEPT ![s] = c]
  /\ state' = [state EXCEPT ![s] = "RUNNING"]
  /\ cproc' = [cproc EXCEPT ![c] = s]
  /\ on' = [on EXCEPT ![c] = s]
  /\ UNCHANGED <<chan, killed, pid, parent, wait_lock, nextpid, thread, asked>>

\* A scan that finds nothing to run: the CPU waits for an interrupt and scans
\* again.
SchedIdle(c) ==
  /\ on[c] = NoProc
  /\ cproc[c] = NoProc
  /\ \A s \in Slots : state[s] # "RUNNABLE"
  /\ UNCHANGED vars

\* The process came back through sched(): scheduler() forgets it and releases
\* its lock.
SchedBack(c) ==
  /\ on[c] = NoProc
  /\ cproc[c] # NoProc
  /\ cproc' = [cproc EXCEPT ![c] = NoProc]
  /\ plock' = [plock EXCEPT ![cproc[c]] = 0]
  /\ UNCHANGED <<table, wait_lock, nextpid, on, thread, asked>>

\* swtch() in sched(): the CPU leaves the process's stack for its scheduler's.
Sched(c) ==
  LET s == on[c] IN
  /\ s # NoProc
  /\ pc[s] \in {"yield", "sleeping", "exit"}
  /\ on' = [on EXCEPT ![c] = NoProc]
  /\ Goto(s, CASE pc[s] = "yield"    -> "yielded"
               [] pc[s] = "sleeping" -> "woken"
               [] pc[s] = "exit"     -> "dead")
  /\ UNCHANGED <<table, locks, nextpid, cproc, back, np, todo, asked>>

\* As Yield, but without acquire(&p->lock).
YieldUnlocked(c) ==
  LET s == on[c] IN
  /\ s # NoProc
  /\ pc[s] \in Interruptible
  /\ plock[s] = 0
  /\ state' = [state EXCEPT ![s] = "RUNNABLE"]
  /\ back' = [back EXCEPT ![s] = pc[s]]
  /\ Goto(s, "yield")
  /\ UNCHANGED <<chan, killed, pid, parent, locks, nextpid, cpu, np, todo, asked>>

\* A timer interrupt: yield() takes p->lock and makes p RUNNABLE.  From user
\* space usertrap() yields only if the process is not killed.
Yield(c) ==
  LET s == on[c] IN
  /\ s # NoProc
  /\ pc[s] \in Interruptible
  /\ plock[s] = 0
  /\ pc[s] = "user" => ~killed[s]
  /\ plock' = [plock EXCEPT ![s] = c]
  /\ state' = [state EXCEPT ![s] = "RUNNABLE"]
  /\ back' = [back EXCEPT ![s] = pc[s]]
  /\ Goto(s, "yield")
  /\ UNCHANGED <<chan, killed, pid, parent, wait_lock, nextpid, cpu, np, todo, asked>>

\* What a process does first when it runs again: forkret(), the end of yield()
\* and the end of sleep() release the p->lock that scheduler() acquired.
Resume(c) ==
  LET s == on[c] IN
  /\ s # NoProc
  /\ pc[s] \in {"forkret", "yielded", "woken"}
  /\ plock' = [plock EXCEPT ![s] = 0]
  /\ chan' = [chan EXCEPT ![s] = IF pc[s] = "woken" THEN NoProc ELSE @]
  /\ Goto(s, CASE pc[s] = "forkret" -> "user"
               [] pc[s] = "yielded" -> back[s]
               [] pc[s] = "woken"   -> "wait_lock")
  /\ back' = [back EXCEPT ![s] = "user"]
  /\ UNCHANGED <<state, killed, pid, parent, wait_lock, nextpid, cpu, np, todo, asked>>

-------------------------------------------------------------------------------
(* usertrap().                                                             *)

\* An ecall of a process that is not killed.
Syscall(c) ==
  LET s == on[c] IN
  /\ s # NoProc
  /\ pc[s] = "user"
  /\ plock[s] = 0
  /\ ~killed[s]
  /\ Goto(s, "syscall")
  /\ UNCHANGED <<table, locks, nextpid, cpu, back, np, todo, asked>>

\* A system call that leaves the process table alone, a fork() that finds no
\* slot, a kill() that finds no process.
SyscallReturn(c) ==
  LET s == on[c] IN
  /\ s # NoProc
  /\ pc[s] = "syscall"
  /\ Goto(s, "user")
  /\ UNCHANGED <<table, locks, nextpid, cpu, back, np, todo, asked>>

\* Any trap of a killed process ends in kexit().
KilledTrap(c) ==
  LET s == on[c] IN
  /\ s # NoProc
  /\ pc[s] = "user"
  /\ s # initproc             \* else panic("init exiting")
  /\ plock[s] = 0
  /\ killed[s]
  /\ Goto(s, "exit_lock")
  /\ UNCHANGED <<table, locks, nextpid, cpu, back, np, todo, asked>>

\* An exception that usertrap() does not handle: setkilled(p).
Fault(c) ==
  LET s == on[c] IN
  /\ s # NoProc
  /\ pc[s] = "user"
  /\ s # initproc
  /\ pid[s] \in KillPids
  /\ plock[s] = 0
  /\ killed' = [killed EXCEPT ![s] = TRUE]
  /\ asked' = asked \cup {pid[s]}
  /\ UNCHANGED <<state, chan, pid, parent, locks, nextpid, cpu, thread>>

-------------------------------------------------------------------------------
(* kfork().                                                                *)

\* allocproc() claims slot n and everything the child needs is copied, all
\* under the child's lock.
ForkAlloc(c, n) ==
  LET s == on[c] IN
  /\ s # NoProc
  /\ pc[s] = "syscall"
  /\ nextpid <= MaxPid
  /\ plock[n] = 0
  /\ state[n] = "UNUSED"
  /\ pid' = [pid EXCEPT ![n] = nextpid]
  /\ nextpid' = nextpid + 1
  /\ state' = [state EXCEPT ![n] = "USED"]
  /\ pc' = [pc EXCEPT ![s] = "fork_parent", ![n] = "forkret"]
  /\ np' = [np EXCEPT ![s] = n]
  /\ UNCHANGED <<chan, killed, parent, locks, cpu, back, todo, asked>>

\* No memory for the trapframe, the page table or the copy: freeproc().
ForkFail(c, n) ==
  /\ on[c] # NoProc
  /\ pc[on[c]] = "syscall"
  /\ nextpid <= MaxPid
  /\ plock[n] = 0
  /\ state[n] = "UNUSED"
  /\ nextpid' = nextpid + 1
  /\ killed' = [killed EXCEPT ![n] = FALSE]
  /\ Goto(on[c], "user")
  /\ UNCHANGED <<state, chan, pid, parent, locks, cpu, back, np, todo, asked>>

ForkParent(c) ==
  LET s == on[c] IN
  /\ s # NoProc
  /\ pc[s] = "fork_parent"
  /\ wait_lock = 0
  /\ parent' = [parent EXCEPT ![np[s]] = s]
  /\ Goto(s, "fork_run")
  /\ UNCHANGED <<state, chan, killed, pid, locks, nextpid, cpu, back, np, todo, asked>>

ForkRun(c) ==
  LET s == on[c] IN
  /\ s # NoProc
  /\ pc[s] = "fork_run"
  /\ plock[np[s]] = 0
  /\ state' = [state EXCEPT ![np[s]] = "RUNNABLE"]
  /\ np' = [np EXCEPT ![s] = NoProc]
  /\ Goto(s, "user")
  /\ UNCHANGED <<chan, killed, pid, parent, locks, nextpid, cpu, back, todo, asked>>

-------------------------------------------------------------------------------
(* kexit(), reparent() and wakeup().                                       *)

\* exit(): the files and the directory are closed.
ExitBegin(c) ==
  LET s == on[c] IN
  /\ s # NoProc
  /\ pc[s] = "syscall"
  /\ s # initproc             \* else panic("init exiting")
  /\ Goto(s, "exit_lock")
  /\ UNCHANGED <<table, locks, nextpid, cpu, back, np, todo, asked>>

ExitLock(c) ==
  LET s == on[c] IN
  /\ s # NoProc
  /\ pc[s] = "exit_lock"
  /\ wait_lock = 0
  /\ wait_lock' = c
  /\ Goto(s, "reparent")
  /\ UNCHANGED <<table, plock, nextpid, cpu, back, np, todo, asked>>

\* As Reparent, but children that have exited already are left out.
ReparentLiving(c) ==
  LET s == on[c]
      living == {k \in Kids(s) : state[k] # "ZOMBIE"} IN
  /\ s # NoProc
  /\ pc[s] = "reparent"
  /\ todo' = [todo EXCEPT ![s] = Slots \ {s}]
  /\ IF living # {}
     THEN /\ \E k \in living : IsFirst(k, living) /\ parent' = [parent EXCEPT ![k] = initproc]
          /\ Goto(s, "wake_init")
     ELSE UNCHANGED parent /\ Goto(s, "wake_parent")
  /\ UNCHANGED <<state, chan, killed, pid, locks, nextpid, cpu, back, np, asked>>

\* One child of the loop in reparent(), or, when there is none left, on to
\* wakeup(p->parent).
Reparent(c) ==
  LET s == on[c] IN
  /\ s # NoProc
  /\ pc[s] = "reparent"
  /\ todo' = [todo EXCEPT ![s] = Slots \ {s}]
  /\ IF Kids(s) # {}
     THEN /\ \E k \in Kids(s) :
               IsFirst(k, Kids(s)) /\ parent' = [parent EXCEPT ![k] = initproc]
          /\ Goto(s, "wake_init")
     ELSE /\ UNCHANGED parent
          /\ Goto(s, "wake_parent")
  /\ UNCHANGED <<state, chan, killed, pid, locks, nextpid, cpu, back, np, asked>>

\* As WakeSlot, but it tests the wrong state.
WakeSlotRunnable(q, ch) ==
  /\ plock[q] = 0
  /\ state' = [state EXCEPT ![q] = IF @ = "RUNNABLE" /\ chan[q] = ch THEN "RUNNABLE" ELSE @]

\* wakeup(ch) looks at one slot, under its lock.
WakeSlot(q, ch) ==
  /\ plock[q] = 0
  /\ state' = [state EXCEPT ![q] = IF @ = "SLEEPING" /\ chan[q] = ch THEN "RUNNABLE" ELSE @]

Wakeup(c, q) ==
  LET s == on[c] IN
  /\ s # NoProc
  /\ pc[s] \in {"wake_init", "wake_parent"}
  /\ IsFirst(q, todo[s])
  /\ WakeSlot(q, IF pc[s] = "wake_init" THEN initproc ELSE parent[s])
  /\ todo' = [todo EXCEPT ![s] = @ \ {q}]
  /\ Goto(s, IF todo[s] # {q} THEN pc[s]
             ELSE IF pc[s] = "wake_init" THEN "reparent" ELSE "exit_zombie")
  /\ UNCHANGED <<chan, killed, pid, parent, locks, nextpid, cpu, back, np, asked>>

\* As ExitZombie, but wait_lock is not released.
ExitZombieKeepsLock(c) ==
  LET s == on[c] IN
  /\ s # NoProc
  /\ pc[s] = "exit_zombie"
  /\ plock[s] = 0
  /\ plock' = [plock EXCEPT ![s] = c]
  /\ state' = [state EXCEPT ![s] = "ZOMBIE"]
  /\ Goto(s, "exit")
  /\ UNCHANGED <<chan, killed, pid, parent, wait_lock, nextpid, cpu, back, np, todo, asked>>

ExitZombie(c) ==
  LET s == on[c] IN
  /\ s # NoProc
  /\ pc[s] = "exit_zombie"
  /\ plock[s] = 0
  /\ plock' = [plock EXCEPT ![s] = c]
  /\ state' = [state EXCEPT ![s] = "ZOMBIE"]
  /\ wait_lock' = 0
  /\ Goto(s, "exit")
  /\ UNCHANGED <<chan, killed, pid, parent, nextpid, cpu, back, np, todo, asked>>

-------------------------------------------------------------------------------
(* kwait() and sleep().                                                    *)

WaitBegin(c) ==
  LET s == on[c] IN
  /\ s # NoProc
  /\ pc[s] = "syscall"
  /\ Goto(s, "wait_lock")
  /\ UNCHANGED <<table, locks, nextpid, cpu, back, np, todo, asked>>

WaitLock(c) ==
  LET s == on[c] IN
  /\ s # NoProc
  /\ pc[s] = "wait_lock"
  /\ wait_lock = 0
  /\ wait_lock' = c
  /\ todo' = [todo EXCEPT ![s] = Kids(s)]
  /\ Goto(s, "wait_scan")
  /\ UNCHANGED <<table, plock, nextpid, cpu, back, np, asked>>

\* The scan reaches a child that has not exited.
WaitSkip(c, k) ==
  LET s == on[c] IN
  /\ s # NoProc
  /\ pc[s] = "wait_scan"
  /\ IsFirst(k, todo[s])
  /\ plock[k] = 0
  /\ state[k] # "ZOMBIE"
  /\ todo' = [todo EXCEPT ![s] = @ \ {k}]
  /\ UNCHANGED <<table, locks, nextpid, cpu, pc, back, np, asked>>

\* As Freeproc, but p->killed is left alone.
FreeprocKeepsKilled(k) ==
  /\ state' = [state EXCEPT ![k] = "UNUSED"]
  /\ chan' = [chan EXCEPT ![k] = NoProc]
  /\ pid' = [pid EXCEPT ![k] = 0]
  /\ parent' = [parent EXCEPT ![k] = NoProc]
  /\ UNCHANGED killed

\* freeproc() of slot k.
Freeproc(k) ==
  /\ state' = [state EXCEPT ![k] = "UNUSED"]
  /\ chan' = [chan EXCEPT ![k] = NoProc]
  /\ killed' = [killed EXCEPT ![k] = FALSE]
  /\ pid' = [pid EXCEPT ![k] = 0]
  /\ parent' = [parent EXCEPT ![k] = NoProc]

\* It reaches one that has: the slot is freed and wait() returns its pid.
WaitReap(c, k) ==
  LET s == on[c] IN
  /\ s # NoProc
  /\ pc[s] = "wait_scan"
  /\ IsFirst(k, todo[s])
  /\ plock[k] = 0
  /\ state[k] = "ZOMBIE"
  /\ Freeproc(k)
  /\ wait_lock' = 0
  /\ pc' = [pc EXCEPT ![s] = "user", ![k] = "none"]
  /\ todo' = [todo EXCEPT ![s] = {}]
  /\ UNCHANGED <<plock, nextpid, cpu, back, np, asked>>

\* wait() returns -1: the status cannot be copied out (init passes no address),
\* or after the scan there are no children or the caller was killed.
WaitFails(c) ==
  LET s == on[c] IN
  /\ s # NoProc
  /\ pc[s] = "wait_scan"
  /\ \/ /\ s # initproc
        /\ \E k \in todo[s] : IsFirst(k, todo[s]) /\ plock[k] = 0 /\ state[k] = "ZOMBIE"
     \/ todo[s] = {} /\ plock[s] = 0 /\ (Kids(s) = {} \/ killed[s])
  /\ wait_lock' = 0
  /\ todo' = [todo EXCEPT ![s] = {}]
  /\ Goto(s, "user")
  /\ UNCHANGED <<table, plock, nextpid, cpu, back, np, asked>>

\* As WaitSleep, but p->killed is not looked at.
WaitSleepUnchecked(c) ==
  LET s == on[c] IN
  /\ s # NoProc
  /\ pc[s] = "wait_scan"
  /\ todo[s] = {}
  /\ Kids(s) # {}
  /\ plock[s] = 0
  /\ Goto(s, "wait_sleep")
  /\ UNCHANGED <<table, locks, nextpid, cpu, back, np, todo, asked>>

\* As WaitSleep, but wait_lock is released before sleep() takes p->lock.
WaitSleepUnlocks(c) ==
  LET s == on[c] IN
  /\ s # NoProc
  /\ pc[s] = "wait_scan"
  /\ todo[s] = {}
  /\ Kids(s) # {}
  /\ plock[s] = 0
  /\ ~killed[s]
  /\ wait_lock' = 0
  /\ Goto(s, "wait_sleep")
  /\ UNCHANGED <<table, plock, nextpid, cpu, back, np, todo, asked>>

\* There are children, and killed(p) returned 0.
WaitSleep(c) ==
  LET s == on[c] IN
  /\ s # NoProc
  /\ pc[s] = "wait_scan"
  /\ todo[s] = {}
  /\ Kids(s) # {}
  /\ plock[s] = 0
  /\ ~killed[s]
  /\ Goto(s, "wait_sleep")
  /\ UNCHANGED <<table, locks, nextpid, cpu, back, np, todo, asked>>

\* sleep(p, &wait_lock): first p->lock is acquired ...
SleepLock(c) ==
  LET s == on[c] IN
  /\ s # NoProc
  /\ pc[s] = "wait_sleep"
  /\ plock[s] = 0
  /\ plock' = [plock EXCEPT ![s] = c]
  /\ Goto(s, "sleep")
  /\ UNCHANGED <<table, wait_lock, nextpid, cpu, back, np, todo, asked>>

\* ... then wait_lock is released and p put to sleep.
SleepPublish(c) ==
  LET s == on[c] IN
  /\ s # NoProc
  /\ pc[s] = "sleep"
  /\ wait_lock' = 0
  /\ chan' = [chan EXCEPT ![s] = s]
  /\ state' = [state EXCEPT ![s] = "SLEEPING"]
  /\ Goto(s, "sleeping")
  /\ UNCHANGED <<killed, pid, parent, plock, nextpid, cpu, back, np, todo, asked>>

-------------------------------------------------------------------------------
\* kkill(v) finds the first slot with that pid.
Kill(c, v, q) ==
  /\ on[c] # NoProc
  /\ pc[on[c]] = "syscall"
  /\ IsFirst(q, {t \in Slots : pid[t] = v})
  /\ plock[q] = 0
  /\ killed' = [killed EXCEPT ![q] = TRUE]
  /\ state' = [state EXCEPT ![q] = IF @ = "SLEEPING" THEN "RUNNABLE" ELSE @]
  /\ asked' = asked \cup {v}
  /\ Goto(on[c], "user")
  /\ UNCHANGED <<chan, pid, parent, locks, nextpid, cpu, back, np, todo>>

-------------------------------------------------------------------------------
\* Switching between a process and the scheduler.
Switch(c) == SchedBack(c) \/ Sched(c) \/ Resume(c)

\* The kernel code of a process between two traps from user space.
Kernel(c) ==
  \/ SyscallReturn(c) \/ KilledTrap(c)
  \/ ForkParent(c) \/ ForkRun(c)
  \/ ExitBegin(c) \/ ExitLock(c) \/ Reparent(c) \/ ExitZombie(c)
  \/ WaitBegin(c) \/ WaitLock(c) \/ WaitFails(c) \/ WaitSleep(c)
  \/ SleepLock(c) \/ SleepPublish(c)
  \/ \E n \in Slots : \/ ForkAlloc(c, n) \/ ForkFail(c, n) \/ Wakeup(c, n)
                      \/ WaitSkip(c, n) \/ WaitReap(c, n)
                      \/ \E v \in KillPids : Kill(c, v, n)

Next ==
  \E c \in CPUs :
    \/ SchedIdle(c)
    \/ \E s \in Slots : SchedPick(c, s)
    \/ Switch(c) \/ Kernel(c)
    \/ Yield(c) \/ Syscall(c) \/ Fault(c)

Spec == Init /\ [][Next]_vars

-------------------------------------------------------------------------------
(* Fairness.  A switch completes; a pending timer interrupt is taken; the  *)
(* round-robin scan of scheduler() reaches every RUNNABLE process; a       *)
(* process in the kernel makes progress between two timer ticks, and gets  *)
(* a spinlock that is released again and again; and init calls wait() for  *)
(* ever (user/init.c).  Nothing is assumed of the other programs.          *)
By(s, A(_)) == \E c \in CPUs : on[c] = s /\ A(c)

Fairness ==
  /\ \A c \in CPUs : WF_vars(Switch(c)) /\ SF_vars(Yield(c))
  /\ \A s \in Slots : SF_vars(\E c \in CPUs : SchedPick(c, s)) /\ SF_vars(By(s, Kernel))
  /\ SF_vars(By(initproc, Syscall)) /\ SF_vars(By(initproc, WaitBegin))

FairSpec == Spec /\ Fairness

-------------------------------------------------------------------------------
(* Properties.                                                             *)

\* No two CPUs ever run on one kernel stack, and no CPU runs on the stack of a
\* slot that wait() has freed or fork() is still filling (proc.c:384: "make
\* sure the child isn't still in exit() or swtch()").
StackExclusive ==
  \A c \in CPUs : on[c] # NoProc =>
    /\ state[on[c]] \notin {"UNUSED", "USED"}
    /\ \A d \in CPUs : on[d] = on[c] => d = c

\* Whoever calls sched() holds p->lock and no other lock, and has changed
\* p->state (the panics in proc.c:478-483).
SchedPreconditions ==
  \A c \in CPUs : on[c] # NoProc /\ pc[on[c]] \in {"yield", "sleeping", "exit"} =>
    /\ state[on[c]] # "RUNNING"
    /\ {s \in Slots : plock[s] = c} = {on[c]}
    /\ wait_lock # c

\* release() never panics: the CPU that releases a p->lock or wait_lock is the
\* one that holds it, across every swtch().
ReleasedByHolder ==
  \A c \in CPUs :
    /\ on[c] = NoProc /\ cproc[c] # NoProc => plock[cproc[c]] = c
    /\ on[c] # NoProc =>
         /\ pc[on[c]] \in {"forkret", "yielded", "woken", "sleep"} => plock[on[c]] = c
         /\ pc[on[c]] \in {"reparent", "wake_init", "wake_parent", "exit_zombie",
                           "wait_scan", "wait_sleep", "sleep"} => wait_lock = c

\* A process does not sleep in wait() while a child of its own is a zombie,
\* except while a third party still holds wait_lock to set things right: no
\* exit and no reparenting is missed between the scan and the sleep.
NoLostWakeup ==
  \A s, k \in Slots :
    state[k] = "ZOMBIE" /\ parent[k] = s /\ state[s] = "SLEEPING" => wait_lock # 0

\* Every process that may run or has exited has a parent that is alive and can
\* still wait for it: a child is published with its parent (proc.c:297-303),
\* and an exiting process leaves no child behind (reparent).
ParentIsAlive ==
  \A s \in Slots \ {initproc} :
    state[s] \notin {"UNUSED", "USED"} =>
      /\ parent[s] # NoProc
      /\ state[parent[s]] \notin {"UNUSED", "USED", "ZOMBIE"}

\* proc.c:589, "Kill the process with the given pid": a process is marked
\* killed only if kill() was called with its pid or it faulted itself.
KilledWasAsked ==
  \A s \in Slots : state[s] # "UNUSED" /\ killed[s] => pid[s] \in asked

\* A zombie that belongs to init is reaped, so slots do not leak.
OrphanReaped ==
  \A s \in Slots : state[s] = "ZOMBIE" /\ parent[s] = initproc ~> state[s] = "UNUSED"

\* A killed process exits, wherever the kill found it, with one exception: a
\* kill between wait()'s check of p->killed and the end of sleep()'s preamble
\* (proc.c:407-413) leaves it asleep until a child exits.
KilledExits ==
  \A s \in Slots :
    /\ killed[s]
    /\ state[s] \in {"RUNNABLE", "RUNNING"}
    /\ pc[s] \notin {"wait_sleep", "sleep"}
    ~> state[s] = "ZOMBIE"
===============================================================================
