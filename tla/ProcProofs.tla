------------------------------ MODULE ProcProofs ------------------------------
(***************************************************************************)
(* The inductive invariant of Proc.  Part one is which CPU holds which lock*)
(* and runs on which stack: every property of the process table rests on   *)
(* it, because the locks travel with the CPUs through swtch().  Part two is*)
(* the families: who is whose parent, and in which state (FamilyInv).      *)
(***************************************************************************)
EXTENDS Proc, TLAPS

\* The thread has p->lock, taken by itself or by the scheduler that runs it.
HoldsP == {"forkret", "yield", "yielded", "sleep", "sleeping", "woken", "exit"}

\* The thread has wait_lock.
HoldsW == {"reparent", "wake_init", "wake_parent", "exit_zombie", "wait_scan",
           "wait_sleep", "sleep"}

\* A stack has one CPU; a CPU that left a process still has its lock.
CpuInv ==
  \A c \in CPUs :
    /\ on[c] # NoProc => cproc[c] = on[c]
    /\ cproc[c] # NoProc => \A d \in CPUs : cproc[d] = cproc[c] => d = c
    /\ on[c] = NoProc /\ cproc[c] # NoProc => plock[cproc[c]] = c
    /\ on[c] # NoProc /\ pc[on[c]] \in HoldsP => plock[on[c]] = c

LockInv ==
  /\ \A s \in Slots : plock[s] # 0 =>
       /\ cproc[plock[s]] = s
       /\ on[plock[s]] = NoProc \/ pc[s] \in HoldsP
  /\ wait_lock # 0 => on[wait_lock] # NoProc /\ pc[on[wait_lock]] \in HoldsW
  /\ \A s \in Slots : pc[s] \in HoldsW => wait_lock # 0 /\ on[wait_lock] = s

\* The locations that go with a p->state.
Located(s) ==
  /\ state[s] = "UNUSED" => pc[s] = "none"
  /\ state[s] = "USED" => pc[s] = "forkret"
  /\ state[s] = "RUNNABLE" => pc[s] \in {"forkret", "yield", "yielded", "woken"}
  /\ state[s] = "RUNNING" => pc[s] \notin {"none", "yield", "sleeping", "exit", "dead"}
  /\ state[s] = "SLEEPING" => pc[s] \in {"sleeping", "woken"}
  /\ state[s] = "ZOMBIE" => pc[s] \in {"exit", "dead"}

StateInv ==
  /\ \A s \in Slots : Located(s)
  /\ \A s \in Slots : pc[s] \in {"yield", "sleeping", "exit"} => plock[s] # 0
  /\ \A c \in CPUs : on[c] # NoProc =>
       state[on[c]] = "RUNNING" \/ pc[on[c]] \in {"yield", "sleeping", "exit"}
  /\ \A c \in CPUs : on[c] = NoProc /\ cproc[c] # NoProc =>
       pc[cproc[c]] \in {"yielded", "woken", "dead"} /\ state[cproc[c]] # "RUNNING"
  /\ \A s \in Slots : state[s] = "UNUSED" => pid[s] = 0 /\ parent[s] = NoProc

\* Where a thread is, looking through a timer interrupt.
Loc(s) == IF pc[s] \in {"yield", "yielded"} THEN back[s] ELSE pc[s]

\* The child that a fork() has claimed stays USED and belongs to it alone.
ForkInv ==
  \A s \in Slots :
    /\ np[s] # NoProc =>
         state[np[s]] = "USED" /\ \A t \in Slots : np[t] = np[s] => t = s
    /\ Loc(s) \in {"fork_parent", "fork_run"} => np[s] # NoProc
    /\ Loc(s) = "fork_run" => parent[np[s]] = s

Stacks == CpuInv /\ LockInv /\ StateInv /\ ForkInv

\* Every step of the process table keeps its variables in their types; no
\* pid beyond MaxPid, no lock owner that is not a CPU.
LEMMA TypeStep ==
  ASSUME TypeOK, [Next]_vars
  PROVE  TypeOK'
<1> USE ConstantsAssumption DEF TypeOK, Goto
<1>0. initproc \in Slots
  BY DEF initproc, Slots
<1>1. CASE UNCHANGED vars
  BY <1>1, Zenon DEF vars, table, locks, cpu, thread
<1>2. ASSUME NEW c \in CPUs, SchedIdle(c) PROVE TypeOK'
  BY <1>2, Zenon DEF SchedIdle, vars, table, locks, cpu, thread, States, Locations, Interruptible
<1>3. ASSUME NEW c \in CPUs, NEW s \in Slots, SchedPick(c, s) PROVE TypeOK'
  BY <1>3, Zenon DEF SchedPick, thread, States, Locations, Interruptible
<1>4. ASSUME NEW c \in CPUs, SchedBack(c) PROVE TypeOK'
  BY <1>4, Zenon DEF SchedBack, table, thread, States, Locations, Interruptible
<1>5. ASSUME NEW c \in CPUs, Resume(c) PROVE TypeOK'
  BY <1>5, Zenon DEF Resume, cpu, States, Locations, Interruptible
<1>6. ASSUME NEW c \in CPUs, Yield(c) PROVE TypeOK'
  BY <1>6, Zenon DEF Yield, cpu, States, Locations, Interruptible
<1>7. ASSUME NEW c \in CPUs, Syscall(c) PROVE TypeOK'
  BY <1>7, Zenon DEF Syscall, table, locks, cpu, States, Locations, Interruptible
<1>8. ASSUME NEW c \in CPUs, SyscallReturn(c) PROVE TypeOK'
  BY <1>8, Zenon DEF SyscallReturn, table, locks, cpu, States, Locations, Interruptible
<1>9. ASSUME NEW c \in CPUs, KilledTrap(c) PROVE TypeOK'
  BY <1>9, Zenon DEF KilledTrap, table, locks, cpu, States, Locations, Interruptible
<1>10. ASSUME NEW c \in CPUs, Fault(c) PROVE TypeOK'
  BY ZenonT(60), <1>10 DEF Fault, locks, cpu, thread, States, Locations, Interruptible
<1>11. ASSUME NEW c \in CPUs, ExitLock(c) PROVE TypeOK'
  BY <1>11, Zenon DEF ExitLock, table, cpu, States, Locations, Interruptible
<1>12. ASSUME NEW c \in CPUs, ExitZombie(c) PROVE TypeOK'
  BY <1>12, Zenon DEF ExitZombie, cpu, States, Locations, Interruptible
<1>13. ASSUME NEW c \in CPUs, WaitBegin(c) PROVE TypeOK'
  BY <1>13, Zenon DEF WaitBegin, table, locks, cpu, States, Locations, Interruptible
<1>14. ASSUME NEW c \in CPUs, NEW s \in Slots, WaitSkip(c, s) PROVE TypeOK'
  BY <1>14, Zenon DEF WaitSkip, table, locks, cpu, States, Locations, Interruptible
<1>15. ASSUME NEW c \in CPUs, WaitFails(c) PROVE TypeOK'
  BY <1>15, Zenon DEF WaitFails, table, cpu, States, Locations, Interruptible
<1>16. ASSUME NEW c \in CPUs, WaitSleep(c) PROVE TypeOK'
  BY <1>16, Zenon DEF WaitSleep, table, locks, cpu, States, Locations, Interruptible
<1>17. ASSUME NEW c \in CPUs, SleepLock(c) PROVE TypeOK'
  BY <1>17, Zenon DEF SleepLock, table, cpu, States, Locations, Interruptible
<1>18. ASSUME NEW c \in CPUs, Sched(c) PROVE TypeOK'
  <2>1. pc' \in [Slots -> Locations]
    BY <1>0, <1>18, Zenon DEF Sched, Locations, Interruptible
  <2> QED
    BY <1>18, <2>1, Zenon DEF Sched, table, locks
<1>19. ASSUME NEW c \in CPUs, NEW s \in Slots, ForkAlloc(c, s) PROVE TypeOK'
  <2>1. pid' \in [Slots -> 0..MaxPid] /\ nextpid' \in 1..(MaxPid + 1)
    BY <1>0, <1>19 DEF ForkAlloc
  <2>2. state' \in [Slots -> States] /\ pc' \in [Slots -> Locations] /\ np' \in [Slots -> Slots \cup {NoProc}]
    BY <1>0, <1>19, Zenon DEF ForkAlloc, States, Locations, Interruptible
  <2> QED
    BY <1>19, <2>1, <2>2, Zenon DEF ForkAlloc, locks, cpu
<1>20. ASSUME NEW c \in CPUs, NEW s \in Slots, ForkFail(c, s) PROVE TypeOK'
  <2>1. nextpid' \in 1..(MaxPid + 1)
    BY <1>0, <1>20 DEF ForkFail
  <2>2. killed' \in [Slots -> BOOLEAN]
    BY <1>0, <1>20, Zenon DEF ForkFail
  <2>3. pc' \in [Slots -> Locations]
    BY <1>0, <1>20, Zenon DEF ForkFail, Locations, Interruptible
  <2> QED
    BY <1>20, <2>1, <2>2, <2>3, Zenon DEF ForkFail, locks, cpu
<1>21. ASSUME NEW c \in CPUs, ForkParent(c) PROVE TypeOK'
  <2>1. parent' \in [Slots -> Slots \cup {NoProc}] /\ pc' \in [Slots -> Locations]
    BY <1>0, <1>21, Zenon DEF ForkParent, Locations, Interruptible
  <2> QED
    BY <1>21, <2>1, Zenon DEF ForkParent, locks, cpu
<1>22. ASSUME NEW c \in CPUs, ForkRun(c) PROVE TypeOK'
  <2>1. state' \in [Slots -> States] /\ np' \in [Slots -> Slots \cup {NoProc}] /\ pc' \in [Slots -> Locations]
    BY <1>0, <1>22, Zenon DEF ForkRun, States, Locations, Interruptible
  <2> QED
    BY <1>22, <2>1, Zenon DEF ForkRun, locks, cpu
<1>23. ASSUME NEW c \in CPUs, Reparent(c) PROVE TypeOK'
  <2>1. todo' \in [Slots -> SUBSET Slots]
    BY <1>0, <1>23, Zenon DEF Reparent
  <2>2. \/ UNCHANGED parent
        \/ \E k \in Slots : parent' = [parent EXCEPT ![k] = initproc]
    BY <1>23, Zenon DEF Reparent, Kids
  <2>2a. parent' \in [Slots -> Slots \cup {NoProc}]
    BY <1>0, <2>2
  <2>3. pc' \in [Slots -> Locations]
    BY <1>0, <1>23 DEF Reparent, Locations, Interruptible
  <2> QED
    BY <1>23, <2>1, <2>2a, <2>3, Zenon DEF Reparent, locks, cpu
<1>24. ASSUME NEW c \in CPUs, NEW s \in Slots, Wakeup(c, s) PROVE TypeOK'
  <2>1. state' \in [Slots -> States]
    BY <1>0, <1>24, Zenon DEF Wakeup, WakeSlot, States
  <2>2. todo' \in [Slots -> SUBSET Slots]
    BY <1>0, <1>24, Zenon DEF Wakeup
  <2>3. pc' \in [Slots -> Locations]
    BY <1>0, <1>24, Zenon DEF Wakeup, Locations, Interruptible
  <2> QED
    BY <1>24, <2>1, <2>2, <2>3, Zenon DEF Wakeup, locks, cpu, WakeSlot
<1>25. ASSUME NEW c \in CPUs, WaitLock(c) PROVE TypeOK'
  <2>1. todo' \in [Slots -> SUBSET Slots]
    BY <1>0, <1>25, Zenon DEF WaitLock, Kids
  <2>2. pc' \in [Slots -> Locations] /\ wait_lock' \in CPUs \cup {0}
    BY <1>0, <1>25, Zenon DEF WaitLock, Locations, Interruptible
  <2> QED
    BY <1>25, <2>1, <2>2, Zenon DEF WaitLock, table, cpu
<1>26. ASSUME NEW c \in CPUs, NEW s \in Slots, WaitReap(c, s) PROVE TypeOK'
  <2>1. state' \in [Slots -> States] /\ chan' \in [Slots -> Slots \cup {NoProc}]
    BY <1>0, <1>26, Zenon DEF WaitReap, Freeproc, States
  <2>2. pid' \in [Slots -> 0..MaxPid] /\ parent' \in [Slots -> Slots \cup {NoProc}]
    BY <1>0, <1>26 DEF WaitReap, Freeproc
  <2>3. killed' \in [Slots -> BOOLEAN]
    BY <1>0, <1>26, Zenon DEF WaitReap, Freeproc
  <2>4. pc' \in [Slots -> Locations] /\ todo' \in [Slots -> SUBSET Slots] /\ wait_lock' \in CPUs \cup {0}
    BY <1>0, <1>26, Zenon DEF WaitReap, Locations, Interruptible
  <2> QED
    BY <1>26, <2>1, <2>2, <2>3, <2>4, Zenon DEF WaitReap, cpu, Freeproc
<1>27. ASSUME NEW c \in CPUs, SleepPublish(c) PROVE TypeOK'
  <2>1. chan' \in [Slots -> Slots \cup {NoProc}] /\ state' \in [Slots -> States]
    BY <1>0, <1>27, Zenon DEF SleepPublish, States
  <2>2. pc' \in [Slots -> Locations] /\ wait_lock' \in CPUs \cup {0}
    BY <1>0, <1>27, Zenon DEF SleepPublish, Locations, Interruptible
  <2> QED
    BY <1>27, <2>1, <2>2, Zenon DEF SleepPublish, cpu
<1>28. ASSUME NEW c \in CPUs, NEW s \in Slots, NEW v \in KillPids, Kill(c, v, s) PROVE TypeOK'
  <2>1. killed' \in [Slots -> BOOLEAN]
    BY <1>0, <1>28, Zenon DEF Kill
  <2>2. state' \in [Slots -> States] /\ pc' \in [Slots -> Locations]
    BY <1>0, <1>28, Zenon DEF Kill, States, Locations, Interruptible
  <2>3. asked' \in SUBSET (0..MaxPid)
    BY <1>0, <1>28 DEF Kill
  <2> QED
    BY <1>28, <2>1, <2>2, <2>3, Zenon DEF Kill, locks, cpu
<1>29. ASSUME NEW c \in CPUs, ExitBegin(c) PROVE TypeOK'
  <2>1. pc' \in [Slots -> Locations]
    BY <1>0, <1>29, Zenon DEF ExitBegin, Locations, Interruptible
  <2> QED
    BY <1>29, <2>1, Zenon DEF ExitBegin, table, locks, cpu
<1> QED
  BY <1>1, <1>2, <1>3, <1>4, <1>5, <1>6, <1>7, <1>8, <1>9, <1>10, <1>11,
     <1>12, <1>13, <1>14, <1>15, <1>16, <1>17, <1>18, <1>19, <1>20, <1>21,
     <1>22, <1>23, <1>24, <1>25, <1>26, <1>27, <1>28, <1>29, ZenonT(30) DEF Next, Switch,
     Kernel

-------------------------------------------------------------------------------
(* Locks and stacks.                                                       *)

\* What a CPU that executes a kernel thread knows: nobody else runs on the
\* stack, and it has exactly the locks that go with the location.
LEMMA OnCpu ==
  ASSUME TypeOK, Stacks, NEW c \in CPUs, on[c] # NoProc
  PROVE  /\ on[c] \in Slots
         /\ cproc[c] = on[c]
         /\ \A d \in CPUs : cproc[d] = on[c] \/ on[d] = on[c] => d = c
         /\ pc[on[c]] \notin {"yield", "sleeping", "exit"} => state[on[c]] = "RUNNING"
         /\ pc[on[c]] \in HoldsW => wait_lock = c
         /\ pc[on[c]] \in HoldsP => plock[on[c]] = c
         /\ pc[on[c]] \notin HoldsP => plock[on[c]] = 0
<1> USE ConstantsAssumption DEF TypeOK, Stacks, NoProc
<1>1. on[c] \in Slots /\ cproc[c] = on[c] /\ on[c] # 0
  BY Zenon DEF CpuInv
<1>2. \A d \in CPUs : cproc[d] = on[c] \/ on[d] = on[c] => d = c
  BY <1>1 DEF CpuInv
<1>3. pc[on[c]] \notin HoldsP => plock[on[c]] = 0
  BY <1>1, <1>2 DEF LockInv
<1>4. pc[on[c]] \in HoldsW => wait_lock = c
  BY <1>1, <1>2, Zenon DEF LockInv
<1> QED BY <1>1, <1>2, <1>3, <1>4, Zenon DEF CpuInv, StateInv

\* A kernel thread that has no p->lock moves on: it may take or release
\* wait_lock, wake sleepers whose lock is free, and give its children away.
LEMMA Move ==
  ASSUME TypeOK, TypeOK', Stacks, NEW c \in CPUs, on[c] # NoProc, NEW l,
         l \notin HoldsP \cup {"none", "dead", "fork_parent", "fork_run"},
         pc[on[c]] \notin HoldsP \cup {"fork_parent", "fork_run"},
         pc' = [pc EXCEPT ![on[c]] = l],
         l \in HoldsW => wait_lock' = c /\ wait_lock \in {0, c},
         l \notin HoldsW => wait_lock' = IF pc[on[c]] \in HoldsW THEN 0 ELSE wait_lock,
         \A s \in Slots : \/ state'[s] = state[s]
                          \/ state[s] = "SLEEPING" /\ plock[s] = 0 /\ state'[s] = "RUNNABLE",
         \A s \in Slots : parent'[s] = parent[s] \/ parent[s] = on[c],
         UNCHANGED <<plock, on, cproc, pid, np, back>>
  PROVE  Stacks'
<1> DEFINE s == on[c]
<1> USE ConstantsAssumption DEF NoProc
<1>1. /\ s \in Slots /\ cproc[c] = s /\ s # 0
      /\ \A d \in CPUs : cproc[d] = s \/ on[d] = s => d = c
      /\ state[s] = "RUNNING"
      /\ plock[s] = 0
      /\ pc[s] \in HoldsW => wait_lock = c
  BY OnCpu, Zenon DEF HoldsP
<1>2. \A t \in Slots : t # s => pc'[t] = pc[t]
  BY <1>1 DEF TypeOK
<1>3. pc'[s] = l
  BY <1>1 DEF TypeOK
<1>4. CpuInv'
  BY <1>1, <1>2, <1>3 DEF TypeOK, Stacks, CpuInv, HoldsP
<1>5. LockInv'
  BY <1>1, <1>2, <1>3 DEF TypeOK, Stacks, CpuInv, LockInv, HoldsP, HoldsW
<1>6. StateInv'
  BY <1>1, <1>2, <1>3 DEF TypeOK, Stacks, CpuInv, StateInv, Located, HoldsP
<1>7. ForkInv'
  BY <1>1, <1>2, <1>3 DEF TypeOK, Stacks, StateInv, Located, ForkInv, Loc, HoldsP
<1> QED BY <1>4, <1>5, <1>6, <1>7, Zenon DEF Stacks

\* The steps of a thread that only move it along: traps, the entry and exit of
\* exit(), wait() and kill(), and the loops of reparent(), wakeup() and wait().
LEMMA MoverSteps ==
  ASSUME TypeOK, TypeOK', Stacks, NEW c \in CPUs,
         \/ Syscall(c) \/ SyscallReturn(c) \/ KilledTrap(c) \/ Fault(c)
         \/ ExitBegin(c) \/ WaitBegin(c) \/ ExitLock(c) \/ WaitLock(c)
         \/ WaitFails(c) \/ WaitSleep(c) \/ Reparent(c)
         \/ \E q \in Slots : \/ ForkFail(c, q) \/ WaitSkip(c, q) \/ Wakeup(c, q)
                             \/ \E v \in KillPids : Kill(c, v, q)
  PROVE  Stacks'
<1> DEFINE s == on[c]
<1>0. s # NoProc
  BY Zenon DEF Syscall, SyscallReturn, KilledTrap, Fault, ExitBegin, WaitBegin, ExitLock, WaitLock,
         WaitFails, WaitSleep, ForkFail, WaitSkip, Reparent, Wakeup, Kill
<1>1. s \in Slots /\ pc[s] \in Locations /\ (pc[s] \in HoldsW => wait_lock = c)
  BY <1>0, OnCpu, Zenon DEF TypeOK
<1>2. ASSUME NEW l, NEW m,
             pc[s] = m, pc' = [pc EXCEPT ![s] = l],
             l \in {"user", "syscall", "exit_lock", "wait_lock"} \cup (HoldsW \ {"sleep"}),
             m \in {"user", "syscall", "exit_lock", "wait_lock"} \cup (HoldsW \ {"sleep"}),
             l \in HoldsW => wait_lock' = c /\ wait_lock \in {0, c},
             l \notin HoldsW => wait_lock' = IF m \in HoldsW THEN 0 ELSE wait_lock,
             \A t \in Slots : \/ state'[t] = state[t]
                              \/ state[t] = "SLEEPING" /\ plock[t] = 0 /\ state'[t] = "RUNNABLE",
             \A t \in Slots : parent'[t] = parent[t] \/ parent[t] = s,
             UNCHANGED <<plock, on, cproc, pid, np, back>>
      PROVE  Stacks'
  <2>1. /\ l \notin HoldsP \cup {"none", "dead", "fork_parent", "fork_run"}
        /\ m \notin HoldsP \cup {"fork_parent", "fork_run"}
    BY <1>2, Zenon DEF HoldsP, HoldsW
  <2> QED BY <1>0, <1>2, <2>1, Move, Zenon
<1>3. CASE Syscall(c)
  BY <1>3, <1>2, Zenon DEF Syscall, Goto, HoldsW, table, locks, cpu
<1>4. CASE SyscallReturn(c)
  BY <1>4, <1>2, Zenon DEF SyscallReturn, Goto, HoldsW, table, locks, cpu
<1>5. CASE KilledTrap(c)
  BY <1>5, <1>2, Zenon DEF KilledTrap, Goto, HoldsW, table, locks, cpu
<1>6. CASE Fault(c)
  <2>1. pc' = [pc EXCEPT ![s] = "user"] /\ pc[s] = "user"
    BY <1>6, <1>1 DEF Fault, thread, TypeOK
  <2> QED BY <1>6, <1>2, <2>1, Zenon DEF Fault, HoldsW, locks, cpu, thread
<1>7. CASE ExitBegin(c)
  BY <1>7, <1>2, Zenon DEF ExitBegin, Goto, HoldsW, table, locks, cpu
<1>8. CASE WaitBegin(c)
  BY <1>8, <1>2, Zenon DEF WaitBegin, Goto, HoldsW, table, locks, cpu
<1>9. CASE ExitLock(c)
  BY <1>9, <1>2, Zenon DEF ExitLock, Goto, HoldsW, table, cpu
<1>10. CASE WaitLock(c)
  BY <1>10, <1>2, Zenon DEF WaitLock, Goto, HoldsW, table, cpu
<1>11. CASE WaitFails(c)
  BY <1>11, <1>2, Zenon DEF WaitFails, Goto, HoldsW, table, cpu
<1>12. CASE WaitSleep(c)
  BY <1>12, <1>1, <1>2, Zenon DEF WaitSleep, Goto, HoldsW, table, locks, cpu
<1>13. ASSUME NEW q \in Slots, ForkFail(c, q) PROVE Stacks'
  BY <1>13, <1>2, Zenon DEF ForkFail, Goto, HoldsW, locks, cpu
<1>14. ASSUME NEW q \in Slots, WaitSkip(c, q) PROVE Stacks'
  <2>1. pc' = [pc EXCEPT ![s] = "wait_scan"] /\ pc[s] = "wait_scan"
    <3>1. pc' = pc /\ pc[s] = "wait_scan"
      BY <1>14, Zenon DEF WaitSkip
    <3>2. pc \in [Slots -> Locations]
      BY Zenon DEF TypeOK
    <3> QED BY <3>1, <3>2, <1>1, Zenon
  <2> QED BY <1>14, <1>1, <1>2, <2>1, Zenon DEF WaitSkip, HoldsW, table, locks, cpu
<1>15. CASE Reparent(c)
  <2>1. \A t \in Slots : parent'[t] = parent[t] \/ parent[t] = s
    <3>1. \/ UNCHANGED parent
          \/ \E k \in Slots : parent[k] = s /\ parent' = [parent EXCEPT ![k] = initproc]
      BY <1>15, Zenon DEF Reparent, Kids
    <3> QED BY <3>1, Zenon DEF TypeOK
  <2>2. pc' = [pc EXCEPT ![s] = "wake_init"] \/ pc' = [pc EXCEPT ![s] = "wake_parent"]
    BY <1>15, Zenon DEF Reparent, Goto
  <2> QED BY <1>15, <1>1, <1>2, <2>1, <2>2, Zenon DEF Reparent, HoldsW, locks, cpu
<1>16. ASSUME NEW q \in Slots, Wakeup(c, q) PROVE Stacks'
  <2>1. \A t \in Slots : \/ state'[t] = state[t]
                         \/ state[t] = "SLEEPING" /\ plock[t] = 0 /\ state'[t] = "RUNNABLE"
    BY <1>16, ZenonT(30) DEF Wakeup, WakeSlot, TypeOK
  <2>2. \E l \in {"wake_init", "wake_parent", "reparent", "exit_zombie"} :
          pc' = [pc EXCEPT ![s] = l]
    BY <1>16, Zenon DEF Wakeup, Goto
  <2> QED BY <1>16, <1>1, <1>2, <2>1, <2>2, ZenonT(30) DEF Wakeup, HoldsW, locks, cpu
<1>17. ASSUME NEW q \in Slots, NEW v \in KillPids, Kill(c, v, q) PROVE Stacks'
  <2>1. \A t \in Slots : \/ state'[t] = state[t]
                         \/ state[t] = "SLEEPING" /\ plock[t] = 0 /\ state'[t] = "RUNNABLE"
    <3>1. state \in [Slots -> States]
      BY Zenon DEF TypeOK
    <3> QED BY <1>17, <3>1, Zenon DEF Kill
  <2> QED BY <1>17, <1>2, <2>1, Zenon DEF Kill, Goto, HoldsW, locks, cpu
<1> QED
  BY <1>3, <1>4, <1>5, <1>6, <1>7, <1>8, <1>9, <1>10, <1>11, <1>12, <1>13, <1>14, <1>15,
     <1>16, <1>17, ZenonT(30)

\* scheduler() takes a process that no CPU is still leaving.
LEMMA SchedPickStacks ==
  ASSUME TypeOK, Stacks, NEW c \in CPUs, NEW n \in Slots, SchedPick(c, n)
  PROVE  Stacks'
<1> DEFINE s == n
<1> USE ConstantsAssumption DEF NoProc
<1>1. /\ n # 0
      /\ pc[n] \in {"forkret", "yielded", "woken"}
      /\ \A d \in CPUs : cproc[d] # n /\ on[d] # n
  BY SMTT(30) DEF SchedPick, TypeOK, Stacks, CpuInv, LockInv, StateInv, Located, HoldsP, Slots
<1>2. /\ on[c] = 0 /\ cproc[c] = 0 /\ plock[n] = 0 /\ state[n] = "RUNNABLE"
      /\ plock' = [plock EXCEPT ![n] = c]
      /\ state' = [state EXCEPT ![n] = "RUNNING"]
      /\ cproc' = [cproc EXCEPT ![c] = n]
      /\ on' = [on EXCEPT ![c] = n]
      /\ UNCHANGED <<wait_lock, pid, parent, pc, back, np>>
  BY Zenon DEF SchedPick, thread
<1>3. CpuInv'
  BY <1>1, <1>2 DEF TypeOK, Stacks, CpuInv, HoldsP
<1>4. LockInv'
  <2>1. wait_lock # c /\ pc[n] \in HoldsP /\ pc[n] \notin HoldsW
    BY <1>1, <1>2 DEF Stacks, LockInv, HoldsP, HoldsW
  <2>2. \A t \in Slots : plock'[t] # 0 =>
          cproc'[plock'[t]] = t /\ (on'[plock'[t]] = 0 \/ pc'[t] \in HoldsP)
    <3>1. 0 \notin Slots
      BY DEF Slots
    <3>2. \A t \in Slots : plock[t] # 0 => plock[t] \in CPUs /\ plock[t] # c
      BY <1>1, <1>2, <3>1 DEF TypeOK, Stacks, LockInv
    <3> QED BY <1>1, <1>2, <2>1, <3>2 DEF TypeOK, Stacks, LockInv
  <2>3. \A t \in Slots : pc'[t] \in HoldsW => wait_lock' # 0 /\ on'[wait_lock'] = t
    BY <1>1, <1>2, <2>1 DEF TypeOK, Stacks, LockInv
  <2>4. wait_lock' # 0 => on'[wait_lock'] # 0 /\ pc'[on'[wait_lock']] \in HoldsW
    BY <1>1, <1>2, <2>1 DEF TypeOK, Stacks, LockInv
  <2> QED BY <2>2, <2>3, <2>4, Zenon DEF LockInv
<1>5. StateInv'
  BY SMTT(30), <1>1, <1>2 DEF TypeOK, Stacks, CpuInv, LockInv, StateInv, Located, HoldsP
<1>6. ForkInv'
  BY SMTT(30), <1>1, <1>2 DEF TypeOK, Stacks, StateInv, Located, ForkInv, Loc
<1> QED BY <1>3, <1>4, <1>5, <1>6 DEF Stacks

\* The scheduler's release of p->lock ends the switch.
LEMMA SchedBackStacks ==
  ASSUME TypeOK, Stacks, NEW c \in CPUs, SchedBack(c)
  PROVE  Stacks'
<1> DEFINE s == cproc[c]
<1> USE ConstantsAssumption DEF NoProc
<1>1. s \in Slots /\ s # 0 /\ plock[s] = c /\ pc[s] \in {"yielded", "woken", "dead"}
  BY DEF SchedBack, TypeOK, Stacks, CpuInv, StateInv
<1>2. /\ on[c] = 0
      /\ cproc' = [cproc EXCEPT ![c] = 0]
      /\ plock' = [plock EXCEPT ![s] = 0]
      /\ UNCHANGED <<on, wait_lock, state, pid, parent, pc, back, np>>
  BY Zenon DEF SchedBack, table, thread
<1>3. CpuInv'
  BY <1>1, <1>2 DEF TypeOK, Stacks, CpuInv, HoldsP
<1>4. LockInv'
  BY <1>1, <1>2 DEF TypeOK, Stacks, CpuInv, LockInv, HoldsP, HoldsW
<1>5. StateInv'
  BY <1>1, <1>2 DEF TypeOK, Stacks, CpuInv, LockInv, StateInv, Located, HoldsP
<1>6. ForkInv'
  BY <1>1, <1>2 DEF TypeOK, Stacks, StateInv, Located, ForkInv, Loc
<1> QED BY <1>3, <1>4, <1>5, <1>6, Zenon DEF Stacks

\* sched() leaves the stack with p->lock held, for the scheduler to release.
LEMMA SchedStacks ==
  ASSUME TypeOK, Stacks, NEW c \in CPUs, Sched(c)
  PROVE  Stacks'
<1> DEFINE s == on[c]
<1> USE ConstantsAssumption DEF NoProc
<1>1. s \in Slots /\ s # 0 /\ cproc[c] = s /\ plock[s] = c
      /\ \A d \in CPUs : cproc[d] = s \/ on[d] = s => d = c
  BY OnCpu, Zenon DEF Sched, HoldsP
<1>2. /\ pc[s] \in {"yield", "sleeping", "exit"}
      /\ on' = [on EXCEPT ![c] = 0]
      /\ pc[s] = "yield" => pc' = [pc EXCEPT ![s] = "yielded"]
      /\ pc[s] = "sleeping" => pc' = [pc EXCEPT ![s] = "woken"]
      /\ pc[s] = "exit" => pc' = [pc EXCEPT ![s] = "dead"]
      /\ UNCHANGED <<cproc, plock, wait_lock, state, pid, parent, back, np>>
  BY Zenon DEF Sched, Goto, table, locks
<1>3. CpuInv'
  BY <1>1, <1>2 DEF TypeOK, Stacks, CpuInv, HoldsP
<1>4. LockInv'
  BY <1>1, <1>2 DEF TypeOK, Stacks, CpuInv, LockInv, HoldsP, HoldsW
<1>5. StateInv'
  BY SMTT(30), <1>1, <1>2 DEF TypeOK, Stacks, CpuInv, LockInv, StateInv, Located, HoldsP
<1>6. ForkInv'
  BY SMTT(30), <1>1, <1>2 DEF TypeOK, Stacks, StateInv, Located, ForkInv, Loc
<1> QED BY <1>3, <1>4, <1>5, <1>6, Zenon DEF Stacks

\* yield() takes p->lock, so nobody can run the process before sched() is left.
LEMMA YieldStacks ==
  ASSUME TypeOK, Stacks, NEW c \in CPUs, Yield(c)
  PROVE  Stacks'
<1> DEFINE s == on[c]
<1> USE ConstantsAssumption DEF NoProc
<1>1. s \in Slots /\ s # 0 /\ cproc[c] = s /\ state[s] = "RUNNING" /\ pc[s] \notin HoldsP \cup HoldsW
      /\ \A d \in CPUs : cproc[d] = s \/ on[d] = s => d = c
  BY OnCpu DEF Yield, HoldsP, HoldsW, Interruptible
<1>2. /\ plock[s] = 0
      /\ plock' = [plock EXCEPT ![s] = c]
      /\ state' = [state EXCEPT ![s] = "RUNNABLE"]
      /\ back' = [back EXCEPT ![s] = pc[s]]
      /\ pc' = [pc EXCEPT ![s] = "yield"]
      /\ UNCHANGED <<on, cproc, wait_lock, pid, parent, np>>
  BY Zenon DEF Yield, Goto, cpu
<1>3. CpuInv'
  BY <1>1, <1>2 DEF TypeOK, Stacks, CpuInv, HoldsP
<1>4. LockInv'
  BY SMTT(30), <1>1, <1>2 DEF TypeOK, Stacks, CpuInv, LockInv, HoldsP, HoldsW
<1>5. StateInv'
  BY SMTT(30), <1>1, <1>2 DEF TypeOK, Stacks, CpuInv, LockInv, StateInv, Located, HoldsP
<1>6. ForkInv'
  BY SMTT(30), <1>1, <1>2 DEF TypeOK, Stacks, StateInv, Located, ForkInv, Loc
<1> QED BY <1>3, <1>4, <1>5, <1>6 DEF Stacks

-------------------------------------------------------------------------------
(* A thread that runs again, and the three critical sections of fork().    *)

\* A process that runs again releases the lock its scheduler took.
LEMMA ResumeStacks ==
  ASSUME TypeOK, Stacks, NEW c \in CPUs, Resume(c)
  PROVE  Stacks'
<1> DEFINE s == on[c]
<1> USE ConstantsAssumption DEF NoProc
<1>1. s \in Slots /\ s # 0 /\ cproc[c] = s /\ plock[s] = c /\ state[s] = "RUNNING"
      /\ \A d \in CPUs : cproc[d] = s \/ on[d] = s => d = c
  BY OnCpu, Zenon DEF Resume, HoldsP
<1>2. back[s] \in Interruptible
  BY <1>1, Zenon DEF TypeOK
<1>3. /\ plock' = [plock EXCEPT ![s] = 0]
      /\ back' = [back EXCEPT ![s] = "user"]
      /\ pc[s] \in {"forkret", "yielded", "woken"}
      /\ pc[s] = "forkret" => pc' = [pc EXCEPT ![s] = "user"]
      /\ pc[s] = "yielded" => pc' = [pc EXCEPT ![s] = back[s]]
      /\ pc[s] = "woken" => pc' = [pc EXCEPT ![s] = "wait_lock"]
      /\ UNCHANGED <<on, cproc, state, wait_lock, pid, parent, np>>
  BY Zenon DEF Resume, Goto, cpu
<1>4. CpuInv'
  BY SMTT(30), <1>1, <1>2, <1>3 DEF TypeOK, Stacks, CpuInv, HoldsP, Interruptible
<1>5. LockInv'
  BY SMTT(30), <1>1, <1>2, <1>3 DEF TypeOK, Stacks, CpuInv, LockInv, HoldsP, HoldsW, Interruptible
<1>6. StateInv'
  BY SMTT(30), <1>1, <1>2, <1>3 DEF TypeOK, Stacks, CpuInv, LockInv, StateInv, Located, HoldsP, Interruptible
<1>7. ForkInv'
  BY SMTT(30), <1>1, <1>2, <1>3 DEF TypeOK, Stacks, StateInv, Located, ForkInv, Loc, Interruptible
<1> QED BY <1>4, <1>5, <1>6, <1>7, Zenon DEF Stacks

\* allocproc() claims a slot that no CPU runs on and no other fork() owns.
LEMMA ForkAllocStacks ==
  ASSUME TypeOK, Stacks, NEW c \in CPUs, NEW n \in Slots, ForkAlloc(c, n)
  PROVE  Stacks'
<1> DEFINE s == on[c]
<1> USE ConstantsAssumption DEF NoProc
<1>0. /\ state \in [Slots -> States] /\ pc \in [Slots -> Locations]
      /\ np \in [Slots -> Slots \cup {NoProc}] /\ parent \in [Slots -> Slots \cup {NoProc}]
  BY Zenon DEF TypeOK
<1>1. s \in Slots /\ s # 0 /\ cproc[c] = s /\ plock[s] = 0 /\ state[s] = "RUNNING"
      /\ \A d \in CPUs : cproc[d] = s \/ on[d] = s => d = c
  BY OnCpu, Zenon DEF ForkAlloc, HoldsP
<1>2. /\ n # s /\ n # 0 /\ pc[n] = "none"
      /\ \A d \in CPUs : cproc[d] # n /\ on[d] # n
      /\ \A t \in Slots : np[t] # n
  <2>1. n # s /\ n # 0 /\ state[n] = "UNUSED"
    BY <1>1 DEF ForkAlloc, Slots
  <2>2. pc[n] = "none"
    BY <2>1, Zenon DEF Stacks, StateInv, Located
  <2>3. \A d \in CPUs : cproc[d] # n /\ on[d] # n
    BY <2>1, <2>2 DEF TypeOK, Stacks, CpuInv, StateInv
  <2> QED BY <2>1, <2>2, <2>3, Zenon DEF Stacks, ForkInv
<1>3. /\ pc[s] = "syscall" /\ state[n] = "UNUSED" /\ plock[n] = 0
      /\ state' = [state EXCEPT ![n] = "USED"]
      /\ pc' = [pc EXCEPT ![s] = "fork_parent", ![n] = "forkret"]
      /\ np' = [np EXCEPT ![s] = n]
      /\ pid' = [pid EXCEPT ![n] = nextpid]
      /\ UNCHANGED <<on, cproc, plock, wait_lock, parent, back>>
  BY Zenon DEF ForkAlloc, locks, cpu
<1>4. CpuInv'
  BY SMTT(30), <1>1, <1>2, <1>3 DEF TypeOK, Stacks, CpuInv, HoldsP
<1>5. LockInv'
  BY SMTT(30), <1>1, <1>2, <1>3 DEF TypeOK, Stacks, CpuInv, LockInv, HoldsP, HoldsW
<1>6. StateInv'
  BY SMTT(30), <1>1, <1>2, <1>3 DEF TypeOK, Stacks, StateInv, Located
<1>7. ForkInv'
  BY SMTT(30), <1>0, <1>1, <1>2, <1>3 DEF Stacks, StateInv, Located, ForkInv, Loc
<1> QED BY <1>4, <1>5, <1>6, <1>7, Zenon DEF Stacks

\* The parent pointer of a claimed slot is set.
LEMMA ForkParentStacks ==
  ASSUME TypeOK, Stacks, NEW c \in CPUs, ForkParent(c)
  PROVE  Stacks'
<1> DEFINE s == on[c]
<1> USE ConstantsAssumption DEF NoProc
<1>0. /\ state \in [Slots -> States] /\ pc \in [Slots -> Locations]
      /\ np \in [Slots -> Slots \cup {NoProc}] /\ parent \in [Slots -> Slots \cup {NoProc}]
  BY Zenon DEF TypeOK
<1>1. s \in Slots /\ s # 0 /\ cproc[c] = s /\ plock[s] = 0 /\ state[s] = "RUNNING"
      /\ \A d \in CPUs : cproc[d] = s \/ on[d] = s => d = c
  BY OnCpu, Zenon DEF ForkParent, HoldsP
<1>2. np[s] \in Slots /\ np[s] # 0 /\ state[np[s]] = "USED" /\ np[s] # s /\ pc[np[s]] = "forkret"
      /\ \A t \in Slots : np[t] = np[s] => t = s
      /\ \A d \in CPUs : cproc[d] # np[s] /\ on[d] # np[s]
  BY SMTT(30), <1>1 DEF ForkParent, TypeOK, Stacks, CpuInv, StateInv, Located, ForkInv, Loc
<1>3. /\ pc[s] = "fork_parent"
      /\ parent' = [parent EXCEPT ![np[s]] = s]
      /\ pc' = [pc EXCEPT ![s] = "fork_run"]
      /\ UNCHANGED <<on, cproc, plock, wait_lock, state, pid, np, back>>
  BY Zenon DEF ForkParent, Goto, locks, cpu
<1>4. CpuInv'
  BY <1>1, <1>2, <1>3 DEF TypeOK, Stacks, CpuInv, HoldsP
<1>5. LockInv'
  BY SMTT(30), <1>1, <1>2, <1>3 DEF TypeOK, Stacks, CpuInv, LockInv, HoldsP, HoldsW
<1>6. StateInv'
  BY SMTT(30), <1>0, <1>1, <1>2, <1>3 DEF Stacks, CpuInv, LockInv, StateInv, Located, HoldsP
<1>7. ForkInv'
  BY SMTT(30), <1>0, <1>1, <1>2, <1>3 DEF Stacks, StateInv, Located, ForkInv, Loc
<1> QED BY <1>4, <1>5, <1>6, <1>7, Zenon DEF Stacks

\* The child becomes RUNNABLE: it is the one this fork() claimed, and is new.
LEMMA ForkRunStacks ==
  ASSUME TypeOK, Stacks, NEW c \in CPUs, ForkRun(c)
  PROVE  Stacks'
<1> DEFINE s == on[c]
<1> USE ConstantsAssumption DEF NoProc
<1>0. /\ state \in [Slots -> States] /\ pc \in [Slots -> Locations]
      /\ np \in [Slots -> Slots \cup {NoProc}] /\ parent \in [Slots -> Slots \cup {NoProc}]
  BY Zenon DEF TypeOK
<1>1. s \in Slots /\ s # 0 /\ cproc[c] = s /\ plock[s] = 0 /\ state[s] = "RUNNING"
      /\ \A d \in CPUs : cproc[d] = s \/ on[d] = s => d = c
  BY OnCpu, Zenon DEF ForkRun, HoldsP
<1>2. np[s] \in Slots /\ np[s] # 0 /\ state[np[s]] = "USED" /\ np[s] # s /\ pc[np[s]] = "forkret"
      /\ \A t \in Slots : np[t] = np[s] => t = s
      /\ \A d \in CPUs : cproc[d] # np[s] /\ on[d] # np[s]
  BY SMTT(30), <1>1 DEF ForkRun, TypeOK, Stacks, CpuInv, StateInv, Located, ForkInv, Loc
<1>3. /\ pc[s] = "fork_run" /\ plock[np[s]] = 0
      /\ state' = [state EXCEPT ![np[s]] = "RUNNABLE"]
      /\ pc' = [pc EXCEPT ![s] = "user"]
      /\ np' = [np EXCEPT ![s] = 0]
      /\ UNCHANGED <<on, cproc, plock, wait_lock, parent, pid, back>>
  BY Zenon DEF ForkRun, Goto, locks, cpu
<1>4. CpuInv'
  BY SMTT(30), <1>1, <1>2, <1>3 DEF TypeOK, Stacks, CpuInv, HoldsP
<1>5. LockInv'
  BY SMTT(30), <1>1, <1>2, <1>3 DEF TypeOK, Stacks, CpuInv, LockInv, HoldsP, HoldsW
<1>6. StateInv'
  <2>1. \A t \in Slots : Located(t)'
    BY <1>0, <1>1, <1>2, <1>3 DEF Stacks, StateInv, Located
  <2>2. \A t \in Slots : t # np[s] => state'[t] = state[t]
    BY <1>0, <1>3
  <2> QED BY <1>0, <1>1, <1>2, <1>3, <2>1, <2>2 DEF Stacks, StateInv, HoldsP
<1>7. ForkInv'
  BY SMTT(30), <1>0, <1>1, <1>2, <1>3 DEF Stacks, StateInv, Located, ForkInv, Loc
<1> QED BY <1>4, <1>5, <1>6, <1>7, Zenon DEF Stacks

\* Nobody exits with children, and nobody's parent has exited.
FamilyInv ==
  /\ state[initproc] \notin {"UNUSED", "USED", "ZOMBIE"}
  /\ parent[initproc] = NoProc
  /\ Loc(initproc) \notin {"exit_lock", "reparent", "wake_init", "wake_parent", "exit_zombie"}
  /\ \A s \in Slots : parent[s] # NoProc =>
       parent[s] # s /\ state[parent[s]] \notin {"UNUSED", "USED", "ZOMBIE"}
  /\ \A s \in Slots \ {initproc} : state[s] \notin {"UNUSED", "USED"} => parent[s] # NoProc
  /\ \A s, k \in Slots : pc[s] \in {"wake_parent", "exit_zombie"} => parent[k] # s

\* What the scans of wait() and wakeup() have established so far.
WakeInv ==
  /\ \A s \in Slots : state[s] = "SLEEPING" => chan[s] = s
  /\ \A s, k \in Slots : state[k] = "ZOMBIE" /\ parent[k] = s =>
       /\ pc[s] = "wait_scan" => k \in todo[s]
       /\ pc[s] \notin {"wait_sleep", "sleep"}
       /\ state[s] = "SLEEPING" =>
            /\ s = initproc
            /\ wait_lock # 0
            /\ pc[on[wait_lock]] = "wake_init"
            /\ s \in todo[on[wait_lock]]
  /\ \A k \in Slots : parent[k] # NoProc /\ state[parent[k]] = "SLEEPING" =>
       /\ pc[k] = "wake_parent" => parent[k] \in todo[k]
       /\ pc[k] # "exit_zombie"

-------------------------------------------------------------------------------
(* Stacks and locks: the remaining steps, Init and Next.                   *)

\* An exiting process is a zombie with its lock held until it is off its stack.
LEMMA ExitZombieStacks ==
  ASSUME TypeOK, TypeOK', Stacks, NEW c \in CPUs, ExitZombie(c)
  PROVE  Stacks'
<1> DEFINE s == on[c]
<1> USE ConstantsAssumption DEF NoProc
<1>1. s \in Slots /\ s # 0 /\ cproc[c] = s /\ plock[s] = 0 /\ state[s] = "RUNNING"
      /\ \A d \in CPUs : cproc[d] = s \/ on[d] = s => d = c
  BY OnCpu, Zenon DEF ExitZombie, HoldsP
<1>2. wait_lock = c
  BY OnCpu, Zenon DEF ExitZombie, HoldsW
<1>3. /\ pc[s] = "exit_zombie"
      /\ plock' = [plock EXCEPT ![s] = c]
      /\ state' = [state EXCEPT ![s] = "ZOMBIE"]
      /\ wait_lock' = 0
      /\ pc' = [pc EXCEPT ![s] = "exit"]
      /\ UNCHANGED <<on, cproc, parent, pid, np, back>>
  BY Zenon DEF ExitZombie, Goto, cpu
<1>4. CpuInv'
  BY <1>1, <1>2, <1>3 DEF TypeOK, Stacks, CpuInv, HoldsP
<1>5. LockInv'
  BY <1>1, <1>2, <1>3 DEF TypeOK, Stacks, CpuInv, LockInv, HoldsP, HoldsW
<1>6. StateInv'
  BY <1>1, <1>2, <1>3 DEF TypeOK, Stacks, CpuInv, LockInv, StateInv, Located, HoldsP
<1>7. ForkInv'
  BY <1>1, <1>2, <1>3 DEF TypeOK, Stacks, StateInv, Located, ForkInv, Loc
<1> QED BY <1>4, <1>5, <1>6, <1>7, Zenon DEF Stacks

\* wait() frees a zombie whose lock is free: its CPU has left the stack.
LEMMA WaitReapStacks ==
  ASSUME TypeOK, TypeOK', Stacks, NEW c \in CPUs, NEW n \in Slots, WaitReap(c, n)
  PROVE  Stacks'
<1> DEFINE s == on[c]
<1> USE ConstantsAssumption DEF NoProc
<1>1. s \in Slots /\ s # 0 /\ cproc[c] = s /\ plock[s] = 0 /\ state[s] = "RUNNING"
      /\ \A d \in CPUs : cproc[d] = s \/ on[d] = s => d = c
  BY OnCpu, Zenon DEF WaitReap, HoldsP
<1>2. wait_lock = c
  BY OnCpu DEF WaitReap, HoldsW
<1>3. n # s /\ n # 0 /\ pc[n] = "dead"
      /\ \A d \in CPUs : cproc[d] # n /\ on[d] # n
  BY SMTT(30), <1>1 DEF WaitReap, TypeOK, Stacks, CpuInv, LockInv, StateInv, Located, HoldsP, Slots
<1>4. /\ pc[s] = "wait_scan" /\ state[n] = "ZOMBIE" /\ plock[n] = 0
      /\ state' = [state EXCEPT ![n] = "UNUSED"]
      /\ pc' = [pc EXCEPT ![s] = "user", ![n] = "none"]
      /\ parent' = [parent EXCEPT ![n] = 0]
      /\ pid' = [pid EXCEPT ![n] = 0]
      /\ wait_lock' = 0
      /\ UNCHANGED <<on, cproc, plock, np, back>>
  BY Zenon DEF WaitReap, Freeproc, cpu
<1>5. CpuInv'
  BY <1>1, <1>2, <1>3, <1>4 DEF TypeOK, Stacks, CpuInv, HoldsP
<1>6. LockInv'
  <2>1. \A t \in Slots : plock[t] # 0 => t # s /\ t # n
    BY <1>1, <1>4, Zenon
  <2>2. \A t \in Slots : t # s => pc'[t] \notin HoldsW
    BY <1>1, <1>2, <1>3, <1>4 DEF TypeOK, Stacks, LockInv, HoldsW
  <2>3. pc'[s] = "user" /\ "user" \notin HoldsW
    BY <1>1, <1>3, <1>4, Zenon DEF TypeOK, HoldsW
  <2> QED BY <1>4, <2>1, <2>2, <2>3 DEF TypeOK, Stacks, LockInv
<1>7. StateInv'
  <2>1. \A t \in Slots : Located(t)'
    BY <1>1, <1>3, <1>4 DEF TypeOK, Stacks, StateInv, Located
  <2>2. \A t \in Slots : pc'[t] \in {"yield", "sleeping", "exit"} => plock'[t] # 0
    BY <1>1, <1>3, <1>4 DEF TypeOK, Stacks, StateInv
  <2>3. \A d \in CPUs : on'[d] # NoProc =>
          state'[on'[d]] = "RUNNING" \/ pc'[on'[d]] \in {"yield", "sleeping", "exit"}
    BY <1>1, <1>3, <1>4 DEF TypeOK, Stacks, StateInv
  <2>4. \A d \in CPUs : on'[d] = NoProc /\ cproc'[d] # NoProc =>
          pc'[cproc'[d]] \in {"yielded", "woken", "dead"} /\ state'[cproc'[d]] # "RUNNING"
    BY <1>1, <1>3, <1>4, SMTT(30) DEF TypeOK, Stacks, StateInv
  <2>5. \A t \in Slots : state'[t] = "UNUSED" => pid'[t] = 0 /\ parent'[t] = NoProc
    BY <1>1, <1>3, <1>4 DEF TypeOK, Stacks, StateInv
  <2> QED BY <2>1, <2>2, <2>3, <2>4, <2>5, Zenon DEF StateInv
<1>8. ForkInv'
  BY <1>1, <1>2, <1>3, <1>4 DEF TypeOK, Stacks, StateInv, Located, ForkInv, Loc
<1> QED BY <1>5, <1>6, <1>7, <1>8, Zenon DEF Stacks

\* sleep() takes p->lock while the caller still has wait_lock.
LEMMA SleepLockStacks ==
  ASSUME TypeOK, TypeOK', Stacks, NEW c \in CPUs, SleepLock(c)
  PROVE  Stacks'
<1> DEFINE s == on[c]
<1> USE ConstantsAssumption DEF NoProc
<1>1. s \in Slots /\ s # 0 /\ cproc[c] = s /\ plock[s] = 0 /\ state[s] = "RUNNING"
      /\ \A d \in CPUs : cproc[d] = s \/ on[d] = s => d = c
  BY OnCpu, Zenon DEF SleepLock, HoldsP
<1>2. wait_lock = c
  BY OnCpu, Zenon DEF SleepLock, HoldsW
<1>3. /\ pc[s] = "wait_sleep"
      /\ plock' = [plock EXCEPT ![s] = c]
      /\ pc' = [pc EXCEPT ![s] = "sleep"]
      /\ UNCHANGED <<on, cproc, wait_lock, state, parent, pid, np, back>>
  BY Zenon DEF SleepLock, Goto, table, cpu
<1>4. CpuInv'
  BY <1>1, <1>2, <1>3 DEF TypeOK, Stacks, CpuInv, HoldsP
<1>5. LockInv'
  BY <1>1, <1>2, <1>3 DEF TypeOK, Stacks, CpuInv, LockInv, HoldsP, HoldsW
<1>6. StateInv'
  BY <1>1, <1>2, <1>3 DEF TypeOK, Stacks, CpuInv, LockInv, StateInv, Located, HoldsP
<1>7. ForkInv'
  BY <1>1, <1>2, <1>3 DEF TypeOK, Stacks, StateInv, Located, ForkInv, Loc
<1> QED BY <1>4, <1>5, <1>6, <1>7, Zenon DEF Stacks

\* The process sleeps, with p->lock held until it is off its stack.
LEMMA SleepPublishStacks ==
  ASSUME TypeOK, TypeOK', Stacks, NEW c \in CPUs, SleepPublish(c)
  PROVE  Stacks'
<1> DEFINE s == on[c]
<1> USE ConstantsAssumption DEF NoProc
<1>1. s \in Slots /\ s # 0 /\ cproc[c] = s /\ plock[s] = c /\ state[s] = "RUNNING"
      /\ \A d \in CPUs : cproc[d] = s \/ on[d] = s => d = c
  BY OnCpu, Zenon DEF SleepPublish, HoldsP
<1>2. wait_lock = c
  BY OnCpu, Zenon DEF SleepPublish, HoldsW
<1>3. /\ pc[s] = "sleep"
      /\ state' = [state EXCEPT ![s] = "SLEEPING"]
      /\ wait_lock' = 0
      /\ pc' = [pc EXCEPT ![s] = "sleeping"]
      /\ UNCHANGED <<on, cproc, plock, parent, pid, np, back>>
  BY Zenon DEF SleepPublish, Goto, cpu
<1>4. CpuInv'
  BY <1>1, <1>2, <1>3 DEF TypeOK, Stacks, CpuInv, HoldsP
<1>5. LockInv'
  BY <1>1, <1>2, <1>3 DEF TypeOK, Stacks, CpuInv, LockInv, HoldsP, HoldsW
<1>6. StateInv'
  BY <1>1, <1>2, <1>3 DEF TypeOK, Stacks, CpuInv, LockInv, StateInv, Located, HoldsP
<1>7. ForkInv'
  BY <1>1, <1>2, <1>3 DEF TypeOK, Stacks, StateInv, Located, ForkInv, Loc
<1> QED BY <1>4, <1>5, <1>6, <1>7, Zenon DEF Stacks

\* The table that userinit() leaves is in order.
LEMMA InitStacks == Init => TypeOK /\ Stacks
<1> USE ConstantsAssumption DEF Init, NoProc
<1> SUFFICES ASSUME Init PROVE TypeOK /\ Stacks
  OBVIOUS
<1>0. initproc \in Slots /\ 0 \notin Slots
  BY DEF initproc, Slots
<1>1. TypeOK
  <2>1. killed \in [Slots -> BOOLEAN]
    BY Zenon
  <2>2. pid \in [Slots -> 0..MaxPid] /\ nextpid \in 1..(MaxPid + 1)
    OBVIOUS
  <2> QED BY <2>1, <2>2, <1>0, Zenon DEF TypeOK, States, Locations, Interruptible
<1>2. CpuInv /\ LockInv
  BY <1>0, Zenon DEF CpuInv, LockInv, HoldsW
<1>3. StateInv /\ ForkInv
  BY <1>0, Zenon DEF StateInv, Located, ForkInv, Loc
<1> QED BY <1>1, <1>2, <1>3, Zenon DEF Stacks

\* Every step of every CPU keeps them in order.
LEMMA StacksStep ==
  ASSUME TypeOK, Stacks, [Next]_vars
  PROVE  TypeOK' /\ Stacks'
<1>1. TypeOK'
  BY TypeStep, SMTT(30)
<1>2. CASE UNCHANGED vars
  BY SMTT(30), <1>1, <1>2 DEF vars, table, locks, cpu, thread, Stacks, CpuInv, LockInv, StateInv, Located,
     ForkInv, Loc
<1>3. ASSUME NEW c \in CPUs,
             \/ SchedIdle(c) \/ Switch(c) \/ Kernel(c) \/ Yield(c) \/ Syscall(c) \/ Fault(c)
             \/ \E s \in Slots : SchedPick(c, s)
      PROVE  Stacks'
  <2>1. CASE SchedIdle(c)
    BY <2>1, <1>2, Zenon DEF SchedIdle
  <2>2. CASE Switch(c)
    BY <2>2, <1>1, SchedBackStacks, SchedStacks, ResumeStacks, Zenon DEF Switch
  <2>3. CASE Kernel(c)
    BY <2>3, <1>1, MoverSteps, ForkAllocStacks, ForkParentStacks, ForkRunStacks, ExitZombieStacks,
       WaitReapStacks, SleepLockStacks, SleepPublishStacks DEF Kernel
  <2> QED BY <1>1, <1>3, <2>1, <2>2, <2>3, YieldStacks, SchedPickStacks, MoverSteps
<1> QED BY <1>1, <1>2, <1>3, Zenon DEF Next

-------------------------------------------------------------------------------
(* Families.                                                               *)

\* Slot 1 is a slot, and the null pointer is none.
LEMMA InitSlot == initproc \in Slots /\ 0 \notin Slots
BY ConstantsAssumption DEF initproc, Slots

Alive == {"RUNNABLE", "RUNNING", "SLEEPING"}

ExitLocs == {"exit_lock", "reparent", "wake_init", "wake_parent", "exit_zombie"}

Scanning == {"wait_scan", "wake_parent", "exit_zombie"}

\* A step in which nobody appears, falls asleep, exits or is adopted, and every
\* scan of wait() and wakeup() stays where it is.
Calm ==
  /\ UNCHANGED parent
  /\ \A t \in Slots : \/ state'[t] = state[t]
                      \/ state[t] \in Alive /\ state'[t] \in {"RUNNABLE", "RUNNING"}
  /\ \A t \in Slots : state'[t] = "SLEEPING" => chan'[t] = chan[t]
  /\ \A t \in Slots :
       \/ pc'[t] = pc[t] /\ back'[t] = back[t] /\ todo'[t] = todo[t]
       \/ /\ pc[t] # "wake_init"
          /\ pc'[t] \notin Scanning \cup {"wait_sleep"}
          /\ pc'[t] = "sleep" => pc[t] = "wait_sleep"
          /\ Loc(t)' \in ExitLocs => Loc(t) \in ExitLocs \/ t # initproc
  /\ wait_lock # 0 /\ pc[on[wait_lock]] = "wake_init" =>
       wait_lock' = wait_lock /\ on'[wait_lock] = on[wait_lock]

\* The steps that are calm.
Quiet(c) ==
  \/ Syscall(c) \/ SyscallReturn(c) \/ KilledTrap(c) \/ Fault(c) \/ ExitBegin(c)
  \/ ExitLock(c) \/ WaitBegin(c) \/ WaitFails(c) \/ SleepLock(c)
  \/ SchedBack(c) \/ Sched(c) \/ Yield(c) \/ Resume(c)
  \/ \E q \in Slots : \/ SchedPick(c, q) \/ ForkFail(c, q)
                      \/ \E v \in KillPids : Kill(c, v, q)

\* Switching, trapping and marking somebody as killed are calm: they touch no
\* family and no scan.
LEMMA QuietIsCalm ==
  ASSUME TypeOK, Stacks, NEW c \in CPUs, Quiet(c)
  PROVE  Calm
<1> DEFINE s == on[c]
<1> USE DEF Goto
<1>1. wait_lock # 0 => on[wait_lock] \in Slots /\ wait_lock \in CPUs
  BY DEF TypeOK, Stacks, LockInv, NoProc
<1>2. ASSUME NEW l \in Locations, s \in Slots, pc' = [pc EXCEPT ![s] = l],
             pc[s] # "wake_init", l \notin Scanning \cup {"wait_sleep"},
             l = "sleep" => pc[s] = "wait_sleep",
             l \in ExitLocs => s # initproc \/ pc[s] \in ExitLocs,
             l \notin {"yield", "yielded"} /\ back' = back,
             UNCHANGED <<parent, chan, on>>,
             wait_lock # 0 /\ wait_lock # c => wait_lock' = wait_lock,
             \A t \in Slots : t # s => todo'[t] = todo[t],
             \A t \in Slots : \/ state'[t] = state[t]
                              \/ state[t] \in Alive /\ state'[t] \in {"RUNNABLE", "RUNNING"}
      PROVE  Calm
  <2>1. \A t \in Slots : t # s => pc'[t] = pc[t] /\ back'[t] = back[t] /\ todo'[t] = todo[t]
    BY <1>2 DEF TypeOK
  <2>2. pc'[s] = l /\ Loc(s)' = l /\ (pc[s] \in ExitLocs => Loc(s) \in ExitLocs)
    BY <1>2 DEF TypeOK, Loc, ExitLocs
  <2>3. wait_lock # 0 /\ pc[on[wait_lock]] = "wake_init" =>
          wait_lock' = wait_lock /\ on'[wait_lock] = on[wait_lock]
    BY <1>2, Zenon
  <2>4. \A t \in Slots :
          \/ pc'[t] = pc[t] /\ back'[t] = back[t] /\ todo'[t] = todo[t]
          \/ /\ pc[t] # "wake_init"
             /\ pc'[t] \notin Scanning \cup {"wait_sleep"}
             /\ pc'[t] = "sleep" => pc[t] = "wait_sleep"
             /\ Loc(t)' \in ExitLocs => Loc(t) \in ExitLocs \/ t # initproc
    BY <1>2, <2>1, <2>2, ZenonT(30)
  <2>5. parent' = parent /\ chan' = chan
    BY <1>2, Zenon
  <2> QED BY <1>2, <2>3, <2>4, <2>5, Zenon DEF Calm, Loc
<1>3. CASE Syscall(c) \/ SyscallReturn(c) \/ WaitBegin(c) \/ KilledTrap(c) \/ ExitBegin(c)
  <2>1. s \in Slots /\ UNCHANGED <<state, parent, chan, on, wait_lock, todo, back>>
    BY <1>3, OnCpu, Zenon DEF Syscall, SyscallReturn, WaitBegin, KilledTrap, ExitBegin, table, locks, cpu
  <2>2. PICK l \in {"user", "syscall", "wait_lock", "exit_lock"} :
          pc' = [pc EXCEPT ![s] = l] /\ (l = "exit_lock" => s # initproc)
    BY <1>3, Zenon DEF Syscall, SyscallReturn, WaitBegin, KilledTrap, ExitBegin
  <2>3. pc[s] # "wake_init"
    BY <1>3, Zenon DEF Syscall, SyscallReturn, WaitBegin, KilledTrap, ExitBegin
  <2> QED BY <1>2, <2>1, <2>2, <2>3, Zenon DEF Locations, Interruptible, Scanning, ExitLocs
<1>4. CASE \E q \in Slots : ForkFail(c, q) \/ \E v \in KillPids : Kill(c, v, q)
  <2>1. s \in Slots /\ UNCHANGED <<parent, chan, on, wait_lock, todo, back>>
    BY <1>4, OnCpu, Zenon DEF ForkFail, Kill, locks, cpu
  <2>2. pc[s] = "syscall" /\ pc' = [pc EXCEPT ![s] = "user"]
    BY <1>4, ZenonT(30) DEF ForkFail, Kill
  <2>3. \A t \in Slots : \/ state'[t] = state[t]
                         \/ state[t] \in Alive /\ state'[t] \in {"RUNNABLE", "RUNNING"}
    <3>1. ASSUME NEW q \in Slots, state' = [state EXCEPT ![q] = IF @ = "SLEEPING" THEN "RUNNABLE" ELSE @]
          PROVE  \A t \in Slots : \/ state'[t] = state[t]
                                  \/ state[t] \in Alive /\ state'[t] \in {"RUNNABLE", "RUNNING"}
      BY <3>1, Zenon DEF TypeOK, Alive
    <3> QED BY <1>4, <3>1, Zenon DEF ForkFail, Kill
  <2> QED BY SMTT(30), <1>2, <2>1, <2>2, <2>3 DEF Locations, Interruptible, Scanning, ExitLocs
<1>5. CASE ExitLock(c) \/ WaitFails(c) \/ SleepLock(c)
  <2>1. s \in Slots /\ UNCHANGED <<state, parent, chan, on, back>>
    BY <1>5, OnCpu, Zenon DEF ExitLock, WaitFails, SleepLock, table, locks, cpu
  <2>2. PICK l \in {"reparent", "user", "sleep"} : pc' = [pc EXCEPT ![s] = l]
    BY <1>5, Zenon DEF ExitLock, WaitFails, SleepLock
  <2>3. /\ pc[s] # "wake_init"
        /\ wait_lock # 0 /\ wait_lock # c => wait_lock' = wait_lock
        /\ \A t \in Slots : t # s => todo'[t] = todo[t]
    BY <1>5, OnCpu DEF ExitLock, WaitFails, SleepLock, TypeOK, HoldsW
  <2>4. /\ pc'[s] = "sleep" => pc[s] = "wait_sleep"
        /\ pc'[s] = "reparent" => pc[s] \in ExitLocs
    BY <1>5, <2>1 DEF ExitLock, WaitFails, SleepLock, TypeOK, ExitLocs
  <2>5. pc'[s] = l
    BY <2>1, <2>2, Zenon DEF TypeOK
  <2> QED BY <1>2, <2>1, <2>2, <2>3, <2>4, <2>5, Zenon DEF Locations, Interruptible, Scanning, ExitLocs
<1>6. CASE Fault(c) \/ SchedBack(c) \/ \E q \in Slots : SchedPick(c, q)
  <2>1. UNCHANGED <<parent, chan, pc, back, todo, wait_lock>>
    BY <1>6, Zenon DEF Fault, SchedBack, SchedPick, table, locks, cpu, thread
  <2>4. \A d \in CPUs : on'[d] = on[d] \/ (d = c /\ on[c] = NoProc)
    <3>1. ASSUME NEW q \in Slots, SchedPick(c, q)
          PROVE  \A d \in CPUs : on'[d] = on[d] \/ (d = c /\ on[c] = NoProc)
      BY <3>1, Zenon DEF SchedPick, TypeOK
    <3>2. Fault(c) \/ SchedBack(c) => on' = on
      BY Zenon DEF Fault, SchedBack, cpu
    <3> QED BY <1>6, <3>1, <3>2, Zenon
  <2>2. \A t \in Slots : \/ state'[t] = state[t]
                         \/ state[t] \in Alive /\ state'[t] \in {"RUNNABLE", "RUNNING"}
    <3>1. ASSUME NEW q \in Slots, SchedPick(c, q)
          PROVE  \A t \in Slots : \/ state'[t] = state[t]
                                  \/ state[t] \in Alive /\ state'[t] \in {"RUNNABLE", "RUNNING"}
      BY <3>1, Zenon DEF SchedPick, TypeOK, Alive
    <3> QED BY <1>6, <3>1, Zenon DEF Fault, SchedBack, table
  <2>3. wait_lock # 0 => on[wait_lock] # NoProc
    BY Zenon DEF Stacks, LockInv
  <2>5. wait_lock # 0 => on'[wait_lock] = on[wait_lock]
    BY <1>1, <2>3, <2>4, ZenonT(30)
  <2> QED BY <2>1, <2>2, <2>5, Zenon DEF Calm, Loc
<1>7. CASE Sched(c)
  <2>1. s \in Slots /\ pc[s] \in {"yield", "sleeping", "exit"} /\ wait_lock # c
    BY <1>7, OnCpu, ConstantsAssumption DEF Sched, Stacks, LockInv, HoldsW
  <2>2. /\ UNCHANGED <<state, parent, chan, back, todo, wait_lock>>
        /\ \A d \in CPUs : d # c => on'[d] = on[d]
        /\ \A t \in Slots : t # s => pc'[t] = pc[t]
    BY <1>7, Zenon DEF Sched, table, locks, TypeOK
  <2>3. /\ pc[s] = "yield" => pc'[s] = "yielded"
        /\ pc[s] = "exit" => pc'[s] = "dead"
        /\ pc[s] = "sleeping" => pc'[s] = "woken"
    <3>1. pc' = [pc EXCEPT ![s] = CASE pc[s] = "yield"    -> "yielded"
                                    [] pc[s] = "sleeping" -> "woken"
                                    [] pc[s] = "exit"     -> "dead"]
      BY <1>7, ZenonT(30) DEF Sched
    <3> QED BY <2>1, <3>1 DEF TypeOK
  <2>4. \A t \in Slots : t = s /\ Loc(t)' \in ExitLocs => Loc(t) \in ExitLocs
    BY <2>1, <2>2, <2>3 DEF Loc, ExitLocs
  <2>5. \A t \in Slots : t = s => pc'[t] \in {"yielded", "dead", "woken"} /\ pc[t] # "wake_init"
    BY <2>1, <2>3, ZenonT(30)
  <2> QED BY <1>1, <2>1, <2>2, <2>4, <2>5, Zenon DEF Calm, Scanning, Loc
<1>8. CASE Yield(c)
  <2>1. s \in Slots /\ state[s] = "RUNNING"
    BY <1>8, OnCpu, Zenon DEF Yield, Interruptible
  <2>2. /\ UNCHANGED <<parent, chan, todo, wait_lock, on>>
        /\ pc' = [pc EXCEPT ![s] = "yield"] /\ back' = [back EXCEPT ![s] = pc[s]]
        /\ pc[s] \in Interruptible
        /\ state' = [state EXCEPT ![s] = "RUNNABLE"]
    BY <1>8, Zenon DEF Yield, cpu
  <2>3. \A t \in Slots : t = s => Loc(t)' = Loc(t) /\ pc'[t] = "yield" /\ pc[t] # "wake_init"
    BY <2>1, <2>2 DEF Loc, TypeOK, Interruptible
  <2>4. \A t \in Slots : t # s => pc'[t] = pc[t] /\ back'[t] = back[t]
    BY <2>1, <2>2 DEF TypeOK
  <2>5. \A t \in Slots : \/ state'[t] = state[t]
                         \/ state[t] \in Alive /\ state'[t] \in {"RUNNABLE", "RUNNING"}
    BY <2>1, <2>2, Zenon DEF TypeOK, Alive
  <2>6. \A t \in Slots : Loc(t)' = Loc(t)
    BY <2>3, <2>4, Zenon DEF Loc
  <2> QED BY <2>2, <2>3, <2>4, <2>5, <2>6, Zenon DEF Calm, Scanning
<1>9. CASE Resume(c)
  <2>1. s \in Slots /\ pc[s] \in {"forkret", "yielded", "woken"} /\ back[s] \in Interruptible
    BY <1>9, OnCpu DEF Resume, TypeOK
  <2>2. state[s] = "RUNNING" /\ UNCHANGED <<state, parent, todo, wait_lock, on>>
    BY <1>9, OnCpu, Zenon DEF Resume, cpu
  <2>3. \A t \in Slots : t # s => pc'[t] = pc[t] /\ back'[t] = back[t] /\ chan'[t] = chan[t]
    BY <1>9, Zenon DEF Resume, TypeOK
  <2>4. /\ pc[s] = "forkret" => pc'[s] = "user"
        /\ pc[s] = "yielded" => pc'[s] = back[s]
        /\ pc[s] = "woken" => pc'[s] = "wait_lock"
    <3>1. pc' = [pc EXCEPT ![s] = CASE pc[s] = "forkret" -> "user"
                                    [] pc[s] = "yielded" -> back[s]
                                    [] pc[s] = "woken"   -> "wait_lock"]
      BY <1>9, Zenon DEF Resume
    <3> QED BY <2>1, <3>1 DEF TypeOK
  <2>5. \A t \in Slots : t = s => /\ pc'[t] \in Interruptible /\ pc[t] # "wake_init"
                                  /\ Loc(t)' \in ExitLocs => Loc(t) \in ExitLocs
    BY <2>1, <2>4 DEF Loc, Interruptible, ExitLocs
  <2> QED BY <2>1, <2>2, <2>3, <2>5 DEF Calm, Scanning, Interruptible, Loc
<1> QED BY <1>3, <1>4, <1>5, <1>6, <1>7, <1>8, <1>9 DEF Quiet

\* A step that makes nobody appear or disappear and adopts nobody.
LEMMA FamilyFrame ==
  ASSUME TypeOK, FamilyInv, UNCHANGED parent,
         \A s \in Slots : state'[s] = state[s] \/ (state[s] \in Alive /\ state'[s] \in Alive),
         Loc(initproc)' \notin ExitLocs,
         \A s \in Slots : pc'[s] \in {"wake_parent", "exit_zombie"} =>
                             pc[s] \in {"wake_parent", "exit_zombie"}
  PROVE  FamilyInv'
<1>1. initproc \in Slots
  BY ConstantsAssumption DEF initproc, Slots
<1>2. /\ state'[initproc] \notin {"UNUSED", "USED", "ZOMBIE"}
      /\ parent'[initproc] = NoProc
  BY <1>1, Zenon DEF FamilyInv, Alive
<1>3. \A s \in Slots : parent'[s] # NoProc =>
        parent'[s] # s /\ state'[parent'[s]] \notin {"UNUSED", "USED", "ZOMBIE"}
  BY SMTT(30) DEF FamilyInv, TypeOK, Alive
<1>4. \A s \in Slots \ {initproc} : state'[s] \notin {"UNUSED", "USED"} => parent'[s] # NoProc
  BY Zenon DEF FamilyInv, Alive
<1>5. \A s, k \in Slots : pc'[s] \in {"wake_parent", "exit_zombie"} => parent'[k] # s
  BY Zenon DEF FamilyInv
<1> QED BY <1>2, <1>3, <1>4, <1>5, Zenon DEF FamilyInv, ExitLocs

\* A calm step keeps families in order.
LEMMA CalmFamily ==
  ASSUME TypeOK, FamilyInv, Calm
  PROVE  FamilyInv'
<1>1. Loc(initproc)' \notin ExitLocs
  BY InitSlot, Zenon DEF Calm, FamilyInv, Loc, ExitLocs
<1>2. \A t \in Slots : pc'[t] \in {"wake_parent", "exit_zombie"} =>
                        pc[t] \in {"wake_parent", "exit_zombie"}
  BY Zenon DEF Calm, Scanning
<1>3. \A t \in Slots : state'[t] = state[t] \/ (state[t] \in Alive /\ state'[t] \in Alive)
  BY DEF Calm, Alive
<1> QED BY <1>1, <1>2, <1>3, FamilyFrame, Zenon DEF Calm

\* A calm step loses no wakeup.
LEMMA CalmWakes ==
  ASSUME TypeOK, TypeOK', Stacks, WakeInv, Calm
  PROVE  WakeInv'
<1>1. wait_lock # 0 => on[wait_lock] \in Slots
  BY DEF TypeOK, Stacks, LockInv, NoProc
<1>2. \A t \in Slots : /\ state'[t] = "SLEEPING" => state[t] = "SLEEPING" /\ chan'[t] = chan[t]
                       /\ state'[t] = "ZOMBIE" => state[t] = "ZOMBIE"
  BY Zenon DEF Calm
<1>3. \A t \in Slots : /\ pc'[t] \in Scanning => pc'[t] = pc[t] /\ todo'[t] = todo[t]
                       /\ pc'[t] \in {"wait_sleep", "sleep"} => pc[t] \in {"wait_sleep", "sleep"}
                       /\ pc[t] = "wake_init" => pc'[t] = pc[t] /\ todo'[t] = todo[t]
  BY Zenon DEF Calm, Scanning, Loc
<1> QED BY SMTT(30), <1>1, <1>2, <1>3 DEF Calm, WakeInv, TypeOK, Scanning, NoProc

\* fork() claims a free slot, which nobody has as parent.
LEMMA ForkAllocFamily ==
  ASSUME TypeOK, TypeOK', Stacks, FamilyInv,
         NEW c \in CPUs, NEW q \in Slots, ForkAlloc(c, q)
  PROVE  FamilyInv'
<1> USE DEF Goto
<1>1. on[c] \in Slots /\ state[on[c]] = "RUNNING" /\ pc[on[c]] = "syscall" /\ q # on[c]
  BY OnCpu, Zenon DEF ForkAlloc
<1>2. state' = [state EXCEPT ![q] = "USED"] /\ state[q] = "UNUSED" /\ UNCHANGED <<parent, back>>
  BY Zenon DEF ForkAlloc
<1>3. pc' = [pc EXCEPT ![on[c]] = "fork_parent", ![q] = "forkret"]
  BY Zenon DEF ForkAlloc
<1> QED BY InitSlot, <1>1, <1>2, <1>3 DEF TypeOK, FamilyInv, Loc, NoProc

\* The child of fork() gets a parent that is running.
LEMMA ForkParentFamily ==
  ASSUME TypeOK, TypeOK', Stacks, FamilyInv,
         NEW c \in CPUs, ForkParent(c)
  PROVE  FamilyInv'
<1> USE DEF Goto
<1>1. on[c] \in Slots /\ state[on[c]] = "RUNNING" /\ pc[on[c]] = "fork_parent"
  BY OnCpu, Zenon DEF ForkParent
<1>2. np[on[c]] \in Slots /\ state[np[on[c]]] = "USED"
  BY <1>1 DEF TypeOK, Stacks, ForkInv, Loc, NoProc
<1>3. /\ parent' = [parent EXCEPT ![np[on[c]]] = on[c]]
      /\ pc' = [pc EXCEPT ![on[c]] = "fork_run"]
      /\ wait_lock = 0
      /\ UNCHANGED <<state, back>>
  BY Zenon DEF ForkParent
<1>4. \A t \in Slots : pc[t] \notin {"wake_parent", "exit_zombie"}
  BY <1>3, Zenon DEF Stacks, LockInv, HoldsW
<1> QED BY InitSlot, <1>1, <1>2, <1>3, <1>4 DEF TypeOK, FamilyInv, Loc, NoProc

\* The child that fork() publishes already has its parent.
LEMMA ForkRunFamily ==
  ASSUME TypeOK, TypeOK', Stacks, FamilyInv,
         NEW c \in CPUs, ForkRun(c)
  PROVE  FamilyInv'
<1> USE DEF Goto
<1>1. on[c] \in Slots /\ state[on[c]] = "RUNNING" /\ pc[on[c]] = "fork_run"
  BY OnCpu, Zenon DEF ForkRun
<1>2. np[on[c]] \in Slots /\ state[np[on[c]]] = "USED" /\ parent[np[on[c]]] = on[c]
  BY <1>1, Zenon DEF TypeOK, Stacks, ForkInv, Loc, NoProc
<1>3. /\ state' = [state EXCEPT ![np[on[c]]] = "RUNNABLE"]
      /\ pc' = [pc EXCEPT ![on[c]] = "user"]
      /\ UNCHANGED <<parent, back>>
  BY Zenon DEF ForkRun
<1> QED BY InitSlot, <1>1, <1>2, <1>3 DEF TypeOK, FamilyInv, Loc, NoProc

\* reparent() hands a child to init, or finds that none is left.
LEMMA ReparentFamily ==
  ASSUME TypeOK, TypeOK', Stacks, FamilyInv,
         NEW c \in CPUs, Reparent(c)
  PROVE  FamilyInv'
<1> USE DEF Goto
<1>1. on[c] \in Slots /\ pc[on[c]] = "reparent" /\ wait_lock = c /\ on[c] # initproc
  BY OnCpu, Zenon DEF Reparent, HoldsW, FamilyInv, Loc
<1>2. \A t \in Slots : pc[t] \in HoldsW => t = on[c]
  BY <1>1, Zenon DEF Stacks, LockInv
<1>3. UNCHANGED <<state, back>>
  BY DEF Reparent
<1>4. CASE Kids(on[c]) = {}
  <2>1. UNCHANGED parent /\ pc' = [pc EXCEPT ![on[c]] = "wake_parent"]
    BY <1>4, Zenon DEF Reparent
  <2>2. \A k \in Slots : parent[k] # on[c]
    BY <1>4, SMTT(30) DEF Kids
  <2> QED BY SMTT(30), InitSlot, <1>1, <1>2, <1>3, <2>1, <2>2 DEF TypeOK, FamilyInv, Loc, NoProc, HoldsW
<1>5. CASE Kids(on[c]) # {}
  <2>1. PICK k \in Slots : parent[k] = on[c] /\ parent' = [parent EXCEPT ![k] = initproc]
    BY <1>5, Zenon DEF Reparent, Kids
  <2>2. pc' = [pc EXCEPT ![on[c]] = "wake_init"]
    BY <1>5, Zenon DEF Reparent
  <2>3. k # initproc
    BY <1>1, <2>1, InitSlot, SMTT(30) DEF FamilyInv, NoProc
  <2> QED BY SMTT(30), InitSlot, <1>1, <1>2, <1>3, <2>1, <2>2, <2>3 DEF TypeOK, FamilyInv, Loc, NoProc, HoldsW
<1> QED BY <1>4, <1>5, Zenon

\* The zombie that kexit() makes is nobody's parent.
LEMMA ExitZombieFamily ==
  ASSUME TypeOK, TypeOK', Stacks, FamilyInv,
         NEW c \in CPUs, ExitZombie(c)
  PROVE  FamilyInv'
<1> USE DEF Goto
<1>1. on[c] \in Slots /\ pc[on[c]] = "exit_zombie" /\ on[c] # initproc /\ state[on[c]] = "RUNNING"
  BY OnCpu, Zenon DEF ExitZombie, FamilyInv, Loc
<1>2. /\ state' = [state EXCEPT ![on[c]] = "ZOMBIE"]
      /\ pc' = [pc EXCEPT ![on[c]] = "exit"]
      /\ UNCHANGED <<parent, back>>
  BY DEF ExitZombie
<1>3. \A s \in Slots : s # on[c] => state'[s] = state[s] /\ pc'[s] = pc[s] /\ Loc(s)' = Loc(s)
  BY <1>1, <1>2, Zenon DEF TypeOK, Loc
<1>4. state'[on[c]] = "ZOMBIE" /\ pc'[on[c]] = "exit"
  BY <1>1, <1>2, Zenon DEF TypeOK
<1>5. \A k \in Slots : parent[k] \in Slots \cup {NoProc} /\ parent[k] # on[c]
  BY <1>1, Zenon DEF TypeOK, FamilyInv
<1> QED BY InitSlot, <1>1, <1>2, <1>3, <1>4, <1>5 DEF FamilyInv

\* The slot that kwait() frees is nobody's parent.
LEMMA WaitReapFamily ==
  ASSUME TypeOK, TypeOK', Stacks, FamilyInv,
         NEW c \in CPUs, NEW q \in Slots, WaitReap(c, q)
  PROVE  FamilyInv'
<1> USE DEF Goto
<1>1. on[c] \in Slots /\ pc[on[c]] = "wait_scan" /\ state[q] = "ZOMBIE" /\ q # on[c]
  BY OnCpu, Zenon DEF WaitReap
<1>2. /\ state' = [state EXCEPT ![q] = "UNUSED"]
      /\ parent' = [parent EXCEPT ![q] = NoProc]
      /\ pc' = [pc EXCEPT ![on[c]] = "user", ![q] = "none"]
      /\ UNCHANGED back
  BY Zenon DEF WaitReap, Freeproc
<1> QED BY InitSlot, <1>1, <1>2 DEF TypeOK, FamilyInv, Loc, NoProc

\* The scans of kwait() and wakeup() change nobody's parent.
LEMMA ScanFamily ==
  ASSUME TypeOK, Stacks, FamilyInv, NEW c \in CPUs,
         \/ WaitLock(c) \/ WaitSleep(c) \/ SleepPublish(c) \/ \E q \in Slots : WaitSkip(c, q)
  PROVE  FamilyInv'
<1> USE DEF Goto
<1>1. on[c] \in Slots /\ state[on[c]] = "RUNNING" /\ UNCHANGED <<parent, back>>
  BY OnCpu, ZenonT(30) DEF WaitLock, WaitSleep, SleepPublish, WaitSkip, table
<1>2. state' = state \/ state' = [state EXCEPT ![on[c]] = "SLEEPING"]
  BY DEF WaitLock, WaitSleep, SleepPublish, WaitSkip, table
<1>3. \A t \in Slots : pc'[t] = pc[t] \/ pc'[t] \in {"wait_scan", "wait_sleep", "sleeping"}
  BY SMTT(30) DEF WaitLock, WaitSleep, SleepPublish, WaitSkip, TypeOK
<1>4. \A t \in Slots : state'[t] = state[t] \/ (state[t] \in Alive /\ state'[t] \in Alive)
  BY <1>1, <1>2 DEF TypeOK, Alive
<1>5. Loc(initproc)' \notin ExitLocs
  BY <1>1, <1>3, InitSlot, Zenon DEF FamilyInv, Loc, ExitLocs
<1> QED BY <1>1, <1>3, <1>4, <1>5, FamilyFrame, Zenon

\* Nor does a step of wakeup(), which only an exiting process takes here.
LEMMA WakeupFamily ==
  ASSUME TypeOK, Stacks, FamilyInv, NEW c \in CPUs, NEW q \in Slots, Wakeup(c, q)
  PROVE  FamilyInv'
<1>0. /\ on[c] # NoProc /\ pc[on[c]] \in {"wake_init", "wake_parent"}
      /\ pc' = [pc EXCEPT ![on[c]] = IF todo[on[c]] # {q} THEN pc[on[c]]
                                     ELSE IF pc[on[c]] = "wake_init" THEN "reparent"
                                     ELSE "exit_zombie"]
      /\ parent' = parent /\ back' = back
  BY Zenon DEF Wakeup, Goto
<1>1. on[c] \in Slots
  BY <1>0, OnCpu, Zenon
<1>2. on[c] # initproc
  BY <1>0, <1>1 DEF FamilyInv, Loc
<1>3. \A t \in Slots : t # on[c] => pc'[t] = pc[t]
  BY <1>0 DEF TypeOK
<1>4. pc[on[c]] = "wake_init" => pc'[on[c]] \in {"wake_init", "reparent"}
  BY <1>0, <1>1 DEF TypeOK
<1>5. \A t \in Slots : state'[t] = state[t] \/ (state[t] \in Alive /\ state'[t] \in Alive)
  BY SMTT(30) DEF Wakeup, WakeSlot, TypeOK, Alive
<1>6. Loc(initproc)' \notin ExitLocs
  BY <1>0, <1>2, <1>3, InitSlot DEF FamilyInv, Loc, ExitLocs
<1>7. \A t \in Slots : pc'[t] \in {"wake_parent", "exit_zombie"} =>
                        pc[t] \in {"wake_parent", "exit_zombie"}
  BY <1>0, <1>1, <1>3, <1>4, SMTT(30)
<1> QED BY <1>0, <1>5, <1>6, <1>7, FamilyFrame

\* No step leaves a child without a living parent: a child is published with
\* one, and exit() has no children left when the zombie appears.
LEMMA FamilyStep ==
  ASSUME TypeOK, TypeOK', Stacks, FamilyInv, [Next]_vars
  PROVE  FamilyInv'
<1>1. CASE UNCHANGED vars
  BY <1>1, Zenon DEF vars, table, thread, FamilyInv, Loc
<1>2. ASSUME NEW c \in CPUs, SchedIdle(c) PROVE FamilyInv'
  BY <1>1, <1>2, Zenon DEF SchedIdle
<1>3. ASSUME NEW c \in CPUs, Quiet(c) PROVE FamilyInv'
  BY <1>3, QuietIsCalm, CalmFamily, Zenon
<1> QED
  BY <1>1, <1>2, <1>3, ScanFamily, WakeupFamily, ForkAllocFamily, ForkParentFamily,
     ForkRunFamily, ReparentFamily, ExitZombieFamily, WaitReapFamily, SMTT(30)
  DEF Next, Switch, Kernel, Quiet

===============================================================================
