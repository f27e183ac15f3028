----------------------------- MODULE ProcTheorems -----------------------------
(***************************************************************************)
(* The theorems about the process table.  On the stacks, locks and families*)
(* of ProcProofs rest the facts about wait() and wakeup() (WakeInv) and    *)
(* about kill() (KillInv).                                                 *)
(***************************************************************************)
EXTENDS ProcProofs

\* A mark of kill() lies on a process, never on a free slot.
KillInv ==
  \A s \in Slots : killed[s] => state[s] # "UNUSED" /\ pid[s] \in asked

-------------------------------------------------------------------------------
(* wait(), sleep() and wakeup().                                           *)

\* fork() claims a free slot, which is no zombie and does not sleep.
LEMMA ForkAllocWakes ==
  ASSUME TypeOK, TypeOK', Stacks, Stacks', FamilyInv, WakeInv,
         NEW c \in CPUs, NEW q \in Slots, ForkAlloc(c, q)
  PROVE  WakeInv'
<1>1. on[c] \in Slots /\ pc[on[c]] = "syscall" /\ pc[q] = "none"
  BY OnCpu, Zenon DEF ForkAlloc, Stacks, StateInv, Located
<1>2. /\ state' = [state EXCEPT ![q] = "USED"]
      /\ pc' = [pc EXCEPT ![on[c]] = "fork_parent", ![q] = "forkret"]
      /\ UNCHANGED <<parent, chan, todo, wait_lock, on>>
  BY Zenon DEF ForkAlloc, locks, cpu
<1>3. wait_lock # 0 => on[wait_lock] \in Slots
  BY DEF TypeOK, Stacks, LockInv, NoProc
<1> QED BY <1>1, <1>2, <1>3 DEF TypeOK, WakeInv, NoProc

\* The child that fork() publishes has not slept or exited yet.
LEMMA ForkRunWakes ==
  ASSUME TypeOK, TypeOK', Stacks, Stacks', FamilyInv, WakeInv,
         NEW c \in CPUs, ForkRun(c)
  PROVE  WakeInv'
<1> USE DEF Goto
<1>1. on[c] \in Slots /\ pc[on[c]] = "fork_run" /\ np[on[c]] \in Slots
  BY OnCpu DEF ForkRun, Stacks, ForkInv, Loc, TypeOK, NoProc
<1>2. /\ state' = [state EXCEPT ![np[on[c]]] = "RUNNABLE"]
      /\ pc' = [pc EXCEPT ![on[c]] = "user"]
      /\ UNCHANGED <<parent, chan, todo, wait_lock, on>>
  BY Zenon DEF ForkRun, locks, cpu
<1>3. wait_lock # 0 => on[wait_lock] \in Slots
  BY DEF TypeOK, Stacks, LockInv, NoProc
<1> QED BY <1>1, <1>2, <1>3, SMTT(30) DEF TypeOK, WakeInv, NoProc

\* The new child of a forking process is no zombie.
LEMMA ForkParentWakes ==
  ASSUME TypeOK, TypeOK', Stacks, Stacks', FamilyInv, WakeInv,
         NEW c \in CPUs, ForkParent(c)
  PROVE  WakeInv'
<1> USE DEF Goto
<1>1. on[c] \in Slots /\ state[on[c]] = "RUNNING" /\ pc[on[c]] = "fork_parent"
  BY OnCpu, Zenon DEF ForkParent
<1>2. np[on[c]] \in Slots /\ state[np[on[c]]] = "USED" /\ pc[np[on[c]]] = "forkret"
  BY <1>1 DEF TypeOK, Stacks, StateInv, Located, ForkInv, Loc, NoProc
<1>3. /\ parent' = [parent EXCEPT ![np[on[c]]] = on[c]]
      /\ pc' = [pc EXCEPT ![on[c]] = "fork_run"]
      /\ wait_lock = 0
      /\ UNCHANGED <<state, chan, wait_lock, on, todo>>
  BY Zenon DEF ForkParent, locks, cpu
<1> QED BY InitSlot, <1>1, <1>2, <1>3 DEF TypeOK, WakeInv, NoProc

\* A zombie handed to a sleeping init is announced by the wakeup(initproc)
\* that follows under the same wait_lock.
LEMMA ReparentWakes ==
  ASSUME TypeOK, TypeOK', Stacks, Stacks', FamilyInv, WakeInv,
         NEW c \in CPUs, Reparent(c)
  PROVE  WakeInv'
<1> USE DEF Goto
<1>1. on[c] \in Slots /\ pc[on[c]] = "reparent" /\ wait_lock = c /\ on[c] # initproc /\ c # 0
  BY OnCpu, ConstantsAssumption, Zenon DEF Reparent, HoldsW, FamilyInv, Loc
<1>2. \A t \in Slots : t # on[c] => pc[t] \notin HoldsW
  BY <1>1, Zenon DEF Stacks, LockInv
<1>3. todo' = [todo EXCEPT ![on[c]] = Slots \ {on[c]}] /\ UNCHANGED <<state, chan, wait_lock, on>>
  BY Zenon DEF Reparent, locks, cpu
<1>4. CASE Kids(on[c]) = {}
  <2>1. UNCHANGED parent /\ pc' = [pc EXCEPT ![on[c]] = "wake_parent"]
    BY <1>4, Zenon DEF Reparent
  <2>2. parent[on[c]] \in Slots \cup {0} /\ parent[on[c]] # on[c]
    BY <1>1, InitSlot, Zenon DEF FamilyInv, TypeOK, NoProc
  <2> QED BY InitSlot, <1>1, <1>2, <1>3, <2>1, <2>2 DEF TypeOK, WakeInv, NoProc, HoldsW
<1>5. CASE Kids(on[c]) # {}
  <2>1. PICK k \in Slots : parent[k] = on[c] /\ parent' = [parent EXCEPT ![k] = initproc]
    BY <1>5, Zenon DEF Reparent, Kids
  <2>2. pc' = [pc EXCEPT ![on[c]] = "wake_init"]
    BY <1>5, Zenon DEF Reparent
  <2>3. \A t \in Slots : pc'[t] \notin Scanning \cup {"wait_sleep", "sleep"}
    BY <1>1, <1>2, <2>2 DEF TypeOK, HoldsW, Scanning
  <2>4. initproc \in todo'[on[c]] /\ pc'[on[c]] = "wake_init"
    BY InitSlot, <1>1, <1>3, <2>2 DEF TypeOK
  <2> QED BY InitSlot, <1>1, <1>3, <2>1, <2>3, <2>4 DEF TypeOK, WakeInv, NoProc, Scanning
<1> QED BY <1>4, <1>5, Zenon

\* A slot that wakeup() has passed does not sleep on its channel.
LEMMA WakeupWakes ==
  ASSUME TypeOK, TypeOK', Stacks, Stacks', FamilyInv, WakeInv,
         NEW c \in CPUs, NEW q \in Slots, Wakeup(c, q)
  PROVE  WakeInv'
<1> USE DEF Goto
<1> DEFINE s == on[c]
<1>1. s \in Slots /\ pc[s] \in {"wake_init", "wake_parent"} /\ wait_lock = c /\ c # 0
  BY OnCpu, ConstantsAssumption, Zenon DEF Wakeup, HoldsW
<1>2. \A t \in Slots : t # s => pc[t] \notin HoldsW
  BY <1>1, Zenon DEF Stacks, LockInv
<1>3. UNCHANGED <<parent, chan, wait_lock, on>> /\ q \in todo[s]
  BY Zenon DEF Wakeup, IsFirst, locks, cpu
<1>4. /\ \A t \in Slots : t # s => todo'[t] = todo[t] /\ pc'[t] = pc[t]
      /\ todo'[s] = todo[s] \ {q}
  BY <1>1 DEF Wakeup, TypeOK
<1>5. /\ \A t \in Slots : t # q => state'[t] = state[t]
      /\ state[q] # "SLEEPING" => state'[q] = state[q]
      /\ state[q] = "SLEEPING" => state'[q] \in {"SLEEPING", "RUNNABLE"}
  BY DEF Wakeup, WakeSlot, TypeOK
<1>6. CASE pc[s] = "wake_init"
  <2>1. pc'[s] \in {"wake_init", "reparent"} /\ (pc'[s] = "reparent" => todo'[s] = {})
    BY <1>1, <1>4, <1>6 DEF Wakeup, TypeOK
  <2>2. state'[initproc] = "SLEEPING" => state[initproc] = "SLEEPING" /\ q # initproc
    BY InitSlot, <1>5, <1>6 DEF Wakeup, WakeSlot, TypeOK, WakeInv
  <2>3. \A k \in Slots : state'[k] = "ZOMBIE" <=> state[k] = "ZOMBIE"
    BY <1>5, Zenon
  <2>4. state'[initproc] = "SLEEPING" /\ initproc \in todo[s] =>
          initproc \in todo'[s] /\ pc'[s] = "wake_init"
    BY <1>4, <2>1, <2>2, Zenon
  <2>5. \A t \in Slots : state'[t] = "SLEEPING" => state[t] = "SLEEPING"
    BY <1>5, Zenon
  <2>6. \A t \in Slots : t # s => pc'[t] \notin HoldsW
    BY <1>2, <1>4, Zenon
  <2>7. \A t, k \in Slots : state'[k] = "ZOMBIE" /\ parent'[k] = t /\ state'[t] = "SLEEPING" =>
          t = initproc /\ initproc \in todo'[s] /\ pc'[s] = "wake_init"
    BY InitSlot, <1>1, <1>3, <2>3, <2>4, <2>5 DEF WakeInv
  <2> QED
    BY <1>1, <1>3, <2>1, <2>5, <2>6, <2>7, SMTT(30) DEF WakeInv, HoldsW, TypeOK, NoProc
<1>7. CASE pc[s] = "wake_parent"
  <2>1. pc'[s] \in {"wake_parent", "exit_zombie"} /\ (pc'[s] = "exit_zombie" => todo'[s] = {})
    BY <1>1, <1>4, <1>7, SMTT(30) DEF Wakeup, TypeOK
  <2>2. parent[s] \in Slots => (state'[parent[s]] = "SLEEPING" =>
                                  state[parent[s]] = "SLEEPING" /\ q # parent[s])
    BY SMTT(30), <1>5, <1>7 DEF Wakeup, WakeSlot, TypeOK, WakeInv
  <2>3. \A k \in Slots : state'[k] = "ZOMBIE" <=> state[k] = "ZOMBIE"
    BY <1>5, Zenon
  <2>4. \A t \in Slots : t # s => pc'[t] \notin HoldsW
    BY <1>2, <1>4, Zenon
  <2>5. \A t, k \in Slots : state[k] = "ZOMBIE" /\ parent[k] = t => state[t] # "SLEEPING"
    BY <1>1, <1>7, Zenon DEF WakeInv
  <2>6. \A t \in Slots : state'[t] = "SLEEPING" => state[t] = "SLEEPING"
    BY <1>5, Zenon
  <2>7. parent[s] \in Slots /\ state'[parent[s]] = "SLEEPING" =>
          parent[s] \in todo'[s] /\ pc'[s] = "wake_parent"
    BY InitSlot, <1>1, <1>4, <1>7, <2>1, <2>2 DEF WakeInv, NoProc
  <2> QED
    BY InitSlot, <1>1, <1>3, <2>1, <2>3, <2>4, <2>5, <2>6, <2>7, SMTT(30)
    DEF WakeInv, HoldsW, TypeOK, NoProc
<1> QED BY <1>1, <1>6, <1>7, Zenon

\* The parent of a new zombie has been woken before.
LEMMA ExitZombieWakes ==
  ASSUME TypeOK, TypeOK', Stacks, Stacks', FamilyInv, WakeInv,
         NEW c \in CPUs, ExitZombie(c)
  PROVE  WakeInv'
<1> USE DEF Goto
<1> DEFINE s == on[c]
<1>1. s \in Slots /\ pc[s] = "exit_zombie" /\ wait_lock = c /\ s # initproc /\ state[s] = "RUNNING"
  BY OnCpu, Zenon DEF ExitZombie, HoldsW, FamilyInv, Loc
<1>2. \A t \in Slots : t # s => pc[t] \notin HoldsW
  BY <1>1 DEF Stacks, LockInv
<1>3. parent[s] \in Slots /\ parent[s] # s /\ state[parent[s]] # "SLEEPING"
  BY <1>1, InitSlot DEF FamilyInv, WakeInv, TypeOK, NoProc
<1>4. /\ state' = [state EXCEPT ![s] = "ZOMBIE"]
      /\ pc' = [pc EXCEPT ![s] = "exit"]
      /\ UNCHANGED <<parent, chan, todo>>
  BY Zenon DEF ExitZombie
<1>5. \A t \in Slots : pc'[t] \notin HoldsW
  BY <1>1, <1>2, <1>4, SMTT(30) DEF TypeOK, HoldsW
<1>6. \A t, k \in Slots : state[k] = "ZOMBIE" /\ parent[k] = t => state[t] # "SLEEPING"
  BY <1>1 DEF WakeInv
<1> QED BY <1>1, <1>3, <1>4, <1>5, <1>6, SMTT(30) DEF TypeOK, WakeInv, HoldsW, NoProc

\* A new scan of kwait() has every child ahead of it.
LEMMA WaitLockWakes ==
  ASSUME TypeOK, TypeOK', Stacks, Stacks', FamilyInv, WakeInv,
         NEW c \in CPUs, WaitLock(c)
  PROVE  WakeInv'
<1> USE DEF Goto
<1>1. on[c] \in Slots /\ pc[on[c]] = "wait_lock" /\ wait_lock = 0
  BY OnCpu, Zenon DEF WaitLock
<1>2. /\ todo' = [todo EXCEPT ![on[c]] = {k \in Slots : parent[k] = on[c]}]
      /\ pc' = [pc EXCEPT ![on[c]] = "wait_scan"]
      /\ UNCHANGED <<state, parent, chan>>
  BY Zenon DEF WaitLock, Kids, table
<1> QED BY <1>1, <1>2 DEF TypeOK, WakeInv, NoProc

\* The child that a scan passes is no zombie, and stays none until the scan
\* gives up wait_lock.
LEMMA WaitSkipWakes ==
  ASSUME TypeOK, TypeOK', Stacks, Stacks', FamilyInv, WakeInv,
         NEW c \in CPUs, NEW q \in Slots, WaitSkip(c, q)
  PROVE  WakeInv'
<1> USE DEF Goto
<1>1. on[c] \in Slots /\ pc[on[c]] = "wait_scan" /\ wait_lock = c /\ state[q] # "ZOMBIE"
  BY OnCpu, Zenon DEF WaitSkip, HoldsW
<1>2. todo' = [todo EXCEPT ![on[c]] = @ \ {q}] /\ UNCHANGED <<state, parent, chan, pc, wait_lock, on>>
  BY Zenon DEF WaitSkip, table, locks, cpu
<1> QED BY <1>1, <1>2 DEF TypeOK, WakeInv, NoProc

\* A reaped child is no zombie of anybody's.
LEMMA WaitReapWakes ==
  ASSUME TypeOK, TypeOK', Stacks, Stacks', FamilyInv, WakeInv,
         NEW c \in CPUs, NEW q \in Slots, WaitReap(c, q)
  PROVE  WakeInv'
<1> USE DEF Goto
<1>1. on[c] \in Slots /\ pc[on[c]] = "wait_scan" /\ wait_lock = c /\ state[q] = "ZOMBIE" /\ q # on[c]
  BY OnCpu, Zenon DEF WaitReap, HoldsW
<1>2. \A t \in Slots : t # on[c] => pc[t] \notin HoldsW
  BY <1>1, Zenon DEF Stacks, LockInv
<1>3. /\ state' = [state EXCEPT ![q] = "UNUSED"]
      /\ parent' = [parent EXCEPT ![q] = NoProc]
      /\ chan' = [chan EXCEPT ![q] = NoProc]
      /\ pc' = [pc EXCEPT ![on[c]] = "user", ![q] = "none"]
  BY DEF WaitReap, Freeproc
<1>4. \A t \in Slots : pc'[t] \notin HoldsW
  BY <1>1, <1>2, <1>3 DEF TypeOK, HoldsW
<1>5. \A t, k \in Slots : state[k] = "ZOMBIE" /\ parent[k] = t => state[t] # "SLEEPING"
  BY <1>1 DEF WakeInv
<1>6. \A t \in Slots : /\ state'[t] \in {"SLEEPING", "ZOMBIE"} => state'[t] = state[t] /\ t # q
                       /\ t # q => parent'[t] = parent[t] /\ chan'[t] = chan[t]
                       /\ t = q => parent'[t] = 0
  BY <1>3 DEF TypeOK, NoProc
<1> QED BY InitSlot, <1>1, <1>4, <1>5, <1>6, SMTT(30) DEF TypeOK, WakeInv, HoldsW, NoProc

\* A scan that ends without a zombie has seen all children.
LEMMA WaitSleepWakes ==
  ASSUME TypeOK, TypeOK', Stacks, Stacks', FamilyInv, WakeInv,
         NEW c \in CPUs, WaitSleep(c)
  PROVE  WakeInv'
<1> USE DEF Goto
<1>1. on[c] \in Slots /\ pc[on[c]] = "wait_scan" /\ wait_lock = c /\ todo[on[c]] = {}
  BY OnCpu, Zenon DEF WaitSleep, HoldsW
<1>2. pc' = [pc EXCEPT ![on[c]] = "wait_sleep"] /\ UNCHANGED <<state, parent, chan, todo, wait_lock, on>>
  BY DEF WaitSleep, table, locks, cpu
<1> QED BY <1>1, <1>2, SMTT(30) DEF TypeOK, WakeInv, NoProc

\* A process falls asleep in kwait() only while none of its children is a
\* zombie.
LEMMA SleepPublishWakes ==
  ASSUME TypeOK, TypeOK', Stacks, Stacks', FamilyInv, WakeInv,
         NEW c \in CPUs, SleepPublish(c)
  PROVE  WakeInv'
<1> USE DEF Goto
<1> DEFINE s == on[c]
<1>1. s \in Slots /\ pc[s] = "sleep" /\ wait_lock = c
  BY OnCpu, SMTT(30) DEF SleepPublish, HoldsW
<1>2. \A t \in Slots : t # s => pc[t] \notin HoldsW
  BY <1>1 DEF Stacks, LockInv
<1>3. /\ state' = [state EXCEPT ![s] = "SLEEPING"]
      /\ chan' = [chan EXCEPT ![s] = s]
      /\ pc' = [pc EXCEPT ![s] = "sleeping"]
      /\ UNCHANGED <<parent, todo>>
  BY SMTT(30) DEF SleepPublish
<1>4. \A t \in Slots : pc'[t] \notin HoldsW
  BY SMTT(30), <1>1, <1>2, <1>3 DEF TypeOK, HoldsW
<1>5. \A t, k \in Slots : state[k] = "ZOMBIE" /\ parent[k] = t => state[t] # "SLEEPING" /\ t # s
  BY <1>1, Zenon DEF WakeInv
<1> QED BY SMTT(30), <1>1, <1>3, <1>4, <1>5 DEF TypeOK, WakeInv, HoldsW, NoProc

\* No wakeup is lost: what wait() has seen stays true until it sleeps, and what
\* changes afterwards wakes it.
LEMMA WakeStep ==
  ASSUME TypeOK, TypeOK', Stacks, Stacks', FamilyInv, WakeInv, [Next]_vars
  PROVE  WakeInv'
<1>1. CASE UNCHANGED vars
  BY <1>1 DEF vars, table, locks, cpu, thread, WakeInv
<1>2. ASSUME NEW c \in CPUs, SchedIdle(c) PROVE WakeInv'
  BY <1>1, <1>2, Zenon DEF SchedIdle
<1>3. ASSUME NEW c \in CPUs, Quiet(c) PROVE WakeInv'
  BY <1>3, QuietIsCalm, CalmWakes, Zenon
<1> QED
  BY <1>1, <1>2, <1>3, ForkAllocWakes, ForkRunWakes, ForkParentWakes, ReparentWakes, WakeupWakes,
     ExitZombieWakes, WaitLockWakes, WaitSkipWakes, WaitReapWakes, WaitSleepWakes,
     SleepPublishWakes, SMTT(30) DEF Next, Switch, Kernel, Quiet

-------------------------------------------------------------------------------
(* kill().                                                                 *)

\* If kill() is never called with pid 0, no free slot is ever marked killed,
\* and a mark always belongs to the process it was meant for.
LEMMA KillStep ==
  ASSUME TypeOK, TypeOK', Stacks, KillInv, 0 \notin KillPids, [Next]_vars
  PROVE  KillInv'
<1> USE DEF KillInv
<1>1. CASE UNCHANGED <<killed, pid, asked>> /\ \A s \in Slots : state'[s] = "UNUSED" => state[s] = "UNUSED"
  BY <1>1, SMTT(30)
<1>2. ASSUME NEW c \in CPUs, NEW q \in Slots, ForkAlloc(c, q) PROVE KillInv'
  BY SMTT(30), <1>2 DEF ForkAlloc, TypeOK
<1>3. ASSUME NEW c \in CPUs, NEW q \in Slots, ForkFail(c, q) PROVE KillInv'
  BY <1>3, SMTT(30) DEF ForkFail, TypeOK
<1>4. ASSUME NEW c \in CPUs, NEW q \in Slots, WaitReap(c, q) PROVE KillInv'
  BY SMTT(30), <1>4 DEF WaitReap, Freeproc, TypeOK
<1>5. ASSUME NEW c \in CPUs, Fault(c) PROVE KillInv'
  BY SMTT(30), <1>5, OnCpu DEF Fault, TypeOK, HoldsP
<1>6. ASSUME NEW c \in CPUs, NEW v \in KillPids, NEW q \in Slots, Kill(c, v, q) PROVE KillInv'
  <2>1. pid[q] = v /\ v # 0 /\ state[q] # "UNUSED"
    BY <1>6, SMTT(30) DEF Kill, IsFirst, Stacks, StateInv
  <2> QED BY <1>6, <2>1, SMTT(30) DEF Kill, TypeOK
<1>7. ASSUME NEW c \in CPUs, NEW q \in Slots, SchedPick(c, q) \/ Wakeup(c, q) \/ WaitSkip(c, q) PROVE KillInv'
  BY SMTT(30), <1>7, <1>1 DEF SchedPick, Wakeup, WakeSlot, WaitSkip, table, TypeOK
<1>8. ASSUME NEW c \in CPUs,
             \/ SchedIdle(c) \/ Switch(c) \/ Syscall(c) \/ SyscallReturn(c) \/ KilledTrap(c)
             \/ ForkParent(c) \/ ExitBegin(c) \/ ExitLock(c) \/ Reparent(c) \/ WaitBegin(c)
             \/ WaitLock(c) \/ WaitFails(c) \/ WaitSleep(c) \/ SleepLock(c)
      PROVE  KillInv'
  <2>1. UNCHANGED <<killed, pid, asked, state>>
    BY <1>8, SMTT(30) DEF SchedIdle, Switch, SchedBack, Sched, Resume, Syscall, SyscallReturn, KilledTrap,
       ForkParent, ExitBegin, ExitLock, Reparent, WaitBegin, WaitLock, WaitFails, WaitSleep,
       SleepLock, table, vars
  <2> QED BY <2>1, <1>1, SMTT(30)
<1>9. ASSUME NEW c \in CPUs, Yield(c) \/ ForkRun(c) \/ ExitZombie(c) \/ SleepPublish(c) PROVE KillInv'
  BY SMTT(30), <1>9, <1>1 DEF Yield, ForkRun, ExitZombie, SleepPublish, TypeOK
<1>10. CASE UNCHANGED vars
  BY <1>10, <1>1, Zenon DEF vars, table
<1> QED
  BY <1>2, <1>3, <1>4, <1>5, <1>6, <1>7, <1>8, <1>9, <1>10, Zenon DEF Next, Kernel

-------------------------------------------------------------------------------
(* Theorems.                                                               *)

IInv == TypeOK /\ Stacks /\ FamilyInv /\ WakeInv

\* The invariant is inductive for any number of CPUs and slots.
THEOREM Inductive == Spec => []IInv
<1>1. Init => IInv
  <2> SUFFICES ASSUME Init PROVE FamilyInv /\ WakeInv
    BY InitStacks, Zenon DEF IInv
  <2>1. initproc \in Slots /\ 0 \notin Slots
    BY ConstantsAssumption DEF initproc, Slots
  <2> QED BY <2>1, Zenon DEF Init, FamilyInv, WakeInv, Loc, NoProc
<1>2. IInv /\ [Next]_vars => IInv'
  BY StacksStep, FamilyStep, WakeStep, Zenon DEF IInv
<1> QED BY <1>1, <1>2, PTL DEF Spec

\* TypeOK, for every number of CPUs, slots and pids.
THEOREM TypeCorrect == Spec => []TypeOK
<1>1. IInv => TypeOK
  BY Zenon DEF IInv
<1> QED BY <1>1, Inductive, PTL

\* No kernel stack is ever shared, and wait() frees none that is in use
\* (acquire(&pp->lock) in kwait(), proc.c:385).
THEOREM StacksAreExclusive == Spec => []StackExclusive
<1>1. IInv => StackExclusive
  <2> SUFFICES ASSUME IInv, NEW c \in CPUs, on[c] # NoProc
               PROVE  /\ state[on[c]] \notin {"UNUSED", "USED"}
                      /\ \A d \in CPUs : on[d] = on[c] => d = c
    BY Zenon DEF StackExclusive
  <2>1. \A d \in CPUs : on[d] = on[c] => d = c
    BY OnCpu, Zenon DEF IInv
  <2>2. pc[on[c]] \in {"yield", "sleeping", "exit"} => state[on[c]] \notin {"UNUSED", "USED"}
    BY OnCpu DEF IInv, Stacks, StateInv, Located
  <2> QED BY <2>1, <2>2, OnCpu, Zenon DEF IInv
<1> QED BY <1>1, Inductive, PTL

\* The panics of sched() are unreachable (proc.c:478-483).
THEOREM SchedNeverPanics == Spec => []SchedPreconditions
<1>1. IInv => SchedPreconditions
  <2> SUFFICES ASSUME IInv, NEW c \in CPUs, on[c] # NoProc,
                      pc[on[c]] \in {"yield", "sleeping", "exit"}
               PROVE  /\ state[on[c]] # "RUNNING"
                      /\ {s \in Slots : plock[s] = c} = {on[c]}
                      /\ wait_lock # c
    BY Zenon DEF SchedPreconditions
  <2>1. on[c] \in Slots /\ plock[on[c]] = c /\ cproc[c] = on[c] /\ c # 0
    BY OnCpu, ConstantsAssumption DEF IInv, HoldsP
  <2>2. \A s \in Slots : plock[s] = c => s = on[c]
    BY <2>1 DEF IInv, Stacks, LockInv
  <2>3. state[on[c]] # "RUNNING"
    BY <2>1 DEF IInv, Stacks, StateInv, Located
  <2>4. wait_lock # c
    BY <2>1, Zenon DEF IInv, Stacks, LockInv, HoldsW
  <2> QED BY <2>1, <2>2, <2>3, <2>4
<1> QED BY <1>1, Inductive, PTL

\* The panic of release() is unreachable for p->lock and wait_lock, although the
\* CPU that releases p->lock got it in another thread.
THEOREM LocksFollowTheCpu == Spec => []ReleasedByHolder
<1>1. IInv => ReleasedByHolder
  BY OnCpu DEF IInv, ReleasedByHolder, Stacks, CpuInv, HoldsP, HoldsW
<1> QED BY <1>1, Inductive, PTL

\* sleep() and wakeup() in wait() and exit() lose no wakeup (proc.c:554-562).
THEOREM WakeupsArrive == Spec => []NoLostWakeup
<1>1. IInv => NoLostWakeup
  BY Zenon DEF IInv, NoLostWakeup, WakeInv
<1> QED BY <1>1, Inductive, PTL

\* Every process has a parent that can wait for it (reparent() in kexit()).
THEOREM ParentsAreAlive == Spec => []ParentIsAlive
<1>1. IInv => ParentIsAlive
  BY Zenon DEF IInv, ParentIsAlive, FamilyInv, TypeOK, NoProc
<1> QED BY <1>1, Inductive, PTL

\* As long as nobody calls kill(0), a process is killed only if it was meant.
THEOREM KillsAreMeant == ASSUME 0 \notin KillPids PROVE Spec => []KilledWasAsked
<1>1. Init => KillInv
  BY Zenon DEF Init, KillInv
<1>2. IInv /\ IInv' /\ KillInv /\ [Next]_vars => KillInv'
  BY KillStep, Zenon DEF IInv
<1>3. KillInv => KilledWasAsked
  BY Zenon DEF KillInv, KilledWasAsked
<1> QED BY <1>1, <1>2, <1>3, Inductive, PTL DEF Spec

===============================================================================
