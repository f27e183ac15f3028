----------------------------- MODULE LogTheorems ------------------------------
(***************************************************************************)
(* The theorems about the redo log of kernel/log.c.  Crashes and recovery  *)
(* keep the inductive invariant of LogProofs, and every step of the log is *)
(* a step of AtomicDisk; from these follow type correctness, pin balance,  *)
(* crash atomicity, and that log_write() never finds the log full while    *)
(* operations register fewer than MAXOPBLOCKS distinct blocks each.        *)
(*                                                                         *)
(* The last one counts credits.  begin_op() grants an operation one credit *)
(* for each of its MAXOPBLOCKS slots, and every block it registers costs   *)
(* one; a slot of the log is taken only when a credit is paid.             *)
(***************************************************************************)
EXTENDS LogProofs, FiniteSetTheorems

-------------------------------------------------------------------------------
(* Crash and recovery.                                                     *)

\* While recover_from_log() runs no process exists.
LEMMA BootLemma ==
  ASSUME BootInv, boot # "up"
  PROVE  \A k \in Locations \ {"off"} : ~At(k)
BY Zenon DEF BootInv, At

\* A crash leaves the disk, and with it the outcome of recovery.
LEMMA CrashInv ==
  ASSUME IInv, Crash
  PROVE  IInv' /\ Recovered' = Recovered
<1> USE DEF IInv, Crash, disk
<1>1. TypeOK'
  <2>1. /\ cache' \in [Blocks -> Data \cup {NoBuf}]
        /\ owner' \in [Blocks -> Procs \cup {Nobody}]
        /\ pins' \in [Blocks -> Nat]
        /\ buf' \in [Procs -> Blocks \cup {NoBuf}]
        /\ wrote' \in [Procs -> SUBSET Blocks]
    OBVIOUS
  <2>2. pc' \in [Procs -> Locations]
    BY Zenon DEF Locations
  <2>3. lh' \in Seq(Blocks) /\ crashes' \in 0..MaxCrashes
    BY ConstantsAssumption DEF TypeOK
  <2>4. committing' \in BOOLEAN
    BY Zenon
  <2> QED
    BY <2>1, <2>2, <2>3, <2>4, Zenon DEF TypeOK
<1>2. \A q \in Procs : pc'[q] = "off"
  OBVIOUS
<1>3. \A k \in Locations \ {"off"} : ~At(k)'
  BY <1>2, Zenon DEF At
<1>4. BootInv' /\ BufInv'
  BY <1>2, Zenon DEF BootInv, BufInv
<1>5. CommitInv'
  BY <1>2, Zenon DEF CommitInv, CommitSteps
<1>7. PhaseInv'
  BY <1>3, Zenon DEF PhaseInv, Locations
<1>8. HeaderInv'
  BY ConstantsAssumption DEF HeaderInv
<1>9. PinnedExactly'
  BY Zenon DEF PinnedExactly, Uninstalled
<1>10. Recovered' = Recovered
  BY RecoveredFrame, Zenon
<1>11. CopyInv'
  BY <1>3, <1>10, Zenon DEF CopyInv, Locations
<1> QED
  BY <1>1, <1>4, <1>5, <1>7, <1>8, <1>9, <1>10, <1>11, Zenon

\* read_head() adopts the header found on disk.
LEMMA ReadHeadInv ==
  ASSUME IInv, ReadHead
  PROVE  IInv' /\ Recovered' = Recovered
<1> USE DEF IInv, ReadHead, disk, bcache, local
<1>1. TypeOK'
  BY Zenon DEF TypeOK
<1>2. SameCommit /\ \A k \in Locations \ {"off"} : ~At(k)' /\ ~At(k)
  BY BootLemma, Zenon DEF SameCommit, At
<1>3. CommitInv' /\ BufInv'
  BY Zenon DEF CommitInv, BufInv
<1>5. head # <<>> => Len(head) > 0
  BY DEF TypeOK
<1>6. BootInv'
  BY <1>5, Zenon DEF BootInv
<1>7. PhaseInv'
  BY <1>2, Zenon DEF PhaseInv, Locations
<1>8. HeaderInv'
  BY DEF HeaderInv
<1>9. PinnedExactly'
  BY Zenon DEF PinnedExactly, Uninstalled
<1>10. Recovered' = Recovered
  BY RecoveredFrame, Zenon
<1>11. CopyInv'
  <2>1. \A c \in Blocks : cache[c] = NoBuf
    BY Zenon DEF BootInv
  <2>2. \A i \in 1..Len(lh') : ~(i <= tail')
    OBVIOUS
  <2> QED
    BY <1>2, <1>10, <2>1, <2>2, Zenon DEF CopyInv, Locations
<1> QED
  BY <1>1, <1>3, <1>6, <1>7, <1>8, <1>9, <1>10, <1>11, Zenon

\* install_trans(1), also when run again after a crash in the middle of it,
\* changes no outcome of recovery.
LEMMA RecoverInstallInv ==
  ASSUME IInv, RecoverInstall
  PROVE  IInv' /\ Recovered' = Recovered
<1> DEFINE b == lh[tail + 1]
<1> USE DEF IInv, RecoverInstall, InstallBlock, logvars, local
<1>0. /\ boot = "install" /\ lh = head /\ tail \in Nat /\ Len(lh) \in Nat
      /\ tail < Len(lh) /\ tail' = tail + 1 /\ head' = lh
      /\ b \in Blocks /\ tail + 1 \in 1..LOGBLOCKS
  BY ConstantsAssumption DEF BootInv, TypeOK, HeaderInv
<1>1. TypeOK'
  <2>1. logd[tail + 1] \in Data
    BY <1>0, Zenon DEF TypeOK
  <2> QED
    BY <1>0, <2>1 DEF TypeOK
<1>2. SameCommit /\ \A k \in Locations \ {"off"} : ~At(k)' /\ ~At(k)
  BY BootLemma, Zenon DEF SameCommit, At
<1>3. CommitInv' /\ BufInv'
  BY Zenon DEF CommitInv, BufInv
<1>5. BootInv'
  <2>1. tail' # Len(lh) => tail' < Len(lh)
    BY <1>0
  <2> QED
    BY <1>0, <2>1, Zenon DEF BootInv
<1>6. PhaseInv'
  BY <1>0, <1>2, Zenon DEF PhaseInv, Locations
<1>7. HeaderInv'
  BY DEF HeaderInv
<1>8. PinnedExactly'
  <2>1. \A c \in Blocks : pins[c] = 0
    BY <1>0, Zenon DEF BootInv
  <2>2. boot' # "up"
    BY <1>0, Zenon
  <2> QED
    BY <2>1, <2>2, Zenon DEF PinnedExactly, Uninstalled
<1>9. Recovered' = Recovered
  <2>1. \A c \in Blocks : c # b => home'[c] = home[c]
    BY <1>0, Zenon DEF TypeOK
  <2>2. \E i \in 1..Len(head) : head[i] = b
    BY <1>0
  <2> QED
    BY <1>0, <2>1, <2>2 DEF Recovered
<1>10. CopyInv'
  <2>1. Recovered[b] = logd[tail + 1]
    BY <1>0, RecoveredValue
  <2>2. /\ home'[b] = logd[tail + 1] /\ cache'[b] = logd[tail + 1]
        /\ \A c \in Blocks : c # b => home'[c] = home[c] /\ cache'[c] = cache[c]
    BY <1>0, Zenon DEF TypeOK
  <2>3. \A i \in 1..Len(lh) : i <= tail' => home'[lh[i]] = logd[i]
    <3> SUFFICES ASSUME NEW i \in 1..Len(lh), i <= tail'
                 PROVE  home'[lh[i]] = logd[i]
      OBVIOUS
    <3>1. CASE i = tail + 1
      BY <3>1, <2>2, Zenon
    <3>2. CASE i # tail + 1
      <4>1. i <= tail
        BY <3>2, <1>0
      <4>2. home[lh[i]] = logd[i]
        BY <4>1, <1>0, Zenon DEF CopyInv
      <4>3. lh[i] # b /\ lh[i] \in Blocks
        <5>1. tail + 1 \in 1..Len(lh)
          BY <1>0
        <5>2. lh[i] = lh[tail + 1] => i = tail + 1
          BY <5>1, Zenon DEF HeaderInv
        <5>3. lh[i] \in Blocks
          BY DEF TypeOK
        <5> QED
          BY <5>2, <5>3, <3>2, Zenon
      <4> QED
        BY <4>2, <4>3, <2>2, Zenon
    <3> QED
      BY <3>1, <3>2, Zenon
  <2>4. \A c \in Blocks : cache'[c] # NoBuf => cache'[c] = Recovered[c]
    BY <1>0, <2>1, <2>2 DEF CopyInv
  <2>5. boot' # "up"
    BY <1>0, Zenon
  <2> QED
    BY <1>0, <1>2, <1>9, <2>3, <2>4, <2>5 DEF CopyInv, Locations
<1> QED
  BY <1>1, <1>3, <1>5, <1>6, <1>7, <1>8, <1>9, <1>10, Zenon

\* Recovery ends by erasing the header; the other processes come to life.
LEMMA RecoverClearInv ==
  ASSUME IInv, RecoverClear
  PROVE  IInv' /\ Recovered' = Recovered
<1> USE DEF IInv, RecoverClear, bcache
<1>0. boot = "clear" /\ lh = head /\ \A q \in Procs : pc[q] = "off" /\ pc'[q] = "idle"
  BY Zenon DEF BootInv
<1>1. TypeOK'
  BY DEF TypeOK, Locations
<1>2. \A k \in Locations \ {"idle"} : ~At(k)'
  BY <1>0, Zenon DEF At
<1>3. CommitInv' /\ BufInv' /\ BootInv'
  BY <1>0, Zenon DEF CommitInv, BufInv, BootInv, CommitSteps
<1>5. PhaseInv'
  BY <1>2, Zenon DEF PhaseInv, Locations
<1>6. HeaderInv'
  BY ConstantsAssumption DEF HeaderInv
<1>7. PinnedExactly'
  <2>1. Uninstalled' = {}
    BY <1>2 DEF Uninstalled, Locations
  <2>2. \A c \in Blocks : pins[c] = 0
    BY <1>0, Zenon DEF BootInv
  <2> QED
    BY <2>1, <2>2, Zenon DEF PinnedExactly
<1>8. \A c \in Blocks : Recovered[c] = home[c]
  <2> SUFFICES ASSUME NEW c \in Blocks PROVE Recovered[c] = home[c]
    OBVIOUS
  <2>1. CASE \E i \in 1..Len(head) : head[i] = c
    <3>1. PICK i \in 1..Len(head) : head[i] = c
      BY <2>1, Zenon
    <3>2. tail = Len(lh)
      BY <1>0, <3>1 DEF BootInv, TypeOK
    <3>3. home[lh[i]] = logd[i]
      BY <1>0, <3>1, <3>2 DEF CopyInv, TypeOK
    <3> QED
      BY <1>0, <3>1, <3>3, RecoveredValue, Zenon
  <2>2. CASE ~ \E i \in 1..Len(head) : head[i] = c
    BY <2>2, RecoveredValue, Zenon
  <2> QED
    BY <2>1, <2>2, Zenon
<1>9. Recovered' = Recovered
  <2>1. \A c \in Blocks : Recovered'[c] = home[c]
    BY DEF Recovered
  <2>2. Recovered = [c \in Blocks |-> Recovered[c]] /\ Recovered' = [c \in Blocks |-> Recovered'[c]]
    BY Zenon DEF Recovered
  <2> QED
    BY <1>8, <2>1, <2>2, Zenon
<1>10. CopyInv'
  <2>1. Logged' = {}
    BY DEF Logged
  <2>2. \A c \in Blocks : cache[c] # NoBuf => cache[c] = Recovered[c]
    BY <1>0, Zenon DEF CopyInv
  <2> QED
    BY <1>2, <1>8, <1>9, <2>1, <2>2, Zenon DEF CopyInv, Locations
<1> QED
  BY <1>1, <1>3, <1>5, <1>6, <1>7, <1>9, <1>10, Zenon

-------------------------------------------------------------------------------
(* The invariants, for every behaviour.                                    *)

\* Each handler of log.c, each buffer operation and each crash keeps the
\* inductive invariant.
LEMMA NextInv == IInv /\ Counted /\ Counted' /\ [Next]_vars => IInv'
<1> SUFFICES ASSUME IInv, Counted, Counted', [Next]_vars PROVE IInv'
  OBVIOUS
<1>1. ASSUME NEW p \in Procs, Step(p) PROVE IInv'
  BY <1>1, BreadInv, BrelseInv, BeginWaitInv, BeginOpInv, LogWriteInv, EndOpInv,
     CommitInvStep, WriteLogInv, WriteHeadInv, InstallInv, ClearHeadInv, EndCommitInv
     DEF Step
<1>2. ASSUME NEW b \in Blocks, Recycle(b) PROVE IInv'
  BY <1>2, RecycleInv, Zenon
<1>3. CASE Crash
  BY <1>3, CrashInv, Zenon
<1>4. CASE Recover
  BY <1>4, ReadHeadInv, RecoverInstallInv, RecoverClearInv, Zenon DEF Recover
<1>5. CASE UNCHANGED vars
  BY <1>5, StutterInv, Zenon
<1> QED
  BY <1>1, <1>2, <1>3, <1>4, <1>5, Zenon DEF Next

-------------------------------------------------------------------------------
(* The log implements AtomicDisk.                                          *)

\* What a bread() returns is decided by the cache and the outcome of recovery.
LEMMA CurrentFrame ==
  ASSUME Recovered' = Recovered,
         \A c \in Blocks : cache'[c] = cache[c] \/ {cache[c], cache'[c]} \subseteq {NoBuf, Recovered[c]}
  PROVE  Current' = Current
<1>1. \A c \in Blocks :
        (IF cache'[c] # NoBuf THEN cache'[c] ELSE Recovered'[c]) =
        (IF cache[c] # NoBuf THEN cache[c] ELSE Recovered[c])
  OBVIOUS
<1> QED
  BY <1>1, Zenon DEF Current

\* bread() of a block that is not cached finds at home what recovery would
\* give it.
LEMMA BreadStutters ==
  ASSUME IInv, NEW p \in Procs, NEW b \in Blocks, Bread(p, b)
  PROVE  UNCHANGED <<Current, Recovered, outstanding>>
<1> USE DEF IInv, Bread, disk, logvars
<1>1. Recovered' = Recovered
  BY RecoveredFrame, Zenon
<1>2. boot = "up"
  BY UpLemma, Zenon
<1>3. cache[b] = NoBuf => home[b] = Recovered[b]
  BY <1>2, Zenon DEF CopyInv
<1>4. cache'[b] = Contents(b) /\ \A c \in Blocks : c # b => cache'[c] = cache[c]
  BY Zenon DEF TypeOK
<1>5. Current' = Current
  BY <1>1, <1>3, <1>4, CurrentFrame, Zenon DEF Contents
<1> QED
  BY <1>1, <1>5, Zenon

\* bget() recycles only buffers that equal what recovery would give.
LEMMA RecycleStutters ==
  ASSUME IInv, NEW b \in Blocks, Recycle(b)
  PROVE  UNCHANGED <<Current, Recovered, outstanding>>
<1> USE DEF IInv, Recycle, disk, logvars
<1>1. Recovered' = Recovered
  BY RecoveredFrame, Zenon
<1>2. b \notin Uninstalled
  BY DEF PinnedExactly
<1>3. boot = "up" /\ head = <<>> => b \notin Logged
  <2> SUFFICES ASSUME boot = "up", head = <<>> PROVE b \notin Logged
    OBVIOUS
  <2>1. CASE At("install") \/ At("clear")
    BY <2>1 DEF PhaseInv, Logged
  <2>2. CASE ~(At("install") \/ At("clear"))
    BY <2>2, <1>2 DEF Uninstalled, Logged
  <2> QED
    BY <2>1, <2>2, Zenon
<1>4. cache[b] = Recovered[b]
  BY <1>3, Zenon DEF CopyInv
<1>5. cache'[b] = NoBuf /\ \A c \in Blocks : c # b => cache'[c] = cache[c]
  BY Zenon DEF TypeOK
<1>6. Current' = Current
  BY <1>1, <1>4, <1>5, CurrentFrame
<1> QED
  BY <1>1, <1>6, Zenon

\* write_log() copies buffers that are in the cache because they are pinned.
LEMMA WriteLogStutters ==
  ASSUME IInv, NEW p \in Procs, WriteLog(p)
  PROVE  UNCHANGED <<Current, Recovered, outstanding>>
<1> DEFINE b == lh[tail + 1]
<1> USE DEF IInv, WriteLog, logvars
<1>1. boot = "up" /\ At("write_log") /\ ~At("install") /\ ~At("clear")
  BY CommitterLemma, Zenon DEF CommitSteps
<1>2. head = <<>> /\ tail + 1 \in 1..Len(lh)
  BY <1>1 DEF PhaseInv, TypeOK
<1>3. b \in Logged /\ b \in Blocks
  BY <1>2, SMTT(30) DEF Logged, TypeOK
<1>4. cache'[b] = cache[b] /\ \A c \in Blocks : c # b => cache'[c] = cache[c]
  BY <1>1, <1>2, <1>3, SMTT(30) DEF CopyInv, TypeOK, Contents
<1>5. Recovered' = Recovered
  <2>1. head = <<>> /\ head' = head /\ home' = home
    BY <1>2, Zenon
  <2> HIDE DEF IInv, WriteLog, logvars
  <2> QED BY <2>1 DEF Recovered
<1>6. Current' = Current
  BY <1>4, <1>5, CurrentFrame, Zenon
<1> QED
  BY <1>5, <1>6, Zenon

\* install_trans() replaces a buffer by the log's copy of it, which is equal.
LEMMA InstallStutters ==
  ASSUME IInv, Recovered' = Recovered,
         tail + 1 \in 1..Len(lh), head = lh, InstallBlock(lh[tail + 1])
  PROVE  Current' = Current
<1> DEFINE b == lh[tail + 1]
<1> USE DEF IInv, InstallBlock
<1>1. b \in Blocks /\ head # <<>>
  BY DEF TypeOK
<1>2. cache'[b] = logd[tail + 1] /\ \A c \in Blocks : c # b => cache'[c] = cache[c]
  BY <1>1, Zenon DEF TypeOK
<1>3. Recovered[b] = logd[tail + 1]
  BY RecoveredValue, Zenon
<1>4. cache[b] # NoBuf => cache[b] = Recovered[b]
  BY <1>1, Zenon DEF CopyInv
<1> QED
  BY <1>2, <1>3, <1>4, CurrentFrame

\* write_head() with a full header is the commit point; no reader notices.
LEMMA WriteHeadCommits ==
  ASSUME IInv, Counted, NEW p \in Procs, WriteHead(p)
  PROVE  Disk!Commit
<1>1. Recovered' = Current
  BY WriteHeadInv, Zenon
<1>2. outstanding = 0
  BY CommitterLemma, Zenon DEF WriteHead, CommitSteps, Counted, IInv, CommitInv
<1>3. UNCHANGED <<cache, outstanding>>
  BY Zenon DEF WriteHead, bcache, logvars
<1>4. \A c \in Blocks : Recovered'[c] = IF cache[c] # NoBuf THEN cache[c] ELSE Recovered[c]
  BY <1>1, Zenon DEF Current
<1>5. \A c \in Blocks :
        (IF cache'[c] # NoBuf THEN cache'[c] ELSE Recovered'[c]) =
        (IF cache[c] # NoBuf THEN cache[c] ELSE Recovered[c])
  BY <1>3, <1>4, Zenon
<1>6. Current' = Current
  BY <1>5, Zenon DEF Current
<1> QED
  BY <1>1, <1>2, <1>3, <1>6, Zenon DEF Disk!Commit

\* log_write() is a write of the abstract disk, inside an operation.
LEMMA LogWriteWrites ==
  ASSUME IInv, NEW p \in Procs, NEW v \in Data, LogWrite(p, v)
  PROVE  \E b \in Blocks : Disk!Write(b, v)
<1> DEFINE b == buf[p]
<1> USE DEF IInv, LogWrite, MayLog
<1>1. b \in Blocks
  BY Zenon DEF BufInv
<1>2. Recovered' = Recovered
  BY RecoveredFrame, Zenon
<1>3. cache'[b] = v /\ v # NoBuf /\ \A c \in Blocks : c # b => cache'[c] = cache[c]
  BY <1>1, ConstantsAssumption, Zenon DEF TypeOK
<1>4. \A c \in Blocks :
        (IF cache'[c] # NoBuf THEN cache'[c] ELSE Recovered'[c]) =
        IF c = b THEN v ELSE IF cache[c] # NoBuf THEN cache[c] ELSE Recovered[c]
  BY <1>2, <1>3, Zenon
<1>5. Current' = [Current EXCEPT ![b] = v]
  <2>1. Current' = [c \in Blocks |-> IF c = b THEN v ELSE Current[c]]
    BY <1>4 DEF Current
  <2>2. Current = [c \in Blocks |-> Current[c]]
    BY Zenon DEF Current
  <2> HIDE DEF b
  <2> QED
    BY <1>1, <2>1, <2>2, Zenon
<1>6. outstanding > 0
  BY DEF TypeOK
<1> QED
  BY <1>1, <1>2, <1>5, <1>6, ZenonT(30) DEF Disk!Write

\* A crash takes the abstract disk back to its durable contents.
LEMMA CrashCrashes ==
  ASSUME IInv, Crash
  PROVE  Disk!Crash
<1>1. Recovered' = Recovered
  BY RecoveredFrame, Zenon DEF Crash
<1>2. Current' = [c \in Blocks |-> Recovered[c]]
  BY <1>1, Zenon DEF Current, Crash
<1>3. Recovered = [c \in Blocks |-> Recovered[c]]
  BY Zenon DEF Recovered
<1> QED
  BY <1>1, <1>2, <1>3, Zenon DEF Disk!Crash, Crash

\* Steps that leave disk and cache alone leave the abstract disk alone.
LEMMA QuietStutters ==
  ASSUME UNCHANGED disk, UNCHANGED cache
  PROVE  UNCHANGED <<Current, Recovered>>
<1>1. Recovered' = Recovered
  BY RecoveredFrame, Zenon
<1> QED
  BY <1>1, Zenon DEF Current

\* A step of a process is a step of the abstract disk or a stuttering step.
LEMMA StepRefines ==
  ASSUME IInv, Counted, NEW p \in Procs, Step(p)
  PROVE  Disk!Next \/ UNCHANGED <<Current, Recovered, outstanding>>
<1>1. ASSUME NEW b \in Blocks, Bread(p, b) PROVE UNCHANGED <<Current, Recovered, outstanding>>
  BY <1>1, BreadStutters, Zenon
<1>2. CASE Brelse(p) \/ BeginWait(p) \/ KillSleeper(p) \/ Commit(p) \/ EndCommit(p)
  BY <1>2, QuietStutters, Zenon DEF Brelse, BeginWait, KillSleeper, Commit, EndCommit, bcache, logvars
<1>3. CASE BeginOp(p)
  <2>1. Disk!Begin
    BY <1>3, QuietStutters, Zenon DEF BeginOp, bcache, Disk!Begin
  <2> QED
    BY <2>1, Zenon DEF Disk!Next
<1>4. ASSUME NEW v \in Data, LogWrite(p, v) PROVE Disk!Next
  BY <1>4, LogWriteWrites, Zenon DEF Disk!Next
<1>5. CASE EndOp(p)
  <2>1. outstanding > 0
    BY <1>5 DEF Counted, EndOp, Working
  <2>2. Disk!End
    BY <1>5, <2>1, QuietStutters, Zenon DEF EndOp, bcache, Disk!End
  <2> QED
    BY <2>2, Zenon DEF Disk!Next
<1>6. CASE WriteLog(p)
  BY <1>6, WriteLogStutters, Zenon
<1>7. CASE WriteHead(p)
  BY <1>7, WriteHeadCommits, Zenon DEF Disk!Next
<1>8. CASE Install(p)
  <2>1. head = lh /\ tail + 1 \in 1..Len(lh)
    <3>1. boot = "up" /\ At("install")
      BY <1>8, CommitterLemma, Zenon DEF Install, CommitSteps
    <3> QED
      BY <3>1 DEF IInv, PhaseInv, TypeOK
  <2>2. Recovered' = Recovered
    BY <1>8, InstallInv
  <2>3. InstallBlock(lh[tail + 1]) /\ outstanding' = outstanding
    BY <1>8, Zenon DEF Install, logvars
  <2> QED
    BY <2>1, <2>2, <2>3, InstallStutters
<1>9. CASE ClearHead(p)
  <2>1. Recovered' = Recovered
    BY <1>9, ClearHeadInv, Zenon
  <2> QED
    BY <1>9, <2>1, Zenon DEF ClearHead, Current, bcache
<1> QED
  BY <1>1, <1>2, <1>3, <1>4, <1>5, <1>6, <1>7, <1>8, <1>9 DEF Step

\* Every step of the log implements a step of the abstract disk.
LEMMA NextRefines == IInv /\ Counted /\ [Next]_vars => [Disk!Next]_(Disk!vars)
<1> SUFFICES ASSUME IInv, Counted, [Next]_vars
             PROVE  Disk!Next \/ UNCHANGED <<Current, Recovered, outstanding>>
  BY Zenon DEF Disk!vars
<1>1. ASSUME NEW b \in Blocks, Recycle(b) PROVE UNCHANGED <<Current, Recovered, outstanding>>
  BY <1>1, RecycleStutters, Zenon
<1>2. CASE Crash
  BY <1>2, CrashCrashes, Zenon DEF Disk!Next
<1>3. CASE ReadHead
  BY <1>3, QuietStutters, Zenon DEF ReadHead, bcache
<1>4. CASE RecoverInstall
  <2>1. head = lh /\ tail + 1 \in 1..Len(lh)
    BY <1>4 DEF IInv, BootInv, TypeOK, RecoverInstall
  <2>2. Recovered' = Recovered
    BY <1>4, RecoverInstallInv, Zenon
  <2>3. InstallBlock(lh[tail + 1]) /\ outstanding' = outstanding
    BY <1>4, Zenon DEF RecoverInstall, logvars
  <2> QED
    BY <2>1, <2>2, <2>3, InstallStutters, Zenon
<1>5. CASE RecoverClear
  <2>1. Recovered' = Recovered
    BY <1>5, RecoverClearInv, Zenon
  <2> QED
    BY <1>5, <2>1, Zenon DEF RecoverClear, Current, bcache
<1>6. CASE UNCHANGED vars
  BY <1>6, QuietStutters, Zenon DEF vars, bcache, logvars
<1> QED
  BY <1>1, <1>2, <1>3, <1>4, <1>5, <1>6, StepRefines DEF Next, Recover

\* A disk as mkfs leaves it is an initial state of the abstract disk.
LEMMA InitRefines == Init => Disk!Init
<1> SUFFICES ASSUME Init PROVE Disk!Init
  OBVIOUS
<1>1. Recovered = home
  BY DEF Recovered, Init
<1>2. Current = [c \in Blocks |-> Recovered[c]]
  BY Zenon DEF Current, Init, PowerOn
<1>3. home \in [Blocks -> Data]
  BY InitInv, Zenon DEF IInv, TypeOK
<1> QED
  BY <1>1, <1>2, <1>3 DEF Disk!Init, Init, PowerOn

-------------------------------------------------------------------------------
(* Counting the running operations.                                        *)

Ops == {p \in Procs : pc[p] \in Working}

\* The number of operations counted is the number of operations running.
CountInv == outstanding = Cardinality(Ops)

\* Only finitely many operations are between begin_op() and end_op().
LEMMA OpsFinite == IsFiniteSet(Ops) /\ IsFiniteSet(Ops)'
BY ConstantsAssumption, FS_Subset, Zenon DEF Ops

\* log.outstanding stays right when no operation starts or ends.
LEMMA CountSame ==
  ASSUME CountInv, outstanding' = outstanding,
         \A q \in Procs : pc'[q] \in Working <=> pc[q] \in Working
  PROVE  CountInv'
<1>1. Ops' = Ops
  BY Zenon DEF Ops
<1> QED
  BY <1>1, Zenon DEF CountInv

\* log.outstanding += 1 in begin_op() counts the new operation.
LEMMA CountEnter ==
  ASSUME NEW p \in Procs, CountInv, outstanding' = outstanding + 1,
         pc[p] \notin Working,
         \A q \in Procs : pc'[q] \in Working <=> pc[q] \in Working \/ q = p
  PROVE  CountInv'
<1>1. Ops' = Ops \cup {p}
  BY Zenon DEF Ops
<1>2. p \notin Ops
  BY Zenon DEF Ops
<1>3. Cardinality(Ops') = Cardinality(Ops) + 1
  BY <1>1, <1>2, OpsFinite, FS_AddElement, Zenon
<1> QED
  BY <1>3, Zenon DEF CountInv

\* log.outstanding -= 1 in end_op() uncounts the finished one.
LEMMA CountLeave ==
  ASSUME NEW p \in Procs, CountInv, outstanding' = outstanding - 1,
         pc[p] \in Working,
         \A q \in Procs : pc'[q] \in Working <=> pc[q] \in Working /\ q # p
  PROVE  CountInv'
<1>1. Ops' = Ops \ {p}
  BY Zenon DEF Ops
<1>2. p \in Ops
  BY Zenon DEF Ops
<1>3. Cardinality(Ops') = Cardinality(Ops) - 1
  BY <1>1, <1>2, OpsFinite, FS_RemoveElement, Zenon
<1> QED
  BY <1>3, Zenon DEF CountInv

\* log.outstanding is zero exactly when no operation runs, the test by which
\* end_op() decides to commit.
LEMMA CountPositive == CountInv => Counted
<1>1. Cardinality(Ops) \in Nat /\ (Cardinality(Ops) = 0 <=> Ops = {})
  BY OpsFinite, FS_CardinalityType, FS_EmptySet, Zenon
<1> QED
  BY <1>1, Zenon DEF CountInv, Counted, Ops


\* No operation runs on a machine that boots.
LEMMA InitCount == Init => CountInv
<1> SUFFICES ASSUME Init PROVE CountInv
  OBVIOUS
<1>1. Ops = {}
  BY Zenon DEF Init, PowerOn, Ops, Working
<1> QED
  BY <1>1, FS_EmptySet, Zenon DEF CountInv, Init, PowerOn

\* begin_op() and end_op() are the only steps that change the count, and a
\* crash resets it.
LEMMA NextCount == IInv /\ CountInv /\ [Next]_vars => CountInv'
<1> SUFFICES ASSUME IInv, CountInv, [Next]_vars PROVE CountInv'
  OBVIOUS
<1> DEFINE Same == \A q \in Procs : pc'[q] \in Working <=> pc[q] \in Working
<1>0. pc \in [Procs -> Locations]
  BY Zenon DEF IInv, TypeOK
<1>1. ASSUME NEW p \in Procs, Step(p) PROVE CountInv'
  <2>1. ASSUME NEW b \in Blocks, Bread(p, b) PROVE CountInv'
    BY <2>1, <1>0, CountSame, Zenon DEF Bread, logvars, Working
  <2>2. CASE Brelse(p) \/ BeginWait(p) \/ KillSleeper(p)
    BY <2>2, <1>0, CountSame, Zenon DEF Brelse, BeginWait, KillSleeper, logvars, Working
  <2>3. CASE BeginOp(p)
    BY <2>3, <1>0, CountEnter, Zenon DEF BeginOp, Working
  <2>4. ASSUME NEW v \in Data, LogWrite(p, v) PROVE CountInv'
    BY <2>4, <1>0, CountSame, Zenon DEF LogWrite
  <2>5. CASE EndOp(p)
    BY <2>5, <1>0, CountLeave, Zenon DEF EndOp, WakeupLog, Working
  <2>6. CASE Commit(p) \/ WriteLog(p) \/ WriteHead(p) \/ Install(p) \/ ClearHead(p)
    BY <2>6, <1>0, CountSame, Zenon DEF Commit, WriteLog, WriteHead, Install, ClearHead, logvars, Working
  <2>7. CASE EndCommit(p)
    BY <2>7, <1>0, CountSame, Zenon DEF EndCommit, WakeupLog, Working
  <2> QED
    BY <1>1, <2>1, <2>2, <2>3, <2>4, <2>5, <2>6, <2>7, SMTT(30) DEF Step
<1>2. CASE Crash
  <2>1. Ops' = {}
    BY <1>2, Zenon DEF Crash, Ops, Working
  <2> QED
    BY <1>2, <2>1, FS_EmptySet, Zenon DEF CountInv, Crash
<1>3. CASE RecoverClear
  <2>1. Same
    BY <1>3, Zenon DEF RecoverClear, IInv, BootInv, Working
  <2> QED
    BY <1>3, <2>1, CountSame, Zenon DEF RecoverClear
<1>4. CASE ReadHead \/ RecoverInstall \/ UNCHANGED vars \/ \E b \in Blocks : Recycle(b)
  BY <1>4, CountSame, Zenon DEF ReadHead, RecoverInstall, Recycle, vars, logvars, local
<1> QED
  BY <1>1, <1>2, <1>3, <1>4, Zenon DEF Next, Recover

-------------------------------------------------------------------------------
(* The theorems.                                                           *)

\* The inductive invariant holds throughout.
LEMMA Inductive == Spec => [](IInv /\ CountInv)
<1>1. CountInv' => Counted'
  BY CountPositive, PTL
<1>2. IInv /\ CountInv /\ [Next]_vars => IInv' /\ CountInv'
  BY <1>1, CountPositive, NextInv, NextCount, Zenon
<1> QED
  BY <1>2, InitInv, InitCount, PTL DEF Spec

\* Every variable of the log keeps its type; in particular no pin count of
\* bpin()/bunpin() and no count of outstanding operations falls below zero.
THEOREM TypeCorrect == Spec => []TypeOK
BY Inductive, PTL DEF IInv

\* bpin()/bunpin() balance: the log references exactly the registered blocks
\* that install_trans() has not reached.
THEOREM PinBalance == Spec => []PinnedExactly
BY Inductive, PTL DEF IInv

\* A buffer that differs from what recovery would restore is registered.
LEMMA IInvDirty == IInv => DirtyIsLogged
<1> SUFFICES ASSUME IInv PROVE DirtyIsLogged
  OBVIOUS
<1>1. \A b \in Blocks : Current[b] # Recovered[b] => b \in Logged
  BY Zenon DEF IInv, CopyInv, Current
<1> QED
  BY <1>1, Zenon DEF IInv, HeaderInv, DirtyIsLogged

\* log_write() with absorption never leaves a changed buffer out of the log
\* header and never enters a block twice.
THEOREM DirtyLogged == Spec => []DirtyIsLogged
BY Inductive, IInvDirty, PTL

\* Crash atomicity (log.c:10-16): whatever the instant of a crash, the log
\* makes the disk come back with whole groups of finished operations only.
THEOREM CrashAtomicity == Spec => AtomicGroups
<1>1. Spec => Disk!Init /\ [][Disk!Next]_(Disk!vars)
  BY Inductive, CountPositive, InitRefines, NextRefines, PTL DEF Spec
<1> QED
  BY <1>1, Zenon DEF AtomicGroups, Disk!Spec

-------------------------------------------------------------------------------
(* Log space.                                                              *)

Slots == 1..MAXOPBLOCKS

\* The slots that running operations have reserved and not used.
Credits == {c \in Ops \X Slots : c[2] > Cardinality(wrote[c[1]])}

\* What a running operation registered is in the header, and is little enough.
OpInv ==
  \A p \in Ops :
    /\ wrote[p] \subseteq Logged
    /\ IsFiniteSet(wrote[p])
    /\ Cardinality(wrote[p]) <= OPBLOCKS

SpaceInv ==
  /\ OpInv
  /\ Len(lh) + Cardinality(Credits) <= LOGBLOCKS

-------------------------------------------------------------------------------
\* Reservations of n operations take n * MAXOPBLOCKS slots at most.
LEMMA CreditsFinite ==
  ASSUME CountInv
  PROVE  /\ IsFiniteSet(Credits)
         /\ Cardinality(Credits) \in Nat
         /\ Cardinality(Credits) <= outstanding * MAXOPBLOCKS
<1>2. IsFiniteSet(Ops \X Slots) /\ Cardinality(Ops \X Slots) = Cardinality(Ops) * MAXOPBLOCKS
  <2>1. IsFiniteSet(Slots) /\ Cardinality(Slots) = MAXOPBLOCKS - 1 + 1
    BY FS_Interval, ConstantsAssumption DEF Slots
  <2> QED
    BY <2>1, OpsFinite, FS_Product, ConstantsAssumption
<1>3. Credits \subseteq Ops \X Slots
  BY Zenon DEF Credits
<1>4. IsFiniteSet(Credits) /\ Cardinality(Credits) <= Cardinality(Ops \X Slots)
  BY <1>2, <1>3, FS_Subset, FS_CardinalityType, Zenon
<1> QED
  BY <1>2, <1>4, FS_CardinalityType, FS_EmptySet, Zenon DEF CountInv

\* The same as an implication between state predicates, and after a step.
CreditFacts ==
  /\ IsFiniteSet(Credits)
  /\ Cardinality(Credits) \in Nat
  /\ Cardinality(Credits) <= outstanding * MAXOPBLOCKS

\* Reservations in a state.
LEMMA CreditsState == CountInv => CreditFacts
BY CreditsFinite, Zenon DEF CreditFacts

\* Reservations after a step.
LEMMA CreditsNext == CountInv' => CreditFacts'
BY CreditsState, PTL

\* Before anything runs nothing is reserved.
LEMMA InitSpace == Init => SpaceInv
<1> SUFFICES ASSUME Init PROVE SpaceInv
  OBVIOUS
<1>1. Ops = {}
  BY Zenon DEF Init, PowerOn, Ops, Working
<1>2. Credits = {}
  BY <1>1, Zenon DEF Credits
<1>3. Cardinality(Credits) = 0 /\ Len(lh) = 0
  BY <1>2, FS_EmptySet, Zenon DEF Init, PowerOn
<1> QED
  BY <1>1, <1>3, ConstantsAssumption DEF SpaceInv, OpInv

\* Steps that neither admit nor end an operation nor register a block.
LEMMA QuietSpace ==
  ASSUME SpaceInv, UNCHANGED <<lh, wrote>>,
         \A q \in Procs : pc'[q] \in Working <=> pc[q] \in Working
  PROVE  SpaceInv'
<1>1. Ops' = Ops /\ Logged' = Logged
  BY Zenon DEF Ops, Logged
<1>2. Credits' = Credits
  BY <1>1, Zenon DEF Credits
<1> QED
  BY <1>1, <1>2, Zenon DEF SpaceInv, OpInv

\* Steps after which no operation runs: a header fits the log by itself.
LEMMA IdleSpace ==
  ASSUME IInv', \A q \in Procs : pc'[q] \notin Working
  PROVE  SpaceInv'
<1>1. Ops' = {}
  BY Zenon DEF Ops
<1>2. Credits' = {}
  BY <1>1, Zenon DEF Credits
<1>3. Cardinality(Credits') = 0
  BY <1>2, FS_EmptySet, Zenon
<1>4. Len(lh') <= LOGBLOCKS /\ Len(lh') \in Nat
  BY DEF IInv, HeaderInv, TypeOK
<1> QED
  BY <1>1, <1>3, <1>4 DEF SpaceInv, OpInv

\* begin_op() admits an operation only when a full reservation fits.
LEMMA BeginOpSpace ==
  ASSUME IInv, CountInv', SpaceInv, NEW p \in Procs, BeginOp(p)
  PROVE  SpaceInv'
<1>1. Ops' = Ops \cup {p}
  BY Zenon DEF BeginOp, Ops, Working, IInv, TypeOK
<1>2. wrote'[p] = {} /\ \A q \in Procs : q # p => wrote'[q] = wrote[q]
  BY Zenon DEF BeginOp, IInv, TypeOK
<1>3. lh' = lh /\ Logged' = Logged /\ outstanding' = outstanding + 1
  BY Zenon DEF BeginOp, Logged
<1>4. Len(lh) + (outstanding + 1) * MAXOPBLOCKS <= LOGBLOCKS
  <2>1. Len(lh) \in Nat /\ outstanding \in Nat /\ MAXOPBLOCKS \in Nat /\ LOGBLOCKS \in Nat
    BY ConstantsAssumption DEF IInv, TypeOK
  <2>2. (outstanding + 1) * MAXOPBLOCKS \in Nat
    BY <2>1
  <2> QED
    BY <2>1, <2>2, SMTT(30) DEF BeginOp, MustWait
<1>5. /\ Cardinality(Credits') \in Nat
      /\ Cardinality(Credits') <= (outstanding + 1) * MAXOPBLOCKS
  BY <1>3, CreditsNext, Zenon DEF CreditFacts
<1>6. Len(lh') + Cardinality(Credits') <= LOGBLOCKS
  <2>1. Len(lh) \in Nat /\ (outstanding + 1) * MAXOPBLOCKS \in Nat /\ LOGBLOCKS \in Nat
    BY ConstantsAssumption DEF IInv, TypeOK
  <2> QED
    BY <1>3, <1>4, <1>5, <2>1, SMTT(30)
<1>7. Cardinality({}) = 0 /\ IsFiniteSet({}) /\ 0 <= OPBLOCKS
  BY FS_EmptySet, ConstantsAssumption
<1>8. OpInv'
  BY <1>1, <1>2, <1>3, <1>7, Zenon DEF SpaceInv, OpInv, Ops
<1> QED
  BY <1>6, <1>8, Zenon DEF SpaceInv

\* end_op() gives its unused slots back.
LEMMA EndOpSpace ==
  ASSUME IInv, CountInv, SpaceInv, NEW p \in Procs, EndOp(p)
  PROVE  SpaceInv'
<1>1. Ops' = Ops \ {p}
  BY Zenon DEF EndOp, WakeupLog, Ops, Working, IInv, TypeOK
<1>2. \A q \in Procs : q # p => wrote'[q] = wrote[q]
  BY Zenon DEF EndOp, IInv, TypeOK
<1>3. lh' = lh /\ Logged' = Logged
  BY Zenon DEF EndOp, Logged
<1>4. Credits' \subseteq Credits
  BY <1>1, <1>2, Zenon DEF Credits, Ops
<1>5. /\ Cardinality(Credits') <= Cardinality(Credits)
      /\ Cardinality(Credits) \in Nat /\ Cardinality(Credits') \in Nat
  BY <1>4, CreditsFinite, FS_Subset, FS_CardinalityType
<1>6. Len(lh) \in Nat /\ LOGBLOCKS \in Nat
  BY ConstantsAssumption DEF IInv, TypeOK
<1>7. Len(lh') + Cardinality(Credits') <= LOGBLOCKS
  BY <1>3, <1>5, <1>6 DEF SpaceInv
<1>8. OpInv'
  BY <1>1, <1>2, <1>3, Zenon DEF SpaceInv, OpInv, Ops
<1> QED
  BY <1>7, <1>8, Zenon DEF SpaceInv

\* log_write() pays one credit for each new header entry.
LEMMA LogWriteSpace ==
  ASSUME IInv, CountInv, SpaceInv, NEW p \in Procs, NEW v \in Data, LogWrite(p, v)
  PROVE  SpaceInv'
<1> DEFINE b == buf[p]
           n == Cardinality(wrote[p])
<1>1. p \in Ops /\ b \in Blocks
  BY Zenon DEF LogWrite, MayLog, Ops, Working, IInv, BufInv
<1>2. Ops' = Ops
  BY Zenon DEF LogWrite, Ops
<1>3. wrote'[p] = wrote[p] \cup {b} /\ \A q \in Procs : q # p => wrote'[q] = wrote[q]
  BY Zenon DEF LogWrite, IInv, TypeOK
<1>4. /\ wrote[p] \subseteq Logged /\ IsFiniteSet(wrote[p]) /\ n \in Nat
      /\ n <= OPBLOCKS
  BY <1>1, FS_CardinalityType, Zenon DEF SpaceInv, OpInv
<1>5. b \in wrote[p] \/ n < OPBLOCKS
  BY Zenon DEF LogWrite, MayLog
<1>6. /\ IsFiniteSet(wrote'[p])
      /\ Cardinality(wrote'[p]) = IF b \in wrote[p] THEN n ELSE n + 1
  <2>1. CASE b \in wrote[p]
    <3>1. wrote'[p] = wrote[p]
      BY <2>1, <1>3, Zenon
    <3> QED
      BY <2>1, <3>1, <1>4, Zenon
  <2>2. CASE b \notin wrote[p]
    <3> HIDE DEF b
    <3>1. /\ IsFiniteSet(wrote[p] \cup {b})
          /\ Cardinality(wrote[p] \cup {b}) = Cardinality(wrote[p]) + 1
      BY <2>2, <1>4, FS_AddElement, SMTT(30)
    <3> QED
      BY <2>2, <3>1, <1>3
  <2> QED
    BY <2>1, <2>2, Zenon
<1>7. /\ lh' = IF b \in Logged THEN lh ELSE Append(lh, b)
      /\ lh \in Seq(Blocks)
  BY Zenon DEF LogWrite, IInv, TypeOK
<1>8. Logged' = Logged \cup {b} /\ Len(lh') = Len(lh) + (IF b \in Logged THEN 0 ELSE 1)
  <2>1. CASE b \in Logged
    BY <1>7, <2>1 DEF Logged
  <2>2. CASE b \notin Logged
    <3>1. lh' = Append(lh, b)
      BY <1>7, <2>2, Zenon
    <3> HIDE DEF b
    <3>2. /\ Len(lh') = Len(lh) + 1
          /\ \A i \in 1..Len(lh) : lh'[i] = lh[i]
          /\ lh'[Len(lh) + 1] = b
      BY <1>1, <1>7, <3>1, AppendFacts
    <3>3. Len(lh) \in Nat /\ 1..Len(lh') = 1..Len(lh) \cup {Len(lh) + 1}
      BY <1>7, <3>2
    <3>4. Logged' = Logged \cup {b}
      BY <3>2, <3>3 DEF Logged
    <3> QED
      BY <2>2, <3>2, <3>4, Zenon
  <2> QED
    BY <2>1, <2>2, Zenon
<1>9. OpInv'
  <2> SUFFICES ASSUME NEW q \in Ops
               PROVE  /\ wrote'[q] \subseteq Logged'
                      /\ IsFiniteSet(wrote'[q])
                      /\ Cardinality(wrote'[q]) <= OPBLOCKS
    BY <1>2, Zenon DEF OpInv
  <2>1. CASE q = p
    BY <2>1, <1>3, <1>4, <1>5, <1>6, <1>8, ConstantsAssumption, SMTT(30)
  <2>2. CASE q # p
    BY <2>2, <1>3, <1>8, SMTT(30) DEF SpaceInv, OpInv, Ops
  <2> QED
    BY <2>1, <2>2, Zenon
<1>10. Credits' \subseteq Credits /\ IsFiniteSet(Credits) /\ Cardinality(Credits) \in Nat
  <2> SUFFICES ASSUME NEW c \in Ops \X Slots, c[2] > Cardinality(wrote'[c[1]])
               PROVE  c[2] > Cardinality(wrote[c[1]])
    BY <1>2, CreditsFinite, Zenon DEF Credits
  <2>1. CASE c[1] = p
    BY <2>1, <1>4, <1>6 DEF Slots
  <2>2. CASE c[1] # p
    BY <2>2, <1>3 DEF Ops
  <2> QED
    BY <2>1, <2>2
<1>11. Len(lh) \in Nat /\ LOGBLOCKS \in Nat
  BY <1>7, ConstantsAssumption
<1>12. CASE b \in Logged
  <2>1. Cardinality(Credits') <= Cardinality(Credits) /\ Cardinality(Credits') \in Nat
    BY <1>10, FS_Subset, FS_CardinalityType
  <2> QED
    BY <1>8, <1>9, <1>11, <1>12, <1>10, <2>1, SMTT(30) DEF SpaceInv
<1>13. CASE b \notin Logged
  <2> DEFINE c == <<p, n + 1>>
  <2>1. b \notin wrote[p]
    BY <1>4, <1>13, Zenon
  <2>2. n + 1 \in Slots /\ Cardinality(wrote'[p]) = n + 1
    BY <2>1, <1>4, <1>5, <1>6, ConstantsAssumption, SMTT(30) DEF Slots
  <2>3. c \in Credits
    BY <1>1, <1>4, <2>2 DEF Credits
  <2>4. c \notin Credits'
    BY <2>2, <1>4 DEF Credits
  <2>5. /\ Cardinality(Credits \ {c}) = Cardinality(Credits) - 1
        /\ IsFiniteSet(Credits \ {c})
    BY <1>10, <2>3, FS_RemoveElement
  <2>6. Credits' \subseteq Credits \ {c}
    BY <1>10, <2>4, Zenon
  <2>7. Cardinality(Credits') <= Cardinality(Credits) - 1 /\ Cardinality(Credits') \in Nat
    BY <2>5, <2>6, FS_Subset, FS_CardinalityType
  <2>8. Len(lh') = Len(lh) + 1
    BY <1>8, <1>13, Zenon
  <2> QED
    BY <1>9, <1>10, <1>11, <2>7, <2>8, SMTT(30) DEF SpaceInv
<1> QED
  BY <1>12, <1>13, Zenon

\* Every step keeps the reservations within the log.
LEMMA NextSpace ==
  IInv /\ IInv' /\ CountInv /\ CountInv' /\ SpaceInv /\ [Next]_vars => SpaceInv'
<1> SUFFICES ASSUME IInv, IInv', CountInv, CountInv', SpaceInv, [Next]_vars PROVE SpaceInv'
  OBVIOUS
<1>1. ASSUME NEW p \in Procs, Step(p) PROVE SpaceInv'
  <2>1. ASSUME NEW b \in Blocks, Bread(p, b) PROVE SpaceInv'
    <3>1. \A q \in Procs : pc'[q] \in Working <=> pc[q] \in Working
      BY <2>1 DEF Bread, Working, IInv, TypeOK
    <3>2. UNCHANGED <<lh, wrote>>
      BY <2>1, Zenon DEF Bread, logvars
    <3> QED
      BY <3>1, <3>2, QuietSpace, Zenon
  <2>2. CASE Brelse(p)
    <3>1. \A q \in Procs : pc'[q] \in Working <=> pc[q] \in Working
      BY <2>2 DEF Brelse, Working, IInv, TypeOK
    <3>2. UNCHANGED <<lh, wrote>>
      BY <2>2, Zenon DEF Brelse, logvars
    <3> QED
      BY <3>1, <3>2, QuietSpace, Zenon
  <2>3. CASE BeginWait(p) \/ KillSleeper(p)
    <3>1. \A q \in Procs : pc'[q] \in Working <=> pc[q] \in Working
      BY <2>3 DEF BeginWait, KillSleeper, Working, IInv, TypeOK
    <3>2. UNCHANGED <<lh, wrote>>
      BY <2>3, Zenon DEF BeginWait, KillSleeper, logvars
    <3> QED
      BY <3>1, <3>2, QuietSpace, Zenon
  <2>4. CASE BeginOp(p)
    BY <2>4, BeginOpSpace, Zenon
  <2>5. ASSUME NEW v \in Data, LogWrite(p, v) PROVE SpaceInv'
    BY <2>5, LogWriteSpace, Zenon
  <2>6. CASE EndOp(p)
    BY <2>6, EndOpSpace, Zenon
  <2>7. CASE Commit(p) \/ WriteLog(p) \/ WriteHead(p) \/ Install(p)
    <3>1. \A q \in Procs : pc'[q] \in Working <=> pc[q] \in Working
      BY <2>7, SMTT(30) DEF Commit, WriteLog, WriteHead, Install, Working, IInv, TypeOK
    <3>2. UNCHANGED <<lh, wrote>>
      BY <2>7, Zenon DEF Commit, WriteLog, WriteHead, Install, logvars
    <3> QED
      BY <3>1, <3>2, QuietSpace, Zenon
  <2>8. CASE ClearHead(p)
    <3>1. \A q \in Procs : pc[q] \notin Working
      <4>1. pc[p] = "clear" /\ pc[p] \in CommitSteps /\ pc[p] \notin Working
        BY <2>8, Zenon DEF ClearHead, CommitSteps, Working
      <4> QED
        BY <4>1, CommitterLemma, Zenon
    <3>2. \A q \in Procs : pc'[q] \notin Working
      BY <2>8, <3>1 DEF ClearHead, Working, IInv, TypeOK
    <3> QED
      BY <3>2, IdleSpace, Zenon
  <2>9. CASE EndCommit(p)
    <3>1. \A q \in Procs : pc'[q] \in Working <=> pc[q] \in Working
      BY <2>9 DEF EndCommit, WakeupLog, Working, IInv, TypeOK
    <3>2. UNCHANGED <<lh, wrote>>
      BY <2>9, Zenon DEF EndCommit
    <3> QED
      BY <3>1, <3>2, QuietSpace, Zenon
  <2> QED
    BY <1>1, <2>1, <2>2, <2>3, <2>4, <2>5, <2>6, <2>7, <2>8, <2>9, Zenon DEF Step
<1>2. ASSUME NEW b \in Blocks, Recycle(b) PROVE SpaceInv'
  BY <1>2, QuietSpace DEF Recycle, logvars, local
<1>3. CASE Crash \/ RecoverClear
  BY <1>3, IdleSpace DEF Crash, RecoverClear, Working
<1>4. CASE ReadHead \/ RecoverInstall
  <2>1. \A q \in Procs : pc'[q] = "off"
    BY <1>4, Zenon DEF ReadHead, RecoverInstall, local, IInv, BootInv
  <2> QED
    BY <2>1, IdleSpace, SMTT(30) DEF Working
<1>5. CASE UNCHANGED vars
  BY <1>5, QuietSpace DEF vars, logvars, local
<1> QED
  BY <1>1, <1>2, <1>3, <1>4, <1>5, SMTT(30) DEF Next, Recover

\* An operation that may still call log_write() owns a credit.
LEMMA SpaceEnough ==
  ASSUME OPBLOCKS < MAXOPBLOCKS
  PROVE  IInv /\ CountInv /\ SpaceInv => LogNeverFull
<1> SUFFICES ASSUME IInv, CountInv, SpaceInv, NEW p \in Procs, MayLog(p)
             PROVE  Len(lh) < LOGBLOCKS
  BY Zenon DEF LogNeverFull
<1> DEFINE c == <<p, MAXOPBLOCKS>>
<1>1. p \in Ops
  BY Zenon DEF MayLog, Ops, Working
<1>2. Cardinality(wrote[p]) \in Nat /\ Cardinality(wrote[p]) <= OPBLOCKS
  BY <1>1, FS_CardinalityType, Zenon DEF SpaceInv, OpInv
<1>3. c \in Credits
  BY <1>1, <1>2, ConstantsAssumption DEF Credits, Slots
<1>4. Cardinality(Credits) \in Nat /\ Cardinality(Credits) # 0
  BY <1>3, CreditsFinite, FS_EmptySet, SMTT(30)
<1>5. Len(lh) \in Nat /\ LOGBLOCKS \in Nat
  BY ConstantsAssumption DEF IInv, TypeOK
<1> QED
  BY <1>4, <1>5 DEF SpaceInv

\* log_write() never panics with "too big a transaction" (log.c:221), for any
\* number of concurrent operations that each register fewer than MAXOPBLOCKS
\* distinct blocks.
THEOREM NeverFull ==
  ASSUME OPBLOCKS < MAXOPBLOCKS
  PROVE  Spec => []LogNeverFull
<1>1. Spec => [](IInv /\ CountInv /\ SpaceInv)
  BY Inductive, InitSpace, NextSpace, PTL DEF Spec
<1> QED
  BY <1>1, SpaceEnough, PTL

===============================================================================
