------------------------------ MODULE LogProofs -------------------------------
(***************************************************************************)
(* Proofs about the redo log of kernel/log.c (module Log), for any number  *)
(* of processes, blocks, log slots and crashes: the inductive invariant,   *)
(* and that the steps of the operations and of commit() keep it.           *)
(***************************************************************************)
EXTENDS Log, TLAPS

Working     == {"op", "hold"}
CommitSteps == {"commit", "write_log", "write_head", "install", "clear", "end_commit"}

\* Between a crash and the end of recover_from_log() nothing else runs.
BootInv ==
  /\ boot # "up" =>
       /\ pc = [p \in Procs |-> "off"]
       /\ ~committing
       /\ pins = [b \in Blocks |-> 0]
       /\ boot = "read_head" => cache = [b \in Blocks |-> NoBuf]
       /\ boot \in {"install", "clear"} => lh = head
       /\ boot = "install" => tail < Len(lh)
       /\ boot = "clear" /\ lh # <<>> => tail = Len(lh)
  /\ boot = "up" => \A p \in Procs : pc[p] # "off"

\* One committer at a time, never together with an operation.
CommitInv ==
  /\ \A p \in Procs : pc[p] \in CommitSteps => committing
  /\ \A p, q \in Procs : pc[p] \in CommitSteps /\ pc[q] \in CommitSteps => p = q
  /\ committing => \A p \in Procs : pc[p] \notin Working

\* Where the committer is, and what lh, head and tail are there.
PhaseInv ==
  /\ boot = "up" => head = IF At("install") \/ At("clear") THEN lh ELSE <<>>
  /\ At("write_log") \/ At("install") => tail < Len(lh)
  /\ At("write_head") => lh # <<>>
  /\ At("clear") => tail = Len(lh) /\ lh # <<>>
  /\ At("end_commit") => lh = <<>>

BufInv ==
  \A p \in Procs : pc[p] \in {"hold", "read"} => buf[p] \in Blocks

\* Log headers fit the log and list no block twice.
HeaderInv ==
  /\ Len(lh) <= LOGBLOCKS
  /\ Len(head) <= LOGBLOCKS
  /\ \A i, j \in 1..Len(lh) : lh[i] = lh[j] => i = j
  /\ \A i, j \in 1..Len(head) : head[i] = head[j] => i = j

\* What the copies of a block in cache, log slot and home have to do with
\* each other.
CopyInv ==
  /\ \A b \in Blocks :
       cache[b] # NoBuf => cache[b] = Recovered[b] \/ (boot = "up" /\ b \in Logged /\ head = <<>>)
  /\ boot = "up" => \A b \in Blocks : cache[b] = NoBuf => home[b] = Recovered[b]
  /\ boot = "up" /\ head = <<>> => \A b \in Logged : cache[b] # NoBuf
  /\ At("write_log") => \A i \in 1..tail : logd[i] = cache[lh[i]]
  /\ At("write_head") => \A i \in 1..Len(lh) : logd[i] = cache[lh[i]]
  /\ At("install") \/ At("clear") \/ boot \in {"install", "clear"} =>
       \A i \in 1..Len(lh) : i <= tail => home[lh[i]] = logd[i]

\* log.outstanding tells end_op() whether an operation is still running.
Counted ==
  /\ outstanding \in Nat
  /\ outstanding = 0 <=> \A p \in Procs : pc[p] \notin Working

IInv ==
  /\ TypeOK
  /\ BootInv
  /\ CommitInv
  /\ PhaseInv
  /\ BufInv
  /\ HeaderInv
  /\ PinnedExactly
  /\ CopyInv

-------------------------------------------------------------------------------
(* What recovery makes of the disk, block by block.                        *)

\* recover_from_log() yields slot i for the i-th block of the header and the
\* home block for every other.
LEMMA RecoveredValue ==
  ASSUME TypeOK, HeaderInv
  PROVE  /\ Recovered \in [Blocks -> Data]
         /\ \A i \in 1..Len(head) : Recovered[head[i]] = logd[i]
         /\ \A b \in Blocks :
              (\A i \in 1..Len(head) : head[i] # b) => Recovered[b] = home[b]
<1>1. ASSUME NEW i \in 1..Len(head)
      PROVE  Recovered[head[i]] = logd[i]
  <2>1. head[i] \in Blocks
    BY DEF TypeOK
  <2>2. \A j \in 1..Len(head) : head[j] = head[i] => j = i
    BY Zenon DEF HeaderInv
  <2>3. (CHOOSE j \in 1..Len(head) : head[j] = head[i]) = i
    BY <2>2, Zenon
  <2> QED
    BY <2>1, <2>3, Zenon DEF Recovered
<1>2. ASSUME NEW b \in Blocks, \A i \in 1..Len(head) : head[i] # b
      PROVE  Recovered[b] = home[b]
  BY <1>2, Zenon DEF Recovered
<1>3. ASSUME NEW b \in Blocks
      PROVE  Recovered[b] \in Data
  <2>1. CASE \E i \in 1..Len(head) : head[i] = b
    <3>1. PICK i \in 1..Len(head) : head[i] = b
      BY <2>1, Zenon
    <3>2. i \in 1..LOGBLOCKS
      BY ConstantsAssumption DEF TypeOK, HeaderInv
    <3> QED
      BY <3>1, <3>2, <1>1, Zenon DEF TypeOK
  <2>2. CASE ~ \E i \in 1..Len(head) : head[i] = b
    BY <2>2, <1>2, Zenon DEF TypeOK
  <2> QED
    BY <2>1, <2>2, Zenon
<1>4. Recovered \in [Blocks -> Data]
  BY <1>3, Zenon DEF Recovered
<1> QED
  BY <1>1, <1>2, <1>4, Zenon

RecoveredFacts ==
  /\ Recovered \in [Blocks -> Data]
  /\ \A i \in 1..Len(head) : Recovered[head[i]] = logd[i]
  /\ \A b \in Blocks :
       (\A i \in 1..Len(head) : head[i] # b) => Recovered[b] = home[b]

\* The same as an implication between state predicates.
LEMMA RecoveredValueState == TypeOK /\ HeaderInv => RecoveredFacts
BY RecoveredValue, Zenon DEF RecoveredFacts

\* The same after a step that keeps TypeOK and HeaderInv.
LEMMA RecoveredValueNext == TypeOK' /\ HeaderInv' => RecoveredFacts'
BY RecoveredValueState, PTL

\* A step that leaves the disk alone leaves the outcome of a recovery alone.
LEMMA RecoveredFrame ==
  ASSUME UNCHANGED disk
  PROVE  Recovered' = Recovered
BY Zenon DEF Recovered, disk

\* A step of the processes that touches neither disk, cache contents, pins,
\* header nor the committer's place keeps everything said about the copies.
SameCommit ==
  /\ (At("write_log")' <=> At("write_log"))
  /\ (At("write_head")' <=> At("write_head"))
  /\ (At("install")' <=> At("install"))
  /\ (At("clear")' <=> At("clear"))
  /\ (At("end_commit")' <=> At("end_commit"))

\* Steps of begin_op(), brelse() and kkill() that touch neither disk, cache
\* contents, pins nor header keep what is said about the copies.
LEMMA QuietStep ==
  ASSUME PhaseInv, HeaderInv, PinnedExactly, CopyInv, SameCommit,
         UNCHANGED <<disk, cache, pins, lh, tail, boot>>
  PROVE  PhaseInv' /\ HeaderInv' /\ PinnedExactly' /\ CopyInv'
<1>1. Recovered' = Recovered
  BY RecoveredFrame, Zenon
<1>2. Logged' = Logged
  BY Zenon DEF Logged
<1>3. Uninstalled' = Uninstalled
  BY Zenon DEF Uninstalled, SameCommit
<1>4. PhaseInv'
  BY Zenon DEF PhaseInv, SameCommit, disk
<1>5. HeaderInv'
  BY Zenon DEF HeaderInv, disk
<1>6. PinnedExactly'
  BY <1>3, Zenon DEF PinnedExactly
<1>7. CopyInv'
  BY <1>1, <1>2, Zenon DEF CopyInv, SameCommit, disk
<1> QED
  BY <1>4, <1>5, <1>6, <1>7, Zenon

\* Moving a process between two locations outside commit() is such a step.
LEMMA SameCommitMove ==
  ASSUME NEW p \in Procs, NEW l \in Locations \ CommitSteps, TypeOK,
         pc[p] \notin CommitSteps,
         pc' = [pc EXCEPT ![p] = l]
  PROVE  SameCommit /\ \A q \in Procs : pc'[q] \in CommitSteps <=> pc[q] \in CommitSteps
<1> USE DEF CommitSteps
<1>1. ASSUME NEW k \in CommitSteps
      PROVE  At(k)' <=> At(k)
  BY <1>1, Zenon DEF At, TypeOK
<1> QED
  BY <1>1, Zenon DEF SameCommit, TypeOK

\* What Append does to the header.
LEMMA AppendFacts ==
  ASSUME NEW T, NEW s \in Seq(T), NEW e \in T
  PROVE  /\ Append(s, e) \in Seq(T)
         /\ Len(Append(s, e)) = Len(s) + 1
         /\ \A i \in 1..Len(s) : Append(s, e)[i] = s[i]
         /\ Append(s, e)[Len(s) + 1] = e
OBVIOUS

-------------------------------------------------------------------------------
(* Every step keeps the inductive invariant: first the steps that leave    *)
(* the copies of the blocks alone.                                         *)

\* A machine booting from a fresh disk image satisfies the invariant.
LEMMA InitInv == Init => IInv
<1> SUFFICES ASSUME Init PROVE IInv
  OBVIOUS
<1> USE ConstantsAssumption DEF Init, PowerOn
<1>1. TypeOK
  <2>1. home \in [Blocks -> Data] /\ logd \in [1..LOGBLOCKS -> Data]
    OBVIOUS
  <2>2. /\ cache \in [Blocks -> Data \cup {NoBuf}]
        /\ owner \in [Blocks -> Procs \cup {Nobody}]
        /\ pins \in [Blocks -> Nat]
        /\ buf \in [Procs -> Blocks \cup {NoBuf}]
        /\ wrote \in [Procs -> SUBSET Blocks]
    OBVIOUS
  <2>3. pc \in [Procs -> Locations]
    BY Zenon DEF Locations
  <2>4. head \in Seq(Blocks) /\ lh \in Seq(Blocks)
    OBVIOUS
  <2>5. /\ outstanding \in Nat /\ tail \in Nat /\ crashes \in 0..MaxCrashes
        /\ boot \in {"read_head", "install", "clear", "up"}
    OBVIOUS
  <2>6. committing \in BOOLEAN
    BY Zenon
  <2> QED
    BY <2>1, <2>2, <2>3, <2>4, <2>5, <2>6, Zenon DEF TypeOK
<1>2. \A p \in Procs : pc[p] = "off"
  OBVIOUS
<1>3. \A l \in Locations \ {"off"} : ~At(l)
  BY <1>2, Zenon DEF At
<1>4. BootInv /\ BufInv /\ HeaderInv
  BY <1>2 DEF BootInv, BufInv, HeaderInv
<1>5. CommitInv
  BY <1>2, Zenon DEF CommitInv, CommitSteps
<1>6. PhaseInv
  BY <1>3, Zenon DEF PhaseInv, Locations
<1>7. PinnedExactly
  BY Zenon DEF PinnedExactly, Uninstalled
<1>8. CopyInv
  BY <1>3, Zenon DEF CopyInv, Locations
<1> QED
  BY <1>1, <1>4, <1>5, <1>6, <1>7, <1>8, Zenon DEF IInv

\* Steps of the rest of the kernel leave the log's invariant alone.
LEMMA StutterInv ==
  ASSUME IInv, UNCHANGED vars
  PROVE  IInv'
<1> USE DEF IInv, vars, disk, bcache, logvars, local
<1>1. SameCommit
  BY Zenon DEF SameCommit, At
<1>2. PhaseInv' /\ HeaderInv' /\ PinnedExactly' /\ CopyInv'
  BY <1>1, QuietStep, Zenon
<1>3. TypeOK' /\ BootInv' /\ CommitInv' /\ BufInv'
  BY Zenon DEF TypeOK, BootInv, CommitInv, BufInv
<1> QED
  BY <1>2, <1>3, Zenon

\* brelse() gives up a buffer and changes no copy of any block.
LEMMA BrelseInv ==
  ASSUME IInv, NEW p \in Procs, Brelse(p)
  PROVE  IInv'
<1> DEFINE l == IF pc[p] = "hold" THEN "op" ELSE "idle"
<1> USE DEF IInv, Brelse, disk, logvars
<1>0. pc' = [pc EXCEPT ![p] = l] /\ pc[p] \notin CommitSteps /\ buf[p] \in Blocks
  BY Zenon DEF CommitSteps, BufInv
<1>1. TypeOK'
  BY <1>0, Zenon DEF TypeOK, Locations
<1>2. SameCommit /\ \A q \in Procs : pc'[q] \in CommitSteps <=> pc[q] \in CommitSteps
  BY <1>0, SameCommitMove, Zenon DEF Locations, CommitSteps
<1>3. PhaseInv' /\ HeaderInv' /\ PinnedExactly' /\ CopyInv'
  BY <1>2, QuietStep, Zenon
<1>4. \A q \in Procs : pc'[q] \in Working <=> pc[q] \in Working
  BY Zenon DEF Working, TypeOK
<1>5. BootInv'
  BY Zenon DEF BootInv, TypeOK
<1>6. CommitInv'
  BY <1>2, <1>4, Zenon DEF CommitInv
<1>7. BufInv'
  BY Zenon DEF BufInv, TypeOK
<1> QED
  BY <1>1, <1>3, <1>5, <1>6, <1>7, Zenon

\* Going to sleep in begin_op(), and being made runnable by kkill().
LEMMA BeginWaitInv ==
  ASSUME IInv, NEW p \in Procs, BeginWait(p) \/ KillSleeper(p)
  PROVE  IInv'
<1> USE DEF IInv, BeginWait, KillSleeper, disk, bcache, logvars
<1>0. PICK l \in {"asleep", "begin"} :
        pc' = [pc EXCEPT ![p] = l] /\ pc[p] \notin CommitSteps
  BY Zenon DEF CommitSteps
<1>1. TypeOK'
  BY <1>0, Zenon DEF TypeOK, Locations
<1>2. SameCommit /\ \A q \in Procs : pc'[q] \in CommitSteps <=> pc[q] \in CommitSteps
  BY <1>0, SameCommitMove, Zenon DEF Locations, CommitSteps
<1>3. PhaseInv' /\ HeaderInv' /\ PinnedExactly' /\ CopyInv'
  BY <1>2, QuietStep, Zenon
<1>4. \A q \in Procs : pc'[q] \in Working <=> pc[q] \in Working
  BY <1>0, Zenon DEF Working, TypeOK
<1>5. BootInv'
  BY <1>0, Zenon DEF BootInv, TypeOK
<1>6. CommitInv'
  BY <1>2, <1>4 DEF CommitInv
<1>7. BufInv'
  BY <1>0, Zenon DEF BufInv, TypeOK
<1> QED
  BY <1>1, <1>3, <1>5, <1>6, <1>7, Zenon

\* begin_op() admits an operation only while nobody commits.
LEMMA BeginOpInv ==
  ASSUME IInv, NEW p \in Procs, BeginOp(p)
  PROVE  IInv'
<1> USE DEF IInv, BeginOp, disk, bcache
<1>0. pc' = [pc EXCEPT ![p] = "op"] /\ pc[p] \notin CommitSteps /\ pc[p] \notin Working
  BY Zenon DEF CommitSteps, Working
<1>1. TypeOK'
  BY <1>0 DEF TypeOK, Locations
<1>2. SameCommit /\ \A q \in Procs : pc'[q] \in CommitSteps <=> pc[q] \in CommitSteps
  BY <1>0, SameCommitMove, Zenon DEF Locations, CommitSteps
<1>3. PhaseInv' /\ HeaderInv' /\ PinnedExactly' /\ CopyInv'
  BY <1>2, QuietStep, Zenon
<1>4. \A q \in Procs : pc'[q] \in Working <=> pc[q] \in Working \/ q = p
  BY Zenon DEF Working, TypeOK
<1>5. BootInv'
  BY Zenon DEF BootInv, TypeOK
<1>6. CommitInv'
  BY <1>2, Zenon DEF CommitInv, MustWait
<1>7. BufInv'
  BY Zenon DEF BufInv, TypeOK
<1> QED
  BY <1>1, <1>3, <1>5, <1>6, <1>7, Zenon

\* A process runs only on a machine that is up, and only one of them commits.
LEMMA UpLemma ==
  ASSUME IInv, NEW p \in Procs, pc[p] # "off"
  PROVE  boot = "up"
BY Zenon DEF IInv, BootInv

\* A process inside commit() is the only one there, and no operation runs.
LEMMA CommitterLemma ==
  ASSUME IInv, NEW p \in Procs, pc[p] \in CommitSteps
  PROVE  /\ boot = "up" /\ committing
         /\ \A q \in Procs : q # p => pc[q] \notin CommitSteps /\ pc[q] \notin Working
         /\ \A k \in CommitSteps : At(k) <=> k = pc[p]
<1>1. pc[p] # "off"
  BY Zenon DEF CommitSteps
<1>2. \A k \in CommitSteps : At(k) <=> k = pc[p]
  BY Zenon DEF IInv, CommitInv, At
<1> QED
  BY <1>1, <1>2, UpLemma, Zenon DEF IInv, CommitInv

\* bread() of a block that is not cached fills the buffer with the home copy,
\* which is then what recovery would give.
LEMMA BreadInv ==
  ASSUME IInv, NEW p \in Procs, NEW b \in Blocks, Bread(p, b)
  PROVE  IInv'
<1> DEFINE l == IF pc[p] = "op" THEN "hold" ELSE "read"
<1> USE DEF IInv, Bread, disk, logvars
<1>0. pc' = [pc EXCEPT ![p] = l] /\ pc[p] \notin CommitSteps /\ boot = "up"
  BY UpLemma, Zenon DEF CommitSteps
<1>1. TypeOK'
  BY <1>0 DEF TypeOK, Locations, Contents
<1>2. SameCommit /\ \A q \in Procs : pc'[q] \in CommitSteps <=> pc[q] \in CommitSteps
  BY <1>0, SameCommitMove, Zenon DEF Locations, CommitSteps
<1>4. \A q \in Procs : pc'[q] \in Working <=> pc[q] \in Working
  BY Zenon DEF Working, TypeOK
<1>5. BootInv'
  BY <1>0, Zenon DEF BootInv, TypeOK
<1>6. CommitInv'
  BY <1>2, <1>4, Zenon DEF CommitInv
<1>7. BufInv'
  BY Zenon DEF BufInv, TypeOK
<1>9. PhaseInv' /\ HeaderInv'
  BY <1>2 DEF PhaseInv, HeaderInv, SameCommit
<1>10. PinnedExactly'
  <2>1. Uninstalled' = Uninstalled
    BY <1>2, Zenon DEF Uninstalled, SameCommit
  <2> QED
    BY <2>1, Zenon DEF PinnedExactly
<1>11. CopyInv'
  <2>1. Recovered' = Recovered /\ Logged' = Logged
    BY RecoveredFrame, Zenon DEF Logged
  <2>2. \A c \in Blocks : cache[c] # NoBuf => cache'[c] = cache[c]
    BY Zenon DEF Contents, TypeOK
  <2>3. cache[b] = NoBuf => cache'[b] = Recovered[b]
    BY <1>0, Zenon DEF Contents, TypeOK, CopyInv
  <2>4. cache'[b] # NoBuf /\ \A c \in Blocks : c # b => cache'[c] = cache[c]
    BY ConstantsAssumption DEF Contents, TypeOK
  <2>5. \A c \in Blocks :
          cache'[c] # NoBuf => cache'[c] = Recovered[c] \/ (c \in Logged /\ head = <<>>)
    BY <2>2, <2>3, <2>4 DEF CopyInv
  <2>6. \A c \in Blocks : cache'[c] = NoBuf => home[c] = Recovered[c]
    BY <1>0, <2>4, Zenon DEF CopyInv
  <2>7. Logged \subseteq Blocks
    BY DEF Logged, TypeOK
  <2>8. head = <<>> => \A c \in Logged : cache[c] # NoBuf /\ cache'[c] = cache[c]
    BY <1>0, <2>2, <2>7, Zenon DEF CopyInv
  <2>9. At("write_log") \/ At("write_head") =>
          head = <<>> /\ \A i \in 1..Len(lh) : lh[i] \in Logged
    <3>1. At("write_log") \/ At("write_head") => ~At("install") /\ ~At("clear")
      BY Zenon DEF At, CommitInv, CommitSteps
    <3> QED
      BY <1>0, <3>1, Zenon DEF PhaseInv, Logged
  <2>10. At("write_log") => tail < Len(lh)
    BY Zenon DEF PhaseInv
  <2>11. At("write_log") => \A i \in 1..tail : logd[i] = cache'[lh[i]]
    <3> SUFFICES ASSUME At("write_log"), NEW i \in 1..tail
                 PROVE  logd[i] = cache'[lh[i]]
      OBVIOUS
    <3>1. i \in 1..Len(lh)
      BY <2>10 DEF TypeOK
    <3> QED
      BY <3>1, <2>8, <2>9, Zenon DEF CopyInv
  <2>12. At("write_head") => \A i \in 1..Len(lh) : logd[i] = cache'[lh[i]]
    BY <2>8, <2>9 DEF CopyInv
  <2> QED
    BY SMTT(30), <1>0, <1>2, <2>1, <2>5, <2>6, <2>8, <2>11, <2>12 DEF CopyInv, SameCommit
<1> QED
  BY <1>1, <1>5, <1>6, <1>7, <1>9, <1>10, <1>11, Zenon

\* bget() recycling a buffer loses nothing: an unpinned buffer is a copy of
\* what the disk already has.
LEMMA RecycleInv ==
  ASSUME IInv, NEW b \in Blocks, Recycle(b)
  PROVE  IInv'
<1> USE DEF IInv, Recycle, disk, logvars, local
<1>1. TypeOK'
  BY Zenon DEF TypeOK
<1>2. SameCommit
  BY Zenon DEF SameCommit, At
<1>3. BootInv' /\ CommitInv' /\ BufInv'
  BY Zenon DEF BootInv, CommitInv, BufInv, TypeOK
<1>5. PhaseInv' /\ HeaderInv'
  BY <1>2 DEF PhaseInv, HeaderInv, SameCommit
<1>6. PinnedExactly'
  <2>1. Uninstalled' = Uninstalled
    BY <1>2, Zenon DEF Uninstalled, SameCommit
  <2> QED
    BY <2>1, Zenon DEF PinnedExactly
<1>7. CopyInv'
  <2>1. Recovered' = Recovered /\ Logged' = Logged
    BY RecoveredFrame, Zenon DEF Logged
  <2>2. cache' = [cache EXCEPT ![b] = NoBuf] /\ cache'[b] = NoBuf
    BY Zenon DEF TypeOK
  <2>3. \A c \in Blocks : c # b => cache'[c] = cache[c]
    BY <2>2, Zenon DEF TypeOK
  <2>4. b \notin Uninstalled
    BY DEF PinnedExactly
  <2>5. boot = "up" /\ head = <<>> => b \notin Logged
    <3> SUFFICES ASSUME boot = "up", head = <<>> PROVE b \notin Logged
      OBVIOUS
    <3>1. At("install") \/ At("clear") => lh = <<>>
      BY Zenon DEF PhaseInv
    <3>2. CASE At("install") \/ At("clear")
      BY <3>1, <3>2 DEF Logged
    <3>3. CASE ~(At("install") \/ At("clear"))
      BY <3>3, <2>4 DEF Uninstalled, Logged
    <3> QED
      BY <3>2, <3>3, Zenon
  <2>6. boot = "up" => home[b] = Recovered[b]
    <3> SUFFICES ASSUME boot = "up", head # <<>> PROVE home[b] = Recovered[b]
      BY RecoveredValue
    <3>1. (At("install") \/ At("clear")) /\ head = lh
      BY Zenon DEF PhaseInv
    <3>2. CASE \E i \in 1..Len(lh) : lh[i] = b
      <4>1. PICK i \in 1..Len(lh) : lh[i] = b
        BY <3>2, Zenon
      <4>2. i <= tail
        BY <2>4, <3>1, <4>1 DEF Uninstalled, TypeOK
      <4>3. home[b] = logd[i]
        BY <3>1, <4>1, <4>2, Zenon DEF CopyInv
      <4> QED
        BY <3>1, <4>1, <4>3, RecoveredValue, Zenon
    <3>3. CASE ~ \E i \in 1..Len(lh) : lh[i] = b
      BY <3>1, <3>3, RecoveredValue, Zenon
    <3> QED
      BY <3>2, <3>3, Zenon
  <2>7. Logged \subseteq Blocks
    BY DEF Logged, TypeOK
  <2>8. At("write_log") \/ At("write_head") =>
          \A i \in 1..Len(lh) : lh[i] # b /\ lh[i] \in Blocks
    <3> SUFFICES ASSUME At("write_log") \/ At("write_head"), NEW i \in 1..Len(lh)
                 PROVE  lh[i] # b /\ lh[i] \in Blocks
      OBVIOUS
    <3>1. boot = "up"
      BY UpLemma, Zenon DEF At
    <3>2. ~At("install") /\ ~At("clear")
      BY Zenon DEF At, CommitInv, CommitSteps
    <3>3. head = <<>>
      BY <3>1, <3>2, Zenon DEF PhaseInv
    <3> QED
      BY <2>5, <3>1, <3>3, SMTT(30) DEF Logged, TypeOK
  <2>9. At("write_log") => \A i \in 1..tail : logd[i] = cache'[lh[i]]
    <3> SUFFICES ASSUME At("write_log"), NEW i \in 1..tail
                 PROVE  logd[i] = cache'[lh[i]]
      OBVIOUS
    <3>1. i \in 1..Len(lh)
      BY DEF PhaseInv, TypeOK
    <3> QED
      BY <3>1, <2>3, <2>8 DEF CopyInv
  <2>10. At("write_head") => \A i \in 1..Len(lh) : logd[i] = cache'[lh[i]]
    BY <2>3, <2>8 DEF CopyInv
  <2>11. \A c \in Blocks :
           cache'[c] # NoBuf => cache'[c] = Recovered[c] \/ (boot = "up" /\ c \in Logged /\ head = <<>>)
    BY <2>2, <2>3 DEF CopyInv
  <2>12. boot = "up" => \A c \in Blocks : cache'[c] = NoBuf => home[c] = Recovered[c]
    BY <2>3, <2>6 DEF CopyInv
  <2>13. boot = "up" /\ head = <<>> => \A c \in Logged : cache'[c] # NoBuf
    BY <2>3, <2>5, <2>7 DEF CopyInv
  <2> QED
    BY <1>2, <2>1, <2>9, <2>10, <2>11, <2>12, <2>13 DEF CopyInv, SameCommit
<1> QED
  BY <1>1, <1>3, <1>5, <1>6, <1>7, Zenon

\* log_write() keeps one entry and one pin per block; the operation it runs in
\* keeps every commit away.
LEMMA LogWriteInv ==
  ASSUME IInv, NEW p \in Procs, NEW v \in Data, LogWrite(p, v)
  PROVE  IInv'
<1> DEFINE b == buf[p]
<1> USE DEF IInv, LogWrite, MayLog, disk
<1>0. /\ pc' = pc /\ pc[p] = "hold" /\ b \in Blocks /\ boot = "up"
      /\ ~committing /\ \A q \in Procs : pc[q] \notin CommitSteps
  BY UpLemma, Zenon DEF BufInv, CommitInv, Working
<1>1. /\ ~At("write_log") /\ ~At("write_head") /\ ~At("install")
      /\ ~At("clear") /\ ~At("end_commit")
  BY <1>0, Zenon DEF At, CommitSteps
<1>2. head = <<>>
  BY <1>0, <1>1, Zenon DEF PhaseInv
<1>3. /\ ~At("write_log")' /\ ~At("write_head")' /\ ~At("install")'
      /\ ~At("clear")' /\ ~At("end_commit")'
  BY <1>0, Zenon DEF At, CommitSteps
<1>a. b \notin Logged =>
        /\ lh' = Append(lh, b) /\ lh' \in Seq(Blocks)
        /\ Len(lh') = Len(lh) + 1 /\ lh'[Len(lh) + 1] = b
        /\ \A i \in 1..Len(lh) : lh'[i] = lh[i]
        /\ pins' = [pins EXCEPT ![b] = pins[b] + 1]
  <2> HIDE DEF b
  <2>1. lh \in Seq(Blocks)
    BY Zenon DEF TypeOK
  <2>2. b \notin Logged => lh' = Append(lh, b) /\ pins' = [pins EXCEPT ![b] = pins[b] + 1]
    BY Zenon DEF b
  <2>3. b \in Blocks
    BY <1>0, Zenon
  <2>4. /\ Append(lh, b) \in Seq(Blocks)
        /\ Len(Append(lh, b)) = Len(lh) + 1 /\ Append(lh, b)[Len(lh) + 1] = b
        /\ \A i \in 1..Len(lh) : Append(lh, b)[i] = lh[i]
    BY <2>1, <2>3, AppendFacts
  <2> QED
    BY <2>2, <2>4, Zenon
<1>b. b \in Logged => lh' = lh /\ pins' = pins
  OBVIOUS
<1>c. lh \in Seq(Blocks) /\ Len(lh) \in Nat
  BY DEF TypeOK
<1>4. lh' \in Seq(Blocks) /\ pins' \in [Blocks -> Nat]
  <2>1. CASE b \in Logged
    BY <2>1, <1>b, Zenon DEF TypeOK
  <2>2. CASE b \notin Logged
    <3> HIDE DEF b
    <3> QED
      BY <2>2, <1>a, <1>0 DEF TypeOK
  <2> QED
    BY <2>1, <2>2, Zenon
<1>5. TypeOK'
  BY <1>0, <1>4, ZenonT(30) DEF TypeOK
<1>6. BootInv' /\ CommitInv' /\ BufInv'
  BY <1>0, Zenon DEF BootInv, CommitInv, BufInv
<1>8. PhaseInv'
  BY <1>0, <1>2, <1>3, Zenon DEF PhaseInv
<1>9. HeaderInv'
  <2>1. CASE b \in Logged
    BY <2>1, <1>b DEF HeaderInv
  <2>2. CASE b \notin Logged
    <3>1. Len(lh') <= LOGBLOCKS
      BY SMTT(30), <2>2, <1>a, <1>c, ConstantsAssumption
    <3>2. \A i \in 1..Len(lh) : lh[i] # b
      BY <2>2, Zenon DEF Logged
    <3>3. ASSUME NEW i \in 1..Len(lh'), NEW j \in 1..Len(lh'), lh'[i] = lh'[j]
          PROVE  i = j
      <4>1. (i \in 1..Len(lh) \/ i = Len(lh) + 1) /\ (j \in 1..Len(lh) \/ j = Len(lh) + 1)
        BY SMTT(30), <2>2, <1>a, <1>c
      <4> QED
        BY <4>1, <3>2, <3>3, <2>2, <1>a, SMTT(30) DEF HeaderInv
    <3> QED
      BY <3>1, <3>3, SMTT(30) DEF HeaderInv
  <2> QED
    BY <2>1, <2>2, Zenon
<1>10. Logged' = Logged \cup {b}
  <2>1. CASE b \in Logged
    BY <2>1, <1>b DEF Logged
  <2>2. CASE b \notin Logged
    <3>1. 1..Len(lh') = (1..Len(lh)) \cup {Len(lh) + 1}
      BY SMTT(30), <2>2, <1>a, <1>c
    <3>2. \A x : x \in Logged' <=> \E i \in 1..Len(lh') : x = lh'[i]
      BY Zenon DEF Logged
    <3>3. \A x : x \in Logged <=> \E i \in 1..Len(lh) : x = lh[i]
      BY DEF Logged
    <3> HIDE DEF b
    <3>4. /\ lh'[Len(lh) + 1] = b /\ \A i \in 1..Len(lh) : lh'[i] = lh[i]
      BY <2>2, <1>a, Zenon
    <3>5. \A x : x \in Logged' <=> x \in Logged \/ x = b
      BY <3>1, <3>2, <3>3, <3>4
    <3> QED
      BY <3>5, Zenon
  <2> QED
    BY <2>1, <2>2, Zenon
<1>11. PinnedExactly'
  <2>1. Uninstalled = Logged /\ Uninstalled' = Logged'
    BY SMTT(30), <1>0, <1>1, <1>3 DEF Uninstalled, Logged
  <2> QED
    BY SMTT(30), <2>1, <1>0, <1>10 DEF PinnedExactly, TypeOK
<1>12. CopyInv'
  <2>1. Recovered' = Recovered
    BY RecoveredFrame, Zenon
  <2>2. cache'[b] # NoBuf /\ \A c \in Blocks : c # b => cache'[c] = cache[c]
    BY <1>0, ConstantsAssumption, SMTT(30) DEF TypeOK
  <2>3. Logged \subseteq Blocks
    BY SMTT(30) DEF Logged, TypeOK
  <2> QED
    BY <1>0, <1>2, <1>3, <1>10, <2>1, <2>2, <2>3 DEF CopyInv
<1> QED
  BY <1>5, <1>6, <1>8, <1>9, <1>11, <1>12, Zenon

-------------------------------------------------------------------------------
(* end_op() and commit().                                                  *)

\* The last end_op() becomes the only committer; any other is a quiet step
\* that wakes the sleepers.
LEMMA EndOpInv ==
  ASSUME IInv, Counted, Counted', NEW p \in Procs, EndOp(p)
  PROVE  IInv'
<1> USE DEF IInv, EndOp, disk, bcache
<1>0. /\ pc[p] = "op" /\ pc[p] \in Working /\ boot = "up" /\ ~committing
      /\ outstanding \in Nat /\ outstanding > 0
      /\ \A q \in Procs : pc[q] \notin CommitSteps
  <2>1. pc[p] = "op" /\ pc[p] \in Working /\ boot = "up" /\ ~committing
    BY UpLemma, Zenon DEF Working
  <2>2. outstanding \in Nat /\ outstanding # 0
    BY <2>1, Zenon DEF Counted
  <2> QED
    BY <2>1, <2>2 DEF CommitInv
<1>1. CASE outstanding' = 0
  <2>1. pc' = [pc EXCEPT ![p] = "commit"] /\ committing' = TRUE
    BY <1>1, Zenon
  <2>2. TypeOK'
    BY <1>0, <1>1, <2>1 DEF TypeOK, Locations
  <2>3. SameCommit
    BY <1>0, <2>1, Zenon DEF SameCommit, At, TypeOK, CommitSteps
  <2>4. PhaseInv' /\ HeaderInv' /\ PinnedExactly' /\ CopyInv'
    BY <2>3, QuietStep, Zenon
  <2>5. \A q \in Procs : pc'[q] \in Working <=> pc[q] \in Working /\ q # p
    BY <2>1, Zenon DEF Working, TypeOK
  <2>7. \A q \in Procs : pc'[q] \notin Working
    BY <1>1, Zenon DEF Counted
  <2>8. BootInv' /\ BufInv'
    BY <1>0, <2>1, Zenon DEF BootInv, BufInv, TypeOK
  <2>9. CommitInv'
    BY <1>0, <1>1, <2>1, <2>7, Zenon DEF CommitInv, TypeOK
  <2> QED
    BY <2>2, <2>4, <2>8, <2>9, Zenon
<1>2. CASE outstanding' # 0
  <2>1. /\ committing' = committing
        /\ pc' = [q \in Procs |-> IF q = p THEN "idle"
                                  ELSE IF pc[q] = "asleep" THEN "begin" ELSE pc[q]]
    BY <1>2 DEF WakeupLog
  <2>2. TypeOK'
    BY SMTT(30), <1>0, <2>1 DEF TypeOK, Locations
  <2>3. SameCommit
    BY <1>0, <2>1, Zenon DEF SameCommit, At, TypeOK, CommitSteps
  <2>4. PhaseInv' /\ HeaderInv' /\ PinnedExactly' /\ CopyInv'
    BY <2>3, QuietStep, Zenon
  <2>5. \A q \in Procs : pc'[q] \in Working <=> pc[q] \in Working /\ q # p
    BY <2>1, Zenon DEF Working, TypeOK
  <2>8. BootInv' /\ BufInv'
    BY <1>0, <2>1, SMTT(30) DEF BootInv, BufInv, TypeOK
  <2>9. CommitInv'
    BY <1>0, <2>1 DEF CommitInv, TypeOK, CommitSteps
  <2> QED
    BY <2>2, <2>4, <2>8, <2>9, Zenon
<1> QED
  BY <1>1, <1>2, Zenon

-------------------------------------------------------------------------------
(* Every step of commit() keeps the inductive invariant.                   *)

\* What a step of the committer that only moves it from one step of commit()
\* to another does to the invariants about processes.
LEMMA CommitterMove ==
  ASSUME IInv, NEW p \in Procs, pc[p] \in CommitSteps, NEW l \in CommitSteps,
         pc' = [pc EXCEPT ![p] = l],
         UNCHANGED <<outstanding, committing, boot, buf>>
  PROVE  /\ BootInv' /\ CommitInv' /\ BufInv'
         /\ pc' \in [Procs -> Locations]
         /\ \A k \in CommitSteps : At(k)' <=> k = l
<1> USE DEF IInv
<1>0. boot = "up" /\ committing
  BY CommitterLemma, Zenon
<1>1. pc' \in [Procs -> Locations] /\ pc'[p] = l
  BY Zenon DEF TypeOK, Locations, CommitSteps
<1>2. \A q \in Procs : pc'[q] \in Working <=> pc[q] \in Working
  BY Zenon DEF Working, CommitSteps, TypeOK
<1>4. BootInv' /\ BufInv'
  BY <1>0, Zenon DEF BootInv, BufInv, CommitSteps, TypeOK
<1>5. CommitInv'
  BY <1>0, <1>2, CommitterLemma DEF CommitInv, TypeOK
<1>6. \A k \in CommitSteps : At(k)' <=> k = l
  <2>1. \A q \in Procs : q # p => pc'[q] \notin CommitSteps
    BY CommitterLemma, Zenon DEF TypeOK
  <2> QED
    BY <1>1, <2>1, Zenon DEF At
<1> QED
  BY <1>1, <1>4, <1>5, <1>6, Zenon

\* commit() begins: nothing to do, or on to write_log().
LEMMA CommitInvStep ==
  ASSUME IInv, NEW p \in Procs, Commit(p)
  PROVE  IInv'
<1> DEFINE l == IF lh # <<>> THEN "write_log" ELSE "end_commit"
<1> USE DEF IInv, Commit, disk, bcache, logvars
<1>0. pc[p] = "commit" /\ pc' = [pc EXCEPT ![p] = l] /\ l \in CommitSteps
  BY Zenon DEF CommitSteps
<1>1. /\ BootInv' /\ CommitInv' /\ BufInv'
      /\ pc' \in [Procs -> Locations]
      /\ \A k \in CommitSteps : At(k)' <=> k = l
  BY <1>0, CommitterMove, Zenon DEF CommitSteps
<1>2. boot = "up" /\ \A k \in CommitSteps : At(k) <=> k = "commit"
  BY <1>0, CommitterLemma, Zenon DEF CommitSteps
<1>3. TypeOK'
  BY <1>1, Zenon DEF TypeOK
<1>4. head = <<>>
  BY <1>2, Zenon DEF PhaseInv, CommitSteps
<1>5. lh # <<>> => Len(lh) > 0
  BY DEF TypeOK
<1>6. PhaseInv'
  BY <1>1, <1>2, <1>4, <1>5, Zenon DEF PhaseInv, CommitSteps
<1>7. HeaderInv'
  BY DEF HeaderInv
<1>8. PinnedExactly'
  <2>1. Uninstalled' = Uninstalled
    BY <1>1, <1>2, Zenon DEF Uninstalled, CommitSteps
  <2> QED
    BY <2>1, Zenon DEF PinnedExactly
<1>9. CopyInv'
  <2>1. Recovered' = Recovered /\ Logged' = Logged
    BY RecoveredFrame, Zenon DEF Logged
  <2> QED
    BY <1>1, <1>2, <2>1 DEF CopyInv, CommitSteps
<1> QED
  BY <1>1, <1>3, <1>6, <1>7, <1>8, <1>9, Zenon

\* write_log() copies one more registered block, as it is in the cache, to its
\* slot; with an empty header on disk no slot matters to recovery yet.
LEMMA WriteLogInv ==
  ASSUME IInv, NEW p \in Procs, WriteLog(p)
  PROVE  IInv'
<1> DEFINE b == lh[tail + 1]
           l == IF tail' = Len(lh) THEN "write_head" ELSE "write_log"
<1> USE DEF IInv, WriteLog, logvars
<1>0. /\ pc[p] = "write_log" /\ pc' = [pc EXCEPT ![p] = l] /\ l \in CommitSteps
      /\ tail \in Nat /\ Len(lh) \in Nat /\ tail < Len(lh) /\ tail' = tail + 1
      /\ b \in Blocks /\ tail + 1 \in 1..LOGBLOCKS
  BY ConstantsAssumption DEF CommitSteps, TypeOK, HeaderInv
<1>1. /\ BootInv' /\ CommitInv' /\ BufInv'
      /\ pc' \in [Procs -> Locations]
      /\ \A k \in CommitSteps : At(k)' <=> k = l
  BY <1>0, CommitterMove, Zenon DEF CommitSteps
<1>2. boot = "up" /\ \A k \in CommitSteps : At(k) <=> k = "write_log"
  BY <1>0, CommitterLemma DEF CommitSteps
<1>3. head = <<>> /\ head' = <<>>
  BY <1>2, Zenon DEF PhaseInv, CommitSteps
<1>4. cache[b] # NoBuf /\ Contents(b) = cache[b] /\ cache' = cache
  <2>1. b \in Logged
    BY <1>0 DEF Logged
  <2>2. cache[b] # NoBuf
    BY <1>2, <1>3, <2>1, Zenon DEF CopyInv
  <2> QED
    BY <1>0, <2>2, Zenon DEF Contents, TypeOK
<1>5. TypeOK'
  BY <1>0, <1>1, <1>4, ConstantsAssumption DEF TypeOK
<1>6. PhaseInv'
  <2>1. tail' # Len(lh) => tail' < Len(lh)
    BY <1>0
  <2>2. lh # <<>>
    BY <1>0
  <2> QED
    BY <1>1, <1>2, <1>3, <2>1, <2>2, Zenon DEF PhaseInv, CommitSteps
<1>7. HeaderInv'
  BY DEF HeaderInv
<1>8. PinnedExactly'
  <2>1. Uninstalled' = Uninstalled
    BY <1>1, <1>2, Zenon DEF Uninstalled, CommitSteps
  <2> QED
    BY <2>1, Zenon DEF PinnedExactly
<1>9. CopyInv'
  <2>1. Recovered' = Recovered
    BY <1>3 DEF Recovered
  <2>2. Logged' = Logged
    BY Zenon DEF Logged
  <2>3. \A i \in 1..tail' : logd'[i] = cache'[lh'[i]]
    <3> SUFFICES ASSUME NEW i \in 1..tail' PROVE logd'[i] = cache'[lh'[i]]
      OBVIOUS
    <3>1. CASE i = tail + 1
      BY <3>1, <1>0, <1>4 DEF TypeOK
    <3>2. CASE i # tail + 1
      <4>1. i \in 1..tail
        BY <3>2, <1>0
      <4>2. logd[i] = cache[lh[i]]
        BY <4>1, <1>2, Zenon DEF CopyInv, CommitSteps
      <4> QED
        BY <3>2, <4>2, <1>4 DEF TypeOK
    <3> QED
      BY <3>1, <3>2, Zenon
  <2>4. At("write_head")' => tail' = Len(lh)
    BY <1>1, Zenon DEF CommitSteps
  <2> QED
    BY <1>1, <1>2, <1>3, <1>4, <2>1, <2>2, <2>3, <2>4 DEF CopyInv, CommitSteps
<1> QED
  BY <1>1, <1>5, <1>6, <1>7, <1>8, <1>9, Zenon

-------------------------------------------------------------------------------
(* From the commit point to the end of the commit.                         *)

\* The commit point: recovery now yields the cached contents of the group.
LEMMA WriteHeadInv ==
  ASSUME IInv, NEW p \in Procs, WriteHead(p)
  PROVE  IInv' /\ Recovered' = Current
<1> USE DEF IInv, WriteHead, logvars, bcache
<1>0. /\ pc[p] = "write_head" /\ pc' = [pc EXCEPT ![p] = "install"]
      /\ "install" \in CommitSteps /\ tail' = 0
  BY Zenon DEF CommitSteps
<1>1. /\ BootInv' /\ CommitInv' /\ BufInv'
      /\ pc' \in [Procs -> Locations]
      /\ \A k \in CommitSteps : At(k)' <=> k = "install"
  BY <1>0, CommitterMove, Zenon DEF CommitSteps
<1>2. boot = "up" /\ \A k \in CommitSteps : At(k) <=> k = "write_head"
  BY <1>0, CommitterLemma, Zenon DEF CommitSteps
<1>3. head = <<>>
  BY <1>2, Zenon DEF PhaseInv, CommitSteps
<1>4. lh # <<>> /\ Len(lh) > 0
  BY <1>2 DEF PhaseInv, CommitSteps, TypeOK
<1>5. TypeOK'
  BY <1>1, Zenon DEF TypeOK
<1>6. PhaseInv'
  BY <1>1, <1>2, <1>4, Zenon DEF PhaseInv, CommitSteps
<1>7. HeaderInv'
  BY DEF HeaderInv
<1>8. PinnedExactly'
  <2>1. Uninstalled' = Uninstalled
    BY <1>1, <1>2, Zenon DEF Uninstalled, CommitSteps
  <2> QED
    BY <2>1, Zenon DEF PinnedExactly
<1>9. Logged' = Logged /\ Logged \subseteq Blocks
  BY DEF Logged, TypeOK
<1>10. /\ \A i \in 1..Len(lh) : Recovered'[lh[i]] = logd[i]
       /\ \A c \in Blocks : (\A i \in 1..Len(lh) : lh[i] # c) => Recovered'[c] = home[c]
  <2>1. /\ \A i \in 1..Len(head') : Recovered'[head'[i]] = logd'[i]
        /\ \A c \in Blocks : (\A i \in 1..Len(head') : head'[i] # c) => Recovered'[c] = home'[c]
    BY <1>5, <1>7, RecoveredValueNext, Zenon DEF RecoveredFacts
  <2> QED
    BY <2>1, Zenon
<1>11. \A c \in Blocks :
         /\ cache[c] # NoBuf => cache[c] = Recovered'[c]
         /\ cache[c] = NoBuf => home[c] = Recovered'[c] /\ home[c] = Recovered[c]
  <2> SUFFICES ASSUME NEW c \in Blocks
               PROVE  /\ cache[c] # NoBuf => cache[c] = Recovered'[c]
                      /\ cache[c] = NoBuf => home[c] = Recovered'[c] /\ home[c] = Recovered[c]
    OBVIOUS
  <2>1. CASE c \in Logged
    <3>1. cache[c] # NoBuf
      BY <2>1, <1>2, <1>3, Zenon DEF CopyInv
    <3>2. PICK i \in 1..Len(lh) : lh[i] = c
      BY <2>1, Zenon DEF Logged
    <3>3. logd[i] = cache[c]
      BY <3>2, <1>2, Zenon DEF CopyInv, CommitSteps
    <3> QED
      BY <3>1, <3>2, <3>3, <1>10, Zenon
  <2>2. CASE c \notin Logged
    <3>1. Recovered'[c] = home[c]
      BY <2>2, <1>10, Zenon DEF Logged
    <3>2. Recovered[c] = home[c]
      BY <1>3, RecoveredValue
    <3> QED
      BY <2>2, <3>1, <3>2, Zenon DEF CopyInv
  <2> QED
    BY <2>1, <2>2, Zenon
<1>12. CopyInv'
  <2>1. head' # <<>> /\ tail' = 0
    BY <1>4, Zenon
  <2> QED
    BY <1>1, <1>2, <1>11, <2>1 DEF CopyInv, CommitSteps
<1>13. Recovered' = Current
  <2>1. Recovered' \in [Blocks -> Data]
    BY <1>5, <1>7, RecoveredValueNext, Zenon DEF RecoveredFacts
  <2> QED
    BY <2>1, <1>11, Zenon DEF Current
<1> QED
  BY <1>1, <1>5, <1>6, <1>7, <1>8, <1>12, <1>13

\* install_trans(0) moves one block from its slot to its home and unpins it.
LEMMA InstallInv ==
  ASSUME IInv, NEW p \in Procs, Install(p)
  PROVE  IInv' /\ Recovered' = Recovered
<1> DEFINE b == lh[tail + 1]
           l == IF tail' = Len(lh) THEN "clear" ELSE "install"
<1> USE DEF IInv, Install, InstallBlock, logvars
<1>0. /\ pc[p] = "install" /\ pc' = [pc EXCEPT ![p] = l] /\ l \in CommitSteps
      /\ tail \in Nat /\ Len(lh) \in Nat /\ tail < Len(lh) /\ tail' = tail + 1
      /\ b \in Blocks /\ tail + 1 \in 1..LOGBLOCKS
  <2>1. /\ pc[p] = "install" /\ pc' = [pc EXCEPT ![p] = l] /\ l \in CommitSteps
        /\ tail < Len(lh) /\ tail' = tail + 1
    BY Zenon DEF CommitSteps
  <2>2. tail \in Nat /\ lh \in Seq(Blocks) /\ Len(lh) <= LOGBLOCKS
    BY Zenon DEF TypeOK, HeaderInv
  <2> HIDE DEF IInv, Install, InstallBlock
  <2> QED
    BY <2>1, <2>2, ConstantsAssumption
<1>1. /\ BootInv' /\ CommitInv' /\ BufInv'
      /\ pc' \in [Procs -> Locations]
      /\ \A k \in CommitSteps : At(k)' <=> k = l
  BY <1>0, CommitterMove, Zenon DEF CommitSteps
<1>2. boot = "up" /\ \A k \in CommitSteps : At(k) <=> k = "install"
  BY <1>0, CommitterLemma, Zenon DEF CommitSteps
<1>3. head = lh /\ head' = lh
  BY <1>2, Zenon DEF PhaseInv, CommitSteps
<1>4. pins[b] = 1 /\ Uninstalled' = Uninstalled \ {b}
  <2>1. Uninstalled = {lh[i] : i \in (tail + 1)..Len(lh)}
    BY <1>2, Zenon DEF Uninstalled, CommitSteps
  <2>2. At("install")' \/ At("clear")'
    BY <1>1, Zenon DEF CommitSteps
  <2>3. Uninstalled' = {lh[i] : i \in (tail + 2)..Len(lh)}
    BY <1>0, <1>2, <2>2 DEF Uninstalled
  <2>4. b \in Uninstalled
    BY <2>1, <1>0
  <2>5. \A i \in (tail + 2)..Len(lh) : lh[i] # b
    BY <1>0 DEF HeaderInv
  <2>6. (tail + 1)..Len(lh) = {tail + 1} \cup ((tail + 2)..Len(lh))
    BY <1>0
  <2>7. Uninstalled = {b} \cup Uninstalled'
    BY <2>1, <2>3, <2>6, Zenon
  <2>8. b \notin Uninstalled'
    BY <2>3, <2>5
  <2> QED
    BY <1>0, <2>4, <2>7, <2>8 DEF PinnedExactly
<1>5. TypeOK'
  <2>1. pins' \in [Blocks -> Nat]
    BY <1>0, <1>4 DEF TypeOK
  <2>2. logd[tail + 1] \in Data
    BY <1>0, ZenonT(30) DEF TypeOK
  <2> QED
    BY SMTT(30), <1>0, <1>1, <2>1, <2>2 DEF TypeOK
<1>6. PhaseInv'
  <2>1. tail' # Len(lh) => tail' < Len(lh)
    BY <1>0
  <2>2. lh # <<>>
    BY <1>0
  <2> QED
    BY <1>1, <1>2, <1>3, <2>1, <2>2, Zenon DEF PhaseInv, CommitSteps
<1>7. HeaderInv'
  BY DEF HeaderInv
<1>8. PinnedExactly'
  BY <1>0, <1>4, SMTT(30) DEF PinnedExactly, TypeOK
<1>9. Recovered' = Recovered
  <2>1. \A c \in Blocks : c # b => home'[c] = home[c]
    BY <1>0, Zenon DEF TypeOK
  <2>2. \E i \in 1..Len(head) : head[i] = b
    BY <1>0, <1>3, SMTT(30)
  <2> QED
    BY SMTT(30), <1>0, <1>3, <2>1, <2>2 DEF Recovered
<1>10. CopyInv'
  <2>1. Logged' = Logged
    BY Zenon DEF Logged
  <2>2. Recovered[b] = logd[tail + 1]
    BY <1>0, <1>3, RecoveredValue
  <2>3. /\ home'[b] = logd[tail + 1] /\ cache'[b] = logd[tail + 1]
        /\ \A c \in Blocks : c # b => home'[c] = home[c] /\ cache'[c] = cache[c]
    BY <1>0 DEF TypeOK
  <2>4. head' # <<>>
    BY <1>0, <1>3, SMTT(30)
  <2>5. \A i \in 1..Len(lh) : i <= tail' => home'[lh[i]] = logd[i]
    <3> SUFFICES ASSUME NEW i \in 1..Len(lh), i <= tail'
                 PROVE  home'[lh[i]] = logd[i]
      OBVIOUS
    <3>1. CASE i = tail + 1
      BY <3>1, <2>3
    <3>2. CASE i # tail + 1
      <4>1. i <= tail
        BY <3>2, <1>0
      <4>2. home[lh[i]] = logd[i]
        BY <4>1, <1>2, Zenon DEF CopyInv, CommitSteps
      <4>3. lh[i] # b /\ lh[i] \in Blocks
        <5>1. tail + 1 \in 1..Len(lh)
          BY <1>0
        <5>2. lh[i] = lh[tail + 1] => i = tail + 1
          BY <5>1, Zenon DEF HeaderInv
        <5>3. lh[i] \in Blocks
          BY DEF TypeOK
        <5> QED
          BY <5>2, <5>3, <3>2
      <4> QED
        BY <4>2, <4>3, <2>3
    <3> QED
      BY <3>1, <3>2, ZenonT(30)
  <2>6. \A c \in Blocks : cache'[c] # NoBuf => cache'[c] = Recovered[c]
    BY SMTT(30), <1>0, <1>3, <2>2, <2>3 DEF CopyInv
  <2>7. \A c \in Blocks : cache'[c] = NoBuf => home'[c] = Recovered[c]
    BY <1>2, <2>2, <2>3 DEF CopyInv
  <2> QED
    BY SMTT(30), <1>1, <1>2, <1>9, <2>4, <2>5, <2>6, <2>7 DEF CopyInv, CommitSteps
<1> QED
  BY <1>1, <1>5, <1>6, <1>7, <1>8, <1>9, <1>10, Zenon

\* Erasing the header is safe: every block of the group is at home.
LEMMA ClearHeadInv ==
  ASSUME IInv, NEW p \in Procs, ClearHead(p)
  PROVE  IInv' /\ Recovered' = Recovered
<1> USE DEF IInv, ClearHead, bcache
<1>0. /\ pc[p] = "clear" /\ pc' = [pc EXCEPT ![p] = "end_commit"]
      /\ "end_commit" \in CommitSteps /\ lh' = <<>> /\ head' = <<>>
  BY Zenon DEF CommitSteps
<1>1. /\ BootInv' /\ CommitInv' /\ BufInv'
      /\ pc' \in [Procs -> Locations]
      /\ \A k \in CommitSteps : At(k)' <=> k = "end_commit"
  BY <1>0, CommitterMove, Zenon DEF CommitSteps
<1>2. boot = "up" /\ \A k \in CommitSteps : At(k) <=> k = "clear"
  BY <1>0, CommitterLemma DEF CommitSteps
<1>3. head = lh /\ tail = Len(lh)
  BY <1>2 DEF PhaseInv, CommitSteps
<1>4. TypeOK'
  BY <1>0, <1>1 DEF TypeOK
<1>5. PhaseInv'
  BY <1>0, <1>1, <1>2, Zenon DEF PhaseInv, CommitSteps
<1>6. HeaderInv'
  BY <1>0, ConstantsAssumption DEF HeaderInv
<1>7. PinnedExactly'
  <2>1. Uninstalled = {}
    BY <1>2, <1>3 DEF Uninstalled, CommitSteps, TypeOK
  <2>2. Uninstalled' = {}
    BY <1>0, <1>1, <1>2 DEF Uninstalled, CommitSteps
  <2> QED
    BY <2>1, <2>2, Zenon DEF PinnedExactly
<1>8. Recovered' = Recovered
  <2>1. \A c \in Blocks : Recovered[c] = home[c]
    <3> SUFFICES ASSUME NEW c \in Blocks PROVE Recovered[c] = home[c]
      BY Zenon
    <3>1. CASE \E i \in 1..Len(head) : head[i] = c
      <4>1. PICK i \in 1..Len(head) : head[i] = c
        BY <3>1
      <4>2. home[lh[i]] = logd[i]
        BY <4>1, <1>2, <1>3, SMTT(30) DEF CopyInv, CommitSteps, TypeOK
      <4> QED
        BY <4>1, <4>2, <1>3, RecoveredValue
    <3>2. CASE ~ \E i \in 1..Len(head) : head[i] = c
      BY <3>2, RecoveredValue
    <3> QED
      BY <3>1, <3>2, Zenon
  <2>2. \A c \in Blocks : Recovered'[c] = home[c]
    BY <1>0 DEF Recovered
  <2>3. Recovered = [c \in Blocks |-> Recovered[c]] /\ Recovered' = [c \in Blocks |-> Recovered'[c]]
    BY DEF Recovered
  <2> QED
    BY <2>1, <2>2, <2>3
<1>9. CopyInv'
  <2>1. Logged' = {}
    BY <1>0, SMTT(30) DEF Logged
  <2>2. \A c \in Blocks : cache[c] # NoBuf => cache[c] = Recovered[c]
    <3>1. head # <<>>
      BY <1>2, <1>3, Zenon DEF PhaseInv, CommitSteps
    <3> QED
      BY <3>1, Zenon DEF CopyInv
  <2> QED
    BY <1>0, <1>1, <1>2, <1>8, <2>1, <2>2 DEF CopyInv, CommitSteps
<1> QED
  BY <1>1, <1>4, <1>5, <1>6, <1>7, <1>8, <1>9

\* end_op() after commit(): the log is free again and its sleepers awake.
LEMMA EndCommitInv ==
  ASSUME IInv, NEW p \in Procs, EndCommit(p)
  PROVE  IInv'
<1> USE DEF IInv, EndCommit, disk, bcache
<1>0. /\ pc[p] = "end_commit" /\ pc[p] \in CommitSteps
      /\ pc' = [q \in Procs |-> IF q = p THEN "idle"
                                ELSE IF pc[q] = "asleep" THEN "begin" ELSE pc[q]]
  BY Zenon DEF WakeupLog, CommitSteps
<1>1. /\ boot = "up"
      /\ \A q \in Procs : q # p => pc[q] \notin CommitSteps /\ pc[q] \notin Working
      /\ \A k \in CommitSteps : At(k) <=> k = "end_commit"
  BY <1>0, CommitterLemma
<1>2. \A q \in Procs : pc'[q] \notin CommitSteps /\ pc'[q] \notin Working
  BY <1>0, <1>1, SMTT(30) DEF CommitSteps, Working, TypeOK
<1>3. \A k \in CommitSteps : ~At(k)'
  BY <1>2, Zenon DEF At
<1>4. TypeOK'
  BY <1>0, Zenon DEF TypeOK, Locations
<1>5. BootInv' /\ BufInv'
  BY <1>0, <1>1 DEF BootInv, BufInv, TypeOK
<1>6. CommitInv'
  BY <1>2, Zenon DEF CommitInv
<1>8. head = <<>> /\ lh = <<>>
  BY <1>1, Zenon DEF PhaseInv, CommitSteps
<1>9. PhaseInv'
  BY <1>3, <1>8 DEF PhaseInv, CommitSteps
<1>10. HeaderInv'
  BY DEF HeaderInv
<1>11. PinnedExactly'
  <2>1. Uninstalled' = Uninstalled
    BY <1>1, <1>3, SMTT(30) DEF Uninstalled, CommitSteps
  <2> QED
    BY <2>1, Zenon DEF PinnedExactly
<1>12. CopyInv'
  <2>1. Recovered' = Recovered /\ Logged' = Logged
    BY RecoveredFrame, Zenon DEF Logged
  <2> QED
    BY <1>1, <1>3, <2>1 DEF CopyInv, CommitSteps
<1> QED
  BY <1>4, <1>5, <1>6, <1>9, <1>10, <1>11, <1>12

===============================================================================
