-------------------------------- MODULE Bcache --------------------------------
(***************************************************************************)
(* The buffer cache of kernel/bio.c with the sleeplock of each buffer      *)
(* (kernel/sleeplock.c).                                                   *)
(*                                                                         *)
(* A section under bcache.lock, or under the spinlock inside a sleeplock,  *)
(* is one step.  The LRU list is the real one: next and prev pointers      *)
(* around bcache.head.  The callers follow the protocol of the kernel:     *)
(* between bread() and brelse() they may change the buffer, and a changed  *)
(* buffer is either written with bwrite() or kept by a bpin() of the log,  *)
(* which undoes the pin once the block has been installed.                 *)
(***************************************************************************)
EXTENDS Integers, Sequences, FiniteSets

CONSTANTS
  Procs,
  Block,      \* block numbers that are used
  Value,
  NBUF,
  MaxPins,    \* bound: blocks the log pins at a time
  Zero        \* no process, and the block number of a buffer never used

ASSUME BcacheAssumption ==
  /\ NBUF \in Nat \ {0}
  /\ MaxPins \in Nat
  /\ Zero \notin Procs \cup Block
  /\ IsFiniteSet(Procs)
  /\ Value # {}

Buf  == 1..NBUF
head == 0               \* bcache.head

VARIABLES
  blockno, valid, refcnt, data,  \* struct buf
  next, prev,                    \* the list through the buffers and head
  locked,                        \* b->lock: its holder, or Zero
  disk,                          \* the device
  pinned,                        \* buffers the log has pinned
  pc, buf,                       \* a process: where it is, and its b
  want,                          \*   the block it asked bread() for
  recent                         \* the buffers, last released first

cache  == <<blockno, valid, refcnt, data>>
list   == <<next, prev>>
thread == <<pc, buf, want>>
vars   == <<cache, list, locked, disk, pinned, thread, recent>>

TypeOK ==
  /\ blockno \in [Buf -> Block \cup {Zero}]
  /\ valid \in [Buf -> BOOLEAN]
  /\ refcnt \in [Buf -> 0..Cardinality(Procs) + 1]
  /\ data \in [Buf -> Value]
  /\ next \in [Buf \cup {head} -> Buf \cup {head}]
  /\ prev \in [Buf \cup {head} -> Buf \cup {head}]
  /\ locked \in [Buf -> Procs \cup {Zero}]
  /\ disk \in [Block -> Value]
  /\ pinned \subseteq Buf
  /\ pc \in [Procs -> {"out", "lock", "sleep", "read", "held", "release"}]
  /\ buf \in [Procs -> Buf]
  /\ want \in [Procs -> Block \cup {Zero}]
  /\ recent \in [Buf -> Buf]

\* binit() inserts the buffers at the head, one after the other.
Init ==
  /\ blockno = [b \in Buf |-> Zero]
  /\ valid = [b \in Buf |-> FALSE]
  /\ refcnt = [b \in Buf |-> 0]
  /\ data \in [Buf -> {CHOOSE v \in Value : TRUE}]
  /\ next = [b \in Buf \cup {head} |-> IF b = head THEN NBUF ELSE b - 1]
  /\ prev = [b \in Buf \cup {head} |-> IF b = NBUF THEN head ELSE b + 1]
  /\ locked = [b \in Buf |-> Zero]
  /\ disk \in [Block -> Value]
  /\ pinned = {}
  /\ pc = [p \in Procs |-> "out"]
  /\ buf = [p \in Procs |-> 1]
  /\ want = [p \in Procs |-> Zero]
  /\ recent = [k \in Buf |-> NBUF + 1 - k]

Goto(p, l) == pc' = [pc EXCEPT ![p] = l]

-------------------------------------------------------------------------------
(* bget(): the sections under bcache.lock.                                 *)

\* The buffers from b on, following one of the two links up to head.
Walk(link, b) ==
  LET walk[k \in 0..NBUF] ==
        IF k = 0 THEN <<b>>
        ELSE LET w == walk[k - 1] IN
             IF w[Len(w)] = head THEN w ELSE Append(w, link[w[Len(w)]])
  IN  walk[NBUF]

\* The buffer that a loop over the list stops at: the first that has the
\* property, or head if there is none.
FirstOn(link, S) ==
  LET w == Walk(link, link[head]) IN
  IF \E k \in DOMAIN w : w[k] \in S
  THEN w[CHOOSE k \in DOMAIN w : w[k] \in S /\ \A j \in 1..(k - 1) : w[j] \notin S]
  ELSE head

Cached(k) == FirstOn(next, {b \in Buf : blockno[b] = k})
Victim    == FirstOn(prev, {b \in Buf : refcnt[b] = 0})

\* As BgetHit, but the reference is not counted before the lock is given up.
BgetHitNoRef(p, k) ==
  /\ pc[p] = "out"
  /\ Cached(k) # head
  /\ buf' = [buf EXCEPT ![p] = Cached(k)]
  /\ want' = [want EXCEPT ![p] = k]
  /\ Goto(p, "lock")
  /\ UNCHANGED <<cache, list, locked, disk, pinned, recent>>

BgetHit(p, k) ==
  /\ pc[p] = "out"
  /\ Cached(k) # head
  /\ refcnt' = [refcnt EXCEPT ![Cached(k)] = @ + 1]
  /\ buf' = [buf EXCEPT ![p] = Cached(k)]
  /\ want' = [want EXCEPT ![p] = k]
  /\ Goto(p, "lock")
  /\ UNCHANGED <<blockno, valid, data, list, locked, disk, pinned, recent>>

BgetMiss(p, k) ==
  /\ pc[p] = "out"
  /\ Cached(k) = head
  /\ Victim # head
  /\ blockno' = [blockno EXCEPT ![Victim] = k]
  /\ valid' = [valid EXCEPT ![Victim] = FALSE]
  /\ refcnt' = [refcnt EXCEPT ![Victim] = 1]
  /\ buf' = [buf EXCEPT ![p] = Victim]
  /\ want' = [want EXCEPT ![p] = k]
  /\ Goto(p, "lock")
  /\ UNCHANGED <<data, list, locked, disk, pinned, recent>>

-------------------------------------------------------------------------------
(* acquiresleep() and the rest of bread().                                 *)

Acquiresleep(p) ==
  /\ pc[p] = "lock"
  /\ IF locked[buf[p]] # Zero
     THEN /\ Goto(p, "sleep")
          /\ UNCHANGED locked
     ELSE /\ locked' = [locked EXCEPT ![buf[p]] = p]
          /\ Goto(p, IF valid[buf[p]] THEN "held" ELSE "read")
  /\ UNCHANGED <<cache, list, disk, pinned, buf, want, recent>>

\* virtio_disk_rw(b, 0) has filled the buffer.
BreadDone(p) ==
  /\ pc[p] = "read"
  /\ data' = [data EXCEPT ![buf[p]] = disk[blockno[buf[p]]]]
  /\ valid' = [valid EXCEPT ![buf[p]] = TRUE]
  /\ Goto(p, "held")
  /\ UNCHANGED <<blockno, refcnt, list, locked, disk, pinned, buf, want, recent>>

-------------------------------------------------------------------------------
(* What the holder of a buffer does with it.                               *)

Modify(p, v) ==
  /\ pc[p] = "held"
  /\ data' = [data EXCEPT ![buf[p]] = v]
  /\ UNCHANGED <<blockno, valid, refcnt, list, locked, disk, pinned, thread, recent>>

Bwrite(p) ==
  /\ pc[p] = "held"
  /\ disk' = [disk EXCEPT ![blockno[buf[p]]] = data[buf[p]]]
  /\ UNCHANGED <<cache, list, locked, pinned, thread, recent>>

\* As Bpin, but without the reference.
BpinNoRef(p) ==
  /\ pc[p] = "held"
  /\ buf[p] \notin pinned
  /\ Cardinality(pinned) < MaxPins
  /\ pinned' = pinned \cup {buf[p]}
  /\ UNCHANGED <<cache, list, locked, disk, thread, recent>>

\* log_write() of a block that is not in the log yet.
Bpin(p) ==
  /\ pc[p] = "held"
  /\ buf[p] \notin pinned
  /\ Cardinality(pinned) < MaxPins
  /\ refcnt' = [refcnt EXCEPT ![buf[p]] = @ + 1]
  /\ pinned' = pinned \cup {buf[p]}
  /\ UNCHANGED <<blockno, valid, data, list, locked, disk, thread, recent>>

\* As Bunpin, but the reference stays.
BunpinKeepsRef(p) ==
  /\ pc[p] = "held"
  /\ buf[p] \in pinned
  /\ data[buf[p]] = disk[blockno[buf[p]]]
  /\ pinned' = pinned \ {buf[p]}
  /\ UNCHANGED <<cache, list, locked, disk, thread, recent>>

\* install_trans() has written the block home.
Bunpin(p) ==
  /\ pc[p] = "held"
  /\ buf[p] \in pinned
  /\ data[buf[p]] = disk[blockno[buf[p]]]
  /\ refcnt' = [refcnt EXCEPT ![buf[p]] = @ - 1]
  /\ pinned' = pinned \ {buf[p]}
  /\ UNCHANGED <<blockno, valid, data, list, locked, disk, thread, recent>>

-------------------------------------------------------------------------------
(* brelse()                                                                *)

\* As Releasesleep, but nobody is woken.
ReleasesleepSilently(p) ==
  /\ pc[p] = "held"
  /\ data[buf[p]] = disk[blockno[buf[p]]] \/ buf[p] \in pinned
  /\ locked' = [locked EXCEPT ![buf[p]] = Zero]
  /\ Goto(p, "release")
  /\ UNCHANGED <<cache, list, disk, pinned, buf, want, recent>>

\* releasesleep(): wakes all that sleep on the lock.  The buffer is clean or
\* pinned.
Releasesleep(p) ==
  /\ pc[p] = "held"
  /\ data[buf[p]] = disk[blockno[buf[p]]] \/ buf[p] \in pinned
  /\ locked' = [locked EXCEPT ![buf[p]] = Zero]
  /\ pc' = [x \in Procs |->
              IF x = p THEN "release"
              ELSE IF pc[x] = "sleep" /\ buf[x] = buf[p] THEN "lock" ELSE pc[x]]
  /\ UNCHANGED <<cache, list, disk, pinned, buf, want, recent>>

\* The six pointer assignments, in the order of the code: b is taken out and
\* put in behind head.
Unlinked(f, b) == [f EXCEPT ![prev[b]] = next[b]]
\* As MovePrev, with the head.next of before the removal.
MovePrevStale(b) == [[[prev EXCEPT ![next[b]] = prev[b]]
                           EXCEPT ![b] = head]
                           EXCEPT ![next[head]] = b]
MovePrev(b) == [[[prev EXCEPT ![next[b]] = prev[b]]
                      EXCEPT ![b] = head]
                      EXCEPT ![Unlinked(next, b)[head]] = b]
MoveNext(b) == [[Unlinked(next, b)
                      EXCEPT ![b] = Unlinked(next, b)[head]]
                      EXCEPT ![head] = b]

\* The order of releases when b is released last.
ToFront(order, b) ==
  LET i == CHOOSE i \in Buf : order[i] = b IN
  [k \in Buf |-> IF k = 1 THEN b ELSE IF k <= i THEN order[k - 1] ELSE order[k]]

Brelse(p) ==
  LET b == buf[p] IN
  /\ pc[p] = "release"
  /\ refcnt' = [refcnt EXCEPT ![b] = @ - 1]
  /\ IF refcnt[b] = 1
     THEN /\ next' = MoveNext(b)
          /\ prev' = MovePrev(b)
          /\ recent' = ToFront(recent, b)
     ELSE UNCHANGED <<list, recent>>
  /\ want' = [want EXCEPT ![p] = Zero]
  /\ buf' = [buf EXCEPT ![p] = 1]
  /\ Goto(p, "out")
  /\ UNCHANGED <<blockno, valid, data, locked, disk, pinned>>

-------------------------------------------------------------------------------
Next ==
  \E p \in Procs :
    \/ \E k \in Block : BgetHit(p, k) \/ BgetMiss(p, k)
    \/ Acquiresleep(p) \/ BreadDone(p)
    \/ \E v \in Value : Modify(p, v)
    \/ Bwrite(p) \/ Bpin(p) \/ Bunpin(p)
    \/ Releasesleep(p) \/ Brelse(p)

Spec == Init /\ [][Next]_vars

-------------------------------------------------------------------------------
(* Properties.                                                             *)

Using(p) == pc[p] # "out"

\* refcnt counts the users, the waiters and the pin of the log, no more and no
\* less, through the two halves of brelse().
RefcntExact ==
  TypeOK /\ \A b \in Buf :
    refcnt[b] = Cardinality({p \in Procs : Using(p) /\ buf[p] = b})
                + IF b \in pinned THEN 1 ELSE 0

\* No process sleeps in acquiresleep() on a lock that nobody holds.
SleeperHasHolder ==
  \A p \in Procs : pc[p] = "sleep" => locked[buf[p]] # Zero

\* The pointers of brelse() always form one ring through all the buffers in
\* the order of their last release, forwards through next and backwards
\* through prev.
ListIsLru ==
  /\ Walk(next, next[head]) = recent \o <<head>>
  /\ Walk(prev, prev[head]) = [k \in 1..NBUF |-> recent[NBUF + 1 - k]] \o <<head>>

\* With a buffer for every process and every pin, bget() never panics for want
\* of a buffer.
BuffersSuffice ==
  NBUF >= Cardinality(Procs) + MaxPins =>
    \A p \in Procs : pc[p] = "out" => Victim # head

\* What a reader of the block would get: the valid buffer if there is one.
Content == [k \in Block |->
              IF \E b \in Buf : blockno[b] = k /\ valid[b]
              THEN data[CHOOSE b \in Buf : blockno[b] = k /\ valid[b]]
              ELSE disk[k]]

\* The process that has the block from bread().
Owner == [k \in Block |->
            IF \E p \in Procs : pc[p] = "held" /\ want[p] = k
            THEN CHOOSE p \in Procs : pc[p] = "held" /\ want[p] = k
            ELSE Zero]

Store == INSTANCE BlockStore WITH content <- Content, owner <- Owner

\* bread(), bwrite() and brelse() with any eviction in between are exclusive
\* accesses to one variable per block: no update is lost and no stale block is
\* read back.
StoresBlocks == Store!StoreSpec
===============================================================================
