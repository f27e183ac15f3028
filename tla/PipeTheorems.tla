----------------------------- MODULE PipeTheorems -----------------------------
(***************************************************************************)
(* Proofs about the pipe of module Pipe, for every number of processes,    *)
(* size of the buffer and width of the counters.                           *)
(***************************************************************************)
EXTENDS Pipe, SequenceTheorems, TLAPS

-------------------------------------------------------------------------------
(* Remainders, by which the counters wrap around.                           *)

\* Division with remainder.
LEMMA ModDecompose ==
  ASSUME NEW d \in Int, d > 0, NEW a \in Int
  PROVE  a \div d \in Int /\ a % d \in 0..d-1 /\ a = d * (a \div d) + (a % d)
<1>1. a \div d \in Int
  OBVIOUS
<1>2. a % d \in 0..d-1
  OBVIOUS
<1>3. a = d * (a \div d) + (a % d)
  OBVIOUS
<1> QED
  BY <1>1, <1>2, <1>3

\* The remainder is determined by the decomposition.
LEMMA ModUnique ==
  ASSUME NEW d \in Int, d > 0, NEW r \in 0..d-1, NEW m \in Int
  PROVE  (d * m + r) % d = r
OBVIOUS

\* One addition or subtraction of numbers below d wraps around at most once.
LEMMA ModSmall ==
  ASSUME NEW d \in Int, d > 0, NEW a \in Int, -d <= a, a < 2 * d
  PROVE  a % d = IF a < 0 THEN a + d ELSE IF a < d THEN a ELSE a - d
OBVIOUS

\* A multiple of d does not change the remainder.
LEMMA ModPeriod ==
  ASSUME NEW d \in Int, d > 0, NEW w \in Int, w % d = 0, NEW a \in Int
  PROVE  (a + w) % d = a % d
<1> DEFINE k == a \div d
           m == w \div d
           r == a % d
<1>1. k \in Int /\ m \in Int /\ r \in 0..d-1
  BY ModDecompose
<1>2. w = d * m + 0 /\ a = d * k + r
  BY ModDecompose
<1> HIDE DEF k, m, r
<1>3. a + w = d * (k + m) + r
  BY <1>1, <1>2
<1>4. k + m \in Int
  BY <1>1
<1>5. (d * (k + m) + r) % d = r
  BY <1>1, <1>4, ModUnique
<1> QED
  BY <1>3, <1>5 DEF r

\* Numbers less than d apart have different remainders.
LEMMA ModApart ==
  ASSUME NEW d \in Int, d > 0, NEW a \in Int, NEW b \in Int, a < b, b < a + d
  PROVE  a % d # b % d
<1> SUFFICES ASSUME a % d = b % d PROVE FALSE
  OBVIOUS
<1> DEFINE k == a \div d
           m == b \div d
           r == a % d
<1>1. k \in Int /\ m \in Int /\ r \in 0..d-1
  BY ModDecompose
<1>2. b = d * m + r /\ a = d * k + r
  BY ModDecompose
<1> HIDE DEF k, m, r
<1>3. d * (m - k) = b - a
  BY <1>1, <1>2
<1>4. CASE m <= k
  <2>1. d * (m - k) <= 0
    BY <1>1, <1>4
  <2> QED
    BY <2>1, <1>3
<1>5. CASE m > k
  <2>1. d * (m - k) >= d
    BY <1>1, <1>5
  <2> QED
    BY <2>1, <1>3
<1> QED
  BY <1>1, <1>4, <1>5

-------------------------------------------------------------------------------
(* What holds in every reachable state.                                    *)

\* Where a process holds pi->lock.
InLock == {"r_test", "r_block", "r_copy", "w_loop", "w_block"}

\* pi->lock is held by the process that is between acquire() and release().
LockInv == \A p \in Procs : pc[p] \in InLock <=> lock = p

\* A process works on an end it has open, and an open end is a flag that is
\* set in an allocated page.
EndsInv ==
  /\ ~page => ~readopen /\ ~writeopen
  /\ \A p \in Procs :
       /\ "r" \in ends[p] => readopen
       /\ "w" \in ends[p] => writeopen
       /\ pc[p] \in Reading => "r" \in ends[p]
       /\ pc[p] \in Writing => "w" \in ends[p]

\* An end is closed by one process, when no other has it open; the page is
\* freed by one process, when both ends are closed.
CloseInv ==
  \A p \in Procs :
    /\ pc[p] = "close_r" => readopen /\ \A x \in Procs : "r" \notin ends[x]
    /\ pc[p] = "close_w" => writeopen /\ \A x \in Procs : "w" \notin ends[x]
    /\ pc[p] = "free" => page /\ ~readopen /\ ~writeopen
    /\ pc[p] \in Closing => \A x \in Procs \ {p} : pc[x] # pc[p]

\* The number of bytes between the two counters.
Count == (nwrite - nread) % WRAP

\* The counters are at most PIPESIZE apart, and what lies between them has
\* been written since the page was allocated.
WindowInv ==
  /\ Count <= PIPESIZE
  /\ page => \A k \in 1..Count : data[(nread + k - 1) % PIPESIZE] \in Byte

\* The byte counter is 0 until the copy loops run, and a reader that has not
\* copied a byte yet has left the wait loop for a reason.
LocalsInv ==
  \A p \in Procs :
    /\ pc[p] \notin Writing \cup {"r_copy"} => i[p] = 0
    /\ pc[p] = "r_copy" /\ i[p] = 0 => ~ (Empty /\ writeopen)

\* A writer sleeps only in front of a full pipe, or while a reader that will
\* wake it holds the lock.
WriterInv ==
  \A p \in Procs :
    /\ pc[p] = "w_block" => Full /\ readopen
    /\ pc[p] = "w_sleep" =>
         \/ Full /\ readopen
         \/ \E x \in Procs : pc[x] = "r_copy"

\* A reader sleeps only in front of an empty pipe, or while a writer that
\* will wake it holds the lock, as long as nobody is killed.
ReaderInv ==
  \A p \in Procs :
    /\ ~killed[p]
    /\ pc[p] = "r_block" => Empty /\ writeopen
    /\ pc[p] = "r_sleep" =>
         \/ Empty /\ writeopen
         \/ \E x \in Procs : pc[x] = "w_loop"

Control == LockInv /\ EndsInv /\ CloseInv /\ LocalsInv /\ WriterInv

PipeInv == TypeOK /\ Control /\ WindowInv

-------------------------------------------------------------------------------
(* Arithmetic of the uint counters.                                        *)

\* The distance between two values of a counter.
LEMMA Distance ==
  ASSUME NEW r \in 0..WRAP-1, NEW w \in 0..WRAP-1
  PROVE  (w - r) % WRAP = IF r <= w THEN w - r ELSE w - r + WRAP
  BY ModSmall, PipeAssumption

\* What the expressions of pipe.c over the counters compute.
LEMMA CounterValues ==
  ASSUME TypeOK
  PROVE  /\ Count = IF nread <= nwrite THEN nwrite - nread ELSE nwrite - nread + WRAP
         /\ (nwrite + 1) % WRAP = IF nwrite + 1 = WRAP THEN 0 ELSE nwrite + 1
         /\ (nread + 1) % WRAP = IF nread + 1 = WRAP THEN 0 ELSE nread + 1
         /\ (nread + PIPESIZE) % WRAP =
              IF nread + PIPESIZE < WRAP THEN nread + PIPESIZE
                                         ELSE nread + PIPESIZE - WRAP
<1>0. /\ WRAP \in Int /\ WRAP > 0 /\ PIPESIZE \in Int /\ PIPESIZE < WRAP /\ PIPESIZE > 0
      /\ nread \in 0..WRAP-1 /\ nwrite \in 0..WRAP-1
  BY PipeAssumption DEF TypeOK
<1>1. (nwrite - nread) % WRAP =
        IF nread <= nwrite THEN nwrite - nread ELSE nwrite - nread + WRAP
  BY <1>0, Distance
<1>2. (nwrite + 1) % WRAP = IF nwrite + 1 = WRAP THEN 0 ELSE nwrite + 1
  BY <1>0, ModSmall
<1>3. (nread + 1) % WRAP = IF nread + 1 = WRAP THEN 0 ELSE nread + 1
  BY <1>0, ModSmall
<1>4. (nread + PIPESIZE) % WRAP =
        IF nread + PIPESIZE < WRAP THEN nread + PIPESIZE ELSE nread + PIPESIZE - WRAP
  BY <1>0, ModSmall
<1> QED
  BY <1>1, <1>2, <1>3, <1>4 DEF Count

\* The tests of pipewrite() and piperead() are about the number of bytes.
LEMMA TestsCount ==
  ASSUME TypeOK
  PROVE  /\ Count \in 0..WRAP-1
         /\ Empty <=> Count = 0
         /\ Full <=> Count = PIPESIZE
<1>1. /\ WRAP \in Int /\ PIPESIZE \in Int /\ PIPESIZE < WRAP /\ PIPESIZE > 0
      /\ nread \in 0..WRAP-1 /\ nwrite \in 0..WRAP-1
  BY PipeAssumption DEF TypeOK
<1> QED
  BY <1>1, CounterValues DEF Empty, Full

\* pi->data[pi->nwrite % PIPESIZE] is the slot behind the last byte, and it is
\* none of the slots in use unless the pipe is full.
LEMMA NextSlot ==
  ASSUME TypeOK, Count < PIPESIZE
  PROVE  /\ nwrite % PIPESIZE = (nread + Count) % PIPESIZE
         /\ \A k \in 1..Count : (nread + k - 1) % PIPESIZE # nwrite % PIPESIZE
<1>0. /\ PIPESIZE \in Int /\ PIPESIZE > 0 /\ WRAP \in Int /\ WRAP % PIPESIZE = 0
      /\ nread \in Nat /\ nwrite \in Nat /\ Count \in Nat
  <2>1. nread \in Nat /\ nwrite \in Nat
    BY DEF TypeOK
  <2> QED
    BY <2>1, PipeAssumption, TestsCount
<1>1. nread + Count = nwrite \/ nread + Count = nwrite + WRAP
  BY <1>0, CounterValues
<1>2. (nwrite + WRAP) % PIPESIZE = nwrite % PIPESIZE
  <2>1. nwrite \in Int
    BY <1>0
  <2> QED
    BY <1>0, <2>1, ModPeriod, Zenon
<1>3. nwrite % PIPESIZE = (nread + Count) % PIPESIZE
  BY <1>1, <1>2
<1>4. ASSUME NEW k \in 1..Count
      PROVE  (nread + k - 1) % PIPESIZE # (nread + Count) % PIPESIZE
  BY <1>0, ModApart
<1> QED
  BY <1>3, <1>4

\* After piperead() has advanced pi->nread, byte k of the pipe is the one that
\* was byte k + 1, also when the counter wraps around.
LEMMA FirstSlot ==
  ASSUME TypeOK, NEW k \in Nat
  PROVE  (((nread + 1) % WRAP) + k) % PIPESIZE = (nread + 1 + k) % PIPESIZE
<1>0. /\ PIPESIZE \in Int /\ PIPESIZE > 0 /\ WRAP \in Int /\ WRAP % PIPESIZE = 0
      /\ nread \in 0..WRAP-1
  BY PipeAssumption DEF TypeOK
<1>1. CASE nread + 1 # WRAP
  <2>1. (nread + 1) % WRAP = nread + 1
    BY <1>1, CounterValues
  <2> QED
    BY <2>1
<1>2. CASE nread + 1 = WRAP
  <2>1. (nread + 1) % WRAP = 0
    BY <1>2, CounterValues
  <2>2. (k + WRAP) % PIPESIZE = k % PIPESIZE
    <3>1. k \in Int
      OBVIOUS
    <3> QED
      BY <1>0, <3>1, ModPeriod, Zenon
  <2>3. 0 + k = k /\ nread + 1 + k = k + WRAP
    BY <1>0, <1>2
  <2> QED
    BY <2>1, <2>2, <2>3
<1> QED
  BY <1>1, <1>2

-------------------------------------------------------------------------------
(* The inductive invariant.                                                *)

\* Every step of a process keeps the lock, the ends, the closing of ends and the
\* reasons to sleep in order.
LEMMA ControlStep ==
  ASSUME TypeOK, Control, [Next]_vars
  PROVE  Control'
<1> USE PipeAssumption DEF Control, TypeOK, LockInv, EndsInv, CloseInv, LocalsInv, WriterInv,
            InLock, Reading, Writing, Closing, Empty, Full, pipe, local
<1>1. ASSUME NEW p \in Procs, PipeAlloc(p)
      PROVE  Control'
  BY <1>1 DEF PipeAlloc
<1>2. ASSUME NEW p \in Procs, NEW x \in Procs \ {p}, Fork(p, x)
      PROVE  Control'
  BY <1>2 DEF Fork
<1>3. ASSUME NEW p \in Procs, NEW e \in {"r", "w"}, FileClose(p, e)
      PROVE  Control'
  BY <1>3 DEF FileClose, Goto
<1>4. ASSUME NEW p \in Procs, PipeCloseRead(p)
      PROVE  Control'
  BY <1>4 DEF PipeCloseRead, WakeAndGoto
<1>5. ASSUME NEW p \in Procs, PipeCloseWrite(p)
      PROVE  Control'
  BY <1>5 DEF PipeCloseWrite, WakeAndGoto
<1>6. ASSUME NEW p \in Procs, PipeFree(p)
      PROVE  Control'
  BY <1>6 DEF PipeFree, Goto
<1>7. ASSUME NEW p \in Procs, Kill(p)
      PROVE  Control'
  <2>1. \A x \in Procs : \/ pc'[x] = pc[x]
                         \/ pc[x] = "r_sleep" /\ pc'[x] = "r_lock"
                         \/ pc[x] = "w_sleep" /\ pc'[x] = "w_lock"
    BY <1>7 DEF Kill, Goto
  <2>2. UNCHANGED <<pipe, lock, page, ends, i>>
    BY <1>7 DEF Kill
  <2> HIDE DEF LockInv, EndsInv, CloseInv, LocalsInv, WriterInv
  <2>3. LockInv'
    BY <2>1, <2>2, Zenon DEF LockInv
  <2>4. EndsInv'
    BY <2>1, <2>2, Zenon DEF EndsInv
  <2>5. CloseInv'
    BY <2>1, <2>2, Zenon DEF CloseInv
  <2>6. LocalsInv' /\ WriterInv'
    BY <2>1, <2>2, Zenon DEF LocalsInv, WriterInv
  <2> QED
    BY <2>3, <2>4, <2>5, <2>6, Zenon
<1>8. ASSUME NEW p \in Procs, NEW k \in 0..MaxN, WriteBegin(p, k)
      PROVE  Control'
  BY <1>8 DEF WriteBegin, Goto
<1>9. ASSUME NEW p \in Procs, WriteLock(p)
      PROVE  Control'
  BY <1>9 DEF WriteLock, Goto
<1>10. ASSUME NEW p \in Procs, WriteFails(p)
      PROVE  Control'
  BY <1>10 DEF WriteFails, Goto, Done
<1>11. ASSUME NEW p \in Procs, WriteFull(p)
      PROVE  Control'
  BY <1>11 DEF WriteFull, WakeAndGoto
<1>12. ASSUME NEW p \in Procs, WriteSleep(p)
      PROVE  Control'
  BY <1>12 DEF WriteSleep, Goto
<1>13. ASSUME NEW p \in Procs, NEW b \in Byte, WriteByte(p, b)
      PROVE  Control'
  BY <1>13 DEF WriteByte
<1>14. ASSUME NEW p \in Procs, WriteEnd(p)
      PROVE  Control'
  BY <1>14 DEF WriteEnd, WakeAndGoto, Done
<1>15. ASSUME NEW p \in Procs, NEW k \in 0..MaxN, ReadBegin(p, k)
      PROVE  Control'
  BY <1>15 DEF ReadBegin, Goto
<1>16. ASSUME NEW p \in Procs, ReadLock(p)
      PROVE  Control'
  <2>1. /\ pc[p] = "r_lock" /\ lock = Free /\ lock' = p /\ pc' = [pc EXCEPT ![p] = "r_test"]
        /\ UNCHANGED <<pipe, page, ends, i>>
    BY <1>16, Zenon DEF ReadLock, Goto
  <2>2. pc'[p] = "r_test" /\ \A x \in Procs : x # p => pc'[x] = pc[x]
    BY <2>1
  <2> HIDE DEF LockInv, EndsInv, CloseInv, LocalsInv, WriterInv
  <2>3. LockInv'
    BY <2>1, <2>2 DEF LockInv
  <2>4. EndsInv' /\ CloseInv'
    BY <2>1, <2>2 DEF EndsInv, CloseInv
  <2>5. LocalsInv' /\ WriterInv'
    BY <2>1, <2>2 DEF LocalsInv, WriterInv
  <2> QED
    BY <2>3, <2>4, <2>5, Zenon
<1>17. ASSUME NEW p \in Procs, ReadTest(p)
      PROVE  Control'
  BY <1>17 DEF ReadTest, Goto
<1>18. ASSUME NEW p \in Procs, ReadFails(p)
      PROVE  Control'
  BY <1>18 DEF ReadFails, Goto, Done
<1>19. ASSUME NEW p \in Procs, ReadSleep(p)
      PROVE  Control'
  BY <1>19 DEF ReadSleep, Goto
<1>20. ASSUME NEW p \in Procs, ReadByte(p)
      PROVE  Control'
  BY <1>20 DEF ReadByte
<1>21. ASSUME NEW p \in Procs, ReadEnd(p)
      PROVE  Control'
  BY <1>21 DEF ReadEnd, WakeAndGoto, Done
<1>22. CASE UNCHANGED vars
  BY <1>22 DEF vars, pipe, local
<1> HIDE DEF Control, TypeOK
<1> QED
  BY <1>1, <1>2, <1>3, <1>4, <1>5, <1>6, <1>7, <1>8, <1>9, <1>10, <1>11, <1>12, <1>13, <1>14, <1>15, <1>16, <1>17, <1>18, <1>19, <1>20, <1>21, <1>22
     DEF Next, Step, Acquire

\* Every step keeps the types; what piperead() delivers is a byte that was
\* written, because the bytes between the counters are.
LEMMA TypeStep ==
  ASSUME TypeOK, Control, WindowInv, [Next]_vars
  PROVE  TypeOK'
<1>1. ASSUME NEW p \in Procs, PipeAlloc(p)
      PROVE  TypeOK'
  BY <1>1, PipeAssumption DEF PipeAlloc, TypeOK, Reading, Writing, Closing, pipe, local
<1>2. ASSUME NEW p \in Procs, NEW x \in Procs \ {p}, Fork(p, x)
      PROVE  TypeOK'
  BY <1>2, PipeAssumption DEF Fork, TypeOK, Reading, Writing, Closing, pipe, local
<1>3. ASSUME NEW p \in Procs, NEW e \in {"r", "w"}, FileClose(p, e)
      PROVE  TypeOK'
  BY <1>3, PipeAssumption DEF FileClose, Goto, TypeOK, Reading, Writing, Closing, pipe, local
<1>4. ASSUME NEW p \in Procs, PipeCloseRead(p)
      PROVE  TypeOK'
  BY <1>4, Zenon DEF PipeCloseRead, WakeAndGoto, TypeOK, Reading, Writing, Closing, pipe, local
<1>5. ASSUME NEW p \in Procs, PipeCloseWrite(p)
      PROVE  TypeOK'
  BY <1>5, Zenon DEF PipeCloseWrite, WakeAndGoto, TypeOK, Reading, Writing, Closing, pipe, local
<1>6. ASSUME NEW p \in Procs, PipeFree(p)
      PROVE  TypeOK'
  BY <1>6, Zenon DEF PipeFree, Goto, TypeOK, Reading, Writing, Closing, pipe, local
<1>7. ASSUME NEW p \in Procs, Kill(p)
      PROVE  TypeOK'
  BY <1>7, PipeAssumption DEF Kill, Goto, TypeOK, Reading, Writing, Closing, pipe, local
<1>8. ASSUME NEW p \in Procs, NEW k \in 0..MaxN, WriteBegin(p, k)
      PROVE  TypeOK'
  BY <1>8, PipeAssumption DEF WriteBegin, Goto, TypeOK, Reading, Writing, Closing, pipe, local
<1>9. ASSUME NEW p \in Procs, WriteLock(p)
      PROVE  TypeOK'
  BY <1>9, PipeAssumption DEF WriteLock, Goto, TypeOK, Reading, Writing, Closing, pipe, local
<1>10. ASSUME NEW p \in Procs, WriteFails(p)
      PROVE  TypeOK'
  BY <1>10, PipeAssumption DEF WriteFails, Goto, Done, TypeOK, Reading, Writing, Closing, pipe, local
<1>11. ASSUME NEW p \in Procs, WriteFull(p)
      PROVE  TypeOK'
  BY <1>11, PipeAssumption DEF WriteFull, WakeAndGoto, TypeOK, Reading, Writing, Closing, pipe, local
<1>12. ASSUME NEW p \in Procs, WriteSleep(p)
      PROVE  TypeOK'
  BY <1>12, PipeAssumption DEF WriteSleep, Goto, TypeOK, Reading, Writing, Closing, pipe, local
<1>13. ASSUME NEW p \in Procs, NEW b \in Byte, WriteByte(p, b)
      PROVE  TypeOK'
  <2>1. (nwrite + 1) % WRAP \in 0..WRAP-1
    BY CounterValues, PipeAssumption DEF TypeOK
  <2> QED
    BY <1>13, <2>1, PipeAssumption DEF WriteByte, TypeOK
<1>14. ASSUME NEW p \in Procs, WriteEnd(p)
      PROVE  TypeOK'
  BY <1>14, PipeAssumption DEF WriteEnd, WakeAndGoto, Done, TypeOK, Reading, Writing, Closing, pipe, local
<1>15. ASSUME NEW p \in Procs, NEW k \in 0..MaxN, ReadBegin(p, k)
      PROVE  TypeOK'
  BY <1>15, PipeAssumption DEF ReadBegin, Goto, TypeOK, Reading, Writing, Closing, pipe, local
<1>16. ASSUME NEW p \in Procs, ReadLock(p)
      PROVE  TypeOK'
  BY <1>16, PipeAssumption DEF ReadLock, Goto, TypeOK, Reading, Writing, Closing, pipe, local
<1>17. ASSUME NEW p \in Procs, ReadTest(p)
      PROVE  TypeOK'
  BY <1>17, PipeAssumption DEF ReadTest, Goto, TypeOK, Reading, Writing, Closing, pipe, local
<1>18. ASSUME NEW p \in Procs, ReadFails(p)
      PROVE  TypeOK'
  BY <1>18, PipeAssumption DEF ReadFails, Goto, Done, TypeOK, Reading, Writing, Closing, pipe, local
<1>19. ASSUME NEW p \in Procs, ReadSleep(p)
      PROVE  TypeOK'
  BY <1>19, PipeAssumption DEF ReadSleep, Goto, TypeOK, Reading, Writing, Closing, pipe, local
<1>20. ASSUME NEW p \in Procs, ReadByte(p)
      PROVE  TypeOK'
  <2>1. "r" \in ends[p] /\ page
    BY <1>20 DEF ReadByte, Control, EndsInv, Reading
  <2>2. Count \in Nat /\ Count # 0
    BY <1>20, TestsCount DEF ReadByte
  <2>3. data[(nread + 1 - 1) % PIPESIZE] \in Byte
    BY <2>1, <2>2 DEF WindowInv
  <2>4. data[nread % PIPESIZE] \in Byte
    BY <2>3 DEF TypeOK
  <2>5. (nread + 1) % WRAP \in 0..WRAP-1
    BY CounterValues, PipeAssumption DEF TypeOK
  <2> QED
    BY <1>20, <2>4, <2>5, PipeAssumption DEF ReadByte, TypeOK
<1>21. ASSUME NEW p \in Procs, ReadEnd(p)
      PROVE  TypeOK'
  BY <1>21, PipeAssumption DEF ReadEnd, WakeAndGoto, Done, TypeOK, Reading, Writing, Closing, pipe, local
<1>22. CASE UNCHANGED vars
  BY <1>22 DEF vars, pipe, local, TypeOK
<1> QED
  BY <1>1, <1>2, <1>3, <1>4, <1>5, <1>6, <1>7, <1>8, <1>9, <1>10, <1>11, <1>12, <1>13, <1>14, <1>15, <1>16, <1>17, <1>18, <1>19, <1>20, <1>21, <1>22
     DEF Next, Step, Acquire

\* A byte written is one more in the pipe.
LEMMA WriteCounts ==
  ASSUME TypeOK, Count < PIPESIZE, nread' = nread, nwrite' = (nwrite + 1) % WRAP
  PROVE  Count' = Count + 1
<1>1. /\ WRAP \in Int /\ WRAP > PIPESIZE /\ PIPESIZE \in Int
      /\ nread \in 0..WRAP-1 /\ nwrite \in 0..WRAP-1
  BY PipeAssumption DEF TypeOK
<1>2. nwrite' = IF nwrite + 1 = WRAP THEN 0 ELSE nwrite + 1
  BY CounterValues
<1>3. nwrite' \in 0..WRAP-1 /\ nread' \in 0..WRAP-1
  BY <1>1, <1>2
<1>4. Count' = IF nread' <= nwrite' THEN nwrite' - nread' ELSE nwrite' - nread' + WRAP
  BY <1>3, Distance, Zenon DEF Count
<1> QED
  BY <1>1, <1>2, <1>4, CounterValues

\* A byte read is one less.
LEMMA ReadCounts ==
  ASSUME TypeOK, Count # 0, nwrite' = nwrite, nread' = (nread + 1) % WRAP
  PROVE  Count' = Count - 1
<1>1. /\ WRAP \in Int /\ WRAP > PIPESIZE /\ PIPESIZE \in Int
      /\ nread \in 0..WRAP-1 /\ nwrite \in 0..WRAP-1
  BY PipeAssumption DEF TypeOK
<1>2. nread' = IF nread + 1 = WRAP THEN 0 ELSE nread + 1
  BY CounterValues
<1>3. nwrite' \in 0..WRAP-1 /\ nread' \in 0..WRAP-1
  BY <1>1, <1>2
<1>4. Count' = IF nread' <= nwrite' THEN nwrite' - nread' ELSE nwrite' - nread' + WRAP
  BY <1>3, Distance, Zenon DEF Count
<1> QED
  BY <1>1, <1>2, <1>4, CounterValues

\* Only four steps touch the buffer, the counters or the page: a new pipe is
\* empty, a written byte goes behind the others, a read one leaves the front.
LEMMA WindowStep ==
  ASSUME TypeOK, Control, WindowInv, [Next]_vars
  PROVE  WindowInv'
<1>0. /\ WRAP \in Int /\ WRAP > 0 /\ PIPESIZE \in Int /\ PIPESIZE > 0
      /\ nread \in 0..WRAP-1 /\ nwrite \in 0..WRAP-1 /\ Count \in Nat
  <2>1. nread \in 0..WRAP-1 /\ nwrite \in 0..WRAP-1
    BY DEF TypeOK
  <2> QED
    BY <2>1, TestsCount, PipeAssumption
<1>1. ASSUME NEW p \in Procs, PipeAlloc(p)
      PROVE  WindowInv'
  <2>1. nread' = 0 /\ nwrite' = 0
    BY <1>1 DEF PipeAlloc
  <2>2. (0 - 0) % WRAP = 0
    BY <1>0
  <2>3. Count' = 0
    BY <2>1, <2>2 DEF Count
  <2> QED
    BY <1>0, <2>3 DEF WindowInv
<1>2. ASSUME NEW p \in Procs, PipeFree(p)
      PROVE  WindowInv'
  BY <1>2 DEF PipeFree, WindowInv, Count
<1>3. ASSUME NEW p \in Procs, NEW b \in Byte, WriteByte(p, b)
      PROVE  WindowInv'
  <2>1. /\ ~Full /\ nread' = nread /\ nwrite' = (nwrite + 1) % WRAP /\ page' = page
        /\ data' = [data EXCEPT ![nwrite % PIPESIZE] = b]
    BY <1>3 DEF WriteByte
  <2>2. Count < PIPESIZE
    <3>1. Count <= PIPESIZE
      BY DEF WindowInv
    <3> QED
      BY <1>0, <2>1, <3>1, TestsCount
  <2>3. Count' = Count + 1
    BY <2>1, <2>2, WriteCounts
  <2>4. ASSUME NEW k \in 1..Count', page
        PROVE  data'[(nread + k - 1) % PIPESIZE] \in Byte
    <3>1. (nread + k - 1) % PIPESIZE \in 0..PIPESIZE-1
      BY <1>0, <2>3
    <3>2. CASE k = Count + 1
      <4>1. (nread + k - 1) % PIPESIZE = nwrite % PIPESIZE
        BY <1>0, <2>2, <3>2, NextSlot
      <4> QED
        BY <2>1, <3>1, <4>1 DEF TypeOK
    <3>3. CASE k \in 1..Count
      <4>1. (nread + k - 1) % PIPESIZE # nwrite % PIPESIZE
        BY <2>2, <3>3, NextSlot
      <4>2. data[(nread + k - 1) % PIPESIZE] \in Byte
        BY <2>4, <3>3 DEF WindowInv
      <4> QED
        BY <2>1, <3>1, <4>1, <4>2 DEF TypeOK
    <3> QED
      BY <1>0, <2>3, <3>2, <3>3
  <2>5. Count' <= PIPESIZE
    BY <1>0, <2>2, <2>3
  <2> QED
    BY <2>1, <2>4, <2>5 DEF WindowInv
<1>4. ASSUME NEW p \in Procs, ReadByte(p)
      PROVE  WindowInv'
  <2>1. /\ ~Empty /\ nwrite' = nwrite /\ nread' = (nread + 1) % WRAP
        /\ data' = data /\ page' = page
    BY <1>4 DEF ReadByte
  <2>2. Count # 0
    BY <2>1, TestsCount
  <2>3. Count' = Count - 1
    BY <2>1, <2>2, ReadCounts
  <2>4. ASSUME NEW k \in 1..Count', page
        PROVE  data[(nread' + k - 1) % PIPESIZE] \in Byte
    <3>1. k - 1 \in Nat /\ k + 1 \in 1..Count
      BY <1>0, <2>3
    <3>2. (((nread + 1) % WRAP) + (k - 1)) % PIPESIZE = (nread + 1 + (k - 1)) % PIPESIZE
      BY <3>1, FirstSlot, Zenon
    <3>3. nread' \in Int
      BY <1>0, <2>1
    <3>4. nread' + k - 1 = nread' + (k - 1) /\ nread + 1 + (k - 1) = nread + (k + 1) - 1
      BY <1>0, <3>3
    <3>5. (nread' + k - 1) % PIPESIZE = (nread + (k + 1) - 1) % PIPESIZE
      BY <2>1, <3>2, <3>4
    <3> QED
      BY <2>4, <3>1, <3>5 DEF WindowInv
  <2>5. Count' <= PIPESIZE
    BY <1>0, <2>3 DEF WindowInv
  <2> QED
    BY <2>1, <2>4, <2>5 DEF WindowInv
<1>5. CASE UNCHANGED <<data, nread, nwrite, page>>
  BY <1>5 DEF WindowInv, Count
<1> QED
  BY <1>1, <1>2, <1>3, <1>4, <1>5
     DEF Next, Step, Acquire, vars, pipe, Fork, FileClose, PipeCloseRead,
         PipeCloseWrite, Kill, WriteBegin, WriteLock, WriteFails, WriteFull,
         WriteSleep, WriteEnd, ReadBegin, ReadLock, ReadTest, ReadFails,
         ReadSleep, ReadEnd

\* The initial state has no pipe.
LEMMA PipeInvInit == Init => PipeInv
<1> SUFFICES ASSUME Init PROVE PipeInv
  OBVIOUS
<1>1. TypeOK
  <2>1. 0 \in 0..WRAP-1 /\ 0 \in 0..MaxN
    BY PipeAssumption
  <2> QED
    BY <2>1, Zenon DEF Init, TypeOK
<1>2. Control
  BY PipeAssumption DEF Init, Control, LockInv, EndsInv, CloseInv, LocalsInv, WriterInv,
                        InLock, Reading, Writing, Closing
<1>3. WindowInv
  <2>1. Count = 0
    BY <1>1, TestsCount DEF Init, Empty
  <2> QED
    BY <2>1, PipeAssumption DEF WindowInv
<1> QED
  BY <1>1, <1>2, <1>3 DEF PipeInv

\* Every step keeps all of it.
LEMMA PipeInvStep == PipeInv /\ [Next]_vars => PipeInv'
BY ControlStep, TypeStep, WindowStep DEF PipeInv

\* The inductive invariant holds throughout.
LEMMA PipeInvariant == Spec => []PipeInv
BY PipeInvInit, PipeInvStep, PTL DEF Spec

-------------------------------------------------------------------------------
(* The theorems.                                                           *)

\* The invariant rules out every use of a page that is, or will be, freed.
LEMMA PipeInvFreed == PipeInv => FreedPageUnused
<1> SUFFICES ASSUME PipeInv PROVE FreedPageUnused
  OBVIOUS
<1> USE DEF PipeInv, Control, EndsInv, CloseInv
<1>1. ASSUME NEW x \in Procs, ~readopen, ~writeopen
      PROVE  ends[x] = {} /\ pc[x] \in {"user", "free"}
  <2>1. ends[x] \subseteq {"r", "w"} /\ "r" \notin ends[x] /\ "w" \notin ends[x]
    BY <1>1 DEF TypeOK
  <2>2. ends[x] = {}
    BY <2>1
  <2> QED
    BY <1>1, <2>2 DEF TypeOK, Closing
<1>2. ~page => \A p \in Procs : ends[p] = {} /\ pc[p] = "user"
  BY <1>1
<1>3. ASSUME NEW p \in Procs, pc[p] = "free"
      PROVE  /\ page /\ lock = Free
             /\ \A x \in Procs \ {p} : ends[x] = {} /\ pc[x] = "user"
  <2>1. page /\ ~readopen /\ ~writeopen
    BY <1>3
  <2>2. lock = Free
    BY <1>1, <2>1, Zenon DEF LockInv, InLock, TypeOK
  <2>3. \A x \in Procs \ {p} : pc[x] # "free"
    BY <1>3 DEF Closing
  <2> QED
    BY <1>1, <2>1, <2>2, <2>3
<1> QED
  BY <1>2, <1>3 DEF FreedPageUnused

\* pipeclose() never frees the page of a pipe that some process can still
\* reach, for any number of processes that fork, close, exit and are killed.
THEOREM FreedPageIsUnused == Spec => []FreedPageUnused
BY PipeInvariant, PipeInvFreed, PTL

\* When nobody holds the lock there is no reader that still has to wake the
\* writers.
LEMMA PipeInvWriter == PipeInv => WriterNotStranded
BY PipeAssumption DEF PipeInv, Control, WriterInv, LockInv, InLock, WriterNotStranded

\* The wakeups of piperead() and pipeclose() suffice: no writer sleeps while
\* there is room or the read end is closed, even when processes are killed.
THEOREM WritersAreWoken == Spec => []WriterNotStranded
BY PipeInvariant, PipeInvWriter, PTL

-------------------------------------------------------------------------------
(* Readers, as long as nobody is killed.                                   *)

\* Without kill() a writer that has put bytes into the pipe wakes the readers
\* before it gives up the lock.
LEMMA ReaderStep ==
  ASSUME Killable = {}, TypeOK, Control, ReaderInv, [Next]_vars
  PROVE  ReaderInv'
<1> USE PipeAssumption DEF TypeOK, Control, LockInv, EndsInv, ReaderInv, InLock, Reading, Writing,
            Empty, Full, pipe, local
<1>1. ASSUME NEW p \in Procs, PipeAlloc(p)
      PROVE  ReaderInv'
  BY <1>1 DEF PipeAlloc
<1>2. ASSUME NEW p \in Procs, NEW x \in Procs \ {p}, Fork(p, x)
      PROVE  ReaderInv'
  BY <1>2 DEF Fork
<1>3. ASSUME NEW p \in Procs, NEW e \in {"r", "w"}, FileClose(p, e)
      PROVE  ReaderInv'
  BY <1>3 DEF FileClose, Goto
<1>4. ASSUME NEW p \in Procs, PipeCloseRead(p)
      PROVE  ReaderInv'
  BY <1>4 DEF PipeCloseRead, WakeAndGoto
<1>5. ASSUME NEW p \in Procs, PipeCloseWrite(p)
      PROVE  ReaderInv'
  BY <1>5 DEF PipeCloseWrite, WakeAndGoto
<1>6. ASSUME NEW p \in Procs, PipeFree(p)
      PROVE  ReaderInv'
  BY <1>6 DEF PipeFree, Goto
<1>7. ASSUME NEW p \in Procs, Kill(p)
      PROVE  ReaderInv'
  BY <1>7 DEF Kill, Goto
<1>8. ASSUME NEW p \in Procs, NEW k \in 0..MaxN, WriteBegin(p, k)
      PROVE  ReaderInv'
  BY <1>8 DEF WriteBegin, Goto
<1>9. ASSUME NEW p \in Procs, WriteLock(p)
      PROVE  ReaderInv'
  BY <1>9 DEF WriteLock, Goto
<1>10. ASSUME NEW p \in Procs, WriteFails(p)
      PROVE  ReaderInv'
  BY <1>10 DEF WriteFails, Goto, Done
<1>11. ASSUME NEW p \in Procs, WriteFull(p)
      PROVE  ReaderInv'
  BY <1>11 DEF WriteFull, WakeAndGoto
<1>12. ASSUME NEW p \in Procs, WriteSleep(p)
      PROVE  ReaderInv'
  BY <1>12 DEF WriteSleep, Goto
<1>13. ASSUME NEW p \in Procs, NEW b \in Byte, WriteByte(p, b)
      PROVE  ReaderInv'
  BY <1>13 DEF WriteByte
<1>14. ASSUME NEW p \in Procs, WriteEnd(p)
      PROVE  ReaderInv'
  BY <1>14 DEF WriteEnd, WakeAndGoto, Done
<1>15. ASSUME NEW p \in Procs, NEW k \in 0..MaxN, ReadBegin(p, k)
      PROVE  ReaderInv'
  BY <1>15 DEF ReadBegin, Goto
<1>16. ASSUME NEW p \in Procs, ReadLock(p)
      PROVE  ReaderInv'
  BY <1>16 DEF ReadLock, Goto
<1>17. ASSUME NEW p \in Procs, ReadTest(p)
      PROVE  ReaderInv'
  BY <1>17 DEF ReadTest, Goto
<1>18. ASSUME NEW p \in Procs, ReadFails(p)
      PROVE  ReaderInv'
  BY <1>18 DEF ReadFails, Goto, Done
<1>19. ASSUME NEW p \in Procs, ReadSleep(p)
      PROVE  ReaderInv'
  BY <1>19 DEF ReadSleep, Goto
<1>20. ASSUME NEW p \in Procs, ReadByte(p)
      PROVE  ReaderInv'
  BY <1>20 DEF ReadByte
<1>21. ASSUME NEW p \in Procs, ReadEnd(p)
      PROVE  ReaderInv'
  BY <1>21 DEF ReadEnd, WakeAndGoto, Done
<1>22. CASE UNCHANGED vars
  BY <1>22 DEF vars, pipe, local
<1> HIDE DEF TypeOK, Control, ReaderInv
<1> QED
  BY <1>1, <1>2, <1>3, <1>4, <1>5, <1>6, <1>7, <1>8, <1>9, <1>10, <1>11, <1>12, <1>13, <1>14, <1>15, <1>16, <1>17, <1>18, <1>19, <1>20, <1>21, <1>22
     DEF Next, Step, Acquire

\* When nobody holds the lock there is no writer that still has to wake the
\* readers.
LEMMA PipeInvReader == PipeInv /\ ReaderInv => ReaderNotStranded
BY PipeAssumption DEF PipeInv, Control, ReaderInv, LockInv, InLock, ReaderNotStranded

\* Without kill() the wakeups of pipewrite() and pipeclose() suffice: no reader
\* sleeps while there is something to read or the write end is closed.  With
\* kill() they do not: run pipe_killed.
THEOREM ReadersAreWoken ==
  ASSUME Killable = {}
  PROVE  Spec => []ReaderNotStranded
<1>1. Init => ReaderInv
  BY DEF Init, ReaderInv
<1>2. PipeInv /\ ReaderInv /\ [Next]_vars => ReaderInv'
  BY ReaderStep DEF PipeInv
<1> QED
  BY <1>1, <1>2, PipeInvariant, PipeInvReader, PTL DEF Spec

-------------------------------------------------------------------------------
(* The pipe implements the byte stream.                                    *)

Bytes == Byte \cup {Junk}

WindowFacts ==
  /\ Window \in Seq(Bytes)
  /\ Len(Window) = Count
  /\ \A k \in 1..Count : Window[k] = data[(nread + k - 1) % PIPESIZE]

\* The window is the sequence of the bytes between the counters.
LEMMA WindowIsSeq == TypeOK => WindowFacts
<1> SUFFICES ASSUME TypeOK PROVE WindowFacts
  OBVIOUS
<1>1. /\ PIPESIZE \in Int /\ PIPESIZE > 0 /\ nread \in Int /\ Count \in Nat
  BY TestsCount, PipeAssumption DEF TypeOK
<1>2. \A k \in 1..Count : data[(nread + k - 1) % PIPESIZE] \in Bytes
  BY <1>1 DEF TypeOK, Bytes
<1>3. Window = [k \in 1..Count |-> data[(nread + k - 1) % PIPESIZE]]
  BY DEF Window, Count
<1>4. Window \in Seq(Bytes) /\ Len(Window) = Count
  BY <1>1, <1>2, <1>3
<1>5. \A k \in 1..Count : Window[k] = data[(nread + k - 1) % PIPESIZE]
  BY <1>3
<1> QED
  BY <1>4, <1>5 DEF WindowFacts

\* A write appends to the window.
LEMMA WriteAppends ==
  ASSUME PipeInv, PipeInv', NEW p \in Procs, NEW b \in Byte, WriteByte(p, b)
  PROVE  Len(Window) < PIPESIZE /\ Window' = Append(Window, b)
<1> DEFINE w == Append(Window, b)
<1>0. TypeOK /\ WindowInv /\ WindowFacts /\ WindowFacts'
  <2>1. TypeOK' => WindowFacts'
    BY WindowIsSeq, PTL
  <2> QED
    BY <2>1, WindowIsSeq DEF PipeInv
<1>1. /\ ~Full /\ nread' = nread /\ nwrite' = (nwrite + 1) % WRAP
      /\ data' = [data EXCEPT ![nwrite % PIPESIZE] = b]
  BY DEF WriteByte
<1>2. /\ PIPESIZE \in Int /\ PIPESIZE > 0 /\ nread \in Int /\ Count \in Nat
      /\ data \in [0..PIPESIZE-1 -> Bytes]
  BY <1>0, TestsCount, PipeAssumption DEF TypeOK, Bytes
<1>3. Count < PIPESIZE
  <2>1. Count <= PIPESIZE
    BY <1>0 DEF WindowInv
  <2> QED
    BY <1>0, <1>1, <1>2, <2>1, TestsCount
<1>4. Count' = Count + 1
  BY <1>0, <1>1, <1>3, WriteCounts
<1>5. /\ w \in Seq(Bytes) /\ Len(w) = Count + 1 /\ w[Count + 1] = b
      /\ \A k \in 1..Count : w[k] = Window[k]
  <2>1. b \in Bytes
    BY DEF Bytes
  <2> QED
    BY <1>0, <2>1, AppendProperties DEF WindowFacts
<1> HIDE DEF w
<1>6. ASSUME NEW k \in 1..Count + 1
      PROVE  Window'[k] = w[k]
  <2>1. Window'[k] = data'[(nread + k - 1) % PIPESIZE]
    BY <1>0, <1>1, <1>4 DEF WindowFacts
  <2>2. (nread + k - 1) % PIPESIZE \in 0..PIPESIZE-1
    BY <1>2
  <2>3. CASE k = Count + 1
    <3>1. (nread + k - 1) % PIPESIZE = nwrite % PIPESIZE
      BY <1>0, <1>2, <1>3, <2>3, NextSlot
    <3> QED
      BY <1>1, <1>2, <1>5, <2>1, <2>2, <2>3, <3>1
  <2>4. CASE k \in 1..Count
    <3>1. (nread + k - 1) % PIPESIZE # nwrite % PIPESIZE
      BY <1>0, <1>3, <2>4, NextSlot
    <3> QED
      BY <1>0, <1>1, <1>2, <1>5, <2>1, <2>2, <2>4, <3>1 DEF WindowFacts
  <2> QED
    BY <1>2, <2>3, <2>4
<1>7. Window' \in Seq(Bytes) /\ Len(Window') = Len(w)
  BY <1>0, <1>4, <1>5 DEF WindowFacts
<1>8. Window' = w
  <2>1. \A k \in 1..Len(Window') : Window'[k] = w[k]
    BY <1>5, <1>6, <1>7
  <2> QED
    BY <1>5, <1>7, <2>1, SeqEqual
<1> QED
  BY <1>0, <1>3, <1>8 DEF WindowFacts, w

\* A read takes the first byte of the window.
LEMMA ReadTakes ==
  ASSUME PipeInv, PipeInv', NEW p \in Procs, ReadByte(p)
  PROVE  Window # <<>> /\ seen' = Head(Window) /\ Window' = Tail(Window)
<1> DEFINE w == Tail(Window)
<1>0. TypeOK /\ WindowInv /\ WindowFacts /\ WindowFacts'
  <2>1. TypeOK' => WindowFacts'
    BY WindowIsSeq, PTL
  <2> QED
    BY <2>1, WindowIsSeq DEF PipeInv
<1>1. /\ ~Empty /\ nwrite' = nwrite /\ nread' = (nread + 1) % WRAP /\ data' = data
      /\ seen' = data[nread % PIPESIZE]
  BY DEF ReadByte
<1>2. nread \in Int /\ Count \in Nat /\ Count # 0
  BY <1>0, <1>1, TestsCount DEF TypeOK
<1>3. Count' = Count - 1
  BY <1>0, <1>1, <1>2, ReadCounts
<1>4. Window # <<>>
  BY <1>0, <1>2, EmptySeq DEF WindowFacts
<1>5. Head(Window) = data[nread % PIPESIZE]
  <2>1. nread + 1 - 1 = nread /\ 1 \in 1..Count
    BY <1>2
  <2>2. Window[1] = data[(nread + 1 - 1) % PIPESIZE]
    BY <1>0, <2>1 DEF WindowFacts
  <2> QED
    BY <1>0, <1>4, <2>1, <2>2 DEF WindowFacts
<1>6. /\ w \in Seq(Bytes) /\ Len(w) = Count - 1
      /\ \A k \in 1..Count - 1 : w[k] = Window[k + 1]
  BY <1>0, <1>4, HeadTailProperties DEF WindowFacts
<1> HIDE DEF w
<1>7. ASSUME NEW k \in 1..Count - 1
      PROVE  Window'[k] = w[k]
  <2>1. Window'[k] = data[(nread' + k - 1) % PIPESIZE]
    BY <1>0, <1>1, <1>3 DEF WindowFacts
  <2>2. k - 1 \in Nat /\ k + 1 \in 1..Count
    BY <1>2
  <2>3. (((nread + 1) % WRAP) + (k - 1)) % PIPESIZE = (nread + 1 + (k - 1)) % PIPESIZE
    BY <1>0, <2>2, FirstSlot, Zenon
  <2>4. nread' \in Int
    BY DEF PipeInv, TypeOK
  <2>5. nread' + k - 1 = nread' + (k - 1) /\ nread + 1 + (k - 1) = nread + (k + 1) - 1
    BY <1>2, <2>4
  <2>6. Window[k + 1] = data[(nread + (k + 1) - 1) % PIPESIZE]
    BY <1>0, <2>2 DEF WindowFacts
  <2> QED
    BY <1>1, <1>6, <2>1, <2>3, <2>5, <2>6
<1>8. Window' \in Seq(Bytes) /\ Len(Window') = Len(w)
  BY <1>0, <1>3, <1>6 DEF WindowFacts
<1>9. Window' = w
  <2>1. \A k \in 1..Len(Window') : Window'[k] = w[k]
    BY <1>6, <1>7, <1>8
  <2> QED
    BY <1>6, <1>8, <2>1, SeqEqual
<1> QED
  BY <1>1, <1>4, <1>5, <1>9 DEF w

\* Before the first pipe there is no stream.
LEMMA StreamInitially == Init => Stream!StreamInit
BY DEF Init, Stream!StreamInit

\* Every step of a process is a step of the stream or leaves it alone.
LEMMA StreamStep ==
  PipeInv /\ PipeInv' /\ [Next]_vars => [Stream!StreamNext]_(Stream!svars)
<1> SUFFICES ASSUME PipeInv, PipeInv', [Next]_vars
             PROVE  [Stream!StreamNext]_(Stream!svars)
  OBVIOUS
<1> USE DEF Stream!StreamNext, Stream!svars
<1>1. ASSUME NEW p \in Procs, PipeAlloc(p)
      PROVE  Stream!Open
  <2>1. Window' = <<>>
    <3>1. TypeOK' => WindowFacts'
      BY WindowIsSeq, PTL
    <3>2. TypeOK' => (Empty <=> Count = 0)'
      BY TestsCount, PTL
    <3>3. Count' = 0
      BY <1>1, <3>2 DEF PipeInv, PipeAlloc, Empty
    <3> QED
      BY <3>1, <3>3, EmptySeq DEF PipeInv, WindowFacts
  <2> QED
    BY <1>1, <2>1 DEF PipeAlloc, Stream!Open, PipeInv, Control, EndsInv
<1>2. ASSUME NEW p \in Procs, NEW b \in Byte, WriteByte(p, b)
      PROVE  Stream!Put(b)
  <2>1. readopen /\ writeopen
    BY <1>2 DEF WriteByte, PipeInv, Control, EndsInv, Writing
  <2>2. readopen' = readopen /\ writeopen' = writeopen /\ seen' = seen
    BY <1>2 DEF WriteByte
  <2> QED
    BY <1>2, <2>1, <2>2, WriteAppends DEF Stream!Put
<1>3. ASSUME NEW p \in Procs, ReadByte(p)
      PROVE  Stream!Take
  <2>1. readopen
    BY <1>3 DEF ReadByte, PipeInv, Control, EndsInv, Reading
  <2>2. readopen' = readopen /\ writeopen' = writeopen
    BY <1>3 DEF ReadByte
  <2> QED
    BY <1>3, <2>1, <2>2, ReadTakes DEF Stream!Take
<1>4. ASSUME NEW p \in Procs, ReadEnd(p)
      PROVE  Stream!Eof \/ UNCHANGED Stream!svars
  <2>1. UNCHANGED <<data, nread, nwrite, readopen, writeopen>>
    BY <1>4 DEF ReadEnd, pipe
  <2>2. Window' = Window
    BY <2>1 DEF Window
  <2>3. CASE i[p] = 0 /\ n[p] > 0 /\ Empty
    <3>1. readopen /\ ~writeopen
      BY <1>4, <2>3 DEF ReadEnd, PipeInv, Control, EndsInv, LocalsInv, Reading
    <3>2. Window = <<>>
      BY <2>3, WindowIsSeq, TestsCount, EmptySeq DEF PipeInv, WindowFacts
    <3>3. seen' = "eof"
      BY <1>4, <2>3 DEF ReadEnd
    <3> QED
      BY <2>1, <2>2, <3>1, <3>2, <3>3 DEF Stream!Eof
  <2>4. CASE ~ (i[p] = 0 /\ n[p] > 0 /\ Empty)
    <3>1. seen' = seen
      BY <1>4, <2>4 DEF ReadEnd
    <3> QED
      BY <2>1, <2>2, <3>1
  <2> QED
    BY <2>3, <2>4, Zenon
<1>5. ASSUME NEW p \in Procs, PipeCloseRead(p)
      PROVE  Stream!CloseRead
  <2>1. Window' = Window
    BY <1>5 DEF PipeCloseRead, Window
  <2>2. readopen
    BY <1>5, Zenon DEF PipeCloseRead, PipeInv, Control, CloseInv
  <2> QED
    BY <1>5, <2>1, <2>2, Zenon DEF PipeCloseRead, Stream!CloseRead
<1>6. ASSUME NEW p \in Procs, PipeCloseWrite(p)
      PROVE  Stream!CloseWrite
  <2>1. Window' = Window
    BY <1>6 DEF PipeCloseWrite, Window
  <2>2. writeopen
    BY <1>6, Zenon DEF PipeCloseWrite, PipeInv, Control, CloseInv
  <2> QED
    BY <1>6, <2>1, <2>2, Zenon DEF PipeCloseWrite, Stream!CloseWrite
<1>7. ASSUME NEW p \in Procs, PipeFree(p)
      PROVE  UNCHANGED Stream!svars
  BY <1>7 DEF PipeFree, PipeInv, Control, CloseInv
<1>8. CASE UNCHANGED <<data, nread, nwrite, readopen, writeopen, seen>>
  BY <1>8, Zenon DEF Window
<1> QED
  BY <1>1, <1>2, <1>3, <1>4, <1>5, <1>6, <1>7, <1>8
     DEF Next, Step, Acquire, vars, pipe, Fork, FileClose, Kill, WriteBegin,
         WriteLock, WriteFails, WriteFull, WriteSleep, WriteEnd, ReadBegin,
         ReadLock, ReadTest, ReadFails, ReadSleep

\* pipewrite() and piperead() implement the byte stream for every buffer size
\* and every counter width that is a multiple of it: bytes arrive once, in
\* order and unchanged although the counters wrap around, and a read returns 0
\* only when nothing is left and nobody can write.
THEOREM PipeImplementsStream == Spec => StreamsBytes
<1>1. Spec => Stream!StreamInit /\ [][Stream!StreamNext]_(Stream!svars)
  BY PipeInvariant, StreamInitially, StreamStep, PTL DEF Spec
<1> QED
  BY <1>1 DEF StreamsBytes, Stream!StreamSpec
===============================================================================
