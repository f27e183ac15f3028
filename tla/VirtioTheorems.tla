---------------------------- MODULE VirtioTheorems ----------------------------
(***************************************************************************)
(* Proofs about the block driver of kernel/virtio_disk.c and its device    *)
(* (module VirtioDisk), for any number of processes and sectors, any size  *)
(* of the rings and any width of their indexes that is a multiple of it.   *)
(***************************************************************************)
EXTENDS VirtioDisk, FiniteSetTheorems, WellFoundedInduction, TLAPS

-------------------------------------------------------------------------------
(* Facts about numbers: the least member of a set, which stands for        *)
(* induction, and the remainders by which the indexes wrap around.         *)

\* A nonempty set of numbers has a least member.
LEMMA Least ==
  ASSUME NEW S \in SUBSET Nat, S # {}
  PROVE  \E m \in S : \A k \in S : m <= k
<1>1. IsWellFoundedOn(OpToRel(<, Nat), Nat)
  BY NatLessThanWellFounded, Zenon
<1>2. PICK x \in S : \A y \in S : ~ (<<y, x>> \in OpToRel(<, Nat))
  BY <1>1, WFMin, Zenon
<1>3. \A y \in S : ~ (y < x)
  BY <1>2, Zenon DEF OpToRel
<1> QED BY <1>3

\* Division with remainder.
LEMMA ModDecompose ==
  ASSUME NEW d \in Int, d > 0, NEW a \in Int
  PROVE  a \div d \in Int /\ a % d \in 0..d-1 /\ a = d * (a \div d) + (a % d)
<1>1. a \div d \in Int
  OBVIOUS
<1>2. a % d \in 0..d-1
  OBVIOUS
<1>3. a = d * (a \div d) + (a % d)
  OBVIOUS
<1> QED
  BY <1>1, <1>2, <1>3

\* The remainder is determined by the decomposition.
LEMMA ModUnique ==
  ASSUME NEW d \in Int, d > 0, NEW r \in 0..d-1, NEW m \in Int
  PROVE  (d * m + r) % d = r
OBVIOUS

\* One addition or subtraction of numbers below d wraps around at most once.
LEMMA ModSmall ==
  ASSUME NEW d \in Int, d > 0, NEW a \in Int, -d <= a, a < 2 * d
  PROVE  a % d = IF a < 0 THEN a + d ELSE IF a < d THEN a ELSE a - d
OBVIOUS

\* A multiple of d does not change the remainder.
LEMMA ModPeriod ==
  ASSUME NEW d \in Int, d > 0, NEW w \in Int, w % d = 0, NEW a \in Int
  PROVE  (a + w) % d = a % d
<1> DEFINE k == a \div d
           m == w \div d
           r == a % d
<1>1. k \in Int /\ m \in Int /\ r \in 0..d-1
  BY ModDecompose
<1>2. w = d * m + 0 /\ a = d * k + r
  BY ModDecompose
<1> HIDE DEF k, m, r
<1>3. a + w = d * (k + m) + r
  BY <1>1, <1>2
<1>4. k + m \in Int
  BY <1>1
<1>5. (d * (k + m) + r) % d = r
  BY <1>1, <1>4, ModUnique
<1> QED
  BY <1>3, <1>5 DEF r

\* Numbers less than d apart have different remainders.
LEMMA ModApart ==
  ASSUME NEW d \in Int, d > 0, NEW a \in Int, NEW b \in Int, a < b, b < a + d
  PROVE  a % d # b % d
<1> SUFFICES ASSUME a % d = b % d PROVE FALSE
  OBVIOUS
<1> DEFINE k == a \div d
           m == b \div d
           r == a % d
<1>1. k \in Int /\ m \in Int /\ r \in 0..d-1
  BY ModDecompose
<1>2. b = d * m + r /\ a = d * k + r
  BY ModDecompose
<1> HIDE DEF k, m, r
<1>3. d * (m - k) = b - a
  BY <1>1, <1>2
<1>4. CASE m <= k
  <2>1. d * (m - k) <= 0
    BY <1>1, <1>4
  <2> QED
    BY <2>1, <1>3
<1>5. CASE m > k
  <2>1. d * (m - k) >= d
    BY <1>1, <1>5
  <2> QED
    BY <2>1, <1>3
<1> QED
  BY <1>1, <1>4, <1>5

-------------------------------------------------------------------------------
(* The indexes of the rings.                                               *)

Position == 0..WRAP-1

\* The distance between two positions, and the position behind one.
LEMMA Distance ==
  ASSUME NEW a \in Position, NEW b \in Position
  PROVE  /\ (b - a) % WRAP = IF a <= b THEN b - a ELSE b - a + WRAP
         /\ (b + 1) % WRAP = IF b + 1 = WRAP THEN 0 ELSE b + 1
<1>1. WRAP \in Int /\ WRAP > 0 /\ a \in 0..WRAP-1 /\ b \in 0..WRAP-1
  BY VirtioAssumption DEF Position
<1>2. (b - a) % WRAP = IF a <= b THEN b - a ELSE b - a + WRAP
  BY <1>1, ModSmall
<1>3. (b + 1) % WRAP = IF b + 1 = WRAP THEN 0 ELSE b + 1
  BY <1>1, ModSmall
<1> QED BY <1>2, <1>3

\* Membership in a part of the ring, without remainders.
LEMMA PendingIs ==
  ASSUME NEW a \in Position, NEW b \in Position, NEW k
  PROVE  k \in Pending(a, b) <=>
           k \in Position /\ IF a <= b THEN a <= k /\ k < b ELSE a <= k \/ k < b
<1>1. WRAP \in Int /\ a \in 0..WRAP-1 /\ b \in 0..WRAP-1
  BY VirtioAssumption DEF Position
<1>2. ASSUME NEW x \in Position
      PROVE  (x - a) % WRAP < (b - a) % WRAP <=>
               IF a <= b THEN a <= x /\ x < b ELSE a <= x \/ x < b
  <2>1. /\ (x - a) % WRAP = IF a <= x THEN x - a ELSE x - a + WRAP
        /\ (b - a) % WRAP = IF a <= b THEN b - a ELSE b - a + WRAP
    BY Distance, Zenon
  <2>2. x \in 0..WRAP-1
    BY Zenon DEF Position
  <2> QED BY <1>1, <2>1, <2>2
<1> QED BY <1>2, Zenon DEF Pending, Position

\* An entry is added.
LEMMA PendingGrows ==
  ASSUME NEW a \in Position, NEW b \in Position, ((b - a) % WRAP) + 1 < WRAP
  PROVE  /\ (b + 1) % WRAP \in Position
         /\ Pending(a, (b + 1) % WRAP) = Pending(a, b) \cup {b}
         /\ b \notin Pending(a, b)
<1> DEFINE c == (b + 1) % WRAP
<1>1. WRAP \in Int /\ WRAP > 0 /\ a \in 0..WRAP-1 /\ b \in 0..WRAP-1
  BY VirtioAssumption DEF Position
<1>2. c = IF b + 1 = WRAP THEN 0 ELSE b + 1
  BY Distance, Zenon
<1>3. (IF a <= b THEN b - a ELSE b - a + WRAP) + 1 < WRAP
  BY Distance
<1> HIDE DEF c
<1>4. c \in Position
  BY <1>1, <1>2 DEF Position
<1>5. ASSUME NEW k \in Position
      PROVE  (IF a <= c THEN a <= k /\ k < c ELSE a <= k \/ k < c) <=>
               ((IF a <= b THEN a <= k /\ k < b ELSE a <= k \/ k < b) \/ k = b)
  <2>1. k \in 0..WRAP-1
    BY Zenon DEF Position
  <2> QED BY <1>1, <1>2, <1>3, <2>1
<1>6. \A k : k \in Pending(a, c) <=> k \in Pending(a, b) \/ k = b
  BY <1>4, <1>5, PendingIs, Zenon
<1>7. ~ (IF a <= b THEN a <= b /\ b < b ELSE a <= b \/ b < b)
  BY <1>1
<1>8. b \notin Pending(a, b)
  BY <1>7, PendingIs, Zenon
<1> QED BY <1>4, <1>6, <1>8, Zenon DEF c

\* The first entry is taken.
LEMMA PendingShrinks ==
  ASSUME NEW a \in Position, NEW b \in Position, a # b
  PROVE  /\ (a + 1) % WRAP \in Position /\ a \in Pending(a, b)
         /\ Pending((a + 1) % WRAP, b) = Pending(a, b) \ {a}
<1> DEFINE c == (a + 1) % WRAP
<1>1. WRAP \in Int /\ WRAP > 0 /\ a \in 0..WRAP-1 /\ b \in 0..WRAP-1
  BY VirtioAssumption DEF Position
<1>2. c = IF a + 1 = WRAP THEN 0 ELSE a + 1
  BY Distance, Zenon
<1> HIDE DEF c
<1>4. c \in Position
  BY <1>1, <1>2 DEF Position
<1>5. ASSUME NEW k \in Position
      PROVE  (IF c <= b THEN c <= k /\ k < b ELSE c <= k \/ k < b) <=>
               ((IF a <= b THEN a <= k /\ k < b ELSE a <= k \/ k < b) /\ k # a)
  <2>1. k \in 0..WRAP-1
    BY Zenon DEF Position
  <2> QED BY <1>1, <1>2, <2>1
<1>6. \A k : k \in Pending(c, b) <=> k \in Pending(a, b) /\ k # a
  BY <1>4, <1>5, PendingIs, Zenon
<1>7. IF a <= b THEN a <= a /\ a < b ELSE a <= a \/ a < b
  BY <1>1
<1>8. a \in Pending(a, b)
  BY <1>7, PendingIs, Zenon
<1> QED BY <1>4, <1>6, <1>8, Zenon DEF c

\* As long as there are at most NUM entries they have different slots.
LEMMA SlotsApart ==
  ASSUME NEW a \in Position, NEW b \in Position, (b - a) % WRAP < NUM,
         NEW j \in Pending(a, b) \cup {b}, NEW k \in Pending(a, b) \cup {b},
         j % NUM = k % NUM
  PROVE  j = k
<1>1. /\ WRAP \in Int /\ WRAP > 0 /\ a \in 0..WRAP-1 /\ b \in 0..WRAP-1
      /\ NUM \in Int /\ NUM > 0 /\ WRAP % NUM = 0
  BY VirtioAssumption DEF Position
<1>2. (IF a <= b THEN b - a ELSE b - a + WRAP) < NUM
  BY Distance
<1> DEFINE off(x) == IF a <= x THEN x - a ELSE x - a + WRAP
<1>3. ASSUME NEW x \in Pending(a, b) \cup {b}
      PROVE  /\ x \in 0..WRAP-1 /\ 0 <= off(x) /\ off(x) < NUM
             /\ (a + off(x)) % NUM = x % NUM
  <2>1. x \in Position /\ (x = b \/ IF a <= b THEN a <= x /\ x < b ELSE a <= x \/ x < b)
    BY PendingIs, Zenon
  <2>2. x \in 0..WRAP-1
    BY <2>1, Zenon DEF Position
  <2>3. 0 <= off(x) /\ off(x) < NUM
    BY <1>1, <1>2, <2>1, <2>2
  <2>4. a + off(x) = x \/ a + off(x) = x + WRAP
    BY <1>1, <2>2
  <2>5. x \in Int
    BY <1>1, <2>2
  <2>6. (x + WRAP) % NUM = x % NUM
    BY <1>1, <2>5, ModPeriod, Zenon
  <2> QED BY <2>2, <2>3, <2>4, <2>6, Zenon
<1>4. ASSUME NEW x \in 0..WRAP-1, NEW y \in 0..WRAP-1, off(x) < NUM, off(y) < NUM,
             0 <= off(x), off(x) < off(y)
      PROVE  (a + off(x)) % NUM # (a + off(y)) % NUM
  <2> DEFINE u == a + off(x)
             v == a + off(y)
  <2>1. u \in Int /\ v \in Int /\ u < v /\ v < u + NUM
    BY <1>1, <1>4
  <2> HIDE DEF u, v
  <2>2. u % NUM # v % NUM
    BY <1>1, <2>1, ModApart, Zenon
  <2> QED BY <2>2, Zenon DEF u, v
<1>5. j \in 0..WRAP-1 /\ k \in 0..WRAP-1
  BY <1>3, Zenon
<1>6. ~ (off(j) < off(k)) /\ ~ (off(k) < off(j))
  BY <1>3, <1>4, <1>5, Zenon
<1> QED BY <1>1, <1>5, <1>6

\* A slot of a ring is one of the table.
LEMMA SlotIsIndex == \A k \in Position : k % NUM \in Index
<1> SUFFICES ASSUME NEW k \in Position PROVE k % NUM \in Index
  OBVIOUS
<1>1. k \in Int /\ NUM \in Int /\ NUM > 0
  BY VirtioAssumption DEF Position
<1>2. k % NUM \in 0..NUM-1
  BY <1>1, ModDecompose
<1> QED BY <1>2, Zenon DEF Index

\* The chains in a ring leave out two descriptors at least, so that there are
\* fewer entries than slots and positions.
LEMMA Room ==
  ASSUME NEW a \in Position, NEW b \in Position, NEW ring \in [Index -> Index],
         NEW x \in Index, NEW y \in Index, x # y,
         \A k \in Pending(a, b) : ring[k % NUM] # x /\ ring[k % NUM] # y,
         \A j, k \in Pending(a, b) : ring[j % NUM] = ring[k % NUM] => j = k
  PROVE  (b - a) % WRAP < NUM /\ ((b - a) % WRAP) + 1 < WRAP
<1> DEFINE n == (b - a) % WRAP
           S == 0..n-1
           T == (Index \ {x}) \ {y}
           at(i) == IF a + i < WRAP THEN a + i ELSE a + i - WRAP
           g == [i \in S |-> ring[at(i) % NUM]]
<1>1. /\ WRAP \in Int /\ WRAP > 0 /\ a \in 0..WRAP-1 /\ b \in 0..WRAP-1
      /\ NUM \in Int /\ NUM >= 3 /\ WRAP % NUM = 0
  BY VirtioAssumption DEF Position
<1>2. n = IF a <= b THEN b - a ELSE b - a + WRAP
  BY Distance
<1>3. NUM <= WRAP
  <2> SUFFICES ASSUME WRAP < NUM PROVE FALSE
    BY <1>1
  <2>1. WRAP % NUM = WRAP
    BY <1>1, ModSmall
  <2> QED BY <1>1, <2>1
<1> HIDE DEF n
<1>4. n \in Int /\ 0 <= n /\ n < WRAP
  BY <1>1, <1>2
<1>5. ASSUME NEW i \in S PROVE at(i) \in Pending(a, b) /\ at(i) % NUM \in Index
  <2>1. at(i) \in 0..WRAP-1
    BY <1>1, <1>4
  <2>2. IF a <= b THEN a <= at(i) /\ at(i) < b ELSE a <= at(i) \/ at(i) < b
    BY <1>1, <1>2, <1>4
  <2>3. at(i) % NUM \in Index
    BY <2>1, SlotIsIndex, Zenon DEF Position
  <2> QED BY <2>1, <2>2, <2>3, PendingIs, Zenon DEF Position
<1>6. \A i, j \in S : at(i) = at(j) => i = j
  BY <1>1, <1>4
<1> HIDE DEF at
<1>7. \A i \in S : g[i] \in T
  BY <1>5, Zenon
<1>8. g \in [S -> T]
  BY <1>7, Zenon
<1>9. \A i, j \in S : g[i] = g[j] => i = j
  BY <1>5, <1>6, Zenon
<1>10. IsFiniteSet(Index) /\ Cardinality(Index) = NUM
  <2>1. 0 \in Int /\ NUM - 1 \in Int /\ ~ (0 > NUM - 1) /\ (NUM - 1) - 0 + 1 = NUM
    BY <1>1
  <2> QED BY <2>1, FS_Interval, Zenon DEF Index
<1>11. IsFiniteSet(Index \ {x}) /\ Cardinality(Index \ {x}) = NUM - 1 /\ y \in Index \ {x}
  BY <1>10, FS_RemoveElement, Zenon
<1>12. IsFiniteSet(T) /\ Cardinality(T) = NUM - 2
  <2>1. IsFiniteSet(T) /\ Cardinality(T) = (NUM - 1) - 1
    BY <1>11, FS_RemoveElement, ZenonT(60)
  <2>2. (NUM - 1) - 1 = NUM - 2
    BY <1>1
  <2> QED BY <2>1, <2>2, Zenon
<1>13. IsFiniteSet(S) /\ Cardinality(S) = n
  <2>1. 0 \in Int /\ n - 1 \in Int /\ (0 > n - 1 => n = 0) /\ (n - 1) - 0 + 1 = n
    BY <1>4
  <2>2. IsFiniteSet(S) /\ Cardinality(S) = IF 0 > n - 1 THEN 0 ELSE (n - 1) - 0 + 1
    BY <2>1, FS_Interval, Zenon
  <2> QED BY <2>1, <2>2, Zenon
<1> HIDE DEF S, T, g
<1>14. ~ (Cardinality(T) < Cardinality(S))
  <2> SUFFICES ASSUME Cardinality(T) < Cardinality(S) PROVE FALSE
    OBVIOUS
  <2>1. \E i, j \in S : i # j /\ g[i] = g[j]
    <3>1. IsFiniteSet(S) /\ IsFiniteSet(T)
      BY <1>12, <1>13, Zenon
    <3> QED BY <1>8, <3>1, FS_PigeonHole
  <2> QED BY <1>9, <2>1, Zenon
<1>15. n <= NUM - 2
  BY <1>1, <1>4, <1>12, <1>13, <1>14
<1>16. n < NUM /\ n + 1 < WRAP
  BY <1>1, <1>3, <1>4, <1>15
<1> QED BY <1>16, Zenon DEF n

-------------------------------------------------------------------------------
(* alloc3_desc()                                                           *)

\* While three descriptors are free alloc3_desc() returns three different ones.
LEMMA Three ==
  ASSUME free \in [Index -> BOOLEAN], NumFree >= 3
  PROVE  /\ Free3 \in Index \X Index \X Index
         /\ free[Free3[1]] /\ free[Free3[2]] /\ free[Free3[3]]
         /\ Free3[1] # Free3[2] /\ Free3[1] # Free3[3] /\ Free3[2] # Free3[3]
<1> DEFINE S == {k \in Index : free[k]}
           OK(t) == /\ t[1] < t[2] /\ t[2] < t[3]
                    /\ \A k \in Index : free[k] /\ k < t[3] => k \in {t[1], t[2]}
                    /\ free[t[1]] /\ free[t[2]] /\ free[t[3]]
<1>1. IsFiniteSet(Index) /\ Index \in SUBSET Nat /\ NUM \in Nat
  <2>1. NUM \in Nat /\ 0 \in Int /\ NUM - 1 \in Int /\ 0..NUM-1 \subseteq Nat
    BY VirtioAssumption
  <2> QED BY <2>1, FS_Interval, Zenon DEF Index
<1>2. S \in SUBSET Index /\ IsFiniteSet(S) /\ Cardinality(S) \in Nat /\ Cardinality(S) >= 3
  <2>1. S \in SUBSET Index
    OBVIOUS
  <2>2. IsFiniteSet(S)
    BY <1>1, <2>1, FS_Subset, Zenon
  <2> QED BY <2>1, <2>2, FS_CardinalityType, Zenon DEF NumFree
<1> HIDE DEF S
<1>3. ASSUME NEW X \in SUBSET Index, IsFiniteSet(X), NEW c \in Nat, Cardinality(X) >= c + 1
      PROVE  \E m \in X : /\ \A k \in X : m <= k
                          /\ IsFiniteSet(X \ {m}) /\ Cardinality(X \ {m}) >= c
  <2>1. Cardinality(X) \in Nat
    BY <1>3, FS_CardinalityType, Zenon
  <2>2. X # {}
    <3> SUFFICES ASSUME X = {} PROVE FALSE
      OBVIOUS
    <3>1. Cardinality(X) = 0
      BY FS_EmptySet, Zenon
    <3>2. ~ (0 >= c + 1)
      OBVIOUS
    <3> QED BY <1>3, <3>1, <3>2, Zenon
  <2>3. X \in SUBSET Nat
    BY <1>1
  <2>4. PICK m \in X : \A k \in X : m <= k
    BY <2>2, <2>3, Least, Zenon
  <2>5. IsFiniteSet(X \ {m}) /\ Cardinality(X \ {m}) = Cardinality(X) - 1
    BY <1>3, FS_RemoveElement, Zenon
  <2>6. Cardinality(X) - 1 >= c
    BY <1>3, <2>1
  <2> QED BY <2>4, <2>5, <2>6, Zenon
<1>4. PICK u \in S : (\A k \in S : u <= k) /\ IsFiniteSet(S \ {u}) /\ Cardinality(S \ {u}) >= 2
  <2>1. 2 \in Nat /\ Cardinality(S) >= 2 + 1
    BY <1>2
  <2> QED BY <1>2, <1>3, <2>1, Zenon
<1>5. PICK v \in S \ {u} : /\ \A k \in S \ {u} : v <= k
                           /\ IsFiniteSet((S \ {u}) \ {v}) /\ Cardinality((S \ {u}) \ {v}) >= 1
  <2>1. 1 \in Nat /\ Cardinality(S \ {u}) >= 1 + 1 /\ S \ {u} \in SUBSET Index
    BY <1>2, <1>4
  <2> QED BY <1>3, <1>4, <2>1, Zenon
<1>6. PICK w \in (S \ {u}) \ {v} : \A k \in (S \ {u}) \ {v} : w <= k
  <2>1. 0 \in Nat /\ Cardinality((S \ {u}) \ {v}) >= 0 + 1 /\ (S \ {u}) \ {v} \in SUBSET Index
    BY <1>2, <1>5
  <2> QED BY <1>3, <1>5, <2>1, Zenon
<1>7. u \in Nat /\ v \in Nat /\ w \in Nat /\ u < v /\ v < w
  <2>1. u \in Nat /\ v \in Nat /\ w \in Nat /\ u # v /\ w # v /\ u <= v /\ v <= w
    BY <1>1, <1>2, <1>4, <1>5, <1>6, Zenon
  <2> QED BY <2>1
<1>8. \A k \in Index : free[k] /\ k < w => k \in {u, v}
  <2> SUFFICES ASSUME NEW k \in Index, free[k], k < w, k \notin {u, v} PROVE FALSE
    OBVIOUS
  <2>1. w <= k
    BY <1>6, Zenon DEF S
  <2> QED BY <1>1, <1>7, <2>1
<1>9. u \in Index /\ v \in Index /\ w \in Index /\ free[u] /\ free[v] /\ free[w]
  BY Zenon DEF S
<1>10. <<u, v, w>> \in Index \X Index \X Index /\ OK(<<u, v, w>>)
  BY <1>7, <1>8, <1>9
<1>11. Free3 = CHOOSE t \in Index \X Index \X Index : OK(t)
  BY Zenon DEF Free3
<1>12. Free3 \in Index \X Index \X Index /\ OK(Free3)
  <2> HIDE DEF OK
  <2> QED BY <1>10, <1>11, Zenon
<1>13. Free3[1] \in Index /\ Free3[2] \in Index /\ Free3[3] \in Index
  BY <1>12
<1>14. Free3[1] \in Nat /\ Free3[2] \in Nat /\ Free3[3] \in Nat
  BY <1>1, <1>13, Zenon
<1> QED BY <1>12, <1>14

-------------------------------------------------------------------------------
(* The inductive invariant.                                                *)

\* disk.info[].status, until the device has written it.
NoAnswer == 255

\* TypeOK, in three parts.
DescRecord == [addr : ({"none", "ops", "status"} \X Index) \cup ({"data"} \X Procs),
               more : BOOLEAN, next : Index]

TableTypes ==
  /\ free \in [Index -> BOOLEAN]
  /\ desc \in [Index -> DescRecord]
  /\ ops \in [Index -> [write : BOOLEAN, sector : Sector \cup {None}]]
  /\ info \in [Index -> [b : Procs \cup {None}, status : {0, NoAnswer}]]

RingTypes ==
  /\ avail \in [Index -> Index] /\ used \in [Index -> Index]
  /\ avail_idx \in Position /\ dev_used_idx \in Position
  /\ used_idx \in Position /\ taken \in Position
  /\ working \subseteq [head : Index, op : Index, b : Procs, status : Index]
  /\ irq \in BOOLEAN
  /\ lock \in Procs \cup {None, INTR}

CallTypes ==
  /\ busy \in [Procs -> BOOLEAN]
  /\ data \in [Procs -> Value \cup {None}] /\ store \in [Sector -> Value]
  /\ pc \in [Procs -> {"out", "call", "nodesc", "filled", "asleep", "woken"}]
  /\ idx \in [Procs -> Seq(Index)]
  /\ write \in [Procs -> BOOLEAN] /\ sector \in [Procs -> Sector \cup {None}]

First(p)  == idx[p][1]
Second(p) == idx[p][2]
Third(p)  == idx[p][3]

\* An active request has three descriptors of its own, and the others are free.
OwnInv ==
  /\ \A p \in Active :
       /\ idx[p] \in Index \X Index \X Index
       /\ First(p) # Second(p) /\ First(p) # Third(p) /\ Second(p) # Third(p)
  /\ \A p, x \in Active : p # x => Owned(p) \cap Owned(x) = {}
  /\ \A k \in Index : free[k] <=> \A p \in Active : k \notin Owned(p)

\* They are the chain that virtio_disk_rw() has formatted for its buffer.
ChainInv ==
  \A p \in Active :
    /\ desc[First(p)]  = [addr |-> <<"ops", First(p)>>, more |-> TRUE, next |-> Second(p)]
    /\ desc[Second(p)] = [addr |-> <<"data", p>>, more |-> TRUE, next |-> Third(p)]
    /\ desc[Third(p)]  = [addr |-> <<"status", First(p)>>, more |-> FALSE, next |-> 0]
    /\ ops[First(p)] = [write |-> write[p], sector |-> sector[p]]
    /\ info[First(p)].b = p

\* A process in virtio_disk_rw() has a sector of its own, and what it writes;
\* it holds the lock until it has published its chain, and does not sleep once
\* b->disk is cleared.
CallInv ==
  /\ \A p \in Procs : pc[p] # "out" =>
       sector[p] \in Sector /\ (write[p] => data[p] \in Value)
  /\ \A p, x \in Procs : sector[p] = sector[x] /\ sector[p] # None => p = x
  /\ \A p \in Procs : pc[p] = "filled" <=> lock = p
  /\ \A p \in Procs : pc[p] \in {"filled", "asleep"} => busy[p]

\* The request is with the device, and its status is s.
Status(p, s) == p \in Active /\ pc[p] # "filled" /\ busy[p] /\ info[First(p)].status = s

\* The requests in the avail ring, in the hands of the device and in the used
\* ring are different ones, each there once.
AvailInv ==
  /\ \A k \in Pending(taken, avail_idx) : \E p \in Procs :
       Status(p, NoAnswer) /\ avail[k % NUM] = First(p) /\ \A r \in working : r.b # p
  /\ \A j, k \in Pending(taken, avail_idx) : avail[j % NUM] = avail[k % NUM] => j = k

WorkInv ==
  \A r \in working :
    /\ Status(r.b, NoAnswer)
    /\ r.head = First(r.b) /\ r.op = First(r.b) /\ r.status = First(r.b)

UsedInv ==
  /\ \A k \in Pending(used_idx, dev_used_idx) : \E p \in Procs :
       Status(p, 0) /\ used[k % NUM] = First(p)
  /\ \A j, k \in Pending(used_idx, dev_used_idx) : used[j % NUM] = used[k % NUM] => j = k

\* The entry that virtio_disk_rw() is about to publish.
FilledInv ==
  \A p \in Procs : pc[p] = "filled" =>
    avail[avail_idx % NUM] = First(p) /\ info[First(p)].status = NoAnswer

\* Status 0 is the device's word that the transfer is over.
TransferInv ==
  /\ \A p \in Active : ~busy[p] => info[First(p)].status = 0
  /\ \A p \in Active : info[First(p)].status = 0 => data[p] = store[sector[p]]

DiskInv ==
  /\ TableTypes /\ RingTypes /\ CallTypes
  /\ OwnInv /\ ChainInv /\ CallInv
  /\ AvailInv /\ WorkInv /\ UsedInv /\ FilledInv /\ TransferInv

VInv == DiskInv /\ NobodyStranded

\* The parts make up the whole.
LEMMA TypesAreTypeOK == TableTypes /\ RingTypes /\ CallTypes => TypeOK
<1> SUFFICES ASSUME TableTypes, RingTypes, CallTypes PROVE TypeOK
  OBVIOUS
<1>1. {avail_idx, dev_used_idx, used_idx, taken} \subseteq 0..WRAP-1
  BY Zenon DEF RingTypes, Position
<1> QED BY <1>1, Zenon DEF TableTypes, DescRecord, RingTypes, CallTypes, TypeOK, NoAnswer

-------------------------------------------------------------------------------
(* What the invariant says of one request.                                 *)

\* Its descriptors.
LEMMA OwnFacts ==
  ASSUME OwnInv, NEW p \in Active
  PROVE  /\ p \in Procs /\ pc[p] \in {"filled", "asleep", "woken"}
         /\ First(p) \in Index /\ Second(p) \in Index /\ Third(p) \in Index
         /\ First(p) # Second(p) /\ First(p) # Third(p) /\ Second(p) # Third(p)
         /\ Owned(p) = {First(p), Second(p), Third(p)}
         /\ ~free[First(p)] /\ ~free[Second(p)] /\ ~free[Third(p)]
<1>1. p \in Procs /\ pc[p] \in {"filled", "asleep", "woken"}
  BY Zenon DEF Active
<1>2. idx[p] \in Index \X Index \X Index
  BY Zenon DEF OwnInv
<1>3. First(p) \in Index /\ Second(p) \in Index /\ Third(p) \in Index
  BY <1>2 DEF First, Second, Third
<1>4. Owned(p) = {First(p), Second(p), Third(p)}
  BY Zenon DEF Owned, First, Second, Third
<1>5. \A k \in Owned(p) : k \in Index => ~free[k]
  BY Zenon DEF OwnInv
<1>6. ~free[First(p)] /\ ~free[Second(p)] /\ ~free[Third(p)]
  BY <1>3, <1>4, <1>5, Zenon
<1> QED BY <1>1, <1>3, <1>4, <1>6, Zenon DEF OwnInv

\* Nobody else's descriptor is among them.
LEMMA HeadsApart ==
  ASSUME OwnInv, NEW p \in Active, NEW x \in Active
  PROVE  /\ First(p) = First(x) => p = x
         /\ First(p) # Second(x) /\ First(p) # Third(x)
<1>1. /\ Owned(p) = {First(p), Second(p), Third(p)} /\ Owned(x) = {First(x), Second(x), Third(x)}
      /\ First(p) # Second(p) /\ First(p) # Third(p)
  BY OwnFacts, Zenon
<1>2. p # x => Owned(p) \cap Owned(x) = {}
  BY Zenon DEF OwnInv
<1>3. p # x => First(p) \notin Owned(x)
  BY <1>1, <1>2, Zenon
<1> QED BY <1>1, <1>3, Zenon

\* Its chain, field by field.
LEMMA ChainFacts ==
  ASSUME OwnInv, ChainInv, NEW p \in Active
  PROVE  /\ desc[First(p)].addr[1] = "ops" /\ desc[First(p)].addr[2] = First(p)
         /\ desc[First(p)].next = Second(p)
         /\ desc[Second(p)].addr[1] = "data" /\ desc[Second(p)].addr[2] = p
         /\ desc[Second(p)].next = Third(p)
         /\ desc[Third(p)].addr[1] = "status" /\ desc[Third(p)].addr[2] = First(p)
         /\ ops[First(p)].write = write[p] /\ ops[First(p)].sector = sector[p]
         /\ Chain(First(p)) = Owned(p)
<1>1. /\ desc[First(p)]  = [addr |-> <<"ops", First(p)>>, more |-> TRUE, next |-> Second(p)]
      /\ desc[Second(p)] = [addr |-> <<"data", p>>, more |-> TRUE, next |-> Third(p)]
      /\ desc[Third(p)]  = [addr |-> <<"status", First(p)>>, more |-> FALSE, next |-> 0]
      /\ ops[First(p)] = [write |-> write[p], sector |-> sector[p]]
  BY Zenon DEF ChainInv
<1>2. /\ desc[First(p)].addr[1] = "ops" /\ desc[First(p)].addr[2] = First(p)
      /\ desc[First(p)].more = TRUE /\ desc[First(p)].next = Second(p)
  BY <1>1
<1>3. /\ desc[Second(p)].addr[1] = "data" /\ desc[Second(p)].addr[2] = p
      /\ desc[Second(p)].more = TRUE /\ desc[Second(p)].next = Third(p)
  BY <1>1
<1>4. /\ desc[Third(p)].addr[1] = "status" /\ desc[Third(p)].addr[2] = First(p)
      /\ desc[Third(p)].more = FALSE
  BY <1>1
<1>5. ops[First(p)].write = write[p] /\ ops[First(p)].sector = sector[p]
  BY <1>1
<1>6. Owned(p) = {First(p), Second(p), Third(p)}
  BY OwnFacts, Zenon
<1>7. Chain(First(p)) = {First(p)} \cup ({Second(p)} \cup {Third(p)})
  BY <1>2, <1>3, <1>4, Zenon DEF Chain
<1>8. Chain(First(p)) = Owned(p)
  BY <1>6, <1>7, Zenon
<1> QED BY <1>2, <1>3, <1>4, <1>5, <1>8, Zenon

\* Whose an entry of the avail ring is.
LEMMA AvailEntry ==
  ASSUME AvailInv, NEW k \in Pending(taken, avail_idx)
  PROVE  \E p \in Active : /\ Status(p, NoAnswer) /\ avail[k % NUM] = First(p)
                           /\ \A r \in working : r.b # p
<1>1. PICK p \in Procs : /\ Status(p, NoAnswer) /\ avail[k % NUM] = First(p)
                         /\ \A r \in working : r.b # p
  BY Zenon DEF AvailInv
<1>2. p \in Active
  BY <1>1, Zenon DEF Status
<1> QED BY <1>1, <1>2, Zenon

\* Whose an entry of the used ring is.
LEMMA UsedEntry ==
  ASSUME UsedInv, NEW k \in Pending(used_idx, dev_used_idx)
  PROVE  \E p \in Active : Status(p, 0) /\ used[k % NUM] = First(p)
<1>1. PICK p \in Procs : Status(p, 0) /\ used[k % NUM] = First(p)
  BY Zenon DEF UsedInv
<1>2. p \in Active
  BY <1>1, Zenon DEF Status
<1> QED BY <1>1, <1>2, Zenon

\* The avail ring has room while two descriptors are not heads of chains.
LEMMA AvailRoom ==
  ASSUME RingTypes, AvailInv, NEW x \in Index, NEW y \in Index, x # y,
         \A p \in Active : First(p) # x /\ First(p) # y
  PROVE  (avail_idx - taken) % WRAP < NUM /\ ((avail_idx - taken) % WRAP) + 1 < WRAP
<1>1. avail \in [Index -> Index] /\ avail_idx \in Position /\ taken \in Position
  BY Zenon DEF RingTypes
<1>2. \A k \in Pending(taken, avail_idx) : \E p \in Active : avail[k % NUM] = First(p)
  BY AvailEntry, Zenon
<1>3. \A k \in Pending(taken, avail_idx) : avail[k % NUM] # x /\ avail[k % NUM] # y
  BY <1>2, Zenon
<1>4. \A j, k \in Pending(taken, avail_idx) : avail[j % NUM] = avail[k % NUM] => j = k
  BY Zenon DEF AvailInv
<1> QED BY <1>1, <1>3, <1>4, Room, Zenon

\* So does the used ring.
LEMMA UsedRoom ==
  ASSUME RingTypes, UsedInv, NEW x \in Index, NEW y \in Index, x # y,
         \A p \in Active : First(p) # x /\ First(p) # y
  PROVE  (dev_used_idx - used_idx) % WRAP < NUM /\ ((dev_used_idx - used_idx) % WRAP) + 1 < WRAP
<1>1. used \in [Index -> Index] /\ dev_used_idx \in Position /\ used_idx \in Position
  BY Zenon DEF RingTypes
<1>2. \A k \in Pending(used_idx, dev_used_idx) : \E p \in Active : used[k % NUM] = First(p)
  BY UsedEntry, Zenon
<1>3. \A k \in Pending(used_idx, dev_used_idx) : used[k % NUM] # x /\ used[k % NUM] # y
  BY <1>2, Zenon
<1>4. \A j, k \in Pending(used_idx, dev_used_idx) : used[j % NUM] = used[k % NUM] => j = k
  BY Zenon DEF UsedInv
<1> QED BY <1>1, <1>3, <1>4, Room, Zenon


\* The rings have room as long as there is a request.
LEMMA RoomOfActive ==
  ASSUME RingTypes, OwnInv, AvailInv, UsedInv, NEW p \in Active
  PROVE  /\ (avail_idx - taken) % WRAP < NUM /\ ((avail_idx - taken) % WRAP) + 1 < WRAP
         /\ (dev_used_idx - used_idx) % WRAP < NUM
         /\ ((dev_used_idx - used_idx) % WRAP) + 1 < WRAP
<1>1. Second(p) \in Index /\ Third(p) \in Index /\ Second(p) # Third(p)
  BY OwnFacts, Zenon
<1>2. \A x \in Active : First(x) # Second(p) /\ First(x) # Third(p)
  BY HeadsApart, Zenon
<1> QED BY <1>1, <1>2, AvailRoom, UsedRoom, Zenon

-------------------------------------------------------------------------------
(* What a step keeps.                                                      *)

\* The descriptors of the requests.
LEMMA OwnKept ==
  ASSUME OwnInv, Active' = Active, free' = free, idx' = idx
  PROVE  OwnInv'
<1>1. \A p : /\ First(p)' = First(p) /\ Second(p)' = Second(p) /\ Third(p)' = Third(p)
             /\ Owned(p)' = Owned(p)
  BY Zenon DEF First, Second, Third, Owned
<1> QED BY <1>1, Zenon DEF OwnInv

\* Their chains.
LEMMA ChainKept ==
  ASSUME ChainInv, Active' = Active, idx' = idx, ops' = ops,
         \A p \in Active :
           /\ write'[p] = write[p] /\ sector'[p] = sector[p]
           /\ info'[First(p)].b = info[First(p)].b
           /\ \A k \in Owned(p) : desc'[k] = desc[k]
  PROVE  ChainInv'
<1> SUFFICES ASSUME NEW p \in Active'
             PROVE  /\ desc'[First(p)']  = [addr |-> <<"ops", First(p)'>>, more |-> TRUE, next |-> Second(p)']
                    /\ desc'[Second(p)'] = [addr |-> <<"data", p>>, more |-> TRUE, next |-> Third(p)']
                    /\ desc'[Third(p)']  = [addr |-> <<"status", First(p)'>>, more |-> FALSE, next |-> 0]
                    /\ ops'[First(p)'] = [write |-> write'[p], sector |-> sector'[p]]
                    /\ info'[First(p)'].b = p
  BY Zenon DEF ChainInv
<1>1. p \in Active
  BY Zenon
<1>2. /\ desc[First(p)]  = [addr |-> <<"ops", First(p)>>, more |-> TRUE, next |-> Second(p)]
      /\ desc[Second(p)] = [addr |-> <<"data", p>>, more |-> TRUE, next |-> Third(p)]
      /\ desc[Third(p)]  = [addr |-> <<"status", First(p)>>, more |-> FALSE, next |-> 0]
      /\ ops[First(p)] = [write |-> write[p], sector |-> sector[p]]
      /\ info[First(p)].b = p
  BY <1>1, Zenon DEF ChainInv
<1>3. /\ desc'[First(p)] = desc[First(p)] /\ desc'[Second(p)] = desc[Second(p)]
      /\ desc'[Third(p)] = desc[Third(p)]
  BY <1>1, Zenon DEF First, Second, Third, Owned
<1>4. write'[p] = write[p] /\ sector'[p] = sector[p] /\ info'[First(p)].b = info[First(p)].b
  BY <1>1, Zenon
<1>5. First(p)' = First(p) /\ Second(p)' = Second(p) /\ Third(p)' = Third(p)
  BY Zenon DEF First, Second, Third
<1> QED BY <1>2, <1>3, <1>4, <1>5, Zenon

\* The avail ring, when its requests stay with the device.
LEMMA AvailKept ==
  ASSUME AvailInv, taken' = taken, avail_idx' = avail_idx, working' \subseteq working,
         \A k \in Pending(taken, avail_idx) : avail'[k % NUM] = avail[k % NUM],
         \A p : Status(p, NoAnswer) /\ (\A r \in working : r.b # p)
                  => Status(p, NoAnswer)' /\ First(p)' = First(p)
  PROVE  AvailInv'
<1>1. Pending(taken, avail_idx)' = Pending(taken, avail_idx)
  BY Zenon DEF Pending
<1>2. \A k \in Pending(taken, avail_idx) : \E p \in Procs :
        Status(p, NoAnswer)' /\ avail'[k % NUM] = First(p)' /\ \A r \in working' : r.b # p
  <2> SUFFICES ASSUME NEW k \in Pending(taken, avail_idx)
               PROVE  \E p \in Procs :
                        Status(p, NoAnswer)' /\ avail'[k % NUM] = First(p)' /\ \A r \in working' : r.b # p
    BY Zenon
  <2>1. PICK p \in Procs :
          Status(p, NoAnswer) /\ avail[k % NUM] = First(p) /\ \A r \in working : r.b # p
    BY Zenon DEF AvailInv
  <2>2. Status(p, NoAnswer)' /\ First(p)' = First(p)
    BY <2>1, Zenon
  <2> QED BY <2>1, <2>2, Zenon
<1>3. \A j, k \in Pending(taken, avail_idx) : avail'[j % NUM] = avail'[k % NUM] => j = k
  BY Zenon DEF AvailInv
<1> QED BY <1>1, <1>2, <1>3, Zenon DEF AvailInv

\* The used ring, when its requests have not been looked at.
LEMMA UsedKept ==
  ASSUME UsedInv, used' = used, used_idx' = used_idx, dev_used_idx' = dev_used_idx,
         \A p : Status(p, 0) => Status(p, 0)' /\ First(p)' = First(p)
  PROVE  UsedInv'
<1>1. Pending(used_idx, dev_used_idx)' = Pending(used_idx, dev_used_idx)
  BY Zenon DEF Pending
<1>2. \A k \in Pending(used_idx, dev_used_idx) : \E p \in Procs :
        Status(p, 0)' /\ used[k % NUM] = First(p)'
  <2> SUFFICES ASSUME NEW k \in Pending(used_idx, dev_used_idx)
               PROVE  \E p \in Procs : Status(p, 0)' /\ used[k % NUM] = First(p)'
    BY Zenon
  <2>1. PICK p \in Procs : Status(p, 0) /\ used[k % NUM] = First(p)
    BY Zenon DEF UsedInv
  <2> QED BY <2>1, Zenon
<1>3. \A j, k \in Pending(used_idx, dev_used_idx) : used[j % NUM] = used[k % NUM] => j = k
  BY Zenon DEF UsedInv
<1> QED BY <1>1, <1>2, <1>3, Zenon DEF UsedInv

\* What the device works on.
LEMMA WorkKept ==
  ASSUME WorkInv,
         \A r \in working' : r \in working /\ Status(r.b, NoAnswer)' /\ First(r.b)' = First(r.b)
  PROVE  WorkInv'
BY Zenon DEF WorkInv

-------------------------------------------------------------------------------
(* The steps that leave the requests as they are.                          *)

Quiet ==
  /\ Active' = Active
  /\ \A p \in Procs : pc'[p] = "filled" <=> pc[p] = "filled"
  /\ UNCHANGED <<free, ops, info, rings, taken, working, busy, store, idx>>
  /\ \A p \in Active : /\ data'[p] = data[p] /\ write'[p] = write[p] /\ sector'[p] = sector[p]
                       /\ \A k \in Owned(p) : desc'[k] = desc[k]

\* They keep what the invariant says of requests and rings.
LEMMA QuietKeeps ==
  ASSUME DiskInv, Quiet
  PROVE  OwnInv' /\ ChainInv' /\ AvailInv' /\ WorkInv' /\ UsedInv' /\ FilledInv' /\ TransferInv'
<1>1. /\ OwnInv /\ ChainInv /\ AvailInv /\ WorkInv /\ UsedInv /\ FilledInv /\ TransferInv
  BY Zenon DEF DiskInv
<1>2. /\ Active' = Active /\ free' = free /\ ops' = ops /\ info' = info /\ idx' = idx
      /\ busy' = busy /\ store' = store /\ working' = working
      /\ \A p \in Procs : pc'[p] = "filled" <=> pc[p] = "filled"
  BY Zenon DEF Quiet
<1>3. /\ avail' = avail /\ used' = used /\ taken' = taken /\ avail_idx' = avail_idx
      /\ used_idx' = used_idx /\ dev_used_idx' = dev_used_idx
  BY Zenon DEF Quiet, rings
<1>4. \A p \in Active :
        /\ data'[p] = data[p] /\ write'[p] = write[p] /\ sector'[p] = sector[p]
        /\ \A k \in Owned(p) : desc'[k] = desc[k]
  BY Zenon DEF Quiet
<1>5. \A p : /\ First(p)' = First(p) /\ Second(p)' = Second(p) /\ Third(p)' = Third(p)
             /\ Owned(p)' = Owned(p)
  BY <1>2, Zenon DEF First, Second, Third, Owned
<1>6. \A p : /\ Status(p, NoAnswer) => Status(p, NoAnswer)'
             /\ Status(p, 0) => Status(p, 0)'
  <2>1. \A p \in Active : p \in Procs
    BY Zenon DEF Active
  <2> QED BY <1>2, <1>5, <2>1, Zenon DEF Status
<1>7. OwnInv'
  BY <1>1, <1>2, OwnKept, Zenon
<1>8. ChainInv'
  BY <1>1, <1>2, <1>4, ChainKept, Zenon
<1>9. AvailInv'
  BY <1>1, <1>2, <1>3, <1>5, <1>6, AvailKept, Zenon
<1>10. WorkInv'
  <2>1. \A r \in working : Status(r.b, NoAnswer)
    BY <1>1, Zenon DEF WorkInv
  <2> QED BY <1>1, <1>2, <1>5, <1>6, <2>1, WorkKept, Zenon
<1>11. UsedInv'
  BY <1>1, <1>3, <1>5, <1>6, UsedKept, Zenon
<1>12. FilledInv'
  BY <1>1, <1>2, <1>3, <1>5, Zenon DEF FilledInv
<1>13. TransferInv'
  BY <1>1, <1>2, <1>4, <1>5, Zenon DEF TransferInv
<1> QED BY <1>7, <1>8, <1>9, <1>10, <1>11, <1>12, <1>13, Zenon

\* They keep NobodyStranded when nobody starts to wait and nobody lets an
\* interrupt be lost.
LEMMA StillNotStranded ==
  ASSUME NobodyStranded, free' = free, used_idx' = used_idx, dev_used_idx' = dev_used_idx,
         \A p \in Procs : pc'[p] = "nodesc" => pc[p] = "nodesc" \/ NumFree < 3,
         irq \/ lock = INTR => irq' \/ lock' = INTR
  PROVE  NobodyStranded'
<1>1. NumFree' = NumFree
  BY Zenon DEF NumFree
<1> QED BY <1>1, Zenon DEF NobodyStranded

\* virtio_disk_rw() is called.
LEMMA CallKeeps ==
  ASSUME VInv, NEW p \in Procs, NEW w \in BOOLEAN, NEW s \in Sector, NEW v \in Value,
         Call(p, w, s, v)
  PROVE  VInv'
<1>1. /\ DiskInv /\ TableTypes /\ RingTypes /\ CallTypes /\ CallInv /\ NobodyStranded
  BY Zenon DEF VInv, DiskInv
<1>2. /\ pc \in [Procs -> {"out", "call", "nodesc", "filled", "asleep", "woken"}]
      /\ write \in [Procs -> BOOLEAN] /\ sector \in [Procs -> Sector \cup {None}]
      /\ data \in [Procs -> Value \cup {None}]
      /\ busy \in [Procs -> BOOLEAN] /\ store \in [Sector -> Value] /\ idx \in [Procs -> Seq(Index)]
  BY <1>1, Zenon DEF CallTypes
<1>3. /\ pc[p] = "out" /\ \A x \in Procs : sector[x] # s
      /\ write' = [write EXCEPT ![p] = w] /\ sector' = [sector EXCEPT ![p] = s]
      /\ data' = [data EXCEPT ![p] = IF w THEN v ELSE None]
      /\ pc' = [pc EXCEPT ![p] = "call"]
  BY Zenon DEF Call, Goto
<1>4. /\ UNCHANGED <<free, desc, ops, info, avail, avail_idx, used, dev_used_idx, used_idx>>
      /\ UNCHANGED <<taken, working, irq, lock, busy, store, idx>> /\ UNCHANGED rings
  BY Zenon DEF Call, tables, rings, device
<1>5. /\ pc'[p] = "call" /\ write'[p] = w /\ sector'[p] = s
      /\ data'[p] = IF w THEN v ELSE None
      /\ \A x \in Procs : x # p => /\ pc'[x] = pc[x] /\ write'[x] = write[x]
                                   /\ sector'[x] = sector[x] /\ data'[x] = data[x]
  BY <1>2, <1>3, Zenon
<1>6. Quiet
  <2>1. Active' = Active /\ \A x \in Active : x \in Procs /\ x # p
    BY <1>3, <1>5, Zenon DEF Active
  <2>2. \A x \in Procs : pc'[x] = "filled" <=> pc[x] = "filled"
    BY <1>3, <1>5, Zenon
  <2> QED BY <1>4, <1>5, <2>1, <2>2, Zenon DEF Quiet
<1>7. TableTypes' /\ RingTypes'
  BY <1>1, <1>4, Zenon DEF TableTypes, RingTypes
<1>8. CallTypes'
  <2>1. /\ pc' \in [Procs -> {"out", "call", "nodesc", "filled", "asleep", "woken"}]
        /\ write' \in [Procs -> BOOLEAN] /\ sector' \in [Procs -> Sector \cup {None}]
        /\ data' \in [Procs -> Value \cup {None}]
    BY <1>2, <1>3
  <2> QED BY <1>2, <1>4, <2>1, Zenon DEF CallTypes
<1>9. CallInv'
  <2>1. \A x \in Procs : pc'[x] # "out" =>
          sector'[x] \in Sector /\ (write'[x] => data'[x] \in Value)
    BY <1>1, <1>5, Zenon DEF CallInv
  <2>2. \A x, y \in Procs : sector'[x] = sector'[y] /\ sector'[x] # None => x = y
    <3>1. \A x, y \in Procs : sector[x] = sector[y] /\ sector[x] # None => x = y
      BY <1>1, Zenon DEF CallInv
    <3>2. \A x \in Procs : x # p => sector'[x] = sector[x] /\ sector[x] # s
      BY <1>3, <1>5, Zenon
    <3>3. sector'[p] = s
      BY <1>5, Zenon
    <3> QED BY <3>1, <3>2, <3>3, Zenon
  <2>3. \A x \in Procs : pc'[x] = "filled" <=> lock' = x
    <3>1. \A x \in Procs : pc[x] = "filled" <=> lock = x
      BY <1>1, Zenon DEF CallInv
    <3>2. \A x \in Procs : pc'[x] = "filled" <=> pc[x] = "filled"
      BY <1>3, <1>5, Zenon
    <3> QED BY <1>4, <3>1, <3>2, Zenon
  <2>4. \A x \in Procs : pc'[x] \in {"filled", "asleep"} => busy'[x]
    BY <1>1, <1>4, <1>5, Zenon DEF CallInv
  <2> QED BY <2>1, <2>2, <2>3, <2>4, Zenon DEF CallInv
<1>10. NobodyStranded'
  BY <1>1, <1>4, <1>5, StillNotStranded, Zenon
<1> QED BY <1>1, <1>6, <1>7, <1>8, <1>9, <1>10, QuietKeeps, Zenon DEF VInv, DiskInv

\* The steps that move processes, the lock or the interrupt, and reset what is
\* free.
LEMMA MovesKeep ==
  ASSUME VInv,
         UNCHANGED <<free, ops, info, rings, taken, working, busy, data, store, idx, write, sector>>,
         desc' \in [Index -> DescRecord],
         \A k \in Index : ~free[k] => desc'[k] = desc[k],
         pc' \in [Procs -> {"out", "call", "nodesc", "filled", "asleep", "woken"}],
         \A x \in Procs : \/ pc'[x] = pc[x]
                          \/ pc[x] \in {"call", "nodesc"} /\ pc'[x] \in {"call", "nodesc"}
                          \/ pc[x] \in {"asleep", "woken"} /\ pc'[x] = "woken"
                          \/ pc[x] = "woken" /\ pc'[x] = "asleep" /\ busy[x],
         \A x \in Procs : pc'[x] = "nodesc" => pc[x] = "nodesc" \/ NumFree < 3,
         irq' \in BOOLEAN,
         lock' = lock \/ {lock, lock'} = {None, INTR},
         used_idx # dev_used_idx => (irq \/ lock = INTR => irq' \/ lock' = INTR)
  PROVE  VInv'
<1>1. /\ DiskInv /\ TableTypes /\ RingTypes /\ CallTypes /\ OwnInv /\ CallInv /\ NobodyStranded
  BY Zenon DEF VInv, DiskInv
<1>2. None \notin Procs /\ INTR \notin Procs
  BY VirtioAssumption
<1>3. Active' = Active
  BY Zenon DEF Active
<1>4. \A x \in Procs : pc'[x] = "filled" <=> pc[x] = "filled"
  BY Zenon
<1>5. Quiet
  <2>1. ASSUME NEW x \in Active, NEW k \in Owned(x) PROVE k \in Index /\ ~free[k]
    <3>1. /\ Owned(x) = {First(x), Second(x), Third(x)}
          /\ First(x) \in Index /\ Second(x) \in Index /\ Third(x) \in Index
          /\ ~free[First(x)] /\ ~free[Second(x)] /\ ~free[Third(x)]
      BY <1>1, OwnFacts, Zenon
    <3> QED BY <3>1, Zenon
  <2> QED BY <1>3, <1>4, <2>1, Zenon DEF Quiet
<1>6. /\ avail' = avail /\ used' = used /\ avail_idx' = avail_idx /\ used_idx' = used_idx
      /\ dev_used_idx' = dev_used_idx
  BY Zenon DEF rings
<1>7. TableTypes'
  BY <1>1, Zenon DEF TableTypes
<1>8. RingTypes'
  <2>1. lock' \in Procs \cup {None, INTR}
    BY <1>1, Zenon DEF RingTypes
  <2> QED BY <1>1, <1>6, <2>1, Zenon DEF RingTypes
<1>9. CallTypes'
  BY <1>1, Zenon DEF CallTypes
<1>10. CallInv'
  <2>1. \A x \in Procs : pc'[x] # "out" => pc[x] # "out"
    BY Zenon
  <2>2. \A x \in Procs : lock' = x <=> lock = x
    BY <1>2, Zenon
  <2>3. \A x \in Procs : pc'[x] = "filled" <=> lock' = x
    BY <1>1, <1>4, <2>2, Zenon DEF CallInv
  <2>4. \A x \in Procs : pc'[x] \in {"filled", "asleep"} => busy'[x]
    BY <1>1, Zenon DEF CallInv
  <2> QED BY <1>1, <2>1, <2>3, <2>4, Zenon DEF CallInv
<1>11. NobodyStranded'
  <2>1. NumFree' = NumFree
    BY Zenon DEF NumFree
  <2> QED BY <1>1, <1>6, <2>1, Zenon DEF NobodyStranded
<1> QED BY <1>5, <1>1, <1>7, <1>8, <1>9, <1>10, <1>11, QuietKeeps, Zenon DEF VInv, DiskInv

\* alloc3_desc() fails.
LEMMA AllocFailsKeeps ==
  ASSUME VInv, NEW p \in Procs, AllocFails(p)
  PROVE  VInv'
<1>1. TableTypes /\ RingTypes /\ CallTypes
  BY Zenon DEF VInv, DiskInv
<1>2. /\ UNCHANGED <<free, ops, info, rings, taken, working, busy, data, store, idx, write, sector>>
      /\ irq' = irq /\ lock' = lock /\ pc[p] = "call" /\ NumFree < 3
  BY Zenon DEF AllocFails, device, request
<1>3. desc' = [k \in Index |-> IF free[k] THEN NoDesc ELSE desc[k]]
  BY Zenon DEF AllocFails
<1>4. pc' = [x \in Procs |-> IF x = p THEN "nodesc"
                             ELSE IF pc[x] = "nodesc" /\ NumFree > 0 THEN "call"
                             ELSE pc[x]]
  BY Zenon DEF AllocFails
<1>5. NoDesc \in DescRecord
  <2>1. 0 \in Index
    BY VirtioAssumption DEF Index
  <2> QED BY <2>1 DEF NoDesc, DescRecord
<1>6. desc' \in [Index -> DescRecord]
  BY <1>1, <1>3, <1>5, Zenon DEF TableTypes
<1>7. \A k \in Index : ~free[k] => desc'[k] = desc[k]
  BY <1>3, Zenon
<1>8. pc' \in [Procs -> {"out", "call", "nodesc", "filled", "asleep", "woken"}]
  BY <1>1, <1>4, Zenon DEF CallTypes
<1>9. /\ pc'[p] = "nodesc"
      /\ \A x \in Procs : x # p => pc'[x] = pc[x] \/ (pc[x] = "nodesc" /\ pc'[x] = "call")
  BY <1>4, Zenon
<1>10. /\ \A x \in Procs : \/ pc'[x] = pc[x]
                           \/ pc[x] \in {"call", "nodesc"} /\ pc'[x] \in {"call", "nodesc"}
       /\ \A x \in Procs : pc'[x] = "nodesc" => pc[x] = "nodesc" \/ NumFree < 3
  BY <1>2, <1>9, Zenon
<1>11. irq' \in BOOLEAN
  BY <1>1, <1>2, Zenon DEF RingTypes
<1> QED BY <1>2, <1>6, <1>7, <1>8, <1>10, <1>11, MovesKeep, Zenon

\* What MovesKeep asks for when the table stays.
LEMMA TableStays ==
  ASSUME VInv, UNCHANGED tables, UNCHANGED pc
  PROVE  /\ desc' \in [Index -> DescRecord]
         /\ \A k \in Index : ~free[k] => desc'[k] = desc[k]
         /\ pc' \in [Procs -> {"out", "call", "nodesc", "filled", "asleep", "woken"}]
         /\ \A x \in Procs : pc'[x] = pc[x]
         /\ \A x \in Procs : pc'[x] = "nodesc" => pc[x] = "nodesc"
         /\ UNCHANGED <<free, ops, info>>
<1>1. desc' = desc /\ UNCHANGED <<free, ops, info>>
  BY Zenon DEF tables
<1>2. TableTypes /\ CallTypes
  BY Zenon DEF VInv, DiskInv
<1> QED BY <1>1, <1>2, Zenon DEF TableTypes, CallTypes

\* virtio_disk_intr() starts.
LEMMA IntrAckKeeps ==
  ASSUME VInv, IntrAck
  PROVE  VInv'
<1>1. /\ UNCHANGED <<rings, taken, working, busy, data, store, idx, write, sector>>
      /\ irq' = FALSE /\ lock = None /\ lock' = INTR /\ UNCHANGED tables /\ UNCHANGED pc
  BY Zenon DEF IntrAck, request
<1>2. irq' \in BOOLEAN /\ {lock, lock'} = {None, INTR}
  BY <1>1, Zenon
<1> QED BY <1>1, <1>2, TableStays, MovesKeep, Zenon

\* It has looked at every entry.
LEMMA IntrEndKeeps ==
  ASSUME VInv, IntrEnd
  PROVE  VInv'
<1>1. /\ UNCHANGED <<rings, taken, working, busy, data, store, idx, write, sector>>
      /\ irq' = irq /\ lock = INTR /\ lock' = None /\ used_idx = dev_used_idx
      /\ UNCHANGED tables /\ UNCHANGED pc
  BY Zenon DEF IntrEnd, request, device
<1>2. RingTypes
  BY Zenon DEF VInv, DiskInv
<1>3. irq' \in BOOLEAN /\ {lock, lock'} = {None, INTR}
  BY <1>1, <1>2, Zenon DEF RingTypes
<1> QED BY <1>1, <1>3, TableStays, MovesKeep, Zenon

\* A step of one process that leaves everything else as it is.
LEMMA PcKeeps ==
  ASSUME VInv, NEW p \in Procs, NEW l \in {"call", "asleep", "woken"},
         pc' = [pc EXCEPT ![p] = l],
         \/ pc[p] = "nodesc" /\ l = "call"
         \/ pc[p] = "asleep" /\ l = "woken"
         \/ pc[p] = "woken" /\ l = "asleep" /\ busy[p],
         UNCHANGED <<free, desc, ops, info, rings, device, lock, busy, data, store, idx, request>>
  PROVE  VInv'
<1>1. TableTypes /\ RingTypes /\ CallTypes
  BY Zenon DEF VInv, DiskInv
<1>2. /\ UNCHANGED <<free, ops, info, rings, taken, working, busy, data, store, idx, write, sector>>
      /\ irq' = irq /\ lock' = lock /\ desc' = desc
  BY Zenon DEF device, request
<1>3. /\ desc' \in [Index -> DescRecord]
      /\ \A k \in Index : ~free[k] => desc'[k] = desc[k]
  <2>1. desc \in [Index -> DescRecord]
    BY <1>1, Zenon DEF TableTypes
  <2>2. desc' = desc
    BY <1>2, Zenon
  <2> QED BY <2>1, <2>2
<1>4. pc' \in [Procs -> {"out", "call", "nodesc", "filled", "asleep", "woken"}]
  BY <1>1 DEF CallTypes
<1>5. pc'[p] = l /\ \A x \in Procs : x # p => pc'[x] = pc[x]
  BY <1>1, Zenon DEF CallTypes
<1>6. /\ \A x \in Procs : \/ pc'[x] = pc[x]
                          \/ pc[x] \in {"call", "nodesc"} /\ pc'[x] \in {"call", "nodesc"}
                          \/ pc[x] \in {"asleep", "woken"} /\ pc'[x] = "woken"
                          \/ pc[x] = "woken" /\ pc'[x] = "asleep" /\ busy[x]
      /\ \A x \in Procs : pc'[x] = "nodesc" => pc[x] = "nodesc" \/ NumFree < 3
  BY <1>5, Zenon
<1>7. irq' \in BOOLEAN
  BY <1>1, <1>2, Zenon DEF RingTypes
<1> QED BY <1>2, <1>3, <1>4, <1>6, <1>7, MovesKeep, Zenon

\* kkill() makes it run.
LEMMA KillWakesKeeps ==
  ASSUME VInv, NEW p \in Procs, KillWakes(p)
  PROVE  VInv'
<1>1. UNCHANGED <<free, desc, ops, info, rings, device, lock, busy, data, store, idx, request>>
  BY Zenon DEF KillWakes, tables
<1>2. CASE pc[p] = "asleep"
  <2>1. pc' = [pc EXCEPT ![p] = "woken"]
    BY <1>2, Zenon DEF KillWakes, Goto
  <2> QED BY <1>1, <1>2, <2>1, PcKeeps, Zenon
<1>3. CASE pc[p] # "asleep"
  <2>1. pc[p] = "nodesc" /\ pc' = [pc EXCEPT ![p] = "call"]
    BY <1>3, Zenon DEF KillWakes, Goto
  <2> QED BY <1>1, <2>1, PcKeeps, Zenon
<1> QED BY <1>2, <1>3, Zenon

\* A request that is not done sleeps again.
LEMMA SleepAgainKeeps ==
  ASSUME VInv, NEW p \in Procs, Finish(p), busy[p]
  PROVE  VInv'
<1>1. /\ UNCHANGED <<free, desc, ops, info, rings, device, lock, busy, data, store, idx, request>>
      /\ pc[p] = "woken" /\ pc' = [pc EXCEPT ![p] = "asleep"]
  BY Zenon DEF Finish, Goto
<1> QED BY <1>1, PcKeeps, Zenon

-------------------------------------------------------------------------------
(* The steps of a request.                                                 *)

\* The entry is published: the avail ring has it, once.
LEMMA PublishKeeps ==
  ASSUME VInv, NEW p \in Procs, Publish(p)
  PROVE  VInv'
<1>1. /\ TableTypes /\ RingTypes /\ CallTypes /\ OwnInv /\ ChainInv /\ CallInv /\ AvailInv
      /\ WorkInv /\ UsedInv /\ FilledInv /\ TransferInv /\ NobodyStranded
  BY Zenon DEF VInv, DiskInv
<1>2. /\ pc[p] = "filled" /\ avail_idx' = (avail_idx + 1) % WRAP /\ lock' = None
      /\ pc' = [pc EXCEPT ![p] = "asleep"]
      /\ free' = free /\ desc' = desc /\ ops' = ops /\ info' = info
      /\ avail' = avail /\ used' = used /\ dev_used_idx' = dev_used_idx /\ used_idx' = used_idx
      /\ taken' = taken /\ working' = working /\ irq' = irq
      /\ busy' = busy /\ data' = data /\ store' = store /\ idx' = idx
      /\ write' = write /\ sector' = sector
  BY Zenon DEF Publish, Goto, tables, device, request
<1>3. pc'[p] = "asleep" /\ \A x \in Procs : x # p => pc'[x] = pc[x]
  BY <1>1, <1>2, Zenon DEF CallTypes
<1>4. Active' = Active /\ p \in Active /\ \A x \in Active : x \in Procs
  BY <1>2, <1>3, Zenon DEF Active
<1>5. lock = p /\ busy[p] /\ \A x \in Procs : pc[x] = "filled" <=> lock = x
  BY <1>1, <1>2, Zenon DEF CallInv
<1>6. \A x : First(x)' = First(x)
  BY <1>2, Zenon DEF First
<1>7. \A x : /\ Status(x, NoAnswer) => Status(x, NoAnswer)' /\ x # p
             /\ Status(x, 0) => Status(x, 0)'
  BY <1>2, <1>3, <1>4, <1>6, Zenon DEF Status
<1>8. avail[avail_idx % NUM] = First(p) /\ info[First(p)].status = NoAnswer
  BY <1>1, <1>2, Zenon DEF FilledInv
<1>9. Status(p, NoAnswer)'
  BY <1>2, <1>3, <1>4, <1>5, <1>6, <1>8, Zenon DEF Status
<1>10. /\ avail_idx' \in Position
       /\ Pending(taken', avail_idx') = Pending(taken, avail_idx) \cup {avail_idx}
  <2>1. ((avail_idx - taken) % WRAP) + 1 < WRAP
    BY <1>1, <1>4, RoomOfActive, Zenon
  <2>2. taken \in Position /\ avail_idx \in Position
    BY <1>1, Zenon DEF RingTypes
  <2> QED BY <1>2, <2>1, <2>2, PendingGrows, Zenon
<1>11. AvailInv'
  <2>1. ASSUME NEW k \in Pending(taken, avail_idx)'
        PROVE  \E x \in Procs : /\ Status(x, NoAnswer)' /\ avail'[k % NUM] = First(x)'
                                /\ \A r \in working' : r.b # x
    <3>1. CASE k = avail_idx
      <4>1. \A r \in working : r.b # p
        BY <1>1, <1>7, Zenon DEF WorkInv
      <4> QED BY <1>2, <1>6, <1>8, <1>9, <3>1, <4>1, Zenon
    <3>2. CASE k \in Pending(taken, avail_idx)
      <4>1. PICK x \in Active : /\ Status(x, NoAnswer) /\ avail[k % NUM] = First(x)
                                /\ \A r \in working : r.b # x
        BY <1>1, <3>2, AvailEntry, Zenon
      <4> QED BY <1>2, <1>4, <1>6, <1>7, <4>1, Zenon
    <3> QED BY <1>10, <3>1, <3>2, Zenon
  <2>2. ASSUME NEW k \in Pending(taken, avail_idx), avail[k % NUM] = First(p) PROVE FALSE
    <3>1. PICK x \in Active : Status(x, NoAnswer) /\ avail[k % NUM] = First(x)
      BY <1>1, AvailEntry, Zenon
    <3>2. x = p
      BY <1>1, <1>4, <2>2, <3>1, HeadsApart, Zenon
    <3> QED BY <1>7, <3>1, <3>2, Zenon
  <2>3. \A j, k \in Pending(taken, avail_idx) : avail[j % NUM] = avail[k % NUM] => j = k
    BY <1>1, Zenon DEF AvailInv
  <2>4. \A j, k \in Pending(taken, avail_idx) \cup {avail_idx} :
          avail[j % NUM] = avail[k % NUM] => j = k
    <3> SUFFICES ASSUME NEW j \in Pending(taken, avail_idx) \cup {avail_idx},
                        NEW k \in Pending(taken, avail_idx) \cup {avail_idx},
                        avail[j % NUM] = avail[k % NUM]
                 PROVE  j = k
      BY Zenon
    <3>1. CASE j \in Pending(taken, avail_idx) /\ k \in Pending(taken, avail_idx)
      BY <2>3, <3>1, Zenon
    <3>2. CASE j = avail_idx /\ k \in Pending(taken, avail_idx)
      BY <1>8, <2>2, <3>2, Zenon
    <3>3. CASE k = avail_idx /\ j \in Pending(taken, avail_idx)
      BY <1>8, <2>2, <3>3, Zenon
    <3> QED BY <3>1, <3>2, <3>3, Zenon
  <2>5. \A j, k \in Pending(taken, avail_idx)' : avail'[j % NUM] = avail'[k % NUM] => j = k
    BY <1>2, <1>10, <2>4, Zenon
  <2> QED BY <2>1, <2>5, Zenon DEF AvailInv
<1>12. WorkInv'
  <2>1. \A r \in working : Status(r.b, NoAnswer)
    BY <1>1, Zenon DEF WorkInv
  <2> QED BY <1>1, <1>2, <1>6, <1>7, <2>1, WorkKept, Zenon
<1>13. UsedInv'
  BY <1>1, <1>2, <1>6, <1>7, UsedKept, Zenon
<1>14. OwnInv' /\ ChainInv'
  BY <1>1, <1>2, <1>4, OwnKept, ChainKept, Zenon
<1>15. FilledInv'
  <2>1. \A x \in Procs : pc'[x] # "filled"
    BY <1>3, <1>5, Zenon
  <2> QED BY <2>1, Zenon DEF FilledInv
<1>16. TransferInv'
  BY <1>1, <1>2, <1>4, <1>6, Zenon DEF TransferInv
<1>17. TableTypes' /\ RingTypes'
  <2>1. TableTypes'
    BY <1>1, <1>2, Zenon DEF TableTypes
  <2>2. RingTypes'
    BY <1>1, <1>2, <1>10, Zenon DEF RingTypes
  <2> QED BY <2>1, <2>2, Zenon
<1>18. CallTypes'
  <2>1. pc' \in [Procs -> {"out", "call", "nodesc", "filled", "asleep", "woken"}]
    BY <1>1, <1>2 DEF CallTypes
  <2> QED BY <1>1, <1>2, <2>1, Zenon DEF CallTypes
<1>19. CallInv'
  <2>1. \A x \in Procs : pc'[x] # "out" => pc[x] # "out"
    BY <1>2, <1>3, Zenon
  <2>2. \A x \in Procs : pc'[x] = "filled" <=> lock' = x
    <3>1. None \notin Procs
      BY VirtioAssumption, Zenon
    <3> QED BY <1>2, <1>3, <1>5, <3>1, Zenon
  <2>3. \A x \in Procs : pc'[x] \in {"filled", "asleep"} => busy'[x]
    BY <1>1, <1>2, <1>3, <1>5, Zenon DEF CallInv
  <2> QED BY <1>1, <1>2, <2>1, <2>2, <2>3, Zenon DEF CallInv
<1>20. NobodyStranded'
  <2>1. lock # INTR
    BY <1>5, VirtioAssumption, Zenon
  <2> QED BY <1>1, <1>2, <1>3, <2>1, StillNotStranded, Zenon
<1> QED BY <1>11, <1>12, <1>13, <1>14, <1>15, <1>16, <1>17, <1>18, <1>19, <1>20, Zenon
        DEF VInv, DiskInv

\* virtio_disk_intr() looks at an entry of the used ring: it is a request's, and
\* that one's alone.
LEMMA IntrStepKeeps ==
  ASSUME VInv, IntrStep
  PROVE  VInv'
<1>1. /\ TableTypes /\ RingTypes /\ CallTypes /\ OwnInv /\ ChainInv /\ CallInv /\ AvailInv
      /\ WorkInv /\ UsedInv /\ FilledInv /\ TransferInv /\ NobodyStranded
  BY Zenon DEF VInv, DiskInv
<1>2. /\ used_idx # dev_used_idx /\ lock = INTR
      /\ used_idx' = (used_idx + 1) % WRAP /\ used' = [used EXCEPT ![used_idx % NUM] = 0]
      /\ free' = free /\ desc' = desc /\ ops' = ops /\ info' = info
      /\ avail' = avail /\ avail_idx' = avail_idx /\ dev_used_idx' = dev_used_idx
      /\ taken' = taken /\ working' = working /\ irq' = irq /\ lock' = lock
      /\ data' = data /\ store' = store /\ idx' = idx /\ write' = write /\ sector' = sector
  BY Zenon DEF IntrStep, tables, device, request
<1>3. used_idx \in Position /\ dev_used_idx \in Position /\ used \in [Index -> Index]
  BY <1>1, Zenon DEF RingTypes
<1>4. /\ used_idx' \in Position /\ used_idx \in Pending(used_idx, dev_used_idx)
      /\ Pending(used_idx', dev_used_idx') = Pending(used_idx, dev_used_idx) \ {used_idx}
  BY <1>2, <1>3, PendingShrinks, Zenon
<1>5. PICK q \in Active : Status(q, 0) /\ used[used_idx % NUM] = First(q)
  BY <1>1, <1>4, UsedEntry, Zenon
<1>6. info[used[used_idx % NUM]].b = q /\ q \in Procs
  BY <1>1, <1>5, Zenon DEF ChainInv, Active
<1>7. /\ busy' = [busy EXCEPT ![q] = FALSE]
      /\ pc' = [x \in Procs |-> IF x = q /\ pc[x] = "asleep" THEN "woken" ELSE pc[x]]
  BY <1>6, Zenon DEF IntrStep
<1>8. pc[q] # "filled" /\ info[First(q)].status = 0
  BY <1>5, Zenon DEF Status
<1>9. /\ pc'[q] = "woken" /\ ~busy'[q]
      /\ \A x \in Procs : x # q => pc'[x] = pc[x] /\ busy'[x] = busy[x]
  <2>1. pc[q] = "asleep" \/ pc[q] = "woken"
    BY <1>5, <1>8, Zenon DEF Active
  <2>2. busy \in [Procs -> BOOLEAN]
    BY <1>1, Zenon DEF CallTypes
  <2> QED BY <1>6, <1>7, <2>1, <2>2, Zenon
<1>10. Active' = Active /\ \A x \in Active : x \in Procs
  <2>1. \A x \in Procs : x \in Active' <=> x \in Active
    BY <1>5, <1>9, Zenon DEF Active
  <2> QED BY <2>1, Zenon DEF Active
<1>11. \A x : First(x)' = First(x)
  BY <1>2, Zenon DEF First
<1>12. \A x : /\ Status(x, NoAnswer) => Status(x, NoAnswer)'
              /\ Status(x, 0) /\ x # q => Status(x, 0)'
  <2>1. 0 # NoAnswer
    BY DEF NoAnswer
  <2>2. \A x : Status(x, NoAnswer) => x # q
    BY <1>8, <2>1, Zenon DEF Status
  <2>3. \A x \in Active : x # q => pc'[x] = pc[x] /\ busy'[x] = busy[x]
    BY <1>9, <1>10, Zenon
  <2>4. ASSUME NEW x, NEW s, Status(x, s), x # q PROVE Status(x, s)'
    <3>1. x \in Active /\ pc'[x] = pc[x] /\ busy'[x] = busy[x]
      BY <2>3, <2>4, Zenon DEF Status
    <3> QED BY <1>2, <1>10, <1>11, <2>4, <3>1, Zenon DEF Status
  <2> QED BY <2>2, <2>4, Zenon
<1>13. AvailInv'
  BY <1>1, <1>2, <1>11, <1>12, AvailKept, Zenon
<1>14. WorkInv'
  <2>1. \A r \in working : Status(r.b, NoAnswer)
    BY <1>1, Zenon DEF WorkInv
  <2> QED BY <1>1, <1>2, <1>11, <1>12, <2>1, WorkKept, Zenon
<1>15. UsedInv'
  <2>1. (dev_used_idx - used_idx) % WRAP < NUM
    BY <1>1, <1>5, RoomOfActive, Zenon
  <2>2. ASSUME NEW k \in Pending(used_idx, dev_used_idx) \ {used_idx}
        PROVE  used'[k % NUM] = used[k % NUM]
    <3>1. k % NUM # used_idx % NUM
      BY <1>3, <1>4, <2>1, SlotsApart, Zenon
    <3>2. k % NUM \in Index
      BY SlotIsIndex, Zenon DEF Pending, Position
    <3> QED BY <1>2, <1>3, <3>1, <3>2, Zenon
  <2>3. \A j, k \in Pending(used_idx, dev_used_idx) : used[j % NUM] = used[k % NUM] => j = k
    BY <1>1, Zenon DEF UsedInv
  <2>4. ASSUME NEW k \in Pending(used_idx, dev_used_idx)'
        PROVE  \E x \in Procs : Status(x, 0)' /\ used'[k % NUM] = First(x)'
    <3>1. k \in Pending(used_idx, dev_used_idx) \ {used_idx}
      BY <1>4, Zenon
    <3>2. PICK x \in Active : Status(x, 0) /\ used[k % NUM] = First(x)
      BY <1>1, <3>1, UsedEntry, Zenon
    <3>3. x # q
      BY <1>4, <1>5, <2>3, <3>1, <3>2, Zenon
    <3>4. used'[k % NUM] = used[k % NUM]
      BY <2>2, <3>1, Zenon
    <3> QED BY <1>10, <1>11, <1>12, <3>2, <3>3, <3>4, Zenon
  <2>5. \A j, k \in Pending(used_idx, dev_used_idx)' : used'[j % NUM] = used'[k % NUM] => j = k
    BY <1>4, <2>2, <2>3, Zenon
  <2> QED BY <2>4, <2>5, Zenon DEF UsedInv
<1>16. OwnInv' /\ ChainInv'
  BY <1>1, <1>2, <1>10, OwnKept, ChainKept, Zenon
<1>17. FilledInv'
  <2>1. \A x \in Procs : pc'[x] = "filled" => pc[x] = "filled"
    BY <1>9, Zenon
  <2> QED BY <1>1, <1>2, <1>11, <2>1, Zenon DEF FilledInv
<1>18. TransferInv'
  BY <1>1, <1>2, <1>8, <1>9, <1>10, <1>11, Zenon DEF TransferInv
<1>19. TableTypes'
  BY <1>1, <1>2, Zenon DEF TableTypes
<1>20. RingTypes'
  <2>1. used' \in [Index -> Index]
    <3>1. 0 \in Index
      BY VirtioAssumption DEF Index
    <3> QED BY <1>2, <1>3, <3>1, Zenon
  <2> QED BY <1>1, <1>2, <1>4, <2>1, Zenon DEF RingTypes
<1>21. CallTypes'
  <2>1. pc' \in [Procs -> {"out", "call", "nodesc", "filled", "asleep", "woken"}]
    BY <1>1, <1>7, Zenon DEF CallTypes
  <2>2. busy' \in [Procs -> BOOLEAN]
    BY <1>1, <1>7, Zenon DEF CallTypes
  <2> QED BY <1>1, <1>2, <2>1, <2>2, Zenon DEF CallTypes
<1>22. CallInv'
  <2>1. \A x \in Procs : pc'[x] # "out" => pc[x] # "out"
    BY <1>5, <1>9, Zenon DEF Active
  <2>2. \A x \in Procs : pc'[x] = "filled" <=> lock' = x
    <3>1. \A x \in Procs : pc[x] = "filled" <=> lock = x
      BY <1>1, Zenon DEF CallInv
    <3>2. \A x \in Procs : pc'[x] = "filled" <=> pc[x] = "filled"
      BY <1>8, <1>9, Zenon
    <3> QED BY <1>2, <3>1, <3>2, Zenon
  <2>3. \A x \in Procs : pc'[x] \in {"filled", "asleep"} => busy'[x]
    BY <1>1, <1>9, Zenon DEF CallInv
  <2> QED BY <1>1, <1>2, <2>1, <2>2, <2>3, Zenon DEF CallInv
<1>23. NobodyStranded'
  <2>1. NumFree' = NumFree
    BY <1>2, Zenon DEF NumFree
  <2>2. \A x \in Procs : pc'[x] = "nodesc" => pc[x] = "nodesc"
    BY <1>9, Zenon
  <2> QED BY <1>1, <1>2, <2>1, <2>2, Zenon DEF NobodyStranded
<1> QED BY <1>13, <1>14, <1>15, <1>16, <1>17, <1>18, <1>19, <1>20, <1>21, <1>22, <1>23, Zenon
        DEF VInv, DiskInv

-------------------------------------------------------------------------------
(* The steps of the device.                                                *)

\* It takes an entry of the avail ring: the chain is the one that was formatted.
LEMMA DevTakeKeeps ==
  ASSUME VInv, DevTake
  PROVE  VInv'
<1>1. /\ TableTypes /\ RingTypes /\ CallTypes /\ OwnInv /\ ChainInv /\ CallInv /\ AvailInv
      /\ WorkInv /\ UsedInv /\ FilledInv /\ TransferInv /\ NobodyStranded
  BY Zenon DEF VInv, DiskInv
<1>2. /\ taken # avail_idx /\ taken' = (taken + 1) % WRAP
      /\ avail' = [avail EXCEPT ![taken % NUM] = 0]
      /\ free' = free /\ desc' = desc /\ ops' = ops /\ info' = info
      /\ used' = used /\ avail_idx' = avail_idx /\ dev_used_idx' = dev_used_idx
      /\ used_idx' = used_idx /\ irq' = irq /\ lock' = lock /\ busy' = busy /\ pc' = pc
      /\ data' = data /\ store' = store /\ idx' = idx /\ write' = write /\ sector' = sector
  BY Zenon DEF DevTake, tables, request
<1>3. taken \in Position /\ avail_idx \in Position /\ avail \in [Index -> Index]
  BY <1>1, Zenon DEF RingTypes
<1>4. /\ taken' \in Position /\ taken \in Pending(taken, avail_idx)
      /\ Pending(taken', avail_idx') = Pending(taken, avail_idx) \ {taken}
  BY <1>2, <1>3, PendingShrinks, Zenon
<1>5. PICK q \in Active : /\ Status(q, NoAnswer) /\ avail[taken % NUM] = First(q)
                          /\ \A r \in working : r.b # q
  BY <1>1, <1>4, AvailEntry, Zenon
<1>6. /\ desc[First(q)].addr[2] = First(q) /\ desc[First(q)].next = Second(q)
      /\ desc[Second(q)].addr[2] = q /\ desc[Second(q)].next = Third(q)
      /\ desc[Third(q)].addr[2] = First(q)
  BY <1>1, ChainFacts, Zenon
<1> DEFINE mine == [head |-> First(q), op |-> First(q), b |-> q, status |-> First(q)]
<1>7. working' = working \cup {mine}
  BY <1>5, <1>6, Zenon DEF DevTake
<1>8. /\ mine.head = First(q) /\ mine.op = First(q) /\ mine.b = q /\ mine.status = First(q)
      /\ mine \in [head : Index, op : Index, b : Procs, status : Index]
  <2>1. First(q) \in Index /\ q \in Procs
    BY <1>1, OwnFacts, Zenon
  <2> QED BY <2>1
<1> HIDE DEF mine
<1>9. Active' = Active
  BY <1>2, Zenon DEF Active
<1>10. \A x : First(x)' = First(x)
  BY <1>2, Zenon DEF First
<1>11. \A x : Status(x, NoAnswer) => Status(x, NoAnswer)'
  BY <1>2, <1>9, <1>10, Zenon DEF Status
<1>12. \A x : Status(x, 0) => Status(x, 0)'
  BY <1>2, <1>9, <1>10, Zenon DEF Status
<1>13. ASSUME NEW k \in Pending(taken, avail_idx) \cup {avail_idx}, k # taken
       PROVE  avail'[k % NUM] = avail[k % NUM]
  <2>1. (avail_idx - taken) % WRAP < NUM
    BY <1>1, <1>5, RoomOfActive, Zenon
  <2>2. k % NUM # taken % NUM
    BY <1>3, <1>4, <1>13, <2>1, SlotsApart, Zenon
  <2>3. k \in Position
    BY <1>3, Zenon DEF Pending, Position
  <2>4. k % NUM \in Index
    BY <2>3, SlotIsIndex, Zenon
  <2> QED BY <1>2, <1>3, <2>2, <2>4, Zenon
<1>14. AvailInv'
  <2>1. \A j, k \in Pending(taken, avail_idx) : avail[j % NUM] = avail[k % NUM] => j = k
    BY <1>1, Zenon DEF AvailInv
  <2>2. ASSUME NEW k \in Pending(taken, avail_idx)'
        PROVE  \E x \in Procs : /\ Status(x, NoAnswer)' /\ avail'[k % NUM] = First(x)'
                                /\ \A r \in working' : r.b # x
    <3>1. k \in Pending(taken, avail_idx) /\ k # taken
      BY <1>4, Zenon
    <3>2. PICK x \in Active : /\ Status(x, NoAnswer) /\ avail[k % NUM] = First(x)
                              /\ \A r \in working : r.b # x
      BY <1>1, <3>1, AvailEntry, Zenon
    <3>3. x # q
      BY <1>4, <1>5, <2>1, <3>1, <3>2, Zenon
    <3>4. avail'[k % NUM] = First(x)'
      BY <1>10, <1>13, <3>1, <3>2, Zenon
    <3>5. \A r \in working' : r.b # x
      BY <1>7, <1>8, <3>2, <3>3, Zenon
    <3>6. x \in Procs
      BY Zenon DEF Active
    <3> QED BY <1>11, <3>2, <3>4, <3>5, <3>6, Zenon
  <2>3. \A j, k \in Pending(taken, avail_idx)' : avail'[j % NUM] = avail'[k % NUM] => j = k
    BY <1>4, <1>13, <2>1, Zenon
  <2> QED BY <2>2, <2>3, Zenon DEF AvailInv
<1>15. WorkInv'
  <2>1. ASSUME NEW r \in working'
        PROVE  /\ Status(r.b, NoAnswer)'
               /\ r.head = First(r.b)' /\ r.op = First(r.b)' /\ r.status = First(r.b)'
    <3>1. CASE r \in working
      BY <1>1, <1>10, <1>11, <3>1, Zenon DEF WorkInv
    <3>2. CASE r = mine
      BY <1>5, <1>8, <1>10, <1>11, <3>2, Zenon
    <3> QED BY <1>7, <3>1, <3>2, Zenon
  <2> QED BY <2>1, Zenon DEF WorkInv
<1>16. UsedInv'
  BY <1>1, <1>2, <1>10, <1>12, UsedKept, Zenon
<1>17. OwnInv' /\ ChainInv'
  BY <1>1, <1>2, <1>9, OwnKept, ChainKept, Zenon
<1>18. FilledInv'
  <2>1. avail'[avail_idx % NUM] = avail[avail_idx % NUM]
    BY <1>2, <1>13, Zenon
  <2> QED BY <1>1, <1>2, <1>10, <2>1, Zenon DEF FilledInv
<1>19. TransferInv'
  BY <1>1, <1>2, <1>9, <1>10, Zenon DEF TransferInv
<1>20. TableTypes' /\ CallTypes' /\ CallInv'
  <2>1. TableTypes'
    BY <1>1, <1>2, Zenon DEF TableTypes
  <2>2. CallTypes'
    BY <1>1, <1>2, Zenon DEF CallTypes
  <2>3. CallInv'
    BY <1>1, <1>2, Zenon DEF CallInv
  <2> QED BY <2>1, <2>2, <2>3, Zenon
<1>21. RingTypes'
  <2>1. avail' \in [Index -> Index]
    <3>1. 0 \in Index
      BY VirtioAssumption DEF Index
    <3> QED BY <1>2, <1>3, <3>1, Zenon
  <2>2. working' \subseteq [head : Index, op : Index, b : Procs, status : Index]
    BY <1>1, <1>7, <1>8, Zenon DEF RingTypes
  <2> QED BY <1>1, <1>2, <1>4, <2>1, <2>2, Zenon DEF RingTypes
<1>22. NobodyStranded'
  BY <1>1, <1>2, StillNotStranded, Zenon
<1> QED BY <1>14, <1>15, <1>16, <1>17, <1>18, <1>19, <1>20, <1>21, <1>22, Zenon DEF VInv, DiskInv

\* It finishes a request it works on: the transfer is done and the used ring has
\* the request, once.
LEMMA DevDoneKeeps ==
  ASSUME VInv, NEW r \in working, DevDone(r)
  PROVE  VInv'
<1>1. /\ TableTypes /\ RingTypes /\ CallTypes /\ OwnInv /\ ChainInv /\ CallInv /\ AvailInv
      /\ WorkInv /\ UsedInv /\ FilledInv /\ TransferInv /\ NobodyStranded
  BY Zenon DEF VInv, DiskInv
<1> DEFINE q == r.b
<1>2. Status(q, NoAnswer) /\ r.head = First(q) /\ r.op = First(q) /\ r.status = First(q)
  BY <1>1, Zenon DEF WorkInv
<1> HIDE DEF q
<1>3. q \in Active /\ q \in Procs /\ pc[q] # "filled" /\ busy[q]
  BY <1>2, Zenon DEF Status, Active
<1>4. ops[First(q)].write = write[q] /\ ops[First(q)].sector = sector[q] /\ First(q) \in Index
  BY <1>1, <1>3, ChainFacts, OwnFacts, Zenon
<1>5. /\ working' = working \ {r} /\ irq' = TRUE
      /\ info' = [info EXCEPT ![First(q)].status = 0]
      /\ used' = [used EXCEPT ![dev_used_idx % NUM] = First(q)]
      /\ dev_used_idx' = (dev_used_idx + 1) % WRAP
      /\ free' = free /\ desc' = desc /\ ops' = ops
      /\ avail' = avail /\ avail_idx' = avail_idx /\ used_idx' = used_idx /\ taken' = taken
      /\ lock' = lock /\ busy' = busy /\ pc' = pc
      /\ idx' = idx /\ write' = write /\ sector' = sector
  BY <1>2, Zenon DEF DevDone, request
<1>6. /\ write[q]  => store' = [store EXCEPT ![sector[q]] = data[q]] /\ data' = data
      /\ ~write[q] => data' = [data EXCEPT ![q] = store[sector[q]]] /\ store' = store
  BY <1>2, <1>4, Zenon DEF DevDone, q
<1>7. sector[q] \in Sector /\ (write[q] => data[q] \in Value)
  BY <1>1, <1>3, Zenon DEF CallInv, Active
<1>8. /\ used \in [Index -> Index] /\ used_idx \in Position /\ dev_used_idx \in Position
      /\ working \subseteq [head : Index, op : Index, b : Procs, status : Index]
  BY <1>1, Zenon DEF RingTypes
<1>9. data \in [Procs -> Value \cup {None}] /\ store \in [Sector -> Value]
  BY <1>1, Zenon DEF CallTypes
<1>10. /\ info'[First(q)].status = 0 /\ info'[First(q)].b = info[First(q)].b
       /\ \A k \in Index : k # First(q) => info'[k] = info[k]
  BY <1>1, <1>4, <1>5 DEF TableTypes
<1>11. Active' = Active /\ \A x \in Active : x \in Procs
  BY <1>5, Zenon DEF Active
<1>12. \A x : First(x)' = First(x)
  BY <1>5, Zenon DEF First
<1>13. ASSUME NEW x \in Active, x # q
       PROVE  First(x) # First(q) /\ info'[First(x)] = info[First(x)]
  <2>1. First(x) # First(q)
    BY <1>1, <1>3, <1>13, HeadsApart, Zenon
  <2>2. First(x) \in Index
    BY <1>1, OwnFacts, Zenon
  <2> QED BY <1>10, <2>1, <2>2, Zenon
<1>14. ASSUME NEW x, NEW s, Status(x, s), x # q PROVE Status(x, s)'
  <2>1. x \in Active /\ info'[First(x)] = info[First(x)]
    BY <1>13, <1>14, Zenon DEF Status
  <2> QED BY <1>5, <1>11, <1>12, <1>14, <2>1, Zenon DEF Status
<1>15. Status(q, 0)'
  BY <1>3, <1>5, <1>10, <1>11, <1>12, Zenon DEF Status
<1>16. AvailInv'
  <2>1. \A x : (\A e \in working : e.b # x) => x # q
    BY Zenon DEF q
  <2> QED BY <1>1, <1>5, <1>12, <1>14, <2>1, AvailKept, Zenon
<1>17. WorkInv'
  <2>1. ASSUME NEW e \in working' PROVE e \in working /\ Status(e.b, NoAnswer)'
    <3>1. e \in working /\ e # r
      BY <1>5, Zenon
    <3>2. /\ Status(e.b, NoAnswer)
          /\ e.head = First(e.b) /\ e.op = First(e.b) /\ e.status = First(e.b)
      BY <1>1, <3>1, Zenon DEF WorkInv
    <3>3. e.b # q
      <4> SUFFICES ASSUME e.b = q PROVE FALSE
        OBVIOUS
      <4>1. e.head = r.head /\ e.op = r.op /\ e.status = r.status /\ e.b = r.b
        BY <1>2, <3>2, Zenon DEF q
      <4>2. e = r
        BY <1>8, <3>1, <4>1
      <4> QED BY <3>1, <4>2, Zenon
    <3> QED BY <1>14, <3>1, <3>2, <3>3, Zenon
  <2> QED BY <1>1, <1>12, <2>1, WorkKept, Zenon
<1>18. /\ dev_used_idx' \in Position /\ (dev_used_idx - used_idx) % WRAP < NUM
       /\ Pending(used_idx', dev_used_idx') = Pending(used_idx, dev_used_idx) \cup {dev_used_idx}
       /\ dev_used_idx \notin Pending(used_idx, dev_used_idx)
  <2>1. (dev_used_idx - used_idx) % WRAP < NUM /\ ((dev_used_idx - used_idx) % WRAP) + 1 < WRAP
    BY <1>1, <1>3, RoomOfActive, Zenon
  <2> QED BY <1>5, <1>8, <2>1, PendingGrows, Zenon
<1>19. UsedInv'
  <2>1. used'[dev_used_idx % NUM] = First(q)
    <3>1. dev_used_idx % NUM \in Index
      BY <1>8, SlotIsIndex, Zenon
    <3> QED BY <1>5, <1>8, <3>1, Zenon
  <2>2. ASSUME NEW k \in Pending(used_idx, dev_used_idx) PROVE used'[k % NUM] = used[k % NUM]
    <3>1. k % NUM # dev_used_idx % NUM
      BY <1>8, <1>18, SlotsApart, Zenon
    <3>2. k % NUM \in Index
      BY SlotIsIndex, Zenon DEF Pending, Position
    <3> QED BY <1>5, <1>8, <3>1, <3>2, Zenon
  <2>3. ASSUME NEW k \in Pending(used_idx, dev_used_idx)
        PROVE  \E x \in Procs : x # q /\ x \in Active /\ Status(x, 0)' /\ used[k % NUM] = First(x)
    <3>1. PICK x \in Active : Status(x, 0) /\ used[k % NUM] = First(x)
      BY <1>1, UsedEntry, Zenon
    <3>2. info[First(x)].status = 0
      BY <3>1, Zenon DEF Status
    <3>3. x # q
      <4>1. 0 # NoAnswer
        BY DEF NoAnswer
      <4>2. info[First(q)].status = NoAnswer
        BY <1>2, Zenon DEF Status
      <4> QED BY <3>2, <4>1, <4>2, Zenon
    <3> QED BY <1>11, <1>14, <3>1, <3>3, Zenon
  <2>4. ASSUME NEW k \in Pending(used_idx, dev_used_idx)'
        PROVE  \E x \in Procs : Status(x, 0)' /\ used'[k % NUM] = First(x)'
    <3>1. CASE k = dev_used_idx
      BY <1>3, <1>12, <1>15, <2>1, <3>1, Zenon
    <3>2. CASE k \in Pending(used_idx, dev_used_idx)
      BY <1>12, <2>2, <2>3, <3>2, Zenon
    <3> QED BY <1>18, <3>1, <3>2, Zenon
  <2>5. ASSUME NEW k \in Pending(used_idx, dev_used_idx) PROVE used'[k % NUM] # First(q)
    BY <1>13, <2>2, <2>3, Zenon
  <2>6. \A j, k \in Pending(used_idx, dev_used_idx) : used'[j % NUM] = used'[k % NUM] => j = k
    BY <1>1, <2>2, Zenon DEF UsedInv
  <2>7. ASSUME NEW j \in Pending(used_idx, dev_used_idx) \cup {dev_used_idx},
               NEW k \in Pending(used_idx, dev_used_idx) \cup {dev_used_idx},
               used'[j % NUM] = used'[k % NUM]
        PROVE  j = k
    <3>1. CASE j \in Pending(used_idx, dev_used_idx) /\ k \in Pending(used_idx, dev_used_idx)
      BY <2>6, <2>7, <3>1, Zenon
    <3>2. CASE j = dev_used_idx /\ k \in Pending(used_idx, dev_used_idx)
      BY <2>1, <2>5, <2>7, <3>2, Zenon
    <3>3. CASE k = dev_used_idx /\ j \in Pending(used_idx, dev_used_idx)
      BY <2>1, <2>5, <2>7, <3>3, Zenon
    <3> QED BY <3>1, <3>2, <3>3, Zenon
  <2>8. \A j, k \in Pending(used_idx, dev_used_idx)' : used'[j % NUM] = used'[k % NUM] => j = k
    BY <1>18, <2>7, Zenon
  <2> QED BY <2>4, <2>8, Zenon DEF UsedInv
<1>20. OwnInv'
  BY <1>1, <1>5, <1>11, OwnKept, Zenon
<1>21. ChainInv'
  <2>1. \A x \in Active : info'[First(x)].b = info[First(x)].b
    BY <1>10, <1>13, Zenon
  <2> QED BY <1>1, <1>5, <1>11, <2>1, ChainKept, Zenon
<1>22. FilledInv'
  <2>1. \A x \in Procs : pc[x] = "filled" => x # q /\ x \in Active
    BY <1>3, Zenon DEF Active
  <2>2. ASSUME NEW x \in Procs, pc[x] = "filled"
        PROVE  avail[avail_idx % NUM] = First(x) /\ info'[First(x)].status = NoAnswer
    <3>1. avail[avail_idx % NUM] = First(x) /\ info[First(x)].status = NoAnswer
      BY <1>1, <2>2, Zenon DEF FilledInv
    <3>2. info'[First(x)] = info[First(x)]
      BY <1>13, <2>1, <2>2, Zenon
    <3> QED BY <3>1, <3>2, Zenon
  <2> QED BY <1>5, <1>12, <2>2, Zenon DEF FilledInv
<1>23. /\ data'[q] = store'[sector[q]] /\ (write[q] => data'[q] \in Value)
       /\ \A x \in Procs : x # q => data'[x] = data[x]
       /\ \A s \in Sector : s # sector[q] => store'[s] = store[s]
       /\ data' \in [Procs -> Value \cup {None}] /\ store' \in [Sector -> Value]
  <2>1. CASE write[q]
    <3>1. store'[sector[q]] = data[q]
      BY <1>6, <1>7, <1>9, <2>1, Zenon
    <3>2. \A s \in Sector : s # sector[q] => store'[s] = store[s]
      BY <1>6, <1>9, <2>1, Zenon
    <3>3. store' \in [Sector -> Value]
      BY <1>6, <1>7, <1>9, <2>1, Zenon
    <3> QED BY <1>6, <1>7, <1>9, <2>1, <3>1, <3>2, <3>3, Zenon
  <2>2. CASE ~write[q]
    <3>0. data' = [data EXCEPT ![q] = store[sector[q]]] /\ store' = store
      BY <1>6, <2>2, Zenon
    <3>1. data'[q] = store[sector[q]]
      BY <1>3, <1>9, <3>0, Zenon
    <3>2. \A x \in Procs : x # q => data'[x] = data[x]
      BY <1>9, <3>0, Zenon
    <3>3. data' \in [Procs -> Value \cup {None}]
      <4>1. store[sector[q]] \in Value \cup {None}
        BY <1>7, <1>9, Zenon
      <4> QED BY <1>9, <3>0, <4>1, Zenon
    <3> QED BY <1>6, <1>9, <2>2, <3>1, <3>2, <3>3, Zenon
  <2> QED BY <2>1, <2>2, Zenon
<1>24. TransferInv'
  <2>1. ASSUME NEW x \in Active, ~busy[x] PROVE info'[First(x)].status = 0
    <3>1. x # q /\ info[First(x)].status = 0
      BY <1>1, <1>3, <2>1, Zenon DEF TransferInv
    <3> QED BY <1>13, <3>1, Zenon
  <2>2. ASSUME NEW x \in Active, info'[First(x)].status = 0 PROVE data'[x] = store'[sector[x]]
    <3>1. CASE x = q
      BY <1>23, <3>1, Zenon
    <3>2. CASE x # q
      <4>1. sector[x] \in Sector /\ None \notin Sector
        BY <1>1, VirtioAssumption, Zenon DEF CallInv, Active
      <4>2. sector[x] # sector[q]
        <5>1. \A y, z \in Procs : sector[y] = sector[z] /\ sector[y] # None => y = z
          BY <1>1, Zenon DEF CallInv
        <5>2. sector[x] # None
          BY <4>1, Zenon
        <5> QED BY <1>3, <1>11, <3>2, <5>1, <5>2, Zenon
      <4>3. data[x] = store[sector[x]]
        BY <1>1, <1>13, <2>2, <3>2, Zenon DEF TransferInv
      <4> QED BY <1>11, <1>23, <3>2, <4>1, <4>2, <4>3, Zenon
    <3> QED BY <3>1, <3>2, Zenon
  <2> QED BY <1>5, <1>11, <1>12, <2>1, <2>2, Zenon DEF TransferInv
<1>25. TableTypes' /\ CallTypes'
  <2>1. TableTypes'
    <3>1. info' \in [Index -> [b : Procs \cup {None}, status : {0, NoAnswer}]]
      BY <1>1, <1>4, <1>5 DEF TableTypes
    <3> QED BY <1>1, <1>5, <3>1, Zenon DEF TableTypes
  <2>2. CallTypes'
    BY <1>1, <1>5, <1>23, Zenon DEF CallTypes
  <2> QED BY <2>1, <2>2, Zenon
<1>26. CallInv'
  <2>1. \A x \in Procs : pc[x] # "out" => sector[x] \in Sector /\ (write[x] => data'[x] \in Value)
    BY <1>1, <1>23, Zenon DEF CallInv
  <2> QED BY <1>1, <1>5, <2>1, Zenon DEF CallInv
<1>27. RingTypes'
  <2>1. used' \in [Index -> Index]
    BY <1>4, <1>5, <1>8, Zenon
  <2>2. working' \subseteq [head : Index, op : Index, b : Procs, status : Index] /\ irq' \in BOOLEAN
    BY <1>5, <1>8, Zenon
  <2> QED BY <1>1, <1>5, <1>18, <2>1, <2>2, Zenon DEF RingTypes
<1>28. NobodyStranded'
  <2>1. NumFree' = NumFree
    BY <1>5, Zenon DEF NumFree
  <2> QED BY <1>1, <1>5, <2>1, Zenon DEF NobodyStranded
<1> QED BY <1>16, <1>17, <1>19, <1>20, <1>21, <1>22, <1>24, <1>25, <1>26, <1>27, <1>28, Zenon
        DEF VInv, DiskInv

-------------------------------------------------------------------------------
(* The chain is formatted, and given back.                                 *)

\* NumFree is a number.
LEMMA NumFreeType == NumFree \in Nat
<1> DEFINE S == {k \in Index : free[k]}
<1>1. IsFiniteSet(Index)
  <2>1. 0 \in Int /\ NUM - 1 \in Int
    BY VirtioAssumption
  <2> QED BY <2>1, FS_Interval, Zenon DEF Index
<1>2. S \subseteq Index
  OBVIOUS
<1>3. IsFiniteSet(S)
  BY <1>1, <1>2, FS_Subset, Zenon
<1> QED BY <1>3, FS_CardinalityType, Zenon DEF NumFree

\* Three descriptors that were free are the chain of the request now, and its
\* head is in a slot of the avail ring that was not in use.
LEMMA FillKeeps ==
  ASSUME VInv, NEW p \in Procs, Fill(p)
  PROVE  VInv'
<1>1. /\ TableTypes /\ RingTypes /\ CallTypes /\ OwnInv /\ ChainInv /\ CallInv /\ AvailInv
      /\ WorkInv /\ UsedInv /\ FilledInv /\ TransferInv /\ NobodyStranded
  BY Zenon DEF VInv, DiskInv
<1> DEFINE d == Free3
           d1 == d[1]
           d2 == d[2]
           d3 == d[3]
           desc1 == [addr |-> <<"ops", d1>>, more |-> TRUE, next |-> d2]
           desc2 == [addr |-> <<"data", p>>, more |-> TRUE, next |-> d3]
           desc3 == [addr |-> <<"status", d1>>, more |-> FALSE, next |-> 0]
           op == [write |-> write[p], sector |-> sector[p]]
           inf == [b |-> p, status |-> NoAnswer]
<1>2. /\ pc[p] = "call" /\ lock = None /\ NumFree >= 3
      /\ free' = [k \in Index |-> free[k] /\ k \notin {d1, d2, d3}]
      /\ ops' = [ops EXCEPT ![d1] = op]
      /\ desc' = [desc EXCEPT ![d1] = desc1, ![d2] = desc2, ![d3] = desc3]
      /\ info' = [info EXCEPT ![d1] = inf]
      /\ busy' = [busy EXCEPT ![p] = TRUE]
      /\ avail' = [avail EXCEPT ![avail_idx % NUM] = d1]
      /\ idx' = [idx EXCEPT ![p] = d]
      /\ lock' = p /\ pc' = [pc EXCEPT ![p] = "filled"]
      /\ avail_idx' = avail_idx /\ used' = used /\ dev_used_idx' = dev_used_idx
      /\ used_idx' = used_idx /\ taken' = taken /\ working' = working /\ irq' = irq
      /\ data' = data /\ store' = store /\ write' = write /\ sector' = sector
  BY Zenon DEF Fill, Goto, device, request, NoAnswer
<1>3. /\ d \in Index \X Index \X Index /\ free[d1] /\ free[d2] /\ free[d3]
      /\ d1 # d2 /\ d1 # d3 /\ d2 # d3
  BY <1>1, <1>2, Three, Zenon DEF TableTypes
<1> HIDE DEF d
<1>4. d1 \in Index /\ d2 \in Index /\ d3 \in Index /\ d \in Seq(Index)
  <2>1. d1 \in Index /\ d2 \in Index /\ d3 \in Index /\ d = <<d1, d2, d3>>
    BY <1>3
  <2>2. \A u, v, w \in Index : <<u, v, w>> \in Seq(Index)
    OBVIOUS
  <2> QED BY <2>1, <2>2, Zenon
<1> HIDE DEF d1, d2, d3
<1>5. desc1 \in DescRecord /\ desc2 \in DescRecord /\ desc3 \in DescRecord
  <2>1. 0 \in Index
    BY VirtioAssumption DEF Index
  <2> QED BY <1>4, <2>1 DEF DescRecord
<1>6. op \in [write : BOOLEAN, sector : Sector \cup {None}]
  BY <1>1 DEF CallTypes
<1>7. inf \in [b : Procs \cup {None}, status : {0, NoAnswer}] /\ inf.b = p /\ inf.status = NoAnswer
  OBVIOUS
<1> HIDE DEF desc1, desc2, desc3, op, inf
<1>8. /\ desc'[d1] = desc1 /\ desc'[d2] = desc2 /\ desc'[d3] = desc3
      /\ \A k \in Index : k \notin {d1, d2, d3} => desc'[k] = desc[k]
      /\ desc' \in [Index -> DescRecord]
  <2>1. desc \in [Index -> DescRecord]
    BY <1>1, Zenon DEF TableTypes
  <2>2. desc' = [desc EXCEPT ![d1] = desc1, ![d2] = desc2, ![d3] = desc3]
    BY <1>2, Zenon
  <2> QED BY <1>3, <1>4, <1>5, <2>1, <2>2
<1>9. /\ ops'[d1] = op /\ \A k \in Index : k # d1 => ops'[k] = ops[k]
      /\ ops' \in [Index -> [write : BOOLEAN, sector : Sector \cup {None}]]
  BY <1>1, <1>2, <1>4, <1>6, Zenon DEF TableTypes
<1>10. /\ info'[d1] = inf /\ \A k \in Index : k # d1 => info'[k] = info[k]
       /\ info' \in [Index -> [b : Procs \cup {None}, status : {0, NoAnswer}]]
  BY <1>1, <1>2, <1>4, <1>7, Zenon DEF TableTypes
<1>11. /\ pc'[p] = "filled" /\ busy'[p] /\ idx'[p] = d
       /\ \A x \in Procs : x # p => pc'[x] = pc[x] /\ busy'[x] = busy[x] /\ idx'[x] = idx[x]
       /\ pc' \in [Procs -> {"out", "call", "nodesc", "filled", "asleep", "woken"}]
       /\ busy' \in [Procs -> BOOLEAN] /\ idx' \in [Procs -> Seq(Index)]
  <2>1. /\ pc \in [Procs -> {"out", "call", "nodesc", "filled", "asleep", "woken"}]
        /\ busy \in [Procs -> BOOLEAN] /\ idx \in [Procs -> Seq(Index)]
    BY <1>1, Zenon DEF CallTypes
  <2>2. /\ pc'[p] = "filled" /\ \A x \in Procs : x # p => pc'[x] = pc[x]
        /\ pc' \in [Procs -> {"out", "call", "nodesc", "filled", "asleep", "woken"}]
    BY <1>2, <2>1
  <2>3. /\ busy'[p] /\ \A x \in Procs : x # p => busy'[x] = busy[x]
        /\ busy' \in [Procs -> BOOLEAN]
    BY <1>2, <2>1, Zenon
  <2>4. /\ idx'[p] = d /\ \A x \in Procs : x # p => idx'[x] = idx[x]
        /\ idx' \in [Procs -> Seq(Index)]
    BY <1>2, <1>4, <2>1, Zenon
  <2> QED BY <2>2, <2>3, <2>4, Zenon
<1>12. p \notin Active /\ Active' = Active \cup {p} /\ \A x \in Active : x \in Procs /\ x # p
  <2>1. p \notin Active /\ \A x \in Active : x \in Procs /\ x # p
    BY <1>2, Zenon DEF Active
  <2>2. \A x \in Procs : x # p => (x \in Active' <=> x \in Active)
    BY <1>11, Zenon DEF Active
  <2>3. p \in Active'
    BY <1>11, Zenon DEF Active
  <2> QED BY <2>1, <2>2, <2>3, Zenon DEF Active
<1>13. /\ First(p)' = d1 /\ Second(p)' = d2 /\ Third(p)' = d3 /\ Owned(p)' = {d1, d2, d3}
  BY <1>11, Zenon DEF First, Second, Third, Owned, d1, d2, d3
<1>14. ASSUME NEW x \in Active
       PROVE  /\ First(x)' = First(x) /\ Second(x)' = Second(x) /\ Third(x)' = Third(x)
              /\ Owned(x)' = Owned(x) /\ idx'[x] = idx[x]
  BY <1>11, <1>12, Zenon DEF First, Second, Third, Owned
<1>15. ASSUME NEW x \in Active, NEW k \in Owned(x) PROVE k \in Index /\ k \notin {d1, d2, d3}
  <2>1. /\ Owned(x) = {First(x), Second(x), Third(x)}
        /\ First(x) \in Index /\ Second(x) \in Index /\ Third(x) \in Index
        /\ ~free[First(x)] /\ ~free[Second(x)] /\ ~free[Third(x)]
    BY <1>1, OwnFacts, Zenon
  <2>2. k \in Index /\ ~free[k]
    BY <2>1, Zenon
  <2> QED BY <1>3, <2>2, Zenon
<1>16. ASSUME NEW x \in Active
       PROVE  /\ First(x) \in Owned(x) /\ First(x) \in Index /\ First(x) # d1
              /\ First(x) # d2 /\ First(x) # d3
              /\ ops'[First(x)] = ops[First(x)] /\ info'[First(x)] = info[First(x)]
  <2>1. First(x) \in Owned(x)
    BY Zenon DEF First, Owned
  <2>2. First(x) \in Index /\ First(x) \notin {d1, d2, d3}
    BY <1>15, <2>1, Zenon
  <2> QED BY <1>9, <1>10, <2>1, <2>2, Zenon
<1>17. OwnInv'
  <2>1. ASSUME NEW x \in Active'
        PROVE  /\ idx'[x] \in Index \X Index \X Index
               /\ First(x)' # Second(x)' /\ First(x)' # Third(x)' /\ Second(x)' # Third(x)'
    <3>1. CASE x = p
      BY <1>3, <1>11, <1>13, <3>1, Zenon
    <3>2. CASE x \in Active
      <4>1. /\ First(x)' = First(x) /\ Second(x)' = Second(x) /\ Third(x)' = Third(x)
            /\ idx'[x] = idx[x]
        BY <1>14, <3>2, Zenon
      <4>2. /\ idx[x] \in Index \X Index \X Index
            /\ First(x) # Second(x) /\ First(x) # Third(x) /\ Second(x) # Third(x)
        BY <1>1, <3>2, Zenon DEF OwnInv
      <4> QED BY <4>1, <4>2, Zenon
    <3> QED BY <1>12, <3>1, <3>2, Zenon
  <2>2. ASSUME NEW x \in Active', NEW y \in Active', x # y
        PROVE  Owned(x)' \cap Owned(y)' = {}
    <3>1. CASE x = p
      <4>1. y \in Active /\ Owned(y)' = Owned(y)
        BY <1>12, <1>14, <2>2, <3>1, Zenon
      <4> QED BY <1>13, <1>15, <3>1, <4>1, Zenon
    <3>2. CASE y = p
      <4>1. x \in Active /\ Owned(x)' = Owned(x)
        BY <1>12, <1>14, <2>2, <3>2, Zenon
      <4> QED BY <1>13, <1>15, <3>2, <4>1, Zenon
    <3>3. CASE x \in Active /\ y \in Active
      BY <1>1, <1>14, <2>2, <3>3, Zenon DEF OwnInv
    <3> QED BY <1>12, <3>1, <3>2, <3>3, Zenon
  <2>3. ASSUME NEW k \in Index
        PROVE  free'[k] <=> \A x \in Active' : k \notin Owned(x)'
    <3>1. free'[k] <=> free[k] /\ k \notin {d1, d2, d3}
      BY <1>2, Zenon
    <3>2. free[k] <=> \A x \in Active : k \notin Owned(x)
      BY <1>1, Zenon DEF OwnInv
    <3> QED BY <1>12, <1>13, <1>14, <3>1, <3>2, Zenon
  <2> QED BY <2>1, <2>2, <2>3, Zenon DEF OwnInv
<1>18. ChainInv'
  <2>1. ASSUME NEW x \in Active'
        PROVE  /\ desc'[First(x)']  = [addr |-> <<"ops", First(x)'>>, more |-> TRUE, next |-> Second(x)']
               /\ desc'[Second(x)'] = [addr |-> <<"data", x>>, more |-> TRUE, next |-> Third(x)']
               /\ desc'[Third(x)']  = [addr |-> <<"status", First(x)'>>, more |-> FALSE, next |-> 0]
               /\ ops'[First(x)'] = [write |-> write'[x], sector |-> sector'[x]]
               /\ info'[First(x)'].b = x
    <3>1. CASE x = p
      BY <1>2, <1>7, <1>8, <1>9, <1>10, <1>13, <3>1, Zenon DEF desc1, desc2, desc3, op
    <3>2. CASE x \in Active
      <4>1. /\ desc'[First(x)] = desc[First(x)] /\ desc'[Second(x)] = desc[Second(x)]
            /\ desc'[Third(x)] = desc[Third(x)]
        BY <1>8, <1>15, <3>2, Zenon DEF First, Second, Third, Owned
      <4>2. /\ First(x)' = First(x) /\ Second(x)' = Second(x) /\ Third(x)' = Third(x)
            /\ ops'[First(x)] = ops[First(x)] /\ info'[First(x)] = info[First(x)]
        BY <1>14, <1>16, <3>2, Zenon
      <4>3. /\ desc[First(x)]  = [addr |-> <<"ops", First(x)>>, more |-> TRUE, next |-> Second(x)]
            /\ desc[Second(x)] = [addr |-> <<"data", x>>, more |-> TRUE, next |-> Third(x)]
            /\ desc[Third(x)]  = [addr |-> <<"status", First(x)>>, more |-> FALSE, next |-> 0]
            /\ ops[First(x)] = [write |-> write[x], sector |-> sector[x]]
            /\ info[First(x)].b = x
        BY <1>1, <3>2, Zenon DEF ChainInv
      <4> QED BY <1>2, <4>1, <4>2, <4>3, Zenon
    <3> QED BY <1>12, <3>1, <3>2, Zenon
  <2> QED BY <2>1, Zenon DEF ChainInv
<1>19. ASSUME NEW x, NEW s, Status(x, s) PROVE Status(x, s)' /\ First(x)' = First(x)
  <2>1. x \in Active
    BY <1>19, Zenon DEF Status
  <2>2. /\ x \in Active' /\ First(x)' = First(x) /\ info'[First(x)] = info[First(x)]
        /\ pc'[x] = pc[x] /\ busy'[x] = busy[x]
    BY <1>11, <1>12, <1>14, <1>16, <2>1, Zenon
  <2> QED BY <1>19, <2>2, Zenon DEF Status
<1>20. AvailInv' /\ avail'[avail_idx % NUM] = d1 /\ avail' \in [Index -> Index]
  <2>1. (avail_idx - taken) % WRAP < NUM
    BY <1>1, <1>3, <1>4, <1>16, AvailRoom, Zenon
  <2>2. avail \in [Index -> Index] /\ taken \in Position /\ avail_idx \in Position
    BY <1>1, Zenon DEF RingTypes
  <2>3. avail_idx % NUM \in Index
    BY <2>2, SlotIsIndex, Zenon
  <2>4. avail'[avail_idx % NUM] = d1 /\ avail' \in [Index -> Index]
    BY <1>2, <1>4, <2>2, <2>3, Zenon
  <2>5. ASSUME NEW k \in Pending(taken, avail_idx) PROVE avail'[k % NUM] = avail[k % NUM]
    <3>1. avail_idx \notin Pending(taken, avail_idx)
      BY <1>1, <1>3, <1>4, <1>16, <2>2, AvailRoom, PendingGrows, Zenon
    <3>2. k % NUM # avail_idx % NUM
      BY <2>1, <2>2, <3>1, SlotsApart, Zenon
    <3>3. k % NUM \in Index
      BY SlotIsIndex, Zenon DEF Pending, Position
    <3> QED BY <1>2, <2>2, <3>2, <3>3, Zenon
  <2>6. AvailInv'
    BY <1>1, <1>2, <1>19, <2>5, AvailKept, Zenon
  <2> QED BY <2>4, <2>6, Zenon
<1>21. WorkInv'
  <2>1. \A r \in working : Status(r.b, NoAnswer)
    BY <1>1, Zenon DEF WorkInv
  <2> QED BY <1>1, <1>2, <1>19, <2>1, WorkKept, Zenon
<1>22. UsedInv'
  BY <1>1, <1>2, <1>19, UsedKept, Zenon
<1>23. \A x \in Procs : pc'[x] = "filled" <=> x = p
  <2>1. None \notin Procs
    BY VirtioAssumption, Zenon
  <2>2. \A x \in Procs : pc[x] # "filled"
    BY <1>1, <1>2, <2>1, Zenon DEF CallInv
  <2> QED BY <1>11, <2>2, Zenon
<1>24. FilledInv'
  BY <1>2, <1>7, <1>10, <1>13, <1>20, <1>23, Zenon DEF FilledInv
<1>25. TransferInv'
  <2>1. 0 # NoAnswer
    BY DEF NoAnswer
  <2>2. info'[First(p)'].status # 0
    BY <1>7, <1>10, <1>13, <2>1, Zenon
  <2>3. ASSUME NEW x \in Active
        PROVE  /\ ~busy'[x] => info'[First(x)'].status = 0
               /\ info'[First(x)'].status = 0 => data[x] = store[sector[x]]
    <3>1. busy'[x] = busy[x] /\ info'[First(x)'] = info[First(x)]
      BY <1>11, <1>12, <1>14, <1>16, Zenon
    <3> QED BY <1>1, <3>1, Zenon DEF TransferInv
  <2> QED BY <1>2, <1>11, <1>12, <2>2, <2>3, Zenon DEF TransferInv
<1>26. TableTypes'
  <2>1. free' \in [Index -> BOOLEAN]
    BY <1>2, Zenon
  <2> QED BY <1>8, <1>9, <1>10, <2>1, Zenon DEF TableTypes
<1>27. RingTypes'
  BY <1>1, <1>2, <1>20, Zenon DEF RingTypes
<1>28. CallTypes'
  BY <1>1, <1>2, <1>11, Zenon DEF CallTypes
<1>29. CallInv'
  <2>1. \A x \in Procs : pc'[x] # "out" => pc[x] # "out"
    BY <1>2, <1>11, Zenon
  <2>2. \A x \in Procs : pc'[x] = "filled" <=> lock' = x
    BY <1>2, <1>23, Zenon
  <2>3. \A x \in Procs : pc'[x] \in {"filled", "asleep"} => busy'[x]
    BY <1>1, <1>11, Zenon DEF CallInv
  <2> QED BY <1>1, <1>2, <2>1, <2>2, <2>3, Zenon DEF CallInv
<1>30. NobodyStranded'
  <2>1. ~ (NumFree < 3)
    BY <1>2, NumFreeType
  <2>2. \A x \in Procs : pc[x] # "nodesc"
    BY <1>1, <2>1, Zenon DEF NobodyStranded
  <2>3. \A x \in Procs : pc'[x] # "nodesc"
    BY <1>11, <2>2, Zenon
  <2>4. lock # INTR
    BY <1>2, VirtioAssumption, Zenon
  <2> QED BY <1>1, <1>2, <2>3, <2>4, Zenon DEF NobodyStranded
<1> QED BY <1>17, <1>18, <1>20, <1>21, <1>22, <1>24, <1>25, <1>26, <1>27, <1>28, <1>29, <1>30,
           Zenon DEF VInv, DiskInv

\* The chain is given back: nothing of the others', and nothing the device may
\* still read.
LEMMA FreeChainKeeps ==
  ASSUME VInv, NEW p \in Procs, Finish(p), ~busy[p]
  PROVE  VInv'
<1>1. /\ TableTypes /\ RingTypes /\ CallTypes /\ OwnInv /\ ChainInv /\ CallInv /\ AvailInv
      /\ WorkInv /\ UsedInv /\ FilledInv /\ TransferInv /\ NobodyStranded
  BY Zenon DEF VInv, DiskInv
<1>2. p \in Active /\ pc[p] = "woken" /\ lock = None
  BY Zenon DEF Finish, Active
<1>3. Chain(idx[p][1]) = Owned(p)
  BY <1>1, <1>2, ChainFacts, Zenon DEF First
<1>4. /\ free' = [k \in Index |-> free[k] \/ k \in Owned(p)]
      /\ desc' = [k \in Index |-> IF k \in Owned(p) THEN NoDesc ELSE desc[k]]
      /\ info' = [info EXCEPT ![First(p)].b = None]
      /\ ops' = [ops EXCEPT ![First(p)] = NoOp]
      /\ data' = [data EXCEPT ![p] = None] /\ idx' = [idx EXCEPT ![p] = <<>>]
      /\ sector' = [sector EXCEPT ![p] = None] /\ write' = [write EXCEPT ![p] = FALSE]
      /\ pc' = [x \in Procs |-> IF x = p THEN "out"
                                ELSE IF pc[x] = "nodesc" THEN "call" ELSE pc[x]]
  <2>1. /\ free' = [k \in Index |-> free[k] \/ k \in Chain(idx[p][1])]
        /\ desc' = [k \in Index |-> IF k \in Chain(idx[p][1]) THEN NoDesc ELSE desc[k]]
    BY Zenon DEF Finish
  <2>2. /\ info' = [info EXCEPT ![idx[p][1]].b = None] /\ ops' = [ops EXCEPT ![idx[p][1]] = NoOp]
        /\ data' = [data EXCEPT ![p] = None] /\ idx' = [idx EXCEPT ![p] = <<>>]
        /\ sector' = [sector EXCEPT ![p] = None] /\ write' = [write EXCEPT ![p] = FALSE]
        /\ pc' = [x \in Procs |-> IF x = p THEN "out"
                                  ELSE IF pc[x] = "nodesc" THEN "call" ELSE pc[x]]
    BY Zenon DEF Finish
  <2>3. /\ free' = [k \in Index |-> free[k] \/ k \in Owned(p)]
        /\ desc' = [k \in Index |-> IF k \in Owned(p) THEN NoDesc ELSE desc[k]]
    BY <1>3, <2>1
  <2> QED BY <2>2, <2>3, Zenon DEF First
<1>5. /\ avail' = avail /\ avail_idx' = avail_idx /\ used' = used /\ dev_used_idx' = dev_used_idx
      /\ used_idx' = used_idx /\ taken' = taken /\ working' = working /\ irq' = irq
      /\ lock' = lock /\ busy' = busy /\ store' = store
  BY Zenon DEF Finish, rings, device
<1>6. First(p) \in Index
  BY <1>1, <1>2, OwnFacts, Zenon
<1>7. /\ \A k \in Index : k # First(p) => info'[k] = info[k] /\ ops'[k] = ops[k]
      /\ info' \in [Index -> [b : Procs \cup {None}, status : {0, NoAnswer}]]
      /\ ops' \in [Index -> [write : BOOLEAN, sector : Sector \cup {None}]]
  <2>1. /\ info \in [Index -> [b : Procs \cup {None}, status : {0, NoAnswer}]]
        /\ ops \in [Index -> [write : BOOLEAN, sector : Sector \cup {None}]]
    BY <1>1, Zenon DEF TableTypes
  <2>2. /\ info' = [info EXCEPT ![First(p)].b = None] /\ ops' = [ops EXCEPT ![First(p)] = NoOp]
    BY <1>4, Zenon
  <2>3. NoOp \in [write : BOOLEAN, sector : Sector \cup {None}]
    BY DEF NoOp
  <2>4. \A k \in Index : k # First(p) => info'[k] = info[k] /\ ops'[k] = ops[k]
    BY <2>1, <2>2, Zenon
  <2>5. info' \in [Index -> [b : Procs \cup {None}, status : {0, NoAnswer}]]
    BY <1>6, <2>1, <2>2
  <2>6. ops' \in [Index -> [write : BOOLEAN, sector : Sector \cup {None}]]
    BY <2>1, <2>2, <2>3, Zenon
  <2> QED BY <2>4, <2>5, <2>6, Zenon
<1>8. /\ sector'[p] = None /\ pc'[p] = "out"
      /\ \A x \in Procs : x # p =>
           /\ data'[x] = data[x] /\ idx'[x] = idx[x]
           /\ sector'[x] = sector[x] /\ write'[x] = write[x]
           /\ pc'[x] = pc[x] \/ (pc[x] = "nodesc" /\ pc'[x] = "call")
      /\ \A x \in Procs : pc'[x] # "nodesc"
  <2>1. /\ data \in [Procs -> Value \cup {None}] /\ idx \in [Procs -> Seq(Index)]
        /\ sector \in [Procs -> Sector \cup {None}] /\ write \in [Procs -> BOOLEAN]
    BY <1>1, Zenon DEF CallTypes
  <2>2. /\ sector'[p] = None
        /\ \A x \in Procs : x # p => /\ data'[x] = data[x] /\ idx'[x] = idx[x]
                                     /\ sector'[x] = sector[x] /\ write'[x] = write[x]
    BY <1>4, <2>1, Zenon
  <2>3. /\ pc'[p] = "out" /\ \A x \in Procs : pc'[x] # "nodesc"
        /\ \A x \in Procs : x # p => pc'[x] = pc[x] \/ (pc[x] = "nodesc" /\ pc'[x] = "call")
    BY <1>4, Zenon
  <2> QED BY <2>2, <2>3, Zenon
<1>9. Active' = Active \ {p} /\ \A x \in Active : x \in Procs
  <2>1. \A x \in Procs : x \in Active' <=> x \in Active /\ x # p
    BY <1>8, Zenon DEF Active
  <2> QED BY <2>1, Zenon DEF Active
<1>10. ASSUME NEW x \in Active, x # p
       PROVE  /\ First(x)' = First(x) /\ Second(x)' = Second(x) /\ Third(x)' = Third(x)
              /\ Owned(x)' = Owned(x) /\ idx'[x] = idx[x]
  BY <1>8, <1>9, <1>10, Zenon DEF First, Second, Third, Owned
<1>11. ASSUME NEW x \in Active, x # p
       PROVE  /\ Owned(x) \cap Owned(p) = {} /\ First(x) \in Index /\ First(x) # First(p)
              /\ info'[First(x)] = info[First(x)] /\ ops'[First(x)] = ops[First(x)]
  <2>1. Owned(x) \cap Owned(p) = {}
    BY <1>1, <1>2, <1>11, Zenon DEF OwnInv
  <2>2. First(x) \in Index
    BY <1>1, OwnFacts, Zenon
  <2>3. First(x) # First(p)
    BY <1>1, <1>2, <1>11, HeadsApart, Zenon
  <2> QED BY <1>7, <2>1, <2>2, <2>3, Zenon
<1>12. OwnInv'
  <2>1. ASSUME NEW x \in Active'
        PROVE  /\ idx'[x] \in Index \X Index \X Index
               /\ First(x)' # Second(x)' /\ First(x)' # Third(x)' /\ Second(x)' # Third(x)'
    <3>1. x \in Active /\ x # p
      BY <1>9, Zenon
    <3>2. /\ First(x)' = First(x) /\ Second(x)' = Second(x) /\ Third(x)' = Third(x)
          /\ idx'[x] = idx[x]
      BY <1>10, <3>1, Zenon
    <3>3. /\ idx[x] \in Index \X Index \X Index
          /\ First(x) # Second(x) /\ First(x) # Third(x) /\ Second(x) # Third(x)
      BY <1>1, <3>1, Zenon DEF OwnInv
    <3> QED BY <3>2, <3>3, Zenon
  <2>2. ASSUME NEW x \in Active', NEW y \in Active', x # y
        PROVE  Owned(x)' \cap Owned(y)' = {}
    <3>1. x \in Active /\ y \in Active /\ Owned(x)' = Owned(x) /\ Owned(y)' = Owned(y)
      BY <1>9, <1>10, Zenon
    <3> QED BY <1>1, <2>2, <3>1, Zenon DEF OwnInv
  <2>3. ASSUME NEW k \in Index
        PROVE  free'[k] <=> \A x \in Active' : k \notin Owned(x)'
    <3>1. free'[k] <=> free[k] \/ k \in Owned(p)
      BY <1>4, Zenon
    <3>2. free[k] <=> \A x \in Active : k \notin Owned(x)
      BY <1>1, Zenon DEF OwnInv
    <3>3. \A x \in Active : x # p => Owned(x)' = Owned(x) /\ Owned(x) \cap Owned(p) = {}
      BY <1>10, <1>11, Zenon
    <3> QED BY <1>2, <1>9, <3>1, <3>2, <3>3, Zenon
  <2> QED BY <2>1, <2>2, <2>3, Zenon DEF OwnInv
<1>13. ChainInv'
  <2>1. ASSUME NEW x \in Active'
        PROVE  /\ desc'[First(x)']  = [addr |-> <<"ops", First(x)'>>, more |-> TRUE, next |-> Second(x)']
               /\ desc'[Second(x)'] = [addr |-> <<"data", x>>, more |-> TRUE, next |-> Third(x)']
               /\ desc'[Third(x)']  = [addr |-> <<"status", First(x)'>>, more |-> FALSE, next |-> 0]
               /\ ops'[First(x)'] = [write |-> write'[x], sector |-> sector'[x]]
               /\ info'[First(x)'].b = x
    <3>1. x \in Active /\ x # p /\ x \in Procs
      BY <1>9, Zenon
    <3>2. /\ First(x) \in Index /\ Second(x) \in Index /\ Third(x) \in Index
          /\ Owned(x) = {First(x), Second(x), Third(x)}
      BY <1>1, <3>1, OwnFacts, Zenon
    <3>3. Owned(x) \cap Owned(p) = {}
      BY <1>11, <3>1, Zenon
    <3>4. /\ desc'[First(x)] = desc[First(x)] /\ desc'[Second(x)] = desc[Second(x)]
          /\ desc'[Third(x)] = desc[Third(x)]
      BY <1>4, <3>2, <3>3, Zenon
    <3>5. /\ First(x)' = First(x) /\ Second(x)' = Second(x) /\ Third(x)' = Third(x)
          /\ ops'[First(x)] = ops[First(x)] /\ info'[First(x)] = info[First(x)]
          /\ write'[x] = write[x] /\ sector'[x] = sector[x]
      BY <1>8, <1>10, <1>11, <3>1, Zenon
    <3>6. /\ desc[First(x)]  = [addr |-> <<"ops", First(x)>>, more |-> TRUE, next |-> Second(x)]
          /\ desc[Second(x)] = [addr |-> <<"data", x>>, more |-> TRUE, next |-> Third(x)]
          /\ desc[Third(x)]  = [addr |-> <<"status", First(x)>>, more |-> FALSE, next |-> 0]
          /\ ops[First(x)] = [write |-> write[x], sector |-> sector[x]]
          /\ info[First(x)].b = x
      BY <1>1, <3>1, Zenon DEF ChainInv
    <3> QED BY <3>4, <3>5, <3>6, Zenon
  <2> QED BY <2>1, Zenon DEF ChainInv
<1>14. ASSUME NEW x, NEW s, Status(x, s) PROVE Status(x, s)' /\ First(x)' = First(x)
  <2>1. x \in Active /\ x # p /\ pc[x] # "filled" /\ busy[x]
    BY <1>14, Zenon DEF Status
  <2>2. x \in Active' /\ First(x)' = First(x) /\ info'[First(x)] = info[First(x)] /\ pc'[x] # "filled"
    BY <1>8, <1>9, <1>10, <1>11, <2>1, Zenon
  <2> QED BY <1>5, <1>14, <2>2, Zenon DEF Status
<1>15. AvailInv'
  BY <1>1, <1>5, <1>14, AvailKept, Zenon
<1>16. WorkInv'
  <2>1. \A r \in working : Status(r.b, NoAnswer)
    BY <1>1, Zenon DEF WorkInv
  <2> QED BY <1>1, <1>5, <1>14, <2>1, WorkKept, Zenon
<1>17. UsedInv'
  BY <1>1, <1>5, <1>14, UsedKept, Zenon
<1>18. \A x \in Procs : pc[x] # "filled" /\ pc'[x] # "filled"
  <2>1. None \notin Procs
    BY VirtioAssumption, Zenon
  <2>2. \A x \in Procs : pc[x] # "filled"
    BY <1>1, <1>2, <2>1, Zenon DEF CallInv
  <2> QED BY <1>8, <2>2, Zenon
<1>19. FilledInv'
  BY <1>18, Zenon DEF FilledInv
<1>20. TransferInv'
  <2>1. ASSUME NEW x \in Active'
        PROVE  /\ ~busy[x] => info'[First(x)'].status = 0
               /\ info'[First(x)'].status = 0 => data'[x] = store[sector'[x]]
    <3>1. x \in Active /\ x # p /\ x \in Procs
      BY <1>9, Zenon
    <3>2. info'[First(x)'] = info[First(x)] /\ data'[x] = data[x] /\ sector'[x] = sector[x]
      BY <1>8, <1>10, <1>11, <3>1, Zenon
    <3> QED BY <1>1, <3>1, <3>2, Zenon DEF TransferInv
  <2> QED BY <1>5, <2>1, Zenon DEF TransferInv
<1>21. TableTypes'
  <2>1. free' \in [Index -> BOOLEAN]
    BY <1>1, <1>4 DEF TableTypes
  <2>2. desc' \in [Index -> DescRecord]
    <3>1. 0 \in Index
      BY VirtioAssumption DEF Index
    <3>2. NoDesc \in DescRecord
      BY <3>1 DEF NoDesc, DescRecord
    <3> QED BY <1>1, <1>4, <3>2, Zenon DEF TableTypes
  <2> QED BY <1>7, <2>1, <2>2, Zenon DEF TableTypes
<1>22. RingTypes'
  BY <1>1, <1>5, Zenon DEF RingTypes
<1>23. CallTypes'
  <2>1. data' \in [Procs -> Value \cup {None}] /\ sector' \in [Procs -> Sector \cup {None}]
    BY <1>1, <1>4, Zenon DEF CallTypes
  <2>2. write' \in [Procs -> BOOLEAN]
    BY <1>1, <1>4, Zenon DEF CallTypes
  <2>3. pc' \in [Procs -> {"out", "call", "nodesc", "filled", "asleep", "woken"}]
    BY <1>1, <1>4, Zenon DEF CallTypes
  <2>4. idx' \in [Procs -> Seq(Index)]
    <3>1. <<>> \in Seq(Index)
      OBVIOUS
    <3> QED BY <1>1, <1>4, <3>1, Zenon DEF CallTypes
  <2> QED BY <1>1, <1>5, <2>1, <2>2, <2>3, <2>4, Zenon DEF CallTypes
<1>24. CallInv'
  <2>1. \A x \in Procs : pc'[x] # "out" =>
          sector'[x] \in Sector /\ (write'[x] => data'[x] \in Value)
    <3>1. \A x \in Procs : pc[x] # "out" => sector[x] \in Sector /\ (write[x] => data[x] \in Value)
      BY <1>1, Zenon DEF CallInv
    <3>2. \A x \in Procs : pc'[x] # "out" => pc[x] # "out" /\ x # p
      BY <1>8, Zenon
    <3> QED BY <1>8, <3>1, <3>2, Zenon
  <2>2. \A x, y \in Procs : sector'[x] = sector'[y] /\ sector'[x] # None => x = y
    <3>1. \A x, y \in Procs : sector[x] = sector[y] /\ sector[x] # None => x = y
      BY <1>1, Zenon DEF CallInv
    <3>2. sector'[p] = None /\ \A x \in Procs : x # p => sector'[x] = sector[x]
      BY <1>8, Zenon
    <3> QED BY <3>1, <3>2, Zenon
  <2>3. \A x \in Procs : pc'[x] = "filled" <=> lock' = x
    BY <1>2, <1>5, <1>18, VirtioAssumption, Zenon
  <2>4. \A x \in Procs : pc'[x] \in {"filled", "asleep"} => busy'[x]
    BY <1>1, <1>5, <1>8, Zenon DEF CallInv
  <2> QED BY <2>1, <2>2, <2>3, <2>4, Zenon DEF CallInv
<1>25. NobodyStranded'
  BY <1>1, <1>5, <1>8, Zenon DEF NobodyStranded
<1> QED BY <1>12, <1>13, <1>15, <1>16, <1>17, <1>19, <1>20, <1>21, <1>22, <1>23, <1>24, <1>25,
           Zenon DEF VInv, DiskInv

-------------------------------------------------------------------------------
(* The invariant, and what follows from it.                                *)

\* No ring position is pending when both indexes are the same.
LEMMA NothingPending == Pending(0, 0) = {}
<1>1. WRAP \in Nat \ {0}
  BY VirtioAssumption
<1>2. 0 \in Position
  BY <1>1 DEF Position
<1>3. \A k : k \notin Pending(0, 0)
  <2> SUFFICES ASSUME NEW k, k \in Pending(0, 0) PROVE FALSE
    OBVIOUS
  <2>1. k \in Position /\ IF 0 <= 0 THEN 0 <= k /\ k < 0 ELSE 0 <= k \/ k < 0
    BY <1>2, PendingIs, Zenon
  <2> QED BY <1>1, <2>1 DEF Position
<1> QED BY <1>3, Zenon

\* virtio_disk_init() establishes it.
LEMMA InitVInv == Init => VInv
<1> SUFFICES ASSUME Init PROVE VInv
  OBVIOUS
<1>1. /\ free = [k \in Index |-> TRUE] /\ desc = [k \in Index |-> NoDesc]
      /\ ops = [k \in Index |-> NoOp] /\ info = [k \in Index |-> [b |-> None, status |-> 0]]
      /\ avail = [k \in Index |-> 0] /\ used = [k \in Index |-> 0]
      /\ avail_idx = 0 /\ dev_used_idx = 0 /\ used_idx = 0 /\ taken = 0
      /\ working = {} /\ irq = FALSE /\ lock = None
      /\ busy = [p \in Procs |-> FALSE] /\ data = [p \in Procs |-> None]
      /\ store \in [Sector -> Value] /\ pc = [p \in Procs |-> "out"]
      /\ idx = [p \in Procs |-> <<>>] /\ write = [p \in Procs |-> FALSE]
      /\ sector = [p \in Procs |-> None]
  BY Zenon DEF Init
<1>2. 0 \in Index /\ 0 \in Position
  BY VirtioAssumption DEF Index, Position
<1>3. TableTypes
  <2>1. NoDesc \in DescRecord
    BY <1>2 DEF NoDesc, DescRecord
  <2>2. NoOp \in [write : BOOLEAN, sector : Sector \cup {None}]
    BY DEF NoOp
  <2>3. [b |-> None, status |-> 0] \in [b : Procs \cup {None}, status : {0, NoAnswer}]
    OBVIOUS
  <2> QED BY <1>1, <2>1, <2>2, <2>3, Zenon DEF TableTypes
<1>4. RingTypes
  BY <1>1, <1>2, Zenon DEF RingTypes
<1>5. CallTypes
  <2>1. <<>> \in Seq(Index)
    OBVIOUS
  <2>2. idx \in [Procs -> Seq(Index)]
    BY <1>1, <2>1, Zenon
  <2>3. /\ pc \in [Procs -> {"out", "call", "nodesc", "filled", "asleep", "woken"}]
        /\ busy \in [Procs -> BOOLEAN] /\ write \in [Procs -> BOOLEAN]
    BY <1>1, Zenon
  <2>4. data \in [Procs -> Value \cup {None}] /\ sector \in [Procs -> Sector \cup {None}]
    BY <1>1, Zenon
  <2> QED BY <1>1, <2>2, <2>3, <2>4, Zenon DEF CallTypes
<1>6. Active = {} /\ \A p \in Procs : pc[p] = "out" /\ sector[p] = None
  BY <1>1, Zenon DEF Active
<1>7. OwnInv /\ ChainInv /\ TransferInv
  BY <1>1, <1>6, Zenon DEF OwnInv, ChainInv, TransferInv
<1>8. Pending(taken, avail_idx) = {} /\ Pending(used_idx, dev_used_idx) = {}
  BY <1>1, NothingPending, Zenon
<1>9. AvailInv /\ WorkInv /\ UsedInv /\ FilledInv
  BY <1>1, <1>6, <1>8, Zenon DEF AvailInv, WorkInv, UsedInv, FilledInv
<1>10. CallInv
  <2>1. \A p \in Procs : lock # p
    BY <1>1, VirtioAssumption, Zenon
  <2> QED BY <1>6, <2>1, Zenon DEF CallInv
<1>11. NobodyStranded
  BY <1>1, <1>6, Zenon DEF NobodyStranded
<1> QED BY <1>3, <1>4, <1>5, <1>7, <1>9, <1>10, <1>11, Zenon DEF VInv, DiskInv

\* A step that changes nothing keeps it.
LEMMA StutterVInv == VInv /\ UNCHANGED vars => VInv'
<1> SUFFICES ASSUME VInv, UNCHANGED vars PROVE VInv'
  OBVIOUS
<1>1. /\ UNCHANGED <<free, desc, ops, info, rings, taken, working, busy, data, store, idx>>
      /\ irq' = irq /\ lock' = lock /\ pc' = pc /\ write' = write /\ sector' = sector
      /\ UNCHANGED tables
  BY Zenon DEF vars, tables, device, request
<1>2. RingTypes
  BY Zenon DEF VInv, DiskInv
<1>3. irq' \in BOOLEAN
  BY <1>1, <1>2, Zenon DEF RingTypes
<1> QED BY <1>1, <1>3, TableStays, MovesKeep, Zenon

\* Every step keeps it.
LEMMA NextVInv == VInv /\ [Next]_vars => VInv'
<1> SUFFICES ASSUME VInv, [Next]_vars PROVE VInv'
  OBVIOUS
<1>1. ASSUME NEW p \in Procs, NEW w \in BOOLEAN, NEW s \in Sector, NEW v \in Value, Call(p, w, s, v)
      PROVE  VInv'
  BY <1>1, CallKeeps, Zenon
<1>2. ASSUME NEW p \in Procs, AllocFails(p) PROVE VInv'
  BY <1>2, AllocFailsKeeps, Zenon
<1>3. ASSUME NEW p \in Procs, Fill(p) PROVE VInv'
  BY <1>3, FillKeeps, Zenon
<1>4. ASSUME NEW p \in Procs, Publish(p) PROVE VInv'
  BY <1>4, PublishKeeps, Zenon
<1>5. ASSUME NEW p \in Procs, Finish(p) PROVE VInv'
  <2>1. CASE busy[p]
    BY <1>5, <2>1, SleepAgainKeeps, Zenon
  <2>2. CASE ~busy[p]
    BY <1>5, <2>2, FreeChainKeeps, Zenon
  <2> QED BY <2>1, <2>2, Zenon
<1>6. ASSUME NEW p \in Procs, KillWakes(p) PROVE VInv'
  BY <1>6, KillWakesKeeps, Zenon
<1>7. CASE DevTake
  BY <1>7, DevTakeKeeps, Zenon
<1>8. ASSUME NEW r \in working, DevDone(r) PROVE VInv'
  BY <1>8, DevDoneKeeps, Zenon
<1>9. CASE IntrAck
  BY <1>9, IntrAckKeeps, Zenon
<1>10. CASE IntrStep
  BY <1>10, IntrStepKeeps, Zenon
<1>11. CASE IntrEnd
  BY <1>11, IntrEndKeeps, Zenon
<1>12. CASE UNCHANGED vars
  BY <1>12, StutterVInv, Zenon
<1> QED BY <1>1, <1>2, <1>3, <1>4, <1>5, <1>6, <1>7, <1>8, <1>9, <1>10, <1>11, <1>12, Zenon
        DEF Next

\* So it always holds.
LEMMA AlwaysVInv == Spec => []VInv
<1>1. Init => VInv
  BY InitVInv
<1>2. VInv /\ [Next]_vars => VInv'
  BY NextVInv
<1> QED BY <1>1, <1>2, PTL DEF Spec

-------------------------------------------------------------------------------
(* The theorems: for any number of processes, sectors, values, descriptors *)
(* and any width of the ring indexes that the ring size divides.           *)

\* A descriptor is free or in the chain of one request, and free_chain() gives
\* back what alloc3_desc() took.
THEOREM DescriptorsAreAccounted == Spec => []DescriptorsAccounted
<1>1. VInv => DescriptorsAccounted
  <2> SUFFICES ASSUME VInv PROVE DescriptorsAccounted
    OBVIOUS
  <2>1. TableTypes /\ RingTypes /\ CallTypes /\ OwnInv /\ ChainInv
    BY Zenon DEF VInv, DiskInv
  <2>2. TypeOK
    BY <2>1, TypesAreTypeOK, Zenon
  <2>3. \A p \in Active : Chain(idx[p][1]) = Owned(p)
    BY <2>1, ChainFacts, Zenon DEF First
  <2> QED BY <2>1, <2>2, <2>3, Zenon DEF DescriptorsAccounted, OwnInv
<1> QED BY <1>1, AlwaysVInv, PTL

\* Every entry that the device may read leads to a request that waits, complete.
THEOREM PublishedStaysComplete == Spec => []PublishedIsComplete
<1>1. VInv => PublishedIsComplete
  <2> SUFFICES ASSUME VInv PROVE PublishedIsComplete
    OBVIOUS
  <2>1. TableTypes /\ RingTypes /\ OwnInv /\ ChainInv /\ AvailInv
    BY Zenon DEF VInv, DiskInv
  <2>2. ASSUME NEW k \in Pending(taken, avail_idx)
        PROVE  \E p \in Active :
                 /\ idx[p][1] = avail[k % NUM]
                 /\ info[avail[k % NUM]] = [b |-> p, status |-> 255]
                 /\ ops[avail[k % NUM]] = [write |-> write[p], sector |-> sector[p]]
                 /\ desc[idx[p][2]].addr = <<"data", p>>
    <3>1. PICK p \in Active : Status(p, NoAnswer) /\ avail[k % NUM] = First(p)
      BY <2>1, AvailEntry, Zenon
    <3>2. /\ ops[First(p)] = [write |-> write[p], sector |-> sector[p]]
          /\ desc[Second(p)] = [addr |-> <<"data", p>>, more |-> TRUE, next |-> Third(p)]
          /\ info[First(p)].b = p
      BY <2>1, Zenon DEF ChainInv
    <3>3. desc[Second(p)].addr = <<"data", p>>
      BY <3>2
    <3>4. First(p) \in Index /\ info[First(p)].status = NoAnswer
      BY <2>1, <3>1, OwnFacts, Zenon DEF Status
    <3>5. info[First(p)] \in [b : Procs \cup {None}, status : {0, NoAnswer}]
      BY <2>1, <3>4, Zenon DEF TableTypes
    <3>6. info[First(p)] = [b |-> p, status |-> 255]
      BY <3>2, <3>4, <3>5 DEF NoAnswer
    <3>7. /\ First(p) = avail[k % NUM] /\ info[avail[k % NUM]] = [b |-> p, status |-> 255]
          /\ ops[avail[k % NUM]] = [write |-> write[p], sector |-> sector[p]]
      BY <3>1, <3>2, <3>6
    <3>8. idx[p][1] = First(p) /\ desc[idx[p][2]].addr = <<"data", p>>
      BY <3>3, Zenon DEF First, Second
    <3> QED BY <3>7, <3>8
  <2> QED BY <2>2, ZenonT(60) DEF PublishedIsComplete
<1> QED BY <1>1, AlwaysVInv, PTL

\* virtio_disk_intr() finds a waiting request and status 0 for every used entry.
THEOREM UsedEntriesAreWaitedFor == Spec => []UsedEntryIsMine
<1>1. VInv => UsedEntryIsMine
  <2> SUFFICES ASSUME VInv PROVE UsedEntryIsMine
    OBVIOUS
  <2>1. ChainInv /\ UsedInv
    BY Zenon DEF VInv, DiskInv
  <2>2. ASSUME NEW k \in Pending(used_idx, dev_used_idx)
        PROVE  /\ info[used[k % NUM]].b \in Active /\ busy[info[used[k % NUM]].b]
               /\ info[used[k % NUM]].status = 0
    <3>1. PICK p \in Active : Status(p, 0) /\ used[k % NUM] = First(p)
      BY <2>1, UsedEntry, Zenon
    <3>2. info[First(p)].b = p /\ busy[p] /\ info[First(p)].status = 0
      BY <2>1, <3>1, Zenon DEF ChainInv, Status
    <3> QED BY <3>1, <3>2, Zenon
  <2> QED BY <2>2, Zenon DEF UsedEntryIsMine
<1> QED BY <1>1, AlwaysVInv, PTL

\* A request that may return has been transferred, and the device is through
\* with it.
THEOREM DoneRequestsAreDone == Spec => []DoneIsDone
<1>1. VInv => DoneIsDone
  <2> SUFFICES ASSUME VInv PROVE DoneIsDone
    OBVIOUS
  <2>1. OwnInv /\ AvailInv /\ WorkInv /\ TransferInv
    BY Zenon DEF VInv, DiskInv
  <2>2. ASSUME NEW p \in Active, ~busy[p]
        PROVE  /\ data[p] = store[sector[p]]
               /\ \A r \in working : r.b # p
               /\ \A k \in Pending(taken, avail_idx) : avail[k % NUM] # idx[p][1]
    <3>1. data[p] = store[sector[p]]
      BY <2>1, <2>2, Zenon DEF TransferInv
    <3>2. \A x, s : Status(x, s) => x # p /\ x \in Active
      BY <2>2, Zenon DEF Status
    <3>3. \A r \in working : r.b # p
      BY <2>1, <3>2, Zenon DEF WorkInv
    <3>4. ASSUME NEW k \in Pending(taken, avail_idx) PROVE avail[k % NUM] # First(p)
      <4>1. PICK x \in Active : Status(x, NoAnswer) /\ avail[k % NUM] = First(x)
        BY <2>1, AvailEntry, Zenon
      <4>2. x # p
        BY <3>2, <4>1, Zenon
      <4>3. First(x) # First(p)
        BY <2>1, <4>2, HeadsApart, Zenon
      <4> QED BY <4>1, <4>3, Zenon
    <3> QED BY <3>1, <3>3, <3>4, Zenon DEF First
  <2> QED BY <2>2, Zenon DEF DoneIsDone
<1> QED BY <1>1, AlwaysVInv, PTL

\* No wakeup is lost, neither of those that wait for descriptors nor of those
\* whose request the device has finished.
THEOREM NobodyIsStranded == Spec => []NobodyStranded
<1>1. VInv => NobodyStranded
  BY Zenon DEF VInv
<1> QED BY <1>1, AlwaysVInv, PTL
===============================================================================
