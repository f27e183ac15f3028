---------------------------- MODULE BcacheTheorems ----------------------------
(***************************************************************************)
(* Proofs about the buffer cache of kernel/bio.c (module Bcache), for any  *)
(* number of processes, buffers, blocks and pins.                          *)
(***************************************************************************)
EXTENDS Bcache, FiniteSetTheorems, SequenceTheorems, WellFoundedInduction,
        TLAPS

-------------------------------------------------------------------------------
(* The least member of a set, which stands for induction.                  *)

\* A nonempty set of numbers has a least member.
LEMMA Least ==
  ASSUME NEW S \in SUBSET Nat, S # {}
  PROVE  \E m \in S : \A k \in S : m <= k
<1>1. IsWellFoundedOn(OpToRel(<, Nat), Nat)
  BY NatLessThanWellFounded, Zenon
<1>2. PICK x \in S : \A y \in S : ~ (<<y, x>> \in OpToRel(<, Nat))
  BY <1>1, WFMin, Zenon
<1>3. \A y \in S : ~ (y < x)
  BY <1>2, Zenon DEF OpToRel
<1> QED BY <1>3

-------------------------------------------------------------------------------
(* The loops of bget() over the list.                                      *)

\* The places of a ring through the buffers in the given order, with head at
\* both ends.
At(order, i) == IF i \in Buf THEN order[i] ELSE head

\* The link leads from every place of the order to the next.
Follows(link, order) ==
  \A i \in 0..NBUF : link[At(order, i)] = At(order, i + 1)

\* One round of the loop.
Extended(w, link) == IF w[Len(w)] = head THEN w ELSE Append(w, link[w[Len(w)]])

\* The first n + 1 places.
Places(order, n) == [i \in 1..n |-> At(order, i)]

\* A round of the loop goes on by one place.
LEMMA ExtendPlaces ==
  ASSUME NEW link \in [Buf \cup {head} -> Buf \cup {head}],
         NEW order \in [Buf -> Buf], Follows(link, order),
         NEW n \in Buf
  PROVE  Extended(Places(order, n), link) = Places(order, n + 1)
<1> DEFINE w == Places(order, n)
           v == Places(order, n + 1)
<1>0. n \in Int /\ 1 <= n /\ n <= NBUF /\ NBUF \in Int
  BY BcacheAssumption DEF Buf
<1>1. \A i \in Int : At(order, i) \in 0..NBUF
  BY <1>0 DEF At, Buf, head
<1>2. w \in Seq(0..NBUF) /\ Len(w) = n /\ \A i \in 1..n : w[i] = At(order, i)
  BY <1>0, <1>1 DEF Places
<1>3. v \in Seq(0..NBUF) /\ Len(v) = n + 1 /\ \A i \in 1..n + 1 : v[i] = At(order, i)
  BY <1>0, <1>1 DEF Places
<1>4. w[n] = At(order, n) /\ At(order, n) # head
  BY <1>0, <1>2 DEF At, Buf, head
<1>5. link[w[n]] = At(order, n + 1)
  BY <1>0, <1>4 DEF Follows
<1>6. At(order, n + 1) \in 0..NBUF
  BY <1>0, <1>1
<1> DEFINE a == Append(w, At(order, n + 1))
<1>7. a \in Seq(0..NBUF) /\ Len(a) = n + 1 /\ a[n + 1] = At(order, n + 1)
      /\ \A i \in 1..n : a[i] = w[i]
  BY <1>2, <1>6, AppendProperties
<1>8. \A i \in 1..n + 1 : a[i] = v[i]
  BY <1>0, <1>2, <1>3, <1>7
<1>9. a = v
  <2> HIDE DEF a, v
  <2> QED BY <1>3, <1>7, <1>8, SeqEqual
<1> QED
  BY <1>2, <1>4, <1>5, <1>9 DEF Extended

\* From the first place on the loop visits the whole order and stops at head.
LEMMA WalkIsOrder ==
  ASSUME NEW link \in [Buf \cup {head} -> Buf \cup {head}],
         NEW order \in [Buf -> Buf], Follows(link, order)
  PROVE  Walk(link, link[head]) = Places(order, NBUF + 1)
<1> DEFINE b == link[head]
           Rounds(f) == f = [k \in 0..NBUF |-> IF k = 0 THEN <<b>>
                                               ELSE Extended(f[k - 1], link)]
           g == [k \in 0..NBUF |-> Places(order, k + 1)]
<1>0. NBUF \in Int /\ NBUF >= 1
  BY BcacheAssumption
<1>1. <<b>> = Places(order, 1)
  <2>1. b = At(order, 1)
    BY <1>0 DEF Follows, At, Buf, head
  <2>2. Places(order, 1) = [i \in 1..1 |-> b]
    BY <2>1 DEF Places
  <2> QED BY <2>2
<1>2. Rounds(g)
  <2>1. \A k \in 0..NBUF :
          g[k] = IF k = 0 THEN <<b>> ELSE Extended(g[k - 1], link)
    <3> TAKE k \in 0..NBUF
    <3>1. CASE k = 0
      BY <3>1, <1>0, <1>1
    <3>2. CASE k # 0
      <4>1. k \in Buf /\ k - 1 \in 0..NBUF /\ (k - 1) + 1 = k
        BY <3>2, <1>0 DEF Buf
      <4>2. g[k - 1] = Places(order, k) /\ g[k] = Places(order, k + 1)
        BY <4>1
      <4>3. Extended(Places(order, k), link) = Places(order, k + 1)
        BY <4>1, ExtendPlaces, Zenon
      <4> QED BY <4>2, <4>3, <3>2
    <3> QED BY <3>1, <3>2
  <2>2. g = [k \in 0..NBUF |-> g[k]]
    BY Zenon
  <2> HIDE DEF g
  <2> QED BY <2>1, <2>2
<1>3. ASSUME NEW f, Rounds(f) PROVE f = g
  <2>1. /\ f = [k \in 0..NBUF |-> f[k]]
        /\ f[0] = <<b>>
        /\ \A k \in 1..NBUF : f[k] = Extended(f[k - 1], link)
    <3>1. \A k \in 0..NBUF : f[k] = IF k = 0 THEN <<b>> ELSE Extended(f[k - 1], link)
      BY <1>3, Zenon
    <3>2. f = [k \in 0..NBUF |-> f[k]]
      BY <1>3, <3>1, Zenon
    <3>3. f[0] = <<b>>
      BY <3>1, <1>0
    <3>4. \A k \in 1..NBUF : k \in 0..NBUF /\ k # 0
      BY <1>0
    <3> QED BY <3>1, <3>2, <3>3, <3>4, Zenon
  <2> DEFINE Wrong == {k \in 0..NBUF : f[k] # Places(order, k + 1)}
  <2>2. Wrong = {}
    <3> SUFFICES ASSUME Wrong # {} PROVE FALSE
      OBVIOUS
    <3>0. Wrong \in SUBSET Nat
      BY <1>0
    <3>1. PICK m \in Wrong : \A k \in Wrong : m <= k
      <4> HIDE DEF Wrong
      <4> QED BY Least, <3>0
    <3>2. m \in 0..NBUF /\ f[m] # Places(order, m + 1)
      OBVIOUS
    <3>3. m # 0
      <4>1. 0 + 1 = 1
        OBVIOUS
      <4>2. f[0] = Places(order, 0 + 1)
        BY <4>1, <2>1, <1>1, Zenon
      <4> QED BY <3>2, <4>2, Zenon
    <3>4. m - 1 \in 0..NBUF /\ ~(m <= m - 1) /\ m \in Buf /\ (m - 1) + 1 = m
      BY <3>2, <3>3, <1>0 DEF Buf
    <3>5. f[m - 1] = Places(order, m)
      <4>1. m - 1 \notin Wrong
        <5> HIDE DEF Wrong
        <5> QED BY <3>1, <3>4, Zenon
      <4>2. f[m - 1] = Places(order, (m - 1) + 1)
        BY <3>4, <4>1, Zenon
      <4> QED BY <3>4, <4>2, Zenon
    <3>6. f[m] = Extended(f[m - 1], link)
      BY <3>4, <2>1, Zenon DEF Buf
    <3> QED BY <3>2, <3>4, <3>5, <3>6, ExtendPlaces
  <2>3. \A k \in 0..NBUF : f[k] = Places(order, k + 1)
    BY <2>2, Zenon
  <2> QED BY <2>1, <2>3, Zenon
<1>4. Walk(link, b) = (CHOOSE f : Rounds(f))[NBUF]
  BY DEF Walk, Extended
<1>5. (CHOOSE f : Rounds(f)) = g
  <2> HIDE DEF g, Rounds
  <2> QED BY <1>2, <1>3
<1>6. g[NBUF] = Places(order, NBUF + 1)
  BY <1>0
<1> QED BY <1>4, <1>5, <1>6, Zenon

\* The loop stops at a buffer of the set, or at head when the list has none.
LEMMA FirstOnFinds ==
  ASSUME NEW link \in [Buf \cup {head} -> Buf \cup {head}],
         NEW order \in [Buf -> Buf], Follows(link, order),
         \A b \in Buf : \E i \in Buf : order[i] = b,
         NEW S \in SUBSET Buf
  PROVE  /\ S # {} => FirstOn(link, S) \in S
         /\ S = {} => FirstOn(link, S) = head
<1> DEFINE w == Walk(link, link[head])
           Hit(k) == k \in DOMAIN w /\ w[k] \in S
<1>0. NBUF \in Int /\ NBUF >= 1
  BY BcacheAssumption
<1>1. w = Places(order, NBUF + 1)
  BY WalkIsOrder, Zenon
<1>2. DOMAIN w = 1..NBUF + 1 /\ \A i \in 1..NBUF + 1 : w[i] = At(order, i)
  BY <1>1 DEF Places
<1> HIDE DEF w
<1>3. ASSUME S # {} PROVE \E k \in DOMAIN w : Hit(k) /\ \A j \in 1..(k - 1) : w[j] \notin S
  <2>1. PICK b \in S : TRUE
    BY <1>3
  <2>2. PICK i \in Buf : order[i] = b
    BY <2>1
  <2>3. Hit(i)
    BY <1>0, <1>2, <2>1, <2>2 DEF At, Buf
  <2> DEFINE Hits == {k \in 1..NBUF + 1 : Hit(k)}
  <2>4. Hits \in SUBSET Nat /\ Hits # {}
    BY <1>0, <1>2, <2>3
  <2>5. PICK m \in Hits : \A k \in Hits : m <= k
    <3> HIDE DEF Hits
    <3> QED BY <2>4, Least
  <2>6. \A j \in 1..(m - 1) : j \in 1..NBUF + 1 /\ ~(m <= j)
    BY <1>0, <2>5
  <2> QED BY <1>2, <2>5, <2>6
<1>4. CASE S # {}
  <2> DEFINE m == CHOOSE k \in DOMAIN w : w[k] \in S /\ \A j \in 1..(k - 1) : w[j] \notin S
  <2>1. m \in DOMAIN w /\ w[m] \in S
    BY <1>3, <1>4, Zenon
  <2>2. FirstOn(link, S) = w[m]
    BY <2>1, Zenon DEF FirstOn, w
  <2> QED BY <1>4, <2>1, <2>2, Zenon
<1>5. CASE S = {}
  BY <1>5, Zenon DEF FirstOn
<1> QED BY <1>4, <1>5

-------------------------------------------------------------------------------
(* Moving a member of a ring behind its head.                              *)

\* a numbers the n members of a ring from 1 on, with 0 at both ends.
Numbered(a, n) ==
  /\ a \in [0..n + 1 -> 0..n] /\ a[0] = 0 /\ a[n + 1] = 0
  /\ \A k \in 1..n : a[k] # 0
  /\ \A j, k \in 1..n : a[j] = a[k] => j = k

\* c is a with the member at place i moved to place 1.
Fronted(c, a, i, n) ==
  /\ c[0] = 0 /\ c[1] = a[i] /\ c[n + 1] = 0
  /\ \A k \in 2..n : k <= i => c[k] = a[k - 1]
  /\ \A k \in 2..n : k > i => c[k] = a[k]

\* A link leads from every place to the next, or to the one before.
Forward(l, a, n)  == \A k \in 0..n : l[a[k]] = a[k + 1]
Backward(l, a, n) == \A k \in 0..n : l[a[k + 1]] = a[k]

\* What stands behind place 0 when the member at place i is taken out.
NewFirst(a, i) == IF i = 1 THEN a[2] ELSE a[1]

\* The links after the member at place i has been taken out and put behind
\* place 0.
ForwardMoved(m, l, a, i, n) ==
  \A x \in 0..n : m[x] = IF x = 0 THEN a[i]
                         ELSE IF x = a[i] THEN NewFirst(a, i)
                         ELSE IF x = a[i - 1] THEN a[i + 1] ELSE l[x]
BackwardMoved(m, l, a, i, n) ==
  \A x \in 0..n : m[x] = IF x = NewFirst(a, i) THEN a[i]
                         ELSE IF x = a[i] THEN 0
                         ELSE IF x = a[i + 1] THEN a[i - 1] ELSE l[x]

\* Different places have different members.
LEMMA Apart ==
  ASSUME NEW n \in Int, NEW a, Numbered(a, n), NEW j \in 0..n + 1, NEW k \in 1..n, j # k
  PROVE  a[k] \in 0..n /\ a[k] # 0 /\ a[j] # a[k]
<1>1. k \in 0..n + 1 /\ (j = 0 \/ j = n + 1 \/ j \in 1..n)
  OBVIOUS
<1>2. a[k] \in 0..n
  BY <1>1, Zenon DEF Numbered
<1>3. a[k] # 0
  BY Zenon DEF Numbered
<1>4. ASSUME j \in 1..n PROVE a[j] # a[k]
  BY <1>4, Zenon DEF Numbered
<1>5. ASSUME j = 0 \/ j = n + 1 PROVE a[j] = 0
  BY <1>5, Zenon DEF Numbered
<1> QED BY <1>1, <1>2, <1>3, <1>4, <1>5, Zenon

\* The member that comes second.
LEMMA SecondPlace ==
  ASSUME NEW n \in Int, n >= 1, NEW i \in 1..n, NEW a, Numbered(a, n),
         NEW c, Fronted(c, a, i, n)
  PROVE  c[2] = NewFirst(a, i)
<1>1. CASE i = 1 /\ n = 1
  <2>1. 2 = n + 1
    BY <1>1
  <2>2. c[2] = 0 /\ a[2] = 0
    BY <2>1, Zenon DEF Fronted, Numbered
  <2> QED BY <2>2, <1>1, Zenon DEF NewFirst
<1>2. CASE i = 1 /\ n # 1
  <2>1. 2 \in 2..n /\ 2 > i
    BY <1>2
  <2> QED BY <1>2, <2>1, Zenon DEF Fronted, NewFirst
<1>3. CASE i # 1
  <2>1. 2 \in 2..n /\ 2 <= i /\ 2 - 1 = 1
    BY <1>3
  <2> QED BY <1>3, <2>1, Zenon DEF Fronted, NewFirst
<1> QED BY <1>1, <1>2, <1>3

\* The six assignments of brelse() make a ring that next follows forwards.
LEMMA MoveForward ==
  ASSUME NEW n \in Int, n >= 1, NEW i \in 1..n, NEW a, Numbered(a, n),
         NEW c, Fronted(c, a, i, n),
         NEW l, Forward(l, a, n), NEW m, ForwardMoved(m, l, a, i, n)
  PROVE  Forward(m, c, n)
<1> SUFFICES ASSUME NEW k \in 0..n PROVE m[c[k]] = c[k + 1]
  BY Zenon DEF Forward
<1>0. i \in 0..n + 1 /\ i - 1 \in 0..n + 1 /\ 0 \in 0..n /\ 0 + 1 = 1 /\ 1 + 1 = 2 /\ 0 # i
      /\ i - 1 # i
  OBVIOUS
<1>1. CASE k = 0
  BY <1>1, <1>0, Zenon DEF Fronted, ForwardMoved
<1>2. CASE k = 1
  <2>1. a[i] \in 0..n /\ a[i] # 0
    BY <1>0, Apart, Zenon
  <2>2. m[a[i]] = NewFirst(a, i)
    BY <2>1, Zenon DEF ForwardMoved
  <2>3. c[2] = NewFirst(a, i)
    BY SecondPlace, Zenon
  <2>4. c[1] = a[i]
    BY Zenon DEF Fronted
  <2> QED BY <1>2, <1>0, <2>2, <2>3, <2>4, Zenon
<1>3. CASE k > 1 /\ k < i
  <2>1. /\ k \in 2..n /\ k <= i /\ k + 1 \in 2..n /\ k + 1 <= i /\ (k + 1) - 1 = k
        /\ k - 1 \in 1..n /\ k - 1 \in 0..n /\ (k - 1) + 1 = k
        /\ i # k - 1 /\ i - 1 # k - 1
    BY <1>3
  <2>2. c[k] = a[k - 1] /\ c[k + 1] = a[k]
    BY <2>1, Zenon DEF Fronted
  <2>3. l[a[k - 1]] = a[k]
    BY <2>1, Zenon DEF Forward
  <2>4. a[k - 1] \in 0..n /\ a[k - 1] # 0 /\ a[i] # a[k - 1]
    BY <2>1, <1>0, Apart, Zenon
  <2>5. a[i - 1] # a[k - 1]
    BY <2>1, <1>0, Apart, Zenon
  <2> QED BY <2>2, <2>3, <2>4, <2>5, Zenon DEF ForwardMoved
<1>4. CASE k > 1 /\ k = i
  <2>1. /\ i \in 2..n /\ i <= i /\ i - 1 \in 1..n /\ i # i - 1
        /\ i + 1 = n + 1 \/ (i + 1 \in 2..n /\ i + 1 > i)
    BY <1>4
  <2>2. c[k] = a[i - 1] /\ c[k + 1] = a[i + 1]
    BY <2>1, <1>4, Zenon DEF Fronted, Numbered
  <2>3. a[i - 1] \in 0..n /\ a[i - 1] # 0 /\ a[i] # a[i - 1]
    BY <2>1, <1>0, Apart, Zenon
  <2> QED BY <2>2, <2>3, Zenon DEF ForwardMoved
<1>5. CASE k > 1 /\ k > i
  <2>1. /\ k \in 2..n /\ k \in 1..n /\ i # k /\ i - 1 # k
        /\ k + 1 = n + 1 \/ (k + 1 \in 2..n /\ k + 1 > i)
    BY <1>5
  <2>2. c[k] = a[k] /\ c[k + 1] = a[k + 1]
    BY <2>1, <1>5, Zenon DEF Fronted, Numbered
  <2>3. a[k] \in 0..n /\ a[k] # 0 /\ a[i] # a[k]
    BY <2>1, <1>0, Apart, Zenon
  <2>4. a[i - 1] # a[k]
    BY <2>1, <1>0, Apart, Zenon
  <2>5. l[a[k]] = a[k + 1]
    BY Zenon DEF Forward
  <2> QED BY <2>2, <2>3, <2>4, <2>5, Zenon DEF ForwardMoved
<1> QED BY <1>1, <1>2, <1>3, <1>4, <1>5

\* They make a ring that prev follows backwards.
LEMMA MoveBackward ==
  ASSUME NEW n \in Int, n >= 1, NEW i \in 1..n, NEW a, Numbered(a, n),
         NEW c, Fronted(c, a, i, n),
         NEW l, Backward(l, a, n), NEW m, BackwardMoved(m, l, a, i, n)
  PROVE  Backward(m, c, n)
<1> SUFFICES ASSUME NEW k \in 0..n PROVE m[c[k + 1]] = c[k]
  BY Zenon DEF Backward
<1>0. /\ i \in 0..n + 1 /\ i + 1 \in 0..n + 1 /\ 0 \in 0..n /\ 0 + 1 = 1 /\ 1 + 1 = 2
      /\ 1 \in 1..n /\ 2 \in 0..n + 1 /\ i + 1 # i /\ i - 1 \in 0..n
      /\ 1 \in 0..n + 1 /\ 0 \in 0..n + 1 /\ n + 1 \in 0..n + 1 /\ 0 # i
  OBVIOUS
<1>1. a[i] \in 0..n /\ a[i] # 0 /\ \A j \in 0..n + 1 : j # i => a[j] # a[i]
  BY <1>0, Apart, Zenon
<1>2. NewFirst(a, i) # a[i] /\ NewFirst(a, i) \in 0..n
  <2>1. CASE i = 1
    <3>1. 2 # i
      BY <2>1
    <3> QED BY <2>1, <3>1, <1>0, <1>1, Zenon DEF NewFirst, Numbered
  <2>2. CASE i # 1
    BY <2>2, <1>0, <1>1, Zenon DEF NewFirst, Numbered
  <2> QED BY <2>1, <2>2
<1>3. CASE k = 0
  BY <1>3, <1>0, <1>1, <1>2, Zenon DEF Fronted, BackwardMoved
<1>4. CASE k = 1
  <2>1. c[2] = NewFirst(a, i)
    BY SecondPlace, Zenon
  <2>2. c[1] = a[i]
    BY Zenon DEF Fronted
  <2> QED BY <1>4, <1>0, <1>2, <2>1, <2>2, Zenon DEF BackwardMoved
<1>5. CASE k > 1 /\ k < i
  <2>1. /\ k \in 2..n /\ k <= i /\ k + 1 \in 2..n /\ k + 1 <= i /\ (k + 1) - 1 = k
        /\ k \in 1..n /\ k - 1 \in 0..n /\ (k - 1) + 1 = k
        /\ i # k /\ i + 1 # k /\ 1 # k /\ i # 1
    BY <1>5
  <2>2. c[k] = a[k - 1] /\ c[k + 1] = a[k]
    BY <2>1, Zenon DEF Fronted
  <2>3. l[a[k]] = a[k - 1]
    BY <2>1, Zenon DEF Backward
  <2>4. a[k] \in 0..n /\ a[i] # a[k]
    BY <2>1, <1>0, Apart, Zenon
  <2>5. a[i + 1] # a[k]
    BY <2>1, <1>0, Apart, Zenon
  <2>6. a[1] # a[k]
    BY <2>1, <1>0, Apart, Zenon
  <2> QED BY <2>1, <2>2, <2>3, <2>4, <2>5, <2>6, Zenon DEF NewFirst, BackwardMoved
<1>6. CASE k > 1 /\ k = i
  <2>1. /\ i \in 2..n /\ i <= i /\ i + 1 # 1 /\ i # 1
        /\ i + 1 = n + 1 \/ (i + 1 \in 2..n /\ i + 1 > i)
    BY <1>6
  <2>2. c[k] = a[i - 1] /\ c[k + 1] = a[i + 1]
    BY <2>1, <1>6, Zenon DEF Fronted, Numbered
  <2>3. a[i + 1] # a[1]
    BY <2>1, <1>0, Apart, Zenon
  <2>4. a[i + 1] \in 0..n /\ a[i + 1] # a[i]
    BY <1>0, <1>1, Zenon DEF Numbered
  <2> QED BY <2>1, <2>2, <2>3, <2>4, Zenon DEF NewFirst, BackwardMoved
<1>7. CASE k > 1 /\ k > i
  <2>1. /\ k \in 2..n /\ k + 1 \in 0..n + 1 /\ k + 1 # i
        /\ k + 1 = n + 1 \/ (k + 1 \in 2..n /\ k + 1 > i)
        /\ i + 1 \in 1..n /\ k + 1 # i + 1 /\ k + 1 # 1
        /\ i = 1 => 2 \in 1..n /\ k + 1 # 2
    BY <1>7
  <2>2. c[k] = a[k] /\ c[k + 1] = a[k + 1]
    BY <2>1, <1>7, Zenon DEF Fronted, Numbered
  <2>3. a[k + 1] # a[i + 1]
    BY <2>1, Apart, Zenon
  <2>4. a[k + 1] \in 0..n /\ a[k + 1] # a[i] /\ l[a[k + 1]] = a[k]
    BY <2>1, <1>1, Zenon DEF Numbered, Backward
  <2>5. a[k + 1] # a[1]
    BY <2>1, <1>0, Apart, Zenon
  <2>6. i = 1 => a[k + 1] # a[2]
    BY <2>1, Apart, Zenon
  <2> QED BY <2>2, <2>3, <2>4, <2>5, <2>6, Zenon DEF NewFirst, BackwardMoved
<1> QED BY <1>3, <1>4, <1>5, <1>6, <1>7

\* The members stay distinct.
LEMMA FrontDistinct ==
  ASSUME NEW n \in Int, n >= 1, NEW i \in 1..n, NEW a, Numbered(a, n),
         NEW c, Fronted(c, a, i, n), NEW j \in 1..n, NEW k \in 1..n, c[j] = c[k]
  PROVE  j = k
<1> DEFINE at(x) == IF x = 1 THEN i ELSE IF x <= i THEN x - 1 ELSE x
<1>1. ASSUME NEW x \in 1..n PROVE at(x) \in 1..n /\ c[x] = a[at(x)]
  BY DEF Fronted
<1>2. at(j) = at(k)
  <2> HIDE DEF at
  <2>1. at(j) \in 1..n /\ at(k) \in 1..n /\ a[at(j)] = a[at(k)]
    BY <1>1, Zenon
  <2> QED BY <2>1, Zenon DEF Numbered
<1> QED BY <1>2

-------------------------------------------------------------------------------
(* The list that brelse() keeps.                                           *)

\* TypeOK but for the bound on refcnt, which follows from CountInv.
Types ==
  /\ blockno \in [Buf -> Block \cup {Zero}]
  /\ valid \in [Buf -> BOOLEAN]
  /\ refcnt \in [Buf -> Int]
  /\ data \in [Buf -> Value]
  /\ next \in [Buf \cup {head} -> Buf \cup {head}]
  /\ prev \in [Buf \cup {head} -> Buf \cup {head}]
  /\ locked \in [Buf -> Procs \cup {Zero}]
  /\ disk \in [Block -> Value]
  /\ pinned \subseteq Buf
  /\ pc \in [Procs -> {"out", "lock", "sleep", "read", "held", "release"}]
  /\ buf \in [Procs -> Buf]
  /\ want \in [Procs -> Block \cup {Zero}]

\* The buffers form one ring through head, in the order of their last release.
Ring ==
  /\ recent \in [Buf -> Buf]
  /\ \A i, j \in Buf : recent[i] = recent[j] => i = j
  /\ \A b \in Buf : \E i \in Buf : recent[i] = b
  /\ \A i \in 0..NBUF : next[At(recent, i)] = At(recent, i + 1)
  /\ \A i \in 0..NBUF : prev[At(recent, i + 1)] = At(recent, i)

\* The order in which the second loop of bget() visits the buffers.
Backwards == [k \in Buf |-> recent[NBUF + 1 - k]]

\* The two loops of bget() follow the ring, one forwards, one backwards.
LEMMA RingFollows ==
  ASSUME Types, Ring
  PROVE  /\ Follows(next, recent)
         /\ Backwards \in [Buf -> Buf]
         /\ Follows(prev, Backwards)
         /\ \A b \in Buf : \E i \in Buf : Backwards[i] = b
<1>0. NBUF \in Int /\ NBUF >= 1 /\ Buf = 1..NBUF
  BY BcacheAssumption DEF Buf
<1>1. Follows(next, recent)
  BY Zenon DEF Ring, Follows
<1>2. \A k \in Buf : NBUF + 1 - k \in Buf /\ NBUF + 1 - (NBUF + 1 - k) = k
  BY <1>0
<1>3. Backwards \in [Buf -> Buf]
  BY <1>2 DEF Ring, Backwards
<1>4. \A k \in 0..NBUF + 1 : At(Backwards, k) = At(recent, NBUF + 1 - k)
  <2> TAKE k \in 0..NBUF + 1
  <2>1. CASE k \in Buf
    BY <2>1, <1>2, Zenon DEF At, Backwards
  <2>2. CASE k \notin Buf
    <3>1. NBUF + 1 - k \notin Buf
      BY <2>2, <1>0
    <3> QED BY <2>2, <3>1, Zenon DEF At
  <2> QED BY <2>1, <2>2
<1>5. Follows(prev, Backwards)
  <2> SUFFICES ASSUME NEW k \in 0..NBUF
               PROVE  prev[At(Backwards, k)] = At(Backwards, k + 1)
    BY Zenon DEF Follows
  <2>1. /\ NBUF - k \in 0..NBUF /\ (NBUF - k) + 1 = NBUF + 1 - k
        /\ k \in 0..NBUF + 1 /\ k + 1 \in 0..NBUF + 1 /\ NBUF + 1 - (k + 1) = NBUF - k
    BY <1>0
  <2>2. prev[At(recent, NBUF + 1 - k)] = At(recent, NBUF - k)
    BY <2>1, Zenon DEF Ring
  <2> QED BY <2>1, <2>2, <1>4, Zenon
<1>6. ASSUME NEW b \in Buf PROVE \E i \in Buf : Backwards[i] = b
  <2>1. PICK i \in Buf : recent[i] = b
    BY Zenon DEF Ring
  <2>2. Backwards[NBUF + 1 - i] = recent[i] /\ NBUF + 1 - i \in Buf
    BY <1>2, Zenon DEF Backwards
  <2> QED BY <2>1, <2>2, Zenon
<1> QED BY <1>1, <1>3, <1>5, <1>6, Zenon

\* The places of the ring as a function.
Around(order) == [k \in 0..NBUF + 1 |-> At(order, k)]

\* The six assignments of brelse() take the buffer out of the ring, wherever
\* it is, and put it back behind head.
LEMMA MoveToFront ==
  ASSUME Types, Ring, NEW b \in Buf, next' = MoveNext(b), prev' = MovePrev(b),
         recent' = ToFront(recent, b)
  PROVE  Ring'
<1> DEFINE i == CHOOSE i \in Buf : recent[i] = b
           a == Around(recent)
           c == Around(recent')
<1>0. NBUF \in Int /\ NBUF >= 1 /\ Buf = 1..NBUF /\ head = 0 /\ 0 \notin Buf
  BY BcacheAssumption DEF Buf, head
<1>1. i \in Buf /\ recent[i] = b
  BY Zenon DEF Ring
<1> HIDE DEF i
<1>2. recent' = [k \in Buf |-> IF k = 1 THEN b ELSE IF k <= i THEN recent[k - 1] ELSE recent[k]]
  BY Zenon DEF ToFront, i
<1>3. recent \in [Buf -> Buf]
  BY Zenon DEF Ring
<1>4. \A j, k \in Buf : recent[j] = recent[k] => j = k
  BY Zenon DEF Ring
<1>5. recent' \in [Buf -> Buf]
  <2>1. ASSUME NEW k \in Buf, k # 1 PROVE k - 1 \in Buf
    BY <2>1, <1>0
  <2>2. ASSUME NEW k \in Buf
        PROVE  (IF k = 1 THEN b ELSE IF k <= i THEN recent[k - 1] ELSE recent[k]) \in Buf
    BY <2>1, <1>3, Zenon
  <2> QED BY <2>2, <1>2, Zenon
<1>6. /\ recent'[1] = recent[i]
      /\ \A k \in 2..NBUF : k <= i => recent'[k] = recent[k - 1]
      /\ \A k \in 2..NBUF : k > i => recent'[k] = recent[k]
  BY <1>0, <1>1, <1>2
<1>8. ASSUME NEW x \in Buf PROVE \E k \in Buf : recent'[k] = x
  <2>1. PICK j \in Buf : recent[j] = x
    BY Zenon DEF Ring
  <2>2. CASE j = i
    BY <2>1, <2>2, <1>0, <1>1, <1>2
  <2>3. CASE j < i
    <3>1. j + 1 \in Buf /\ recent'[j + 1] = x
      BY <2>1, <2>3, <1>0, <1>1, <1>2
    <3> QED BY <3>1
  <2>4. CASE j > i
    BY <2>1, <2>4, <1>0, <1>1, <1>2
  <2> QED BY <2>2, <2>3, <2>4, <1>0, <1>1
<1>9. /\ \A k \in Buf : k \in 0..NBUF + 1
      /\ 0 \in 0..NBUF + 1 /\ NBUF + 1 \in 0..NBUF + 1 /\ NBUF + 1 \notin Buf
      /\ \A k \in 0..NBUF + 1 : k \in Buf \/ k = 0 \/ k = NBUF + 1
      /\ \A k \in 2..NBUF : k \in Buf /\ k - 1 \in Buf
  BY <1>0
<1>10. /\ \A k \in Buf : a[k] = recent[k] /\ c[k] = recent'[k]
       /\ a[0] = 0 /\ a[NBUF + 1] = 0 /\ c[0] = 0 /\ c[NBUF + 1] = 0
  BY <1>0, <1>9, Zenon DEF Around, At
<1>11. a \in [0..NBUF + 1 -> 0..NBUF]
  <2>1. ASSUME NEW k \in 0..NBUF + 1 PROVE At(recent, k) \in 0..NBUF
    <3>1. Buf \subseteq 0..NBUF /\ head \in 0..NBUF
      BY <1>0
    <3> QED BY <3>1, <1>3, Zenon DEF At
  <2> QED BY <2>1, Zenon DEF Around
<1>12. Numbered(a, NBUF)
  <2>1. \A k \in Buf : recent[k] # 0
    BY <1>0, <1>3, Zenon
  <2> HIDE DEF a
  <2>2. \A k \in 1..NBUF : a[k] # 0
    BY <1>0, <1>10, <2>1, Zenon
  <2>3. ASSUME NEW j \in 1..NBUF, NEW k \in 1..NBUF, a[j] = a[k] PROVE j = k
    <3>1. j \in Buf /\ k \in Buf
      BY <1>0, Zenon
    <3>2. recent[j] = recent[k]
      BY <2>3, <3>1, <1>10, Zenon
    <3> QED BY <3>1, <3>2, <1>4, Zenon
  <2> QED BY <1>10, <1>11, <2>2, <2>3, Zenon DEF Numbered
<1>13. Fronted(c, a, i, NBUF)
  <2>1. 1 \in Buf
    BY <1>0
  <2>2. c[1] = a[i]
    BY <1>1, <1>6, <1>10, <2>1, Zenon
  <2> HIDE DEF a, c
  <2> QED BY <1>6, <1>9, <1>10, <2>2, Zenon DEF Fronted
<1>7. ASSUME NEW j \in Buf, NEW k \in Buf, recent'[j] = recent'[k] PROVE j = k
  <2>1. c[j] = c[k]
    BY <1>7, <1>10, Zenon
  <2> HIDE DEF a, c
  <2>2. NBUF \in Int /\ NBUF >= 1 /\ i \in 1..NBUF /\ j \in 1..NBUF /\ k \in 1..NBUF
    BY <1>0, <1>1, Zenon
  <2> QED BY <1>12, <1>13, <2>1, <2>2, FrontDistinct, Zenon
<1>14. Forward(next, a, NBUF) /\ Backward(prev, a, NBUF)
  <2>1. \A k \in 0..NBUF : k \in 0..NBUF + 1 /\ k + 1 \in 0..NBUF + 1
    BY <1>0
  <2>2. \A k \in 0..NBUF : a[k] = At(recent, k) /\ a[k + 1] = At(recent, k + 1)
    BY <2>1, Zenon DEF Around
  <2> HIDE DEF a
  <2>3. ASSUME NEW k \in 0..NBUF PROVE next[a[k]] = a[k + 1] /\ prev[a[k + 1]] = a[k]
    <3>1. next[At(recent, k)] = At(recent, k + 1) /\ prev[At(recent, k + 1)] = At(recent, k)
      BY Zenon DEF Ring
    <3> QED BY <2>2, <3>1, Zenon
  <2> QED BY <2>3, Zenon DEF Forward, Backward
<1>15. next[b] = a[i + 1] /\ prev[b] = a[i - 1] /\ next[0] = a[1]
  <2>1. i \in 0..NBUF /\ i - 1 \in 0..NBUF /\ (i - 1) + 1 = i /\ 0 \in 0..NBUF /\ 0 + 1 = 1
    BY <1>0, <1>1
  <2>2. a[i] = b
    BY <1>1, <1>10, Zenon
  <2> HIDE DEF a
  <2>3. next[a[i]] = a[i + 1] /\ next[a[0]] = a[0 + 1]
    BY <2>1, <1>14, Zenon DEF Forward
  <2>4. prev[a[(i - 1) + 1]] = a[i - 1]
    BY <2>1, <1>14, Zenon DEF Backward
  <2> QED BY <2>1, <2>2, <2>3, <2>4, <1>10, Zenon
<1>16. /\ next \in [0..NBUF -> 0..NBUF] /\ prev \in [0..NBUF -> 0..NBUF]
       /\ b \in 0..NBUF /\ b # 0
  <2>1. Buf \cup {head} = 0..NBUF
    BY <1>0
  <2> QED BY <1>0, <2>1, Zenon DEF Types
<1> HIDE DEF a, c
<1>17. a[i] = b /\ a[i - 1] \in 0..NBUF /\ a[i + 1] \in 0..NBUF /\ a[1] \in 0..NBUF
  <2>1. i - 1 \in 0..NBUF + 1 /\ i + 1 \in 0..NBUF + 1 /\ 1 \in 0..NBUF + 1
    BY <1>0, <1>1
  <2> QED BY <1>1, <1>10, <1>11, <2>1, Zenon
<1>18. Unlinked(next, b) = [next EXCEPT ![a[i - 1]] = a[i + 1]]
  BY <1>15, Zenon DEF Unlinked
<1>19. Unlinked(next, b)[head] = NewFirst(a, i)
  <2>1. CASE i = 1
    <3>1. a[i - 1] = 0 /\ a[i + 1] = a[2]
      BY <2>1, <1>10
    <3> QED BY <2>1, <3>1, <1>18, <1>16, <1>0 DEF NewFirst
  <2>2. CASE i # 1
    <3>1. i - 1 \in Buf
      BY <2>2, <1>0, <1>1
    <3>2. a[i - 1] # 0
      BY <3>1, <1>0, <1>12, Zenon DEF Numbered
    <3>3. 0 \in 0..NBUF
      BY <1>0
    <3>4. [next EXCEPT ![a[i - 1]] = a[i + 1]][0] = next[0]
      BY <3>2, <3>3, <1>16, Zenon
    <3> QED BY <2>2, <3>4, <1>18, <1>15, <1>0, Zenon DEF NewFirst
  <2> QED BY <2>1, <2>2
<1>20. ForwardMoved(next', next, a, i, NBUF)
  <2>1. next' = [[[next EXCEPT ![a[i - 1]] = a[i + 1]] EXCEPT ![b] = NewFirst(a, i)] EXCEPT ![0] = b]
    BY <1>0, <1>18, <1>19, Zenon DEF MoveNext
  <2> QED BY <2>1, <1>16, <1>17, Zenon DEF ForwardMoved
<1>21. BackwardMoved(prev', prev, a, i, NBUF)
  <2>1. prev' = [[[prev EXCEPT ![a[i + 1]] = a[i - 1]] EXCEPT ![b] = 0] EXCEPT ![NewFirst(a, i)] = b]
    BY <1>0, <1>15, <1>19, Zenon DEF MovePrev
  <2> QED BY <2>1, <1>16, <1>17, Zenon DEF BackwardMoved
<1>22. Forward(next', c, NBUF)
  BY <1>0, <1>1, <1>12, <1>13, <1>14, <1>20, MoveForward, Zenon
<1>23. Backward(prev', c, NBUF)
  BY <1>0, <1>1, <1>12, <1>13, <1>14, <1>21, MoveBackward, Zenon
<1>24. ASSUME NEW k \in 0..NBUF
       PROVE  next'[At(recent', k)] = At(recent', k + 1) /\ prev'[At(recent', k + 1)] = At(recent', k)
  <2>1. k \in 0..NBUF + 1 /\ k + 1 \in 0..NBUF + 1
    BY <1>0
  <2>2. c[k] = At(recent', k) /\ c[k + 1] = At(recent', k + 1)
    BY <2>1, Zenon DEF Around, c
  <2> QED BY <2>2, <1>22, <1>23, Zenon DEF Forward, Backward
<1> QED
  BY <1>5, <1>7, <1>8, <1>24, Zenon DEF Ring, At

-------------------------------------------------------------------------------
(* The inductive invariant.                                                *)

\* A sleeplock is held by the process between acquiresleep() and
\* releasesleep(), and nobody sleeps on a free one.
LockInv ==
  /\ \A p \in Procs : pc[p] \in {"read", "held"} => locked[buf[p]] = p
  /\ \A b \in Buf : locked[b] # Zero =>
       pc[locked[b]] \in {"read", "held"} /\ buf[locked[b]] = b
  /\ SleeperHasHolder

\* A buffer in use is the buffer of the block that was asked for, and no block
\* has two buffers.
IdInv ==
  /\ \A p \in Procs : Using(p) => blockno[buf[p]] = want[p] /\ want[p] \in Block
  /\ \A b, c \in Buf : blockno[b] = blockno[c] /\ blockno[b] # Zero => b = c
  /\ \A b \in Buf : valid[b] => blockno[b] \in Block

\* A buffer that differs from its block on the disk is held or pinned.
DataInv ==
  /\ \A p \in Procs : pc[p] = "held" => valid[buf[p]]
  /\ \A p \in Procs : pc[p] = "read" => ~valid[buf[p]]
  /\ \A b \in Buf : valid[b] /\ b \notin pinned /\ locked[b] = Zero =>
       data[b] = disk[blockno[b]]

\* The processes that refer to a buffer.
Users(b) == {p \in Procs : Using(p) /\ buf[p] = b}

\* The references that are counted, and the pins, are those there are.
CountInv ==
  /\ \A b \in Buf : refcnt[b] = Cardinality(Users(b)) + IF b \in pinned THEN 1 ELSE 0
  /\ Cardinality(pinned) <= MaxPins

BufInv == Types /\ LockInv /\ IdInv /\ DataInv

IInv == BufInv /\ Ring /\ CountInv


-------------------------------------------------------------------------------
(* Every step keeps the invariant about buffers.                           *)

\* The first loop of bget() finds the buffer of the block if there is one.
LEMMA Lookup ==
  ASSUME Types, Ring, NEW k \in Block
  PROVE  /\ Cached(k) # head => Cached(k) \in Buf /\ blockno[Cached(k)] = k
         /\ Cached(k) = head => \A b \in Buf : blockno[b] # k
<1> DEFINE S == {b \in Buf : blockno[b] = k}
<1>1. next \in [Buf \cup {head} -> Buf \cup {head}]
      /\ recent \in [Buf -> Buf] /\ \A b \in Buf : \E i \in Buf : recent[i] = b
  BY Zenon DEF Types, Ring
<1>2. Follows(next, recent)
  BY RingFollows, Zenon
<1>3. S \in SUBSET Buf /\ head \notin S
  BY BcacheAssumption DEF Buf, head
<1>4. Cached(k) = FirstOn(next, S)
  BY Zenon DEF Cached
<1>5. (S # {} => Cached(k) \in S) /\ (S = {} => Cached(k) = head)
  <2> HIDE DEF S
  <2> QED BY <1>1, <1>2, <1>3, <1>4, FirstOnFinds, Zenon
<1>6. (Cached(k) # head => Cached(k) \in S) /\ (Cached(k) = head => S = {})
  BY <1>3, <1>5, Zenon
<1>7. S = {} => \A b \in Buf : blockno[b] # k
  BY Zenon
<1> QED BY <1>6, <1>7, Zenon

\* The second loop finds a buffer without references if there is one.
LEMMA Recycle ==
  ASSUME Types, Ring
  PROVE  /\ Victim # head => Victim \in Buf /\ refcnt[Victim] = 0
         /\ Victim = head => \A b \in Buf : refcnt[b] # 0
<1> DEFINE S == {b \in Buf : refcnt[b] = 0}
<1>1. prev \in [Buf \cup {head} -> Buf \cup {head}]
  BY Zenon DEF Types
<1>2. /\ Backwards \in [Buf -> Buf] /\ Follows(prev, Backwards)
      /\ \A b \in Buf : \E i \in Buf : Backwards[i] = b
  BY RingFollows, Zenon
<1>3. S \in SUBSET Buf /\ head \notin S
  BY BcacheAssumption DEF Buf, head
<1>4. Victim = FirstOn(prev, S)
  BY Zenon DEF Victim
<1>5. (S # {} => Victim \in S) /\ (S = {} => Victim = head)
  <2> HIDE DEF S
  <2> QED BY <1>1, <1>2, <1>3, <1>4, FirstOnFinds, Zenon
<1>6. (Victim # head => Victim \in S) /\ (Victim = head => S = {})
  BY <1>3, <1>5, Zenon
<1>7. S = {} => \A b \in Buf : refcnt[b] # 0
  BY Zenon
<1> QED BY <1>6, <1>7, Zenon

\* A set of processes is finite, and empty when its size is zero.
LEMMA UsersFinite ==
  ASSUME NEW b
  PROVE  /\ IsFiniteSet(Users(b)) /\ Cardinality(Users(b)) \in Nat
         /\ Cardinality(Users(b)) <= Cardinality(Procs)
         /\ Cardinality(Users(b)) = 0 => Users(b) = {}
<1>1. IsFiniteSet(Procs) /\ Users(b) \subseteq Procs
  BY BcacheAssumption, Zenon DEF Users
<1>2. IsFiniteSet(Users(b)) /\ Cardinality(Users(b)) <= Cardinality(Procs)
  BY <1>1, FS_Subset, Zenon
<1>3. Cardinality(Users(b)) \in Nat
  BY <1>2, FS_CardinalityType, Zenon
<1>4. Cardinality(Users(b)) = 0 => Users(b) = {}
  BY <1>2, FS_EmptySet, Zenon
<1> QED BY <1>2, <1>3, <1>4

\* A buffer without references is in nobody's hands, clean and unlocked.
LEMMA Unreferenced ==
  ASSUME IInv, NEW b \in Buf, refcnt[b] = 0
  PROVE  /\ \A p \in Procs : Using(p) => buf[p] # b
         /\ b \notin pinned /\ locked[b] = Zero /\ Users(b) = {}
<1>1. refcnt[b] = Cardinality(Users(b)) + IF b \in pinned THEN 1 ELSE 0
  BY Zenon DEF IInv, CountInv
<1>2. Cardinality(Users(b)) \in Nat
  BY UsersFinite, Zenon
<1>3. b \notin pinned /\ Cardinality(Users(b)) = 0
  BY <1>1, <1>2
<1>4. Users(b) = {}
  BY <1>3, UsersFinite, Zenon
<1>5. \A p \in Procs : Using(p) => buf[p] # b
  BY <1>4, Zenon DEF Users
<1>6. ASSUME locked[b] # Zero PROVE FALSE
  <2>1. locked[b] \in Procs /\ pc[locked[b]] \in {"read", "held"} /\ buf[locked[b]] = b
    <3>1. locked[b] \in Procs
      BY <1>6, Zenon DEF IInv, BufInv, Types
    <3>2. pc[locked[b]] \in {"read", "held"} /\ buf[locked[b]] = b
      BY <1>6, Zenon DEF IInv, BufInv, LockInv
    <3> QED BY <3>1, <3>2
  <2> QED BY <1>5, <2>1, Zenon DEF Using
<1> QED BY <1>3, <1>4, <1>5, <1>6, Zenon


\* bget() finds the block: the buffer is its buffer, and remains so.
LEMMA BgetHitKeeps ==
  ASSUME IInv, NEW p \in Procs, NEW k \in Block, BgetHit(p, k)
  PROVE  BufInv'
<1> DEFINE b == Cached(k)
<1>1. b \in Buf /\ blockno[b] = k
  BY Lookup, Zenon DEF IInv, BufInv, BgetHit
<1>2. pc[p] = "out" /\ pc' = [pc EXCEPT ![p] = "lock"] /\ buf' = [buf EXCEPT ![p] = b]
      /\ want' = [want EXCEPT ![p] = k] /\ refcnt' = [refcnt EXCEPT ![b] = @ + 1]
      /\ UNCHANGED <<blockno, valid, data, next, prev, locked, disk, pinned>>
  BY Zenon DEF BgetHit, Goto, list
<1> HIDE DEF b
<1>3. Types'
  BY <1>1, <1>2 DEF IInv, BufInv, Types
<1>4. LockInv'
  BY <1>1, <1>2, BcacheAssumption DEF IInv, BufInv, Types, LockInv, SleeperHasHolder
<1>5. IdInv'
  BY <1>1, <1>2 DEF IInv, BufInv, Types, IdInv, Using
<1>6. DataInv'
  BY <1>1, <1>2 DEF IInv, BufInv, Types, DataInv
<1> QED BY <1>3, <1>4, <1>5, <1>6, Zenon DEF BufInv

\* bget() recycles a buffer: nobody has it, and no other buffer is for the
\* block.
LEMMA BgetMissKeeps ==
  ASSUME IInv, NEW p \in Procs, NEW k \in Block, BgetMiss(p, k)
  PROVE  BufInv'
<1> DEFINE b == Victim
<1>1. b \in Buf /\ refcnt[b] = 0 /\ \A c \in Buf : blockno[c] # k
  BY Lookup, Recycle, Zenon DEF IInv, BufInv, BgetMiss
<1>2. pc[p] = "out" /\ pc' = [pc EXCEPT ![p] = "lock"] /\ buf' = [buf EXCEPT ![p] = b]
      /\ want' = [want EXCEPT ![p] = k] /\ refcnt' = [refcnt EXCEPT ![b] = 1]
      /\ blockno' = [blockno EXCEPT ![b] = k] /\ valid' = [valid EXCEPT ![b] = FALSE]
      /\ UNCHANGED <<data, next, prev, locked, disk, pinned>>
  BY Zenon DEF BgetMiss, Goto, list
<1> HIDE DEF b
<1>0. locked[b] = Zero /\ b \notin pinned /\ \A q \in Procs : Using(q) => buf[q] # b
  BY <1>1, Unreferenced, Zenon
<1>3. Types'
  BY <1>1, <1>2 DEF IInv, BufInv, Types
<1>4. LockInv'
  BY <1>1, <1>2, BcacheAssumption DEF IInv, BufInv, Types, LockInv, SleeperHasHolder
<1>5. IdInv'
  BY <1>0, <1>1, <1>2, BcacheAssumption DEF IInv, BufInv, Types, IdInv, Using
<1>6. DataInv'
  BY <1>0, <1>1, <1>2 DEF IInv, BufInv, Types, DataInv, Using
<1> QED BY <1>3, <1>4, <1>5, <1>6, Zenon DEF BufInv

\* acquiresleep() takes a free lock or goes to sleep on a held one.
LEMMA AcquireKeeps ==
  ASSUME IInv, NEW p \in Procs, Acquiresleep(p)
  PROVE  BufInv'
<1> DEFINE b == buf[p]
<1>1. b \in Buf /\ pc[p] = "lock"
      /\ UNCHANGED <<blockno, valid, refcnt, data, next, prev, disk, pinned, buf, want>>
  BY Zenon DEF IInv, BufInv, Types, Acquiresleep, cache, list
<1>2. CASE locked[b] # Zero
  <2>1. pc' = [pc EXCEPT ![p] = "sleep"] /\ UNCHANGED locked
    BY <1>2, Zenon DEF Acquiresleep, Goto
  <2>2. Types'
    BY <1>1, <2>1 DEF IInv, BufInv, Types
  <2>3. LockInv'
    BY <1>1, <1>2, <2>1, BcacheAssumption DEF IInv, BufInv, Types, LockInv, SleeperHasHolder
  <2>4. IdInv'
    BY <1>1, <2>1 DEF IInv, BufInv, Types, IdInv, Using
  <2>5. DataInv'
    BY <1>1, <2>1 DEF IInv, BufInv, Types, DataInv
  <2> QED BY <2>2, <2>3, <2>4, <2>5, Zenon DEF BufInv
<1>3. CASE locked[b] = Zero
  <2>1. /\ locked' = [locked EXCEPT ![b] = p]
        /\ valid[b] => pc' = [pc EXCEPT ![p] = "held"]
        /\ ~valid[b] => pc' = [pc EXCEPT ![p] = "read"]
    BY <1>3, Zenon DEF Acquiresleep, Goto
  <2>2. Types'
    BY <1>1, <2>1 DEF IInv, BufInv, Types
  <2>3. LockInv'
    BY <1>1, <1>3, <2>1, BcacheAssumption DEF IInv, BufInv, Types, LockInv, SleeperHasHolder
  <2>4. IdInv'
    BY <1>1, <2>1 DEF IInv, BufInv, Types, IdInv, Using
  <2>5. DataInv'
    BY <1>1, <2>1, BcacheAssumption DEF IInv, BufInv, Types, DataInv
  <2> QED BY <2>2, <2>3, <2>4, <2>5, Zenon DEF BufInv
<1> QED BY <1>2, <1>3

\* bread() fills the buffer that it has locked.
LEMMA BreadKeeps ==
  ASSUME IInv, NEW p \in Procs, BreadDone(p)
  PROVE  BufInv'
<1> DEFINE b == buf[p]
<1>1. b \in Buf /\ pc[p] = "read" /\ locked[b] = p /\ blockno[b] \in Block
  BY DEF IInv, BufInv, Types, BreadDone, LockInv, IdInv, Using
<1>2. /\ data' = [data EXCEPT ![b] = disk[blockno[b]]] /\ valid' = [valid EXCEPT ![b] = TRUE]
      /\ pc' = [pc EXCEPT ![p] = "held"]
      /\ UNCHANGED <<blockno, refcnt, next, prev, locked, disk, pinned, buf, want>>
  BY Zenon DEF BreadDone, Goto, list
<1>3. Types'
  BY <1>1, <1>2 DEF IInv, BufInv, Types
<1>4. LockInv'
  BY <1>1, <1>2, BcacheAssumption DEF IInv, BufInv, Types, LockInv, SleeperHasHolder
<1>5. IdInv'
  BY <1>1, <1>2 DEF IInv, BufInv, Types, IdInv, Using
<1>6. DataInv'
  BY <1>1, <1>2 DEF IInv, BufInv, Types, DataInv, LockInv
<1> QED BY <1>3, <1>4, <1>5, <1>6, Zenon DEF BufInv

\* A holder changes its buffer, writes it, pins it or takes the pin back.
LEMMA HolderKeeps ==
  ASSUME IInv, NEW p \in Procs,
         (\E v \in Value : Modify(p, v)) \/ Bwrite(p) \/ Bpin(p) \/ Bunpin(p)
  PROVE  BufInv'
<1> DEFINE b == buf[p]
<1>1. /\ b \in Buf /\ pc[p] = "held" /\ locked[b] = p /\ blockno[b] \in Block /\ valid[b]
      /\ locked[b] # Zero
  BY BcacheAssumption
     DEF IInv, BufInv, Types, Modify, Bwrite, Bpin, Bunpin, LockInv, IdInv, DataInv, Using
<1>2. UNCHANGED <<blockno, valid, next, prev, locked, pc, buf, want>>
  BY Zenon DEF Modify, Bwrite, Bpin, Bunpin, cache, list, thread
<1>3. \/ \E v \in Value : data' = [data EXCEPT ![b] = v] /\ UNCHANGED <<disk, pinned, refcnt>>
      \/ disk' = [disk EXCEPT ![blockno[b]] = data[b]] /\ UNCHANGED <<data, pinned, refcnt>>
      \/ /\ \E c \in {pinned \cup {b}, pinned \ {b}} : pinned' = c
         /\ \E x \in {1, -1} : refcnt' = [refcnt EXCEPT ![b] = @ + x]
         /\ UNCHANGED <<data, disk>>
  BY DEF IInv, BufInv, Types, Modify, Bwrite, Bpin, Bunpin, cache, list, thread
<1>4. Types'
  BY <1>1, <1>2, <1>3 DEF IInv, BufInv, Types
<1>5. LockInv'
  BY <1>2, Zenon DEF IInv, BufInv, LockInv, SleeperHasHolder
<1>6. IdInv'
  BY <1>2, Zenon DEF IInv, BufInv, IdInv, Using
<1>7. DataInv'
  <2>1. \A c \in Buf : c # b =>
          /\ data'[c] = data[c] /\ (c \in pinned' <=> c \in pinned)
          /\ valid[c] => disk'[blockno[c]] = disk[blockno[c]]
    <3> SUFFICES ASSUME NEW c \in Buf, c # b
                 PROVE  /\ data'[c] = data[c] /\ (c \in pinned' <=> c \in pinned)
                        /\ valid[c] => disk'[blockno[c]] = disk[blockno[c]]
      BY Zenon
    <3>1. valid[c] => blockno[c] \in Block /\ blockno[c] # blockno[b]
      BY <1>1, BcacheAssumption DEF IInv, BufInv, IdInv
    <3>2. data \in [Buf -> Value] /\ disk \in [Block -> Value]
      BY Zenon DEF IInv, BufInv, Types
    <3> QED BY <1>1, <1>3, <3>1, <3>2
  <2> QED BY <1>1, <1>2, <2>1 DEF IInv, BufInv, DataInv
<1> QED BY <1>4, <1>5, <1>6, <1>7, Zenon DEF BufInv

\* releasesleep() frees the lock and wakes all that sleep on it.
LEMMA ReleaseKeeps ==
  ASSUME IInv, NEW p \in Procs, Releasesleep(p)
  PROVE  BufInv'
<1> DEFINE b == buf[p]
<1>1. b \in Buf /\ pc[p] = "held" /\ locked[b] = p
      /\ (data[b] = disk[blockno[b]] \/ b \in pinned)
  BY DEF IInv, BufInv, Types, Releasesleep, LockInv
<1>2. /\ locked' = [locked EXCEPT ![b] = Zero]
      /\ pc' = [x \in Procs |-> IF x = p THEN "release"
                                ELSE IF pc[x] = "sleep" /\ buf[x] = b THEN "lock" ELSE pc[x]]
      /\ UNCHANGED <<blockno, valid, refcnt, data, next, prev, disk, pinned, buf, want>>
  BY Zenon DEF Releasesleep, cache, list
<1>3. Types'
  BY <1>1, <1>2 DEF IInv, BufInv, Types
<1>4. LockInv'
  BY <1>1, <1>2, BcacheAssumption DEF IInv, BufInv, Types, LockInv, SleeperHasHolder
<1>5. IdInv'
  BY <1>1, <1>2 DEF IInv, BufInv, Types, IdInv, Using
<1>6. DataInv'
  BY <1>1, <1>2 DEF IInv, BufInv, Types, DataInv, LockInv
<1> QED BY <1>3, <1>4, <1>5, <1>6, Zenon DEF BufInv

\* A process that has given up its lock and leaves disturbs nobody's buffer.
LEMMA LeavingKeeps ==
  ASSUME Types, LockInv, IdInv, NEW p \in Procs, pc[p] = "release", 1 \in Buf,
         want' = [want EXCEPT ![p] = Zero], buf' = [buf EXCEPT ![p] = 1],
         pc' = [pc EXCEPT ![p] = "out"], UNCHANGED <<blockno, valid, locked>>
  PROVE  LockInv' /\ IdInv'
<1>1. LockInv'
  BY BcacheAssumption DEF Types, LockInv, SleeperHasHolder
<1>2. IdInv'
  BY DEF Types, IdInv, Using
<1> QED BY <1>1, <1>2

\* brelse() gives up a reference, and moves the buffer when it was the last.
LEMMA BrelseKeeps ==
  ASSUME IInv, NEW p \in Procs, Brelse(p)
  PROVE  BufInv' /\ Ring'
<1> DEFINE b == buf[p]
<1>1. b \in Buf /\ pc[p] = "release" /\ 1 \in Buf
  BY BcacheAssumption DEF IInv, BufInv, Types, Brelse, Buf
<1>2. /\ refcnt' = [refcnt EXCEPT ![b] = @ - 1] /\ want' = [want EXCEPT ![p] = Zero]
      /\ buf' = [buf EXCEPT ![p] = 1] /\ pc' = [pc EXCEPT ![p] = "out"]
      /\ UNCHANGED <<blockno, valid, data, locked, disk, pinned>>
  BY Zenon DEF Brelse, Goto
<1>3. \/ UNCHANGED <<next, prev, recent>>
      \/ next' = MoveNext(b) /\ prev' = MovePrev(b) /\ recent' = ToFront(recent, b)
  BY Zenon DEF Brelse, list
<1>4. Ring'
  <2>1. CASE UNCHANGED <<next, prev, recent>>
    BY <2>1, Zenon DEF IInv, Ring, At
  <2>2. CASE next' = MoveNext(b) /\ prev' = MovePrev(b) /\ recent' = ToFront(recent, b)
    BY <1>1, <2>2, MoveToFront, Zenon DEF IInv, BufInv
  <2> QED BY <1>3, <2>1, <2>2
<1>5. /\ next' \in [Buf \cup {head} -> Buf \cup {head}]
      /\ prev' \in [Buf \cup {head} -> Buf \cup {head}]
  <2>1. /\ next \in [Buf \cup {head} -> Buf \cup {head}]
        /\ prev \in [Buf \cup {head} -> Buf \cup {head}]
    BY Zenon DEF IInv, BufInv, Types
  <2> DEFINE Link == [Buf \cup {head} -> Buf \cup {head}]
  <2>2. \A f \in Link : \A x, y \in Buf \cup {head} : [f EXCEPT ![x] = y] \in Link
    BY Zenon
  <2>3. b \in Buf \cup {head} /\ head \in Buf \cup {head}
    BY <1>1
  <2>4. \A f \in Link : \A x \in Buf \cup {head} : f[x] \in Buf \cup {head}
    BY Zenon
  <2> HIDE DEF Link
  <2>5. Unlinked(next, b) \in Link
    BY <2>1, <2>2, <2>3, <2>4, Zenon DEF Unlinked, Link
  <2>6. MoveNext(b) \in Link
    BY <2>2, <2>3, <2>4, <2>5, Zenon DEF MoveNext
  <2>7. MovePrev(b) \in Link
    BY <2>1, <2>2, <2>3, <2>4, <2>5, Zenon DEF MovePrev, Link
  <2> QED BY <1>3, <2>1, <2>6, <2>7, Zenon DEF Link
<1>6. Types'
  <2>1. /\ refcnt' \in [Buf -> Int] /\ want' \in [Procs -> Block \cup {Zero}]
        /\ buf' \in [Procs -> Buf]
        /\ pc' \in [Procs -> {"out", "lock", "sleep", "read", "held", "release"}]
    BY <1>1, <1>2 DEF IInv, BufInv, Types
  <2> QED BY <1>2, <1>5, <2>1, Zenon DEF IInv, BufInv, Types
<1>7. LockInv' /\ IdInv'
  <2>1. Types /\ LockInv /\ IdInv
    BY Zenon DEF IInv, BufInv
  <2> QED BY <1>1, <1>2, <2>1, LeavingKeeps, Zenon
<1>8. DataInv'
  BY <1>1, <1>2 DEF IInv, BufInv, Types, DataInv
<1> QED BY <1>4, <1>6, <1>7, <1>8, Zenon DEF BufInv

-------------------------------------------------------------------------------
(* Every step keeps the references counted.                                *)

\* The references of processes that stay where they are do not change.
LEMMA UsersSame ==
  ASSUME \A q \in Procs : Using(q)' <=> Using(q), buf' = buf, NEW c
  PROVE  Users(c)' = Users(c)
BY Zenon DEF Users

\* A process comes with a reference to a buffer.
LEMMA UserComes ==
  ASSUME NEW p \in Procs, NEW b, ~Using(p), Using(p)', buf'[p] = b,
         \A q \in Procs \ {p} : (Using(q)' <=> Using(q)) /\ buf'[q] = buf[q], NEW c
  PROVE  Users(c)' = IF c = b THEN Users(c) \cup {p} ELSE Users(c)
<1>1. \A q \in Procs : q \in Users(c)' <=> Using(q)' /\ buf'[q] = c
  BY Zenon DEF Users
<1>2. \A q \in Procs : q \in Users(c) <=> Using(q) /\ buf[q] = c
  BY Zenon DEF Users
<1>3. Users(c) \subseteq Procs /\ Users(c)' \subseteq Procs
  BY Zenon DEF Users
<1> QED BY <1>1, <1>2, <1>3

\* A process gives up its reference.
LEMMA UserGoes ==
  ASSUME NEW p \in Procs, NEW b, Using(p), ~Using(p)', buf[p] = b,
         \A q \in Procs \ {p} : (Using(q)' <=> Using(q)) /\ buf'[q] = buf[q], NEW c
  PROVE  Users(c)' = IF c = b THEN Users(c) \ {p} ELSE Users(c)
<1>1. \A q \in Procs : q \in Users(c)' <=> Using(q)' /\ buf'[q] = c
  BY Zenon DEF Users
<1>2. \A q \in Procs : q \in Users(c) <=> Using(q) /\ buf[q] = c
  BY Zenon DEF Users
<1>3. Users(c) \subseteq Procs /\ Users(c)' \subseteq Procs
  BY Zenon DEF Users
<1> QED BY <1>1, <1>2, <1>3

\* bget() counts the reference it makes.
LEMMA BgetCounts ==
  ASSUME IInv, NEW p \in Procs, NEW k \in Block, BgetHit(p, k) \/ BgetMiss(p, k)
  PROVE  CountInv'
<1> DEFINE b == IF BgetHit(p, k) THEN Cached(k) ELSE Victim
<1>1. pc[p] = "out" /\ pc' = [pc EXCEPT ![p] = "lock"] /\ buf' = [buf EXCEPT ![p] = b]
      /\ UNCHANGED pinned
  BY Zenon DEF BgetHit, BgetMiss, Goto
<1>2. b \in Buf /\ refcnt' = [refcnt EXCEPT ![b] = refcnt[b] + 1]
  <2>1. CASE BgetHit(p, k)
    <3>1. Cached(k) \in Buf
      BY <2>1, Lookup, Zenon DEF IInv, BufInv, BgetHit
    <3> QED BY <2>1, <3>1, Zenon DEF BgetHit
  <2>2. CASE ~BgetHit(p, k)
    <3>1. Victim \in Buf /\ refcnt[Victim] = 0
      BY <2>2, Recycle, Zenon DEF IInv, BufInv, BgetMiss
    <3>2. refcnt' = [refcnt EXCEPT ![Victim] = 1]
      BY <2>2, Zenon DEF BgetMiss
    <3>3. refcnt[Victim] + 1 = 1
      BY <3>1
    <3> QED BY <2>2, <3>1, <3>2, <3>3, Zenon
  <2> QED BY <2>1, <2>2
<1> HIDE DEF b
<1>3. pc \in [Procs -> {"out", "lock", "sleep", "read", "held", "release"}]
      /\ buf \in [Procs -> Buf] /\ refcnt \in [Buf -> Int]
  BY Zenon DEF IInv, BufInv, Types
<1>4. /\ ~Using(p) /\ Using(p)' /\ buf'[p] = b
      /\ \A q \in Procs \ {p} : (Using(q)' <=> Using(q)) /\ buf'[q] = buf[q]
  BY <1>1, <1>3 DEF Using
<1>5. \A c : Users(c)' = IF c = b THEN Users(c) \cup {p} ELSE Users(c)
  BY <1>4, UserComes, Zenon
<1>6. p \notin Users(b)
  BY <1>4, Zenon DEF Users
<1>7. Cardinality(Users(b) \cup {p}) = Cardinality(Users(b)) + 1 /\ Cardinality(Users(b)) \in Nat
  BY <1>6, UsersFinite, FS_AddElement, Zenon
<1>8. \A c \in Buf : refcnt[c] = Cardinality(Users(c)) + IF c \in pinned THEN 1 ELSE 0
  BY Zenon DEF IInv, CountInv
<1>9. ASSUME NEW c \in Buf
      PROVE  refcnt'[c] = Cardinality(Users(c)') + IF c \in pinned THEN 1 ELSE 0
  <2>1. CASE c = b
    <3>1. Users(c)' = Users(b) \cup {p} /\ refcnt'[c] = refcnt[b] + 1
      BY <2>1, <1>2, <1>3, <1>5, Zenon
    <3> QED BY <2>1, <3>1, <1>7, <1>8
  <2>2. CASE c # b
    <3>1. Users(c)' = Users(c) /\ refcnt'[c] = refcnt[c]
      BY <2>2, <1>2, <1>3, <1>5, Zenon
    <3> QED BY <3>1, <1>8, Zenon
  <2> QED BY <2>1, <2>2
<1> QED BY <1>1, <1>9, Zenon DEF IInv, CountInv

\* brelse() gives up the reference it had.
LEMMA BrelseCounts ==
  ASSUME IInv, NEW p \in Procs, Brelse(p)
  PROVE  CountInv'
<1> DEFINE b == buf[p]
<1>1. pc[p] = "release" /\ pc' = [pc EXCEPT ![p] = "out"] /\ buf' = [buf EXCEPT ![p] = 1]
      /\ refcnt' = [refcnt EXCEPT ![b] = refcnt[b] - 1] /\ UNCHANGED pinned
  BY Zenon DEF Brelse, Goto
<1>2. pc \in [Procs -> {"out", "lock", "sleep", "read", "held", "release"}]
      /\ buf \in [Procs -> Buf] /\ refcnt \in [Buf -> Int] /\ b \in Buf
  BY Zenon DEF IInv, BufInv, Types
<1> HIDE DEF b
<1>3. /\ Using(p) /\ ~Using(p)' /\ buf[p] = b
      /\ \A q \in Procs \ {p} : (Using(q)' <=> Using(q)) /\ buf'[q] = buf[q]
  BY <1>1, <1>2 DEF Using, b
<1>4. \A c : Users(c)' = IF c = b THEN Users(c) \ {p} ELSE Users(c)
  BY <1>3, UserGoes, Zenon
<1>5. p \in Users(b)
  BY <1>3, Zenon DEF Users
<1>6. Cardinality(Users(b) \ {p}) = Cardinality(Users(b)) - 1 /\ Cardinality(Users(b)) \in Nat
  BY <1>5, UsersFinite, FS_RemoveElement, Zenon
<1>7. \A c \in Buf : refcnt[c] = Cardinality(Users(c)) + IF c \in pinned THEN 1 ELSE 0
  BY Zenon DEF IInv, CountInv
<1>8. ASSUME NEW c \in Buf
      PROVE  refcnt'[c] = Cardinality(Users(c)') + IF c \in pinned THEN 1 ELSE 0
  <2>1. CASE c = b
    <3>1. Users(c)' = Users(b) \ {p} /\ refcnt'[c] = refcnt[b] - 1
      BY <2>1, <1>1, <1>2, <1>4, Zenon
    <3> QED BY <2>1, <3>1, <1>6, <1>7
  <2>2. CASE c # b
    <3>1. Users(c)' = Users(c) /\ refcnt'[c] = refcnt[c]
      BY <2>2, <1>1, <1>2, <1>4, Zenon
    <3> QED BY <3>1, <1>7, Zenon
  <2> QED BY <2>1, <2>2
<1> QED BY <1>1, <1>8, Zenon DEF IInv, CountInv

\* The pins are finitely many.
LEMMA PinsFinite ==
  ASSUME Types
  PROVE  IsFiniteSet(pinned) /\ Cardinality(pinned) \in Nat
<1>1. IsFiniteSet(Buf)
  BY BcacheAssumption, FS_Interval DEF Buf
<1>2. IsFiniteSet(pinned)
  BY <1>1, FS_Subset, Zenon DEF Types
<1> QED BY <1>2, FS_CardinalityType, Zenon

\* bpin() and bunpin() count the reference of the log.
LEMMA PinCounts ==
  ASSUME IInv, NEW p \in Procs, Bpin(p) \/ Bunpin(p)
  PROVE  CountInv'
<1> DEFINE b == buf[p]
<1>1. /\ b \in Buf /\ refcnt \in [Buf -> Int] /\ UNCHANGED <<pc, buf>>
      /\ \/ /\ b \notin pinned /\ pinned' = pinned \cup {b} /\ Cardinality(pinned) < MaxPins
            /\ refcnt' = [refcnt EXCEPT ![b] = refcnt[b] + 1]
         \/ /\ b \in pinned /\ pinned' = pinned \ {b}
            /\ refcnt' = [refcnt EXCEPT ![b] = refcnt[b] - 1]
  BY Zenon DEF IInv, BufInv, Types, Bpin, Bunpin, thread
<1> HIDE DEF b
<1>2. \A c : Users(c)' = Users(c)
  BY <1>1, UsersSame, Zenon DEF Using
<1>3. \A c \in Buf : refcnt[c] = Cardinality(Users(c)) + IF c \in pinned THEN 1 ELSE 0
  BY Zenon DEF IInv, CountInv
<1>4. \A c \in Buf : Cardinality(Users(c)) \in Nat
  BY UsersFinite, Zenon
<1>5. ASSUME NEW c \in Buf
      PROVE  refcnt'[c] = Cardinality(Users(c)) + IF c \in pinned' THEN 1 ELSE 0
  <2>1. refcnt[c] = Cardinality(Users(c)) + (IF c \in pinned THEN 1 ELSE 0)
        /\ Cardinality(Users(c)) \in Nat
    BY <1>3, <1>4, Zenon
  <2>2. CASE c = b
    BY <2>1, <2>2, <1>1
  <2>3. CASE c # b
    BY <2>1, <2>3, <1>1
  <2> QED BY <2>2, <2>3
<1>6. Cardinality(pinned') <= MaxPins
  <2>1. IsFiniteSet(pinned) /\ Cardinality(pinned) \in Nat /\ Cardinality(pinned) <= MaxPins
    BY PinsFinite, Zenon DEF IInv, BufInv, CountInv
  <2>2. CASE b \notin pinned
    <3>1. Cardinality(pinned \cup {b}) = Cardinality(pinned) + 1
      BY <2>1, <2>2, FS_AddElement, Zenon
    <3>2. pinned' = pinned \cup {b} /\ Cardinality(pinned) < MaxPins
      BY <1>1, <2>2, Zenon
    <3>3. Cardinality(pinned) + 1 <= MaxPins
      BY <2>1, <3>2, BcacheAssumption
    <3> QED BY <3>1, <3>2, <3>3, Zenon
  <2>3. CASE b \in pinned
    <3>1. Cardinality(pinned \ {b}) = Cardinality(pinned) - 1
      BY <2>1, <2>3, FS_RemoveElement, Zenon
    <3>2. pinned' = pinned \ {b}
      BY <1>1, <2>3, Zenon
    <3>3. Cardinality(pinned) - 1 <= MaxPins
      BY <2>1, BcacheAssumption
    <3> QED BY <3>1, <3>2, <3>3, Zenon
  <2> QED BY <2>2, <2>3
<1> QED BY <1>2, <1>5, <1>6, Zenon DEF CountInv

\* The other steps neither make nor drop a reference.
LEMMA OthersCount ==
  ASSUME IInv, NEW p \in Procs,
         \/ Acquiresleep(p) \/ BreadDone(p) \/ (\E v \in Value : Modify(p, v))
         \/ Bwrite(p) \/ Releasesleep(p)
  PROVE  CountInv'
<1>1. UNCHANGED <<refcnt, pinned, buf>>
  BY Zenon DEF Acquiresleep, BreadDone, Modify, Bwrite, Releasesleep, cache, thread
<1>2. \A q \in Procs : Using(q)' <=> Using(q)
  <2>1. pc \in [Procs -> {"out", "lock", "sleep", "read", "held", "release"}]
    BY Zenon DEF IInv, BufInv, Types
  <2>2. CASE Acquiresleep(p) \/ BreadDone(p)
    <3>1. pc[p] # "out" /\ \E l \in {"sleep", "held", "read"} : pc' = [pc EXCEPT ![p] = l]
      BY <2>2, Zenon DEF Acquiresleep, BreadDone, Goto
    <3> QED BY <2>1, <3>1 DEF Using
  <2>3. CASE (\E v \in Value : Modify(p, v)) \/ Bwrite(p)
    BY <2>3, Zenon DEF Modify, Bwrite, thread, Using
  <2>4. CASE Releasesleep(p)
    BY <2>1, <2>4 DEF Releasesleep, Using
  <2> QED BY <2>2, <2>3, <2>4
<1>3. \A c : Users(c)' = Users(c)
  BY <1>1, <1>2, UsersSame, Zenon
<1> QED BY <1>1, <1>3, Zenon DEF IInv, CountInv

-------------------------------------------------------------------------------
(* The theorems.                                                           *)

\* binit() leaves every buffer free and all of them in the ring.
LEMMA IInvInit == Init => IInv
<1> SUFFICES ASSUME Init PROVE IInv
  OBVIOUS
<1>0. NBUF \in Int /\ NBUF >= 1 /\ Buf = 1..NBUF /\ head = 0 /\ 0 \notin Buf /\ 1 \in Buf
  BY BcacheAssumption DEF Buf, head
<1>1. Types
  <2>1. (CHOOSE v \in Value : TRUE) \in Value
    BY BcacheAssumption, Zenon
  <2>2. data \in [Buf -> Value] /\ disk \in [Block -> Value]
    BY <2>1, Zenon DEF Init
  <2>3. /\ next \in [Buf \cup {head} -> Buf \cup {head}]
        /\ prev \in [Buf \cup {head} -> Buf \cup {head}]
    BY <1>0 DEF Init
  <2>4. blockno \in [Buf -> Block \cup {Zero}] /\ refcnt \in [Buf -> Int]
        /\ locked \in [Buf -> Procs \cup {Zero}] /\ pinned \subseteq Buf
    BY DEF Init
  <2>5. pc \in [Procs -> {"out", "lock", "sleep", "read", "held", "release"}]
        /\ buf \in [Procs -> Buf] /\ want \in [Procs -> Block \cup {Zero}]
        /\ valid \in [Buf -> BOOLEAN]
    BY <1>0, Zenon DEF Init
  <2> QED BY <2>2, <2>3, <2>4, <2>5, Zenon DEF Types
<1>2. LockInv /\ IdInv /\ DataInv
  BY DEF Init, LockInv, SleeperHasHolder, IdInv, DataInv, Using
<1>3. Ring
  <2>1. recent = [k \in Buf |-> NBUF + 1 - k]
    BY Zenon DEF Init
  <2>2. \A k \in Buf : NBUF + 1 - k \in Buf /\ NBUF + 1 - (NBUF + 1 - k) = k
    BY <1>0
  <2>3. recent \in [Buf -> Buf]
    BY <2>1, <2>2
  <2>4. \A i, j \in Buf : recent[i] = recent[j] => i = j
    BY <2>1, <1>0
  <2>5. \A b \in Buf : \E i \in Buf : recent[i] = b
    <3> TAKE b \in Buf
    <3>1. recent[NBUF + 1 - b] = b
      BY <2>1, <2>2
    <3> QED BY <2>2, <3>1
  <2>6. \A i \in 0..NBUF + 1 : At(recent, i) = IF i = 0 THEN 0 ELSE NBUF + 1 - i
    BY <1>0, <2>1 DEF At
  <2>7. ASSUME NEW i \in 0..NBUF
        PROVE  next[At(recent, i)] = At(recent, i + 1) /\ prev[At(recent, i + 1)] = At(recent, i)
    <3>1. i \in 0..NBUF + 1 /\ i + 1 \in 0..NBUF + 1 /\ i + 1 # 0
          /\ NBUF + 1 - (i + 1) = NBUF - i
      BY <1>0
    <3>2. At(recent, i + 1) = NBUF - i /\ At(recent, i) = IF i = 0 THEN 0 ELSE NBUF + 1 - i
      BY <2>6, <3>1, Zenon
    <3>3. \A x \in Buf \cup {0} : /\ next[x] = IF x = 0 THEN NBUF ELSE x - 1
                                  /\ prev[x] = IF x = NBUF THEN 0 ELSE x + 1
      BY <1>0, Zenon DEF Init
    <3>4. CASE i = 0
      <4>1. 0 \in Buf \cup {0} /\ NBUF \in Buf \cup {0} /\ NBUF - i = NBUF
        BY <1>0, <3>4
      <4> QED BY <3>2, <3>3, <3>4, <4>1, Zenon
    <3>5. CASE i # 0
      <4>1. /\ NBUF + 1 - i \in Buf \cup {0} /\ NBUF + 1 - i # 0 /\ (NBUF + 1 - i) - 1 = NBUF - i
            /\ NBUF - i \in Buf \cup {0} /\ NBUF - i # NBUF /\ (NBUF - i) + 1 = NBUF + 1 - i
        BY <1>0, <3>5
      <4> QED BY <3>2, <3>3, <3>5, <4>1, Zenon
    <3> QED BY <3>4, <3>5
  <2> QED BY <2>3, <2>4, <2>5, <2>7, Zenon DEF Ring
<1>4. CountInv
  <2>1. \A b \in Buf : Users(b) = {}
    BY DEF Init, Users, Using
  <2>2. Cardinality({}) = 0
    BY FS_EmptySet, Zenon
  <2>3. pinned = {} /\ \A b \in Buf : refcnt[b] = 0
    BY Zenon DEF Init
  <2>4. 0 <= MaxPins /\ 0 = 0 + 0
    BY BcacheAssumption
  <2> QED BY <2>1, <2>2, <2>3, <2>4, Zenon DEF CountInv
<1> QED BY <1>1, <1>2, <1>3, <1>4, Zenon DEF IInv, BufInv

\* Every step of a process keeps the invariant.
LEMMA IInvStep == IInv /\ [Next]_vars => IInv'
<1>1. ASSUME IInv, UNCHANGED vars PROVE IInv'
  <2>1. UNCHANGED <<blockno, valid, refcnt, data, next, prev, locked, disk, pinned, pc, buf, want,
                    recent>>
    BY <1>1, Zenon DEF vars, cache, list, thread
  <2>2. Types' /\ Ring'
    BY <1>1, <2>1, Zenon DEF IInv, BufInv, Types, Ring, At
  <2>3. LockInv' /\ IdInv' /\ DataInv'
    BY <1>1, <2>1, Zenon DEF IInv, BufInv, LockInv, IdInv, DataInv, Using, SleeperHasHolder
  <2>4. CountInv'
    BY <1>1, <2>1, Zenon DEF IInv, CountInv, Users, Using
  <2> QED BY <2>2, <2>3, <2>4, Zenon DEF IInv, BufInv
<1>2. ASSUME IInv, NEW p \in Procs, NEW k \in Block, BgetHit(p, k) \/ BgetMiss(p, k) PROVE IInv'
  <2>1. BufInv'
    BY <1>2, BgetHitKeeps, BgetMissKeeps, Zenon
  <2>2. CountInv'
    BY <1>2, BgetCounts, Zenon
  <2>3. UNCHANGED <<next, prev, recent>>
    BY <1>2, Zenon DEF BgetHit, BgetMiss, list
  <2> QED BY <1>2, <2>1, <2>2, <2>3, Zenon DEF IInv, Ring, At
<1>3. ASSUME IInv, NEW p \in Procs, Acquiresleep(p) \/ BreadDone(p) \/ Releasesleep(p) PROVE IInv'
  <2>1. BufInv'
    BY <1>3, AcquireKeeps, BreadKeeps, ReleaseKeeps, Zenon
  <2>2. CountInv'
    BY <1>3, OthersCount, Zenon
  <2>3. UNCHANGED <<next, prev, recent>>
    BY <1>3, Zenon DEF Acquiresleep, BreadDone, Releasesleep, list
  <2> QED BY <1>3, <2>1, <2>2, <2>3, Zenon DEF IInv, Ring, At
<1>4. ASSUME IInv, NEW p \in Procs,
             (\E v \in Value : Modify(p, v)) \/ Bwrite(p) \/ Bpin(p) \/ Bunpin(p)
      PROVE  IInv'
  <2>1. BufInv'
    BY <1>4, HolderKeeps, Zenon
  <2>2. CountInv'
    BY <1>4, OthersCount, PinCounts, Zenon
  <2>3. UNCHANGED <<next, prev, recent>>
    BY <1>4, Zenon DEF Modify, Bwrite, Bpin, Bunpin, list
  <2> QED BY <1>4, <2>1, <2>2, <2>3, Zenon DEF IInv, Ring, At
<1>5. ASSUME IInv, NEW p \in Procs, Brelse(p) PROVE IInv'
  BY <1>5, BrelseKeeps, BrelseCounts, Zenon DEF IInv
<1> QED BY <1>1, <1>2, <1>3, <1>4, <1>5, Zenon DEF Next

\* The invariant holds in every state.
LEMMA IInvariant == Spec => []IInv
BY IInvInit, IInvStep, PTL DEF Spec

\* The bound on refcnt follows from what it counts.
LEMMA IInvTypes == IInv => TypeOK
<1> SUFFICES ASSUME IInv PROVE TypeOK
  OBVIOUS
<1>1. ASSUME NEW b \in Buf PROVE refcnt[b] \in 0..Cardinality(Procs) + 1
  <2>1. refcnt[b] = Cardinality(Users(b)) + IF b \in pinned THEN 1 ELSE 0
    BY Zenon DEF IInv, CountInv
  <2>2. Cardinality(Users(b)) \in Nat /\ Cardinality(Users(b)) <= Cardinality(Procs)
    BY UsersFinite, Zenon
  <2>3. Cardinality(Procs) \in Nat
    BY BcacheAssumption, FS_CardinalityType, Zenon
  <2> QED BY <2>1, <2>2, <2>3
<1>2. refcnt \in [Buf -> 0..Cardinality(Procs) + 1]
  BY <1>1, Zenon DEF IInv, BufInv, Types
<1> QED BY <1>2, Zenon DEF IInv, BufInv, Types, Ring, TypeOK

\* bget(), bpin(), bunpin() and the two halves of brelse() keep refcnt equal to
\* the number of processes that use or wait for the buffer, plus one if the
\* log has pinned it.
THEOREM ReferencesAreCounted == Spec => []RefcntExact
<1>1. IInv => RefcntExact
  BY IInvTypes, Zenon DEF IInv, CountInv, RefcntExact, Users
<1> QED BY <1>1, IInvariant, PTL

\* releasesleep() leaves nobody asleep on the lock it frees.
THEOREM SleepersAreWoken == Spec => []SleeperHasHolder
<1>1. IInv => SleeperHasHolder
  BY Zenon DEF IInv, BufInv, LockInv
<1> QED BY <1>1, IInvariant, PTL

\* The places of a ring from the first on are a list and its head.
LEMMA PlacesAreList ==
  ASSUME NEW order \in [Buf -> Buf]
  PROVE  Places(order, NBUF + 1) = order \o <<head>>
<1>0. NBUF \in Int /\ NBUF >= 1 /\ NBUF \in Nat /\ Buf = 1..NBUF /\ head = 0
  BY BcacheAssumption DEF Buf, head
<1> DEFINE w == Places(order, NBUF + 1)
           v == order \o <<head>>
<1>1. order \in Seq(0..NBUF) /\ Len(order) = NBUF
  BY <1>0
<1>2. <<head>> \in Seq(0..NBUF) /\ Len(<<head>>) = 1 /\ <<head>>[1] = head
  BY <1>0
<1>3. v \in Seq(0..NBUF) /\ Len(v) = NBUF + 1
      /\ \A i \in 1..NBUF + 1 : v[i] = IF i <= NBUF THEN order[i] ELSE <<head>>[i - NBUF]
  BY <1>0, <1>1, <1>2, ConcatProperties
<1>4. w \in Seq(0..NBUF) /\ Len(w) = NBUF + 1 /\ \A i \in 1..NBUF + 1 : w[i] = At(order, i)
  <2>1. \A i \in 1..NBUF + 1 : At(order, i) \in 0..NBUF
    BY <1>0 DEF At
  <2> QED BY <1>0, <2>1 DEF Places
<1> HIDE DEF w, v
<1>5. ASSUME NEW i \in 1..NBUF + 1 PROVE w[i] = v[i]
  <2>1. CASE i <= NBUF
    BY <1>0, <1>3, <1>4, <2>1 DEF At
  <2>2. CASE i = NBUF + 1
    <3>1. i - NBUF = 1 /\ ~(i <= NBUF) /\ i \notin Buf
      BY <1>0, <2>2
    <3> QED BY <1>2, <1>3, <1>4, <3>1, Zenon DEF At
  <2> QED BY <1>0, <2>1, <2>2
<1>6. w = v
  BY <1>3, <1>4, <1>5, SeqEqual
<1> QED BY <1>6, Zenon DEF w, v

\* The six pointer assignments of brelse(), wherever the buffer was, leave a
\* ring through all the buffers in the order of their last release, and the
\* two loops of bget() walk it from the most and from the least recent end.
THEOREM ListStaysLru == Spec => []ListIsLru
<1>1. ASSUME IInv PROVE ListIsLru
  <2>1. Types /\ Ring
    BY <1>1, Zenon DEF IInv, BufInv
  <2>2. /\ next \in [Buf \cup {head} -> Buf \cup {head}]
        /\ prev \in [Buf \cup {head} -> Buf \cup {head}] /\ recent \in [Buf -> Buf]
    BY <2>1, Zenon DEF Types, Ring
  <2>3. Follows(next, recent) /\ Backwards \in [Buf -> Buf] /\ Follows(prev, Backwards)
    BY <2>1, RingFollows, Zenon
  <2>4. Walk(next, next[head]) = recent \o <<head>>
    BY <2>2, <2>3, WalkIsOrder, PlacesAreList, Zenon
  <2>5. Walk(prev, prev[head]) = Backwards \o <<head>>
    BY <2>2, <2>3, WalkIsOrder, PlacesAreList, Zenon
  <2> QED BY <2>4, <2>5, Zenon DEF ListIsLru, Backwards, Buf
<1> QED BY <1>1, IInvariant, PTL

\* While the log pins at most MaxPins blocks, a cache with a buffer for every
\* process and every pin has a free one for a process that enters bget().
THEOREM BuffersAlwaysSuffice == Spec => []BuffersSuffice
<1>1. ASSUME IInv, NBUF >= Cardinality(Procs) + MaxPins, NEW p \in Procs, pc[p] = "out",
             Victim = head
      PROVE  FALSE
  <2> DEFINE others == Procs \ {p}
             inuse == {buf[q] : q \in others}
  <2>1. IsFiniteSet(Procs) /\ Cardinality(Procs) \in Nat
    BY BcacheAssumption, FS_CardinalityType, Zenon
  <2>2. IsFiniteSet(others) /\ Cardinality(others) = Cardinality(Procs) - 1
    BY <2>1, FS_RemoveElement, Zenon
  <2>3. IsFiniteSet(inuse) /\ Cardinality(inuse) <= Cardinality(others)
    <3>1. [q \in others |-> buf[q]] \in Surjection(others, inuse)
      BY Zenon DEF Surjection
    <3> QED BY <2>2, <3>1, FS_Surjection, Zenon
  <2>4. IsFiniteSet(pinned) /\ Cardinality(pinned) \in Nat /\ Cardinality(pinned) <= MaxPins
    BY <1>1, PinsFinite, Zenon DEF IInv, BufInv, CountInv
  <2>5. Buf \subseteq inuse \cup pinned
    <3> SUFFICES ASSUME NEW b \in Buf, b \notin pinned PROVE b \in inuse
      BY Zenon
    <3>1. refcnt[b] # 0
      BY <1>1, Recycle, Zenon DEF IInv, BufInv
    <3>2. refcnt[b] = Cardinality(Users(b)) + IF b \in pinned THEN 1 ELSE 0
      BY <1>1, Zenon DEF IInv, CountInv
    <3>3. Cardinality(Users(b)) # 0
      BY <3>1, <3>2
    <3>4. Cardinality({}) = 0
      BY FS_EmptySet, Zenon
    <3>5. PICK q \in Procs : Using(q) /\ buf[q] = b
      BY <3>3, <3>4, Zenon DEF Users
    <3>6. q # p
      BY <1>1, <3>5, Zenon DEF Using
    <3> QED BY <3>5, <3>6, Zenon
  <2>6. IsFiniteSet(Buf) /\ Cardinality(Buf) = NBUF
    BY BcacheAssumption, FS_Interval DEF Buf
  <2> HIDE DEF inuse, others
  <2>7. IsFiniteSet(inuse \cup pinned) /\ Cardinality(inuse \cup pinned) =
          Cardinality(inuse) + Cardinality(pinned) - Cardinality(inuse \cap pinned)
    BY <2>3, <2>4, FS_Union, Zenon
  <2>8. Cardinality(Buf) <= Cardinality(inuse \cup pinned)
    BY <2>5, <2>7, FS_Subset, Zenon
  <2>9. Cardinality(inuse) \in Nat /\ Cardinality(inuse \cap pinned) \in Nat
    <3>1. IsFiniteSet(inuse \cap pinned)
      BY <2>3, FS_Intersection, Zenon
    <3> QED BY <2>3, <3>1, FS_CardinalityType, Zenon
  <2> QED BY <1>1, <2>1, <2>2, <2>3, <2>4, <2>6, <2>7, <2>8, <2>9, BcacheAssumption
<1>2. IInv => BuffersSuffice
  BY <1>1, Zenon DEF BuffersSuffice
<1> QED BY <1>2, IInvariant, PTL

-------------------------------------------------------------------------------
(* The cache implements BlockStore.                                        *)

Holds(p, k)  == pc[p] = "held" /\ want[p] = k
Caches(b, k) == blockno[b] = k /\ valid[b]

\* A block has one owner and one content.
StoreFacts ==
  /\ \A k \in Block : \A p \in Procs : Holds(p, k) => Owner[k] = p
  /\ \A k \in Block : (\A p \in Procs : ~Holds(p, k)) => Owner[k] = Zero
  /\ \A k \in Block : \A b \in Buf : Caches(b, k) => Content[k] = data[b]
  /\ \A k \in Block : (\A b \in Buf : ~Caches(b, k)) => Content[k] = disk[k]
  /\ Owner = [k \in Block |-> Owner[k]] /\ Content = [k \in Block |-> Content[k]]

\* The choices in the mapping are between one alternative.
LEMMA StoreIsUnique == IInv => StoreFacts
<1> SUFFICES ASSUME IInv PROVE StoreFacts
  OBVIOUS
<1>1. \A k \in Block : k # Zero
  BY BcacheAssumption
<1>2. ASSUME NEW k \in Block, NEW p \in Procs, NEW q \in Procs, Holds(p, k), Holds(q, k)
      PROVE  p = q
  <2>1. blockno[buf[p]] = k /\ blockno[buf[q]] = k /\ buf[p] \in Buf /\ buf[q] \in Buf
    BY <1>2 DEF IInv, BufInv, Types, IdInv, Using, Holds
  <2>2. buf[p] = buf[q]
    BY <1>1, <2>1 DEF IInv, BufInv, IdInv
  <2>3. locked[buf[p]] = p /\ locked[buf[q]] = q
    BY <1>2 DEF IInv, BufInv, LockInv, Holds
  <2> QED BY <2>2, <2>3
<1>3. ASSUME NEW k \in Block, NEW b \in Buf, NEW c \in Buf, Caches(b, k), Caches(c, k)
      PROVE  b = c
  BY <1>1, <1>3, Zenon DEF IInv, BufInv, IdInv, Caches
<1>4. /\ Owner = [k \in Block |-> IF \E p \in Procs : Holds(p, k)
                                  THEN CHOOSE p \in Procs : Holds(p, k) ELSE Zero]
      /\ Content = [k \in Block |-> IF \E b \in Buf : Caches(b, k)
                                    THEN data[CHOOSE b \in Buf : Caches(b, k)] ELSE disk[k]]
  BY Zenon DEF Owner, Content, Holds, Caches
<1> HIDE DEF Holds, Caches
<1>5. ASSUME NEW k \in Block, NEW p \in Procs, Holds(p, k) PROVE Owner[k] = p
  <2>1. Owner[k] = CHOOSE q \in Procs : Holds(q, k)
    BY <1>4, <1>5, Zenon
  <2>2. Owner[k] \in Procs /\ Holds(Owner[k], k)
    BY <1>5, <2>1, Zenon
  <2> QED BY <1>2, <1>5, <2>2, Zenon
<1>6. ASSUME NEW k \in Block, NEW b \in Buf, Caches(b, k) PROVE Content[k] = data[b]
  <2> DEFINE c == CHOOSE c \in Buf : Caches(c, k)
  <2>1. Content[k] = data[c]
    BY <1>4, <1>6, Zenon
  <2>2. c \in Buf /\ Caches(c, k)
    BY <1>6, Zenon
  <2> HIDE DEF c
  <2> QED BY <1>3, <1>6, <2>1, <2>2, Zenon
<1>7. \A k \in Block : (\A p \in Procs : ~Holds(p, k)) => Owner[k] = Zero
  BY <1>4, Zenon
<1>8. \A k \in Block : (\A b \in Buf : ~Caches(b, k)) => Content[k] = disk[k]
  BY <1>4, Zenon
<1>9. Owner = [k \in Block |-> Owner[k]] /\ Content = [k \in Block |-> Content[k]]
  BY Zenon DEF Owner, Content
<1> QED BY <1>5, <1>6, <1>7, <1>8, <1>9, Zenon DEF StoreFacts

\* Nobody comes to own a block, or ceases to.
LEMMA OwnerSame ==
  ASSUME StoreFacts, StoreFacts',
         \A k \in Block : \A p \in Procs : Holds(p, k)' <=> Holds(p, k)
  PROVE  Owner' = Owner
<1>1. ASSUME NEW k \in Block PROVE Owner'[k] = Owner[k]
  <2>1. CASE \E p \in Procs : Holds(p, k)
    <3>1. PICK p \in Procs : Holds(p, k)
      BY <2>1
    <3>2. Holds(p, k)'
      BY <3>1, Zenon
    <3> QED BY <3>1, <3>2, Zenon DEF StoreFacts
  <2>2. CASE \A p \in Procs : ~Holds(p, k)
    <3>1. \A p \in Procs : ~Holds(p, k)'
      BY <2>2, Zenon
    <3> QED BY <2>2, <3>1, Zenon DEF StoreFacts
  <2> QED BY <2>1, <2>2, Zenon
<1>2. Owner = [k \in Block |-> Owner[k]] /\ Owner' = [k \in Block |-> Owner'[k]]
  BY Zenon DEF StoreFacts
<1> QED BY <1>1, <1>2, Zenon

\* One process comes to own its block, or ceases to.
LEMMA OwnerChange ==
  ASSUME StoreFacts, StoreFacts', NEW k \in Block, NEW o,
         Owner'[k] = o,
         \A j \in Block \ {k} : \A p \in Procs : Holds(p, j)' <=> Holds(p, j)
  PROVE  Owner' = [Owner EXCEPT ![k] = o]
<1>1. ASSUME NEW j \in Block, j # k PROVE Owner'[j] = Owner[j]
  <2>1. CASE \E p \in Procs : Holds(p, j)
    <3>1. PICK p \in Procs : Holds(p, j)
      BY <2>1
    <3>2. Holds(p, j)'
      BY <1>1, <3>1, Zenon
    <3> QED BY <3>1, <3>2, Zenon DEF StoreFacts
  <2>2. CASE \A p \in Procs : ~Holds(p, j)
    <3>1. \A p \in Procs : ~Holds(p, j)'
      BY <1>1, <2>2, Zenon
    <3> QED BY <2>2, <3>1, Zenon DEF StoreFacts
  <2> QED BY <2>1, <2>2, Zenon
<1>2. Owner = [j \in Block |-> Owner[j]] /\ Owner' = [j \in Block |-> Owner'[j]]
  BY Zenon DEF StoreFacts
<1> QED BY <1>1, <1>2, Zenon

\* The contents after a step, from what the buffers and the disk have.
LEMMA ContentIs ==
  ASSUME StoreFacts, StoreFacts', NEW f,
         \A k \in Block : \A b \in Buf : Caches(b, k)' => data'[b] = f[k],
         \A k \in Block : (\A b \in Buf : ~Caches(b, k)') => disk'[k] = f[k],
         f = [k \in Block |-> f[k]]
  PROVE  Content' = f
<1>1. ASSUME NEW k \in Block PROVE Content'[k] = f[k]
  <2>1. CASE \E b \in Buf : Caches(b, k)'
    <3>1. PICK b \in Buf : Caches(b, k)'
      BY <2>1
    <3>2. Content'[k] = data'[b]
      BY <3>1, Zenon DEF StoreFacts
    <3>3. data'[b] = f[k]
      BY <3>1, Zenon
    <3> QED BY <3>2, <3>3, Zenon
  <2>2. CASE \A b \in Buf : ~Caches(b, k)'
    <3>1. Content'[k] = disk'[k]
      BY <2>2, Zenon DEF StoreFacts
    <3> QED BY <2>2, <3>1, Zenon
  <2> QED BY <2>1, <2>2, Zenon
<1>2. Content' = [k \in Block |-> Content'[k]]
  BY Zenon DEF StoreFacts
<1> QED BY <1>1, <1>2, Zenon

\* Steps that change no buffer's identity or data, and not the disk.
LEMMA ContentSame ==
  ASSUME StoreFacts, StoreFacts', UNCHANGED <<blockno, valid, data, disk>>
  PROVE  Content' = Content
<1>1. \A k \in Block : \A b \in Buf : Caches(b, k)' <=> Caches(b, k)
  BY Zenon DEF Caches
<1>2. \A k \in Block : \A b \in Buf : Caches(b, k)' => data'[b] = Content[k]
  BY <1>1, Zenon DEF StoreFacts
<1>3. \A k \in Block : (\A b \in Buf : ~Caches(b, k)') => disk'[k] = Content[k]
  BY <1>1, Zenon DEF StoreFacts
<1>4. Content = [k \in Block |-> Content[k]]
  BY Zenon DEF StoreFacts
<1> QED BY <1>2, <1>3, <1>4, ContentIs, Zenon

\* Between bget() and the lock nobody else has the block.
LEMMA NobodyElse ==
  ASSUME IInv, NEW p \in Procs, pc[p] \in {"lock", "read"},
         locked[buf[p]] = Zero \/ pc[p] = "read"
  PROVE  \A q \in Procs : ~Holds(q, want[p])
<1> SUFFICES ASSUME NEW q \in Procs, Holds(q, want[p]) PROVE FALSE
  OBVIOUS
<1>1. Using(p) /\ Using(q) /\ pc[q] = "held" /\ want[q] = want[p] /\ pc[p] # "held"
  BY DEF Holds, Using
<1>2. /\ blockno[buf[p]] = blockno[buf[q]] /\ blockno[buf[p]] # Zero
      /\ buf[p] \in Buf /\ buf[q] \in Buf
  <2>1. buf \in [Procs -> Buf] /\ IdInv
    BY Zenon DEF IInv, BufInv, Types
  <2>2. blockno[buf[p]] = want[p] /\ blockno[buf[q]] = want[q] /\ want[p] \in Block
    BY <1>1, <2>1, Zenon DEF IdInv
  <2>3. want[p] # Zero
    BY <2>2, BcacheAssumption, Zenon
  <2> QED BY <1>1, <2>1, <2>2, <2>3, Zenon
<1>3. buf[p] = buf[q]
  BY <1>2 DEF IInv, BufInv, IdInv
<1>4. locked[buf[q]] = q
  BY <1>1 DEF IInv, BufInv, LockInv
<1>5. pc[p] = "read" => locked[buf[p]] = p
  BY DEF IInv, BufInv, LockInv
<1>6. q # Zero
  BY BcacheAssumption
<1> QED BY <1>1, <1>3, <1>4, <1>5, <1>6

\* bget() recycles a clean buffer only, so the block that loses its buffer
\* keeps its content on the disk.
LEMMA BgetStutters ==
  ASSUME IInv, StoreFacts, StoreFacts', NEW p \in Procs, NEW k \in Block,
         BgetHit(p, k) \/ BgetMiss(p, k)
  PROVE  UNCHANGED <<Content, Owner>>
<1>0. pc \in [Procs -> {"out", "lock", "sleep", "read", "held", "release"}]
      /\ want \in [Procs -> Block \cup {Zero}]
  BY Zenon DEF IInv, BufInv, Types
<1>1. /\ pc[p] = "out" /\ pc' = [pc EXCEPT ![p] = "lock"]
      /\ want' = [want EXCEPT ![p] = k]
  BY Zenon DEF BgetHit, BgetMiss, Goto
<1>2. \A j \in Block : \A q \in Procs : Holds(q, j)' <=> Holds(q, j)
  BY <1>0, <1>1 DEF Holds
<1>3. Owner' = Owner
  BY <1>2, OwnerSame, Zenon
<1>4. CASE BgetHit(p, k)
  <2>1. UNCHANGED <<blockno, valid, data, disk>>
    BY <1>4, Zenon DEF BgetHit
  <2> QED BY <1>3, <2>1, ContentSame, Zenon
<1>5. CASE BgetMiss(p, k)
  <2> DEFINE v == Victim
  <2>1. v \in Buf /\ refcnt[v] = 0
    BY <1>5, Recycle, Zenon DEF IInv, BufInv, BgetMiss
  <2>2. /\ blockno' = [blockno EXCEPT ![v] = k] /\ valid' = [valid EXCEPT ![v] = FALSE]
        /\ data' = data /\ disk' = disk
    BY <1>5, Zenon DEF BgetMiss
  <2> HIDE DEF v
  <2>3. valid[v] => data[v] = disk[blockno[v]]
    BY <2>1, Unreferenced, Zenon DEF IInv, BufInv, DataInv
  <2>4. blockno \in [Buf -> Block \cup {Zero}] /\ valid \in [Buf -> BOOLEAN]
    BY Zenon DEF IInv, BufInv, Types
  <2>5. \A j \in Block : \A b \in Buf : Caches(b, j)' <=> b # v /\ Caches(b, j)
    BY <2>1, <2>2, <2>4 DEF Caches
  <2>6. \A j \in Block : \A b \in Buf : Caches(b, j)' => data'[b] = Content[j]
    BY <2>2, <2>5, Zenon DEF StoreFacts
  <2>7. ASSUME NEW j \in Block, \A b \in Buf : ~Caches(b, j)' PROVE disk'[j] = Content[j]
    <3>1. CASE Caches(v, j)
      <4>1. Content[j] = data[v]
        BY <2>1, <3>1, Zenon DEF StoreFacts
      <4>2. data[v] = disk[j]
        BY <2>3, <3>1, Zenon DEF Caches
      <4> QED BY <2>2, <4>1, <4>2, Zenon
    <3>2. CASE ~Caches(v, j)
      <4>1. \A b \in Buf : ~Caches(b, j)
        BY <2>5, <2>7, <3>2, Zenon
      <4> QED BY <2>2, <4>1, Zenon DEF StoreFacts
    <3> QED BY <3>1, <3>2, Zenon
  <2>8. Content = [j \in Block |-> Content[j]]
    BY Zenon DEF StoreFacts
  <2>9. Content' = Content
    BY <2>6, <2>7, <2>8, ContentIs, Zenon
  <2> QED BY <1>3, <2>9, Zenon
<1> QED BY <1>4, <1>5, Zenon

\* acquiresleep() of a valid buffer makes the process the owner.
LEMMA AcquireOwns ==
  ASSUME IInv, StoreFacts, StoreFacts', NEW p \in Procs, Acquiresleep(p)
  PROVE  UNCHANGED <<Content, Owner>> \/ Store!Own(p, want[p])
<1>0. pc \in [Procs -> {"out", "lock", "sleep", "read", "held", "release"}]
      /\ want \in [Procs -> Block \cup {Zero}]
  BY Zenon DEF IInv, BufInv, Types
<1>1. want[p] \in Block
  BY DEF Acquiresleep, IInv, BufInv, IdInv, Using
<1>2. Content' = Content
  BY ContentSame, Zenon DEF Acquiresleep, cache
<1>3. pc[p] = "lock" /\ want' = want
  BY Zenon DEF Acquiresleep
<1>4. CASE pc' = [pc EXCEPT ![p] = "sleep"] \/ pc' = [pc EXCEPT ![p] = "read"]
  <2>1. \A j \in Block : \A q \in Procs : Holds(q, j)' <=> Holds(q, j)
    BY <1>0, <1>3, <1>4 DEF Holds
  <2> QED BY <1>2, <2>1, OwnerSame, Zenon
<1>5. CASE pc' = [pc EXCEPT ![p] = "held"] /\ locked[buf[p]] = Zero
  <2>1. \A q \in Procs : ~Holds(q, want[p])
    BY <1>3, <1>5, NobodyElse
  <2>2. Owner[want[p]] = Zero
    BY <1>1, <2>1, Zenon DEF StoreFacts
  <2>3. Holds(p, want[p])'
    BY <1>0, <1>3, <1>5 DEF Holds
  <2>4. Owner'[want[p]] = p
    <3>1. want'[p] = want[p]
      BY <1>3, Zenon
    <3>2. \E k \in Block : k = want[p] /\ Holds(p, k)'
      BY <1>1, <1>3, <2>3, Zenon DEF Holds
    <3> QED BY <3>2, Zenon DEF StoreFacts
  <2>5. \A j \in Block \ {want[p]} : \A q \in Procs : Holds(q, j)' <=> Holds(q, j)
    BY <1>0, <1>3, <1>5 DEF Holds
  <2>6. Owner' = [Owner EXCEPT ![want[p]] = p]
    BY <1>1, <2>4, <2>5, OwnerChange, Zenon
  <2> QED BY <1>2, <2>2, <2>6, Zenon DEF Store!Own
<1>6. \/ pc' = [pc EXCEPT ![p] = "sleep"] \/ pc' = [pc EXCEPT ![p] = "read"]
      \/ pc' = [pc EXCEPT ![p] = "held"] /\ locked[buf[p]] = Zero
  BY DEF Acquiresleep, Goto
<1> QED BY <1>4, <1>5, <1>6, Zenon

\* bread() of a block that was not in memory makes the process the owner of
\* what the disk has.
LEMMA BreadOwns ==
  ASSUME IInv, StoreFacts, StoreFacts', NEW p \in Procs, BreadDone(p)
  PROVE  Store!Own(p, want[p])
<1> DEFINE b0 == buf[p]
<1>0. pc \in [Procs -> {"out", "lock", "sleep", "read", "held", "release"}]
      /\ want \in [Procs -> Block \cup {Zero}]
      /\ valid \in [Buf -> BOOLEAN] /\ data \in [Buf -> Value] /\ b0 \in Buf
  BY Zenon DEF IInv, BufInv, Types
<1>1. want[p] \in Block /\ blockno[b0] = want[p]
  BY DEF BreadDone, IInv, BufInv, IdInv, Using
<1>2. pc[p] = "read" /\ want' = want /\ pc' = [pc EXCEPT ![p] = "held"]
  BY Zenon DEF BreadDone, Goto
<1>3. /\ data' = [data EXCEPT ![b0] = disk[want[p]]] /\ valid' = [valid EXCEPT ![b0] = TRUE]
      /\ blockno' = blockno /\ disk' = disk
  BY <1>1, Zenon DEF BreadDone
<1>4. ~valid[b0]
  BY <1>2, Zenon DEF IInv, BufInv, DataInv
<1>5. \A c \in Buf : blockno[c] = want[p] => c = b0
  BY <1>0, <1>1, BcacheAssumption DEF IInv, BufInv, IdInv
<1> HIDE DEF b0
<1>6. Content' = Content
  <2>1. \A b \in Buf : ~Caches(b, want[p])
    BY <1>4, <1>5, Zenon DEF Caches
  <2>2. Content[want[p]] = disk[want[p]]
    BY <1>1, <2>1, Zenon DEF StoreFacts
  <2>3. ASSUME NEW k \in Block, NEW b \in Buf, Caches(b, k)' PROVE data'[b] = Content[k]
    <3>1. blockno[b] = k /\ valid'[b]
      BY <1>3, <2>3, Zenon DEF Caches
    <3>2. CASE b = b0
      <4>1. data'[b] = disk[want[p]] /\ k = want[p]
        BY <1>0, <1>1, <1>3, <3>1, <3>2
      <4> QED BY <2>2, <4>1, Zenon
    <3>3. CASE b # b0
      <4>1. data'[b] = data[b] /\ valid[b]
        BY <1>0, <1>3, <3>1, <3>3
      <4>2. Caches(b, k)
        BY <3>1, <4>1, Zenon DEF Caches
      <4>3. Content[k] = data[b]
        BY <4>2, Zenon DEF StoreFacts
      <4> QED BY <4>1, <4>3, Zenon
    <3> QED BY <3>2, <3>3, Zenon
  <2>4. ASSUME NEW k \in Block, \A b \in Buf : ~Caches(b, k)' PROVE disk'[k] = Content[k]
    <3>1. \A b \in Buf : valid[b] => valid'[b]
      BY <1>0, <1>3
    <3>2. \A b \in Buf : ~Caches(b, k)
      BY <1>3, <2>4, <3>1, Zenon DEF Caches
    <3> QED BY <1>3, <3>2, Zenon DEF StoreFacts
  <2>5. Content = [k \in Block |-> Content[k]]
    BY Zenon DEF StoreFacts
  <2> QED BY <2>3, <2>4, <2>5, ContentIs, Zenon
<1>7. Owner[want[p]] = Zero
  <2>1. \A q \in Procs : ~Holds(q, want[p])
    BY <1>2, NobodyElse
  <2> QED BY <1>1, <2>1, Zenon DEF StoreFacts
<1>8. Owner'[want[p]] = p
  <2>1. pc'[p] = "held" /\ want'[p] = want[p]
    BY <1>0, <1>2
  <2>2. \E k \in Block : k = want[p] /\ Holds(p, k)'
    BY <1>1, <2>1, Zenon DEF Holds
  <2> QED BY <2>2, Zenon DEF StoreFacts
<1>9. \A j \in Block \ {want[p]} : \A q \in Procs : Holds(q, j)' <=> Holds(q, j)
  BY <1>0, <1>2 DEF Holds
<1>10. Owner' = [Owner EXCEPT ![want[p]] = p]
  BY <1>1, <1>8, <1>9, OwnerChange, Zenon
<1> QED BY <1>6, <1>7, <1>10, Zenon DEF Store!Own

\* The holder of a buffer is the owner of its block.
LEMMA HolderOwns ==
  ASSUME IInv, StoreFacts, NEW p \in Procs, pc[p] = "held"
  PROVE  /\ buf[p] \in Buf /\ want[p] \in Block /\ Holds(p, want[p]) /\ Owner[want[p]] = p
         /\ blockno[buf[p]] = want[p] /\ valid[buf[p]] /\ Caches(buf[p], want[p])
         /\ \A c \in Buf : blockno[c] = want[p] => c = buf[p]
<1>1. want[p] \in Block /\ blockno[buf[p]] = want[p]
  BY DEF IInv, BufInv, IdInv, Using
<1>2. buf[p] \in Buf /\ valid[buf[p]]
  BY Zenon DEF IInv, BufInv, DataInv, Types
<1>3. \A c \in Buf : blockno[c] = want[p] => c = buf[p]
  BY <1>1, <1>2, BcacheAssumption DEF IInv, BufInv, IdInv
<1>4. Holds(p, want[p]) /\ Caches(buf[p], want[p])
  BY <1>1, <1>2, Zenon DEF Holds, Caches
<1>5. Owner[want[p]] = p
  BY <1>1, <1>4, Zenon DEF StoreFacts
<1> QED BY <1>1, <1>2, <1>3, <1>4, <1>5, Zenon

\* A change of the data in the buffer is a change of the block.
LEMMA ModifyChanges ==
  ASSUME IInv, StoreFacts, StoreFacts', NEW p \in Procs, NEW v \in Value, Modify(p, v)
  PROVE  Store!Change(p, want[p], v)
<1> DEFINE f == [Content EXCEPT ![want[p]] = v]
<1>1. /\ pc[p] = "held" /\ data' = [data EXCEPT ![buf[p]] = v]
      /\ UNCHANGED <<blockno, valid, disk, pc, want>>
  BY Zenon DEF Modify, thread
<1>2. /\ buf[p] \in Buf /\ want[p] \in Block /\ Owner[want[p]] = p
      /\ blockno[buf[p]] = want[p] /\ Caches(buf[p], want[p])
      /\ \A c \in Buf : blockno[c] = want[p] => c = buf[p]
  BY <1>1, HolderOwns, Zenon
<1>3. Owner' = Owner
  <2>1. \A j \in Block : \A q \in Procs : Holds(q, j)' <=> Holds(q, j)
    BY <1>1, Zenon DEF Holds
  <2> QED BY <2>1, OwnerSame, Zenon
<1>4. \A k \in Block : \A b \in Buf : Caches(b, k)' <=> Caches(b, k)
  BY <1>1, Zenon DEF Caches
<1>5. Content = [k \in Block |-> Content[k]] /\ data \in [Buf -> Value]
  BY Zenon DEF StoreFacts, IInv, BufInv, Types
<1>6. /\ f = [k \in Block |-> f[k]]
      /\ \A k \in Block : f[k] = IF k = want[p] THEN v ELSE Content[k]
  BY <1>5, Zenon
<1> HIDE DEF f
<1>7. ASSUME NEW k \in Block, NEW b \in Buf, Caches(b, k)' PROVE data'[b] = f[k]
  <2>1. Caches(b, k) /\ blockno[b] = k
    BY <1>4, <1>7, Zenon DEF Caches
  <2>2. Content[k] = data[b]
    BY <2>1, Zenon DEF StoreFacts
  <2>3. k = want[p] <=> b = buf[p]
    BY <1>2, <2>1, Zenon
  <2>4. data'[b] = IF b = buf[p] THEN v ELSE data[b]
    BY <1>1, <1>5, Zenon
  <2> QED BY <1>6, <2>2, <2>3, <2>4, Zenon
<1>8. ASSUME NEW k \in Block, \A b \in Buf : ~Caches(b, k)' PROVE disk'[k] = f[k]
  <2>1. \A b \in Buf : ~Caches(b, k)
    BY <1>4, <1>8, Zenon
  <2>2. k # want[p]
    BY <1>2, <2>1, Zenon
  <2>3. Content[k] = disk[k]
    BY <2>1, Zenon DEF StoreFacts
  <2> QED BY <1>1, <1>6, <2>2, <2>3, Zenon
<1>9. Content' = f
  BY <1>6, <1>7, <1>8, ContentIs, Zenon
<1> QED BY <1>2, <1>3, <1>9, Zenon DEF Store!Change, f

\* bwrite(), bpin() and bunpin() change nothing a reader could see.
LEMMA HolderStutters ==
  ASSUME IInv, StoreFacts, StoreFacts', NEW p \in Procs, Bwrite(p) \/ Bpin(p) \/ Bunpin(p)
  PROVE  UNCHANGED <<Content, Owner>>
<1>1. pc[p] = "held" /\ UNCHANGED <<blockno, valid, data, pc, want>>
  BY Zenon DEF Bwrite, Bpin, Bunpin, cache, thread
<1>2. Owner' = Owner
  <2>1. \A j \in Block : \A q \in Procs : Holds(q, j)' <=> Holds(q, j)
    BY <1>1, Zenon DEF Holds
  <2> QED BY <2>1, OwnerSame, Zenon
<1>3. CASE disk' = disk
  BY <1>1, <1>2, <1>3, ContentSame, Zenon
<1>4. CASE Bwrite(p)
  <2>1. blockno[buf[p]] = want[p] /\ Caches(buf[p], want[p]) /\ buf[p] \in Buf
    BY <1>1, HolderOwns, Zenon
  <2>2. disk' = [disk EXCEPT ![want[p]] = data[buf[p]]] /\ disk \in [Block -> Value]
    BY <1>4, <2>1, Zenon DEF Bwrite, IInv, BufInv, Types
  <2>3. \A k \in Block : \A b \in Buf : Caches(b, k)' <=> Caches(b, k)
    BY <1>1, Zenon DEF Caches
  <2>4. \A k \in Block : \A b \in Buf : Caches(b, k)' => data'[b] = Content[k]
    BY <1>1, <2>3, Zenon DEF StoreFacts
  <2>5. ASSUME NEW k \in Block, \A b \in Buf : ~Caches(b, k)' PROVE disk'[k] = Content[k]
    <3>1. \A b \in Buf : ~Caches(b, k)
      BY <2>3, <2>5, Zenon
    <3>2. k # want[p]
      BY <2>1, <3>1, Zenon
    <3>3. Content[k] = disk[k]
      BY <3>1, Zenon DEF StoreFacts
    <3> QED BY <2>2, <3>2, <3>3, Zenon
  <2>6. Content = [k \in Block |-> Content[k]]
    BY Zenon DEF StoreFacts
  <2>7. Content' = Content
    BY <2>4, <2>5, <2>6, ContentIs, Zenon
  <2> QED BY <1>2, <2>7, Zenon
<1> QED BY <1>3, <1>4, Zenon DEF Bpin, Bunpin

\* releasesleep() gives the block up.
LEMMA ReleaseDisowns ==
  ASSUME IInv, StoreFacts, StoreFacts', NEW p \in Procs, Releasesleep(p)
  PROVE  Store!Disown(p, want[p])
<1>1. Content' = Content
  BY ContentSame, Zenon DEF Releasesleep, cache
<1>2. /\ pc[p] = "held" /\ want' = want /\ pc'[p] = "release"
      /\ \A q \in Procs \ {p} : pc'[q] = "held" <=> pc[q] = "held"
  BY DEF Releasesleep
<1>3. want[p] \in Block /\ Owner[want[p]] = p /\ Holds(p, want[p])
  BY <1>2, HolderOwns, Zenon
<1>4. \A k \in Block : \A q \in Procs : Holds(q, k)' <=> q # p /\ Holds(q, k)
  BY <1>2 DEF Holds
<1>5. \A q \in Procs : Holds(q, want[p]) => q = p
  BY <1>3, Zenon DEF StoreFacts
<1>6. Owner'[want[p]] = Zero
  <2>1. PICK k \in Block : k = want[p]
    BY <1>3
  <2>2. \A q \in Procs : ~Holds(q, k)'
    BY <1>4, <1>5, <2>1, Zenon
  <2>3. Owner'[k] = Zero
    BY <2>2, Zenon DEF StoreFacts
  <2> QED BY <2>1, <2>3, Zenon
<1>7. \A j \in Block \ {want[p]} : \A q \in Procs : Holds(q, j)' <=> Holds(q, j)
  BY <1>4, <1>2 DEF Holds
<1>8. Owner' = [Owner EXCEPT ![want[p]] = Zero]
  BY <1>3, <1>6, <1>7, OwnerChange, Zenon
<1> QED BY <1>1, <1>3, <1>8, Zenon DEF Store!Disown

\* The rest of brelse() is out of sight.
LEMMA BrelseStutters ==
  ASSUME IInv, StoreFacts, StoreFacts', NEW p \in Procs, Brelse(p)
  PROVE  UNCHANGED <<Content, Owner>>
<1>1. /\ pc[p] = "release" /\ pc' = [pc EXCEPT ![p] = "out"] /\ want' = [want EXCEPT ![p] = Zero]
      /\ UNCHANGED <<blockno, valid, data, disk>>
  BY Zenon DEF Brelse, Goto
<1>2. pc \in [Procs -> {"out", "lock", "sleep", "read", "held", "release"}]
      /\ want \in [Procs -> Block \cup {Zero}]
  BY Zenon DEF IInv, BufInv, Types
<1>3. \A j \in Block : \A q \in Procs : Holds(q, j)' <=> Holds(q, j)
  BY <1>1, <1>2 DEF Holds
<1> QED BY <1>1, <1>3, OwnerSame, ContentSame, Zenon

\* binit() leaves every block on the disk and owned by nobody.
LEMMA StoreInitially == Init => Store!StoreInit
<1> SUFFICES ASSUME Init PROVE Store!StoreInit
  OBVIOUS
<1>1. StoreFacts
  BY IInvInit, StoreIsUnique, Zenon
<1>2. \A k \in Block : \A p \in Procs : ~Holds(p, k)
  BY DEF Init, Holds
<1>3. \A k \in Block : \A b \in Buf : ~Caches(b, k)
  BY DEF Init, Caches
<1>4. Owner = [k \in Block |-> Zero]
  BY <1>1, <1>2, Zenon DEF StoreFacts
<1>5. Content = disk
  <2>1. disk \in [Block -> Value]
    BY IInvInit, Zenon DEF IInv, BufInv, Types
  <2>2. \A k \in Block : Content[k] = disk[k]
    BY <1>1, <1>3, Zenon DEF StoreFacts
  <2>3. Content = [k \in Block |-> Content[k]]
    BY <1>1, Zenon DEF StoreFacts
  <2> QED BY <2>1, <2>2, <2>3, Zenon
<1>6. disk \in [Block -> Value]
  BY IInvInit, Zenon DEF IInv, BufInv, Types
<1> QED BY <1>4, <1>5, <1>6, Zenon DEF Store!StoreInit

\* Every step of the cache is a step of the store, or none.
LEMMA StoreStep == IInv /\ IInv' /\ [Next]_vars => [Store!StoreNext]_(Store!bvars)
<1> SUFFICES ASSUME IInv, IInv', [Next]_vars PROVE Store!StoreNext \/ UNCHANGED <<Content, Owner>>
  BY Zenon DEF Store!bvars
<1>0. StoreFacts'
  <2>1. IInv' => StoreFacts'
    BY StoreIsUnique, PTL
  <2> QED BY <2>1, Zenon
<1>1. StoreFacts
  BY StoreIsUnique, Zenon
<1>2. CASE UNCHANGED vars
  <2>1. UNCHANGED <<blockno, valid, data, disk, pc, want>>
    BY <1>2, Zenon DEF vars, cache, thread
  <2> QED BY <2>1, Zenon DEF Content, Owner
<1>3. ASSUME NEW p \in Procs, NEW k \in Block, BgetHit(p, k) \/ BgetMiss(p, k)
      PROVE  UNCHANGED <<Content, Owner>>
  BY <1>0, <1>1, <1>3, BgetStutters, Zenon
<1>4. ASSUME NEW p \in Procs, Acquiresleep(p) \/ BreadDone(p) \/ Releasesleep(p)
      PROVE  Store!StoreNext \/ UNCHANGED <<Content, Owner>>
  <2>1. want[p] \in Block
    BY <1>4 DEF Acquiresleep, BreadDone, Releasesleep, IInv, BufInv, IdInv, Using
  <2>2. \/ Store!Own(p, want[p]) \/ Store!Disown(p, want[p])
        \/ UNCHANGED <<Content, Owner>>
    BY <1>0, <1>1, <1>4, AcquireOwns, BreadOwns, ReleaseDisowns, Zenon
  <2> QED BY <2>1, <2>2, Zenon DEF Store!StoreNext
<1>5. ASSUME NEW p \in Procs, NEW v \in Value, Modify(p, v) PROVE Store!StoreNext
  <2>1. want[p] \in Block
    BY <1>1, <1>5, HolderOwns, Zenon DEF Modify
  <2>2. Store!Change(p, want[p], v)
    BY <1>0, <1>1, <1>5, ModifyChanges, Zenon
  <2> QED BY <2>1, <2>2, Zenon DEF Store!StoreNext
<1>6. ASSUME NEW p \in Procs, Bwrite(p) \/ Bpin(p) \/ Bunpin(p) \/ Brelse(p)
      PROVE  UNCHANGED <<Content, Owner>>
  BY <1>0, <1>1, <1>6, HolderStutters, BrelseStutters, Zenon
<1> QED BY <1>2, <1>3, <1>4, <1>5, <1>6, Zenon DEF Next

\* bread(), bwrite(), brelse() and the recycling of buffers implement one
\* variable per block with exclusive access: no update is lost and no stale
\* block is read back, for any number of processes, buffers, blocks and pins.
THEOREM CacheStoresBlocks == Spec => StoresBlocks
<1>1. Spec => []IInv
  BY IInvariant
<1>2. Init => Store!StoreInit
  BY StoreInitially
<1>3. IInv /\ IInv' /\ [Next]_vars => [Store!StoreNext]_(Store!bvars)
  BY StoreStep
<1> QED BY <1>1, <1>2, <1>3, PTL DEF Spec, StoresBlocks, Store!StoreSpec
===============================================================================
