------------------------------ MODULE VirtioDisk ------------------------------
(***************************************************************************)
(* The block driver of kernel/virtio_disk.c and the device it talks to:    *)
(* the descriptor table, the avail and used rings with their 16-bit        *)
(* indexes, the interrupt, and processes that wait in virtio_disk_rw().    *)
(*                                                                         *)
(* A process stands for the buffer it transfers, which it holds locked.    *)
(* The device reads the tables without vdisk_lock, at any time after an    *)
(* entry of the avail ring is published, and may finish its requests in    *)
(* any order. Ring slots, command headers and buffers are reset once       *)
(* nobody may read them again, which the code leaves as they are.          *)
(***************************************************************************)
EXTENDS Integers, Sequences, FiniteSets

CONSTANTS
  Procs,
  Sector,
  Value,
  NUM,        \* descriptors, and slots of each ring
  WRAP,       \* 2^16: the ring indexes are of type uint16
  None,       \* no process, no sector
  INTR        \* virtio_disk_intr(), as a holder of vdisk_lock

ASSUME VirtioAssumption ==
  /\ NUM \in Nat /\ NUM >= 3
  /\ WRAP \in Nat \ {0} /\ WRAP % NUM = 0
  /\ None \notin Procs \cup Sector /\ INTR \notin Procs \cup {None}

Index == 0..NUM-1

VARIABLES
  free,                 \* disk.free
  desc,                 \* the descriptor table
  ops, info,            \* command headers; buffer and status of a chain
  avail, avail_idx,     \* the avail ring
  used, dev_used_idx,   \* the used ring
  used_idx,             \* disk.used_idx: how far the driver has looked
  taken, working,       \* device: how far it has looked; the chains it works on
  irq,                  \* the interrupt is pending
  lock,                 \* holder of vdisk_lock
  busy,                 \* b->disk
  data, store,          \* contents of the buffers, and of the disk
  pc, idx,              \* where a process is; its three descriptors
  write, sector         \* its request

tables  == <<free, desc, ops, info>>
rings   == <<avail, avail_idx, used, dev_used_idx, used_idx>>
device  == <<taken, working, irq>>
request == <<write, sector>>
vars    == <<tables, rings, device, lock, busy, data, store, pc, idx, request>>

NoOp   == [write |-> FALSE, sector |-> None]
NoDesc == [addr |-> <<"none", 0>>, more |-> FALSE, next |-> 0]

TypeOK ==
  /\ free \in [Index -> BOOLEAN]
  /\ desc \in [Index -> [addr : ({"none", "ops", "status"} \X Index) \cup ({"data"} \X Procs),
                         more : BOOLEAN, next : Index]]
  /\ ops \in [Index -> [write : BOOLEAN, sector : Sector \cup {None}]]
  /\ info \in [Index -> [b : Procs \cup {None}, status : {0, 255}]]
  /\ avail \in [Index -> Index] /\ used \in [Index -> Index]
  /\ {avail_idx, dev_used_idx, used_idx, taken} \subseteq 0..WRAP-1
  /\ working \subseteq [head : Index, op : Index, b : Procs, status : Index]
  /\ irq \in BOOLEAN
  /\ lock \in Procs \cup {None, INTR}
  /\ busy \in [Procs -> BOOLEAN]
  /\ data \in [Procs -> Value \cup {None}] /\ store \in [Sector -> Value]
  /\ pc \in [Procs -> {"out", "call", "nodesc", "filled", "asleep", "woken"}]
  /\ idx \in [Procs -> Seq(Index)]
  /\ write \in [Procs -> BOOLEAN] /\ sector \in [Procs -> Sector \cup {None}]

\* virtio_disk_init()
Init ==
  /\ free = [k \in Index |-> TRUE]
  /\ desc = [k \in Index |-> NoDesc]
  /\ ops = [k \in Index |-> NoOp]
  /\ info = [k \in Index |-> [b |-> None, status |-> 0]]
  /\ avail = [k \in Index |-> 0] /\ used = [k \in Index |-> 0]
  /\ avail_idx = 0 /\ dev_used_idx = 0 /\ used_idx = 0 /\ taken = 0
  /\ working = {}
  /\ irq = FALSE
  /\ lock = None
  /\ busy = [p \in Procs |-> FALSE]
  /\ data = [p \in Procs |-> None] /\ store \in [Sector -> Value]
  /\ pc = [p \in Procs |-> "out"]
  /\ idx = [p \in Procs |-> <<>>]
  /\ write = [p \in Procs |-> FALSE] /\ sector = [p \in Procs |-> None]

Goto(p, l) == pc' = [pc EXCEPT ![p] = l]

-------------------------------------------------------------------------------
(* virtio_disk_rw()                                                        *)

\* The buffer cache has one buffer for a block, so no two requests concern one
\* sector at a time.
Call(p, w, s, v) ==
  /\ pc[p] = "out"
  /\ \A x \in Procs : sector[x] # s
  /\ write' = [write EXCEPT ![p] = w]
  /\ sector' = [sector EXCEPT ![p] = s]
  /\ data' = [data EXCEPT ![p] = IF w THEN v ELSE None]
  /\ Goto(p, "call")
  /\ UNCHANGED <<tables, rings, device, lock, busy, store, idx>>

\* alloc_desc() finds the free descriptors in ascending order.
Free3 ==
  CHOOSE t \in Index \X Index \X Index :
    /\ t[1] < t[2] /\ t[2] < t[3]
    /\ \A k \in Index : free[k] /\ k < t[3] => k \in {t[1], t[2]}
    /\ free[t[1]] /\ free[t[2]] /\ free[t[3]]

NumFree == Cardinality({k \in Index : free[k]})

\* alloc3_desc() fails: it gives back what it got, and free_desc() wakes the
\* others that wait for descriptors; then p sleeps itself.
AllocFails(p) ==
  /\ pc[p] = "call"
  /\ lock = None
  /\ NumFree < 3
  /\ desc' = [k \in Index |-> IF free[k] THEN NoDesc ELSE desc[k]]
  /\ pc' = [x \in Procs |-> IF x = p THEN "nodesc"
                            ELSE IF pc[x] = "nodesc" /\ NumFree > 0 THEN "call"
                            ELSE pc[x]]
  /\ UNCHANGED <<free, ops, info, rings, device, lock, busy, data, store, idx, request>>

\* Three descriptors are allocated and formatted, and the head of the chain is
\* put into the avail ring, but not yet published.
Fill(p) ==
  LET d == Free3 IN
  /\ pc[p] = "call"
  /\ lock = None
  /\ NumFree >= 3
  /\ free' = [k \in Index |-> free[k] /\ k \notin {d[1], d[2], d[3]}]
  /\ ops' = [ops EXCEPT ![d[1]] = [write |-> write[p], sector |-> sector[p]]]
  /\ desc' = [desc EXCEPT
       ![d[1]] = [addr |-> <<"ops", d[1]>>, more |-> TRUE, next |-> d[2]],
       ![d[2]] = [addr |-> <<"data", p>>, more |-> TRUE, next |-> d[3]],
       ![d[3]] = [addr |-> <<"status", d[1]>>, more |-> FALSE, next |-> 0]]
  /\ info' = [info EXCEPT ![d[1]] = [b |-> p, status |-> 255]]
  /\ busy' = [busy EXCEPT ![p] = TRUE]
  /\ avail' = [avail EXCEPT ![avail_idx % NUM] = d[1]]
  /\ idx' = [idx EXCEPT ![p] = d]
  /\ lock' = p
  /\ Goto(p, "filled")
  /\ UNCHANGED <<avail_idx, used, dev_used_idx, used_idx, device, data, store, request>>

\* Publish the entry and sleep until virtio_disk_intr() has cleared b->disk.
Publish(p) ==
  /\ pc[p] = "filled"
  /\ avail_idx' = (avail_idx + 1) % WRAP
  /\ lock' = None
  /\ Goto(p, "asleep")
  /\ UNCHANGED <<tables, avail, used, dev_used_idx, used_idx, device, busy, data, store, idx, request>>

\* As Finish, but only the head of the chain is freed.
FinishHeadOnly(p) ==
  /\ pc[p] = "woken"
  /\ lock = None
  /\ IF busy[p]
     THEN /\ Goto(p, "asleep")
          /\ UNCHANGED <<free, desc, ops, info, data, idx, request>>
     ELSE /\ free' = [free EXCEPT ![idx[p][1]] = TRUE]
          /\ desc' = [desc EXCEPT ![idx[p][1]] = NoDesc]
          /\ info' = [info EXCEPT ![idx[p][1]].b = None]
          /\ ops' = [ops EXCEPT ![idx[p][1]] = NoOp]
          /\ data' = [data EXCEPT ![p] = None]
          /\ idx' = [idx EXCEPT ![p] = <<>>]
          /\ sector' = [sector EXCEPT ![p] = None]
          /\ write' = [write EXCEPT ![p] = FALSE]
          /\ pc' = [x \in Procs |-> IF x = p THEN "out"
                                    ELSE IF pc[x] = "nodesc" THEN "call" ELSE pc[x]]
  /\ UNCHANGED <<rings, device, lock, busy, store>>

\* free_chain(): the descriptors from k on, as far as VRING_DESC_F_NEXT leads.
Chain(k) ==
  {k} \cup (IF ~desc[k].more THEN {}
            ELSE {desc[k].next} \cup
                 (IF ~desc[desc[k].next].more THEN {}
                  ELSE {desc[desc[k].next].next}))

\* As Finish, but b->disk is not tested again after a wakeup.
FinishUntested(p) ==
  /\ pc[p] = "woken"
  /\ lock = None
  /\ IF FALSE
     THEN /\ Goto(p, "asleep")
          /\ UNCHANGED <<free, desc, ops, info, data, idx, request>>
     ELSE /\ free' = [k \in Index |-> free[k] \/ k \in Chain(idx[p][1])]
          /\ desc' = [k \in Index |-> IF k \in Chain(idx[p][1]) THEN NoDesc ELSE desc[k]]
          /\ info' = [info EXCEPT ![idx[p][1]].b = None]
          /\ ops' = [ops EXCEPT ![idx[p][1]] = NoOp]
          /\ data' = [data EXCEPT ![p] = None]
          /\ idx' = [idx EXCEPT ![p] = <<>>]
          /\ sector' = [sector EXCEPT ![p] = None]
          /\ write' = [write EXCEPT ![p] = FALSE]
          /\ pc' = [x \in Procs |-> IF x = p THEN "out"
                                    ELSE IF pc[x] = "nodesc" THEN "call" ELSE pc[x]]
  /\ UNCHANGED <<rings, device, lock, busy, store>>

\* As Finish, but nobody who waits for descriptors is woken.
FinishSilent(p) ==
  /\ pc[p] = "woken"
  /\ lock = None
  /\ IF busy[p]
     THEN /\ Goto(p, "asleep")
          /\ UNCHANGED <<free, desc, ops, info, data, idx, request>>
     ELSE /\ free' = [k \in Index |-> free[k] \/ k \in Chain(idx[p][1])]
          /\ desc' = [k \in Index |-> IF k \in Chain(idx[p][1]) THEN NoDesc ELSE desc[k]]
          /\ info' = [info EXCEPT ![idx[p][1]].b = None]
          /\ ops' = [ops EXCEPT ![idx[p][1]] = NoOp]
          /\ data' = [data EXCEPT ![p] = None]
          /\ idx' = [idx EXCEPT ![p] = <<>>]
          /\ sector' = [sector EXCEPT ![p] = None]
          /\ write' = [write EXCEPT ![p] = FALSE]
          /\ pc' = [x \in Procs |-> IF x = p THEN "out" ELSE pc[x]]
  /\ UNCHANGED <<rings, device, lock, busy, store>>

\* p is back with vdisk_lock: b->disk is tested again; when the device is done
\* the chain is freed and those that wait for descriptors are woken.
Finish(p) ==
  /\ pc[p] = "woken"
  /\ lock = None
  /\ IF busy[p]
     THEN /\ Goto(p, "asleep")
          /\ UNCHANGED <<free, desc, ops, info, data, idx, request>>
     ELSE /\ free' = [k \in Index |-> free[k] \/ k \in Chain(idx[p][1])]
          /\ desc' = [k \in Index |-> IF k \in Chain(idx[p][1]) THEN NoDesc ELSE desc[k]]
          /\ info' = [info EXCEPT ![idx[p][1]].b = None]
          /\ ops' = [ops EXCEPT ![idx[p][1]] = NoOp]
          /\ data' = [data EXCEPT ![p] = None]
          /\ idx' = [idx EXCEPT ![p] = <<>>]
          /\ sector' = [sector EXCEPT ![p] = None]
          /\ write' = [write EXCEPT ![p] = FALSE]
          /\ pc' = [x \in Procs |-> IF x = p THEN "out"
                                    ELSE IF pc[x] = "nodesc" THEN "call" ELSE pc[x]]
  /\ UNCHANGED <<rings, device, lock, busy, store>>

\* kkill() makes a sleeping process run; the loops test their condition again.
KillWakes(p) ==
  /\ pc[p] \in {"asleep", "nodesc"}
  /\ Goto(p, IF pc[p] = "asleep" THEN "woken" ELSE "call")
  /\ UNCHANGED <<tables, rings, device, lock, busy, data, store, idx, request>>

-------------------------------------------------------------------------------
(* The device: external, as the driver uses it.                            *)

\* It follows a chain that has been published: header, data, status.
DevTake ==
  LET h == avail[taken % NUM]
      second == desc[h].next
      third  == desc[second].next
  IN
  /\ taken # avail_idx
  /\ desc[h].addr[1] = "ops" /\ desc[second].addr[1] = "data"
  /\ desc[third].addr[1] = "status"
  /\ working' = working \cup {[head |-> h, op |-> desc[h].addr[2],
                               b |-> desc[second].addr[2],
                               status |-> desc[third].addr[2]]}
  /\ taken' = (taken + 1) % WRAP
  /\ avail' = [avail EXCEPT ![taken % NUM] = 0]
  /\ UNCHANGED <<tables, avail_idx, used, dev_used_idx, used_idx, irq, lock, busy, data, store, pc, idx, request>>

\* It does the transfer, writes the status, adds a used entry and interrupts.
DevDone(r) ==
  LET s == ops[r.op].sector IN
  /\ r \in working
  /\ working' = working \ {r}
  /\ IF ops[r.op].write
     THEN store' = [store EXCEPT ![s] = data[r.b]] /\ UNCHANGED data
     ELSE data' = [data EXCEPT ![r.b] = store[s]] /\ UNCHANGED store
  /\ info' = [info EXCEPT ![r.status].status = 0]
  /\ used' = [used EXCEPT ![dev_used_idx % NUM] = r.head]
  /\ dev_used_idx' = (dev_used_idx + 1) % WRAP
  /\ irq' = TRUE
  /\ UNCHANGED <<free, desc, ops, avail, avail_idx, used_idx, taken, lock, busy, pc, idx, request>>

-------------------------------------------------------------------------------
(* virtio_disk_intr()                                                      *)

IntrAck ==
  /\ irq
  /\ lock = None
  /\ irq' = FALSE
  /\ lock' = INTR
  /\ UNCHANGED <<tables, rings, taken, working, busy, data, store, pc, idx, request>>

\* As IntrStep, but the entries are taken for those of the avail ring.
IntrStepInOrder ==
  LET b == info[avail[used_idx % NUM]].b IN
  /\ lock = INTR
  /\ used_idx # dev_used_idx
  /\ b # None
  /\ busy' = [busy EXCEPT ![b] = FALSE]
  /\ pc' = [x \in Procs |-> IF x = b /\ pc[x] = "asleep" THEN "woken" ELSE pc[x]]
  /\ used_idx' = (used_idx + 1) % WRAP
  /\ used' = [used EXCEPT ![used_idx % NUM] = 0]
  /\ UNCHANGED <<tables, avail, avail_idx, dev_used_idx, device, lock, data, store, idx, request>>

\* As IntrStep, but disk.used_idx stays.
IntrStepForgets ==
  LET b == info[used[used_idx % NUM]].b IN
  /\ lock = INTR
  /\ used_idx # dev_used_idx
  /\ b # None
  /\ busy' = [busy EXCEPT ![b] = FALSE]
  /\ pc' = [x \in Procs |-> IF x = b /\ pc[x] = "asleep" THEN "woken" ELSE pc[x]]
  /\ UNCHANGED used_idx
  /\ UNCHANGED used
  /\ UNCHANGED <<tables, avail, avail_idx, dev_used_idx, device, lock, data, store, idx, request>>

\* One used entry: its buffer is done, and whoever sleeps on it is woken.
IntrStep ==
  LET b == info[used[used_idx % NUM]].b IN
  /\ lock = INTR
  /\ used_idx # dev_used_idx
  /\ b # None
  /\ busy' = [busy EXCEPT ![b] = FALSE]
  /\ pc' = [x \in Procs |-> IF x = b /\ pc[x] = "asleep" THEN "woken" ELSE pc[x]]
  /\ used_idx' = (used_idx + 1) % WRAP
  /\ used' = [used EXCEPT ![used_idx % NUM] = 0]
  /\ UNCHANGED <<tables, avail, avail_idx, dev_used_idx, device, lock, data, store, idx, request>>

IntrEnd ==
  /\ lock = INTR
  /\ used_idx = dev_used_idx
  /\ lock' = None
  /\ UNCHANGED <<tables, rings, device, busy, data, store, pc, idx, request>>

-------------------------------------------------------------------------------
Next ==
  \/ \E p \in Procs :
       \/ \E w \in BOOLEAN, s \in Sector, v \in Value : Call(p, w, s, v)
       \/ AllocFails(p) \/ Fill(p) \/ Publish(p) \/ Finish(p) \/ KillWakes(p)
  \/ DevTake
  \/ \E r \in working : DevDone(r)
  \/ IntrAck \/ IntrStep \/ IntrEnd

Spec == Init /\ [][Next]_vars

-------------------------------------------------------------------------------
(* Properties.                                                             *)

\* The requests whose chain is in use: from Fill to Finish.
Active == {p \in Procs : pc[p] \in {"filled", "asleep", "woken"}}
Owned(p) == {idx[p][1], idx[p][2], idx[p][3]}

\* The ring positions from a up to b, where the indexes wrap.
Pending(a, b) == {k \in 0..WRAP-1 : (k - a) % WRAP < (b - a) % WRAP}

\* A descriptor is free or belongs to the chain of one request: free_chain()
\* gives back exactly what alloc3_desc() took, and the panics of free_desc()
\* are unreachable.
DescriptorsAccounted ==
  /\ TypeOK
  /\ \A k \in Index : free[k] <=> \A p \in Active : k \notin Owned(p)
  /\ \A p, x \in Active : p # x => Owned(p) \cap Owned(x) = {}
  /\ \A p \in Active : Chain(idx[p][1]) = Owned(p)

\* What the device will read without the lock is complete and still there:
\* every published entry leads to the header, buffer and status of a request
\* that waits.
PublishedIsComplete ==
  \A k \in Pending(taken, avail_idx) :
    LET h == avail[k % NUM] IN
    \E p \in Active :
      /\ idx[p][1] = h /\ info[h] = [b |-> p, status |-> 255]
      /\ ops[h] = [write |-> write[p], sector |-> sector[p]]
      /\ desc[idx[p][2]].addr = <<"data", p>>

\* virtio_disk_intr() finds the buffer and status 0 for every used entry, also
\* when requests finish out of order and descriptors are reused.
UsedEntryIsMine ==
  \A k \in Pending(used_idx, dev_used_idx) :
    LET h == used[k % NUM] IN
    info[h].b \in Active /\ busy[info[h].b] /\ info[h].status = 0

\* A request that may return has been transferred, and the device has nothing
\* of it any more.
DoneIsDone ==
  \A p \in Active : ~busy[p] =>
    /\ data[p] = store[sector[p]]
    /\ \A r \in working : r.b # p
    /\ \A k \in Pending(taken, avail_idx) : avail[k % NUM] # idx[p][1]

\* Nobody sleeps for ever: while three descriptors are free nobody waits for
\* descriptors, and while a used entry has not been looked at an interrupt that
\* will see it is pending or running.
NobodyStranded ==
  /\ \A p \in Procs : pc[p] = "nodesc" => NumFree < 3
  /\ used_idx # dev_used_idx => irq \/ lock = INTR
===============================================================================
