------------------------------- MODULE FsTree -------------------------------
(***************************************************************************)
(* The directory tree of kernel/fs.c and kernel/sysfile.c on a logged disk *)
(* that may lose power at every block write, and the image fsck.py would   *)
(* find.  Operations are serialised: each is one group of the log, the     *)
(* interleavings inside a group being those of Log and LogDisk.            *)
(***************************************************************************)
EXTENDS Fsck, FiniteSetsExt
LOCAL INSTANCE SequencesExt

CONSTANTS Names, MaxOps, MaxCrashes

VARIABLES home,    \* the home blocks on disk
          cache,   \* the blocks as the buffer cache has them
          targets, \* the header's block list, empty when it is cleared
          copies,  \* the copies in the log area
          phase,   \* "run", "log", "install", "replay", "reclaim", "hurt", "off"
          pos,     \* blocks installed so far
          open,    \* inodes with a reference beyond a system call
          up,      \* the system has booted
          expect,  \* what the self-test wants said of a damaged image
          ops, crashes,
          magic, count \* the superblock's magic, and the header's count

fsvars == <<home, cache, targets, copies, phase, pos, open, up, ops, crashes, magic, count,
           expect>>
image  == [magic |-> magic, home |-> home, count |-> count, targets |-> targets,
           copies |-> copies]

FreeInode == [type |-> "free", nlink |-> 0, size |-> 0, addrs |-> <<0, 0>>]
Zeroed    == [ents |-> [s \in Slots |-> NoEntry], ptr |-> 0]
Entry(n, i) == [name |-> n, inum |-> i]

(* What mkfs leaves: a root directory in the first data block. *)
MkfsTree ==
    [ino |-> [i \in Inums |-> IF i = ROOTINO
                THEN [type |-> "dir", nlink |-> 1, size |-> 1, addrs |-> <<data_start, 0>>]
                ELSE FreeInode],
     map |-> 0..data_start,
     blk |-> [b \in DataBlocks |-> IF b = data_start
                THEN [Zeroed EXCEPT !.ents[1] = Entry(".", 1), !.ents[2] = Entry("..", 1)]
                ELSE Zeroed]]

----------------------------------------------------------------------------
(* The pieces of the kernel's operations, on a tree. *)
Full(t)       == (0..(size - 1)) \subseteq t.map
balloc(t)     == Min((0..(size - 1)) \ t.map)
Taken(t)      == [t EXCEPT !.map = @ \cup {balloc(t)}, !.blk[balloc(t)] = Zeroed]
FreeInums(t)  == {i \in Inums : t.ino[i].type = "free"}

(* bmap of the block after the last one: direct, or through the indirect    *)
(* block, which stays allocated when no block is left for the data.         *)
bmap(t, i) ==
    IF t.ino[i].size = 0
    THEN IF t.ino[i].addrs[1] # 0 \/ Full(t) THEN t
         ELSE [Taken(t) EXCEPT !.ino[i].addrs[1] = balloc(t)]
    ELSE LET u == IF t.ino[i].addrs[2] # 0 \/ Full(t) THEN t
                  ELSE [Taken(t) EXCEPT !.ino[i].addrs[2] = balloc(t)]
             ind == u.ino[i].addrs[2]
         IN  IF ind = 0 \/ Full(u) THEN u
             ELSE IF u.blk[ind].ptr # 0 THEN u
             ELSE [Taken(u) EXCEPT !.blk[ind].ptr = balloc(u)]

(* writei of one block at the end; a failed copy leaves the size alone. *)
writei(t, i, copied) ==
    LET u == bmap(t, i)
    IN  IF copied /\ logical(u, i)[t.ino[i].size + 1] # 0
        THEN [u EXCEPT !.ino[i].size = @ + 1] ELSE u

(* Mutant of itrunc: the block behind the indirect block is not freed. *)
itruncShallow(t, i) ==
    [t EXCEPT !.map = @ \ {t.ino[i].addrs[k] : k \in 1..2},
              !.ino[i].addrs = <<0, 0>>, !.ino[i].size = 0]
itrunc(t, i) ==
    [t EXCEPT !.map = @ \ {x[3] : x \in addresses(t, i)},
              !.ino[i].addrs = <<0, 0>>, !.ino[i].size = 0]

(* iput of the last reference: an unlinked inode is freed. *)
iput(t, i, referenced) ==
    IF i \in referenced \/ t.ino[i].nlink # 0 THEN t
    ELSE [itrunc(t, i) EXCEPT !.ino[i] = FreeInode]

(* The entries of directory d, and the slot dirlookup finds. *)
Dir(t, d)  == t.blk[t.ino[d].addrs[1]].ents
Lookup(t, d, n) == {s \in Slots : Dir(t, d)[s].inum # 0 /\ Dir(t, d)[s].name = n}
Free(t, d) == {s \in Slots : Dir(t, d)[s].inum = 0}
SetEntry(t, d, s, e) == [t EXCEPT !.blk[t.ino[d].addrs[1]].ents[s] = e]
dirlink(t, d, n, i)  == SetEntry(t, d, Min(Free(t, d)), Entry(n, i))
isdirempty(t, i)     == \A s \in Slots \ {1, 2} : Dir(t, i)[s].inum = 0

create(t, d, n, type) ==
    LET i == Min(FreeInums(t))
        u == [t EXCEPT !.ino[i] = [FreeInode EXCEPT !.type = type, !.nlink = 1]]
        w == writei(u, i, TRUE)
        p == dirlink(dirlink(w, i, ".", i), i, "..", d)
    IN  IF type = "file" THEN dirlink(u, d, n, i)
        ELSE IF w.ino[i].size = 0 THEN t
        ELSE [dirlink(p, d, n, i) EXCEPT !.ino[d].nlink = @ + 1]

unlink(t, d, s, referenced) ==
    LET i == Dir(t, d)[s].inum
        u == SetEntry(t, d, s, NoEntry)
        w == IF t.ino[i].type = "dir" THEN [u EXCEPT !.ino[d].nlink = @ - 1] ELSE u
    IN  iput([w EXCEPT !.ino[i].nlink = @ - 1], i, referenced)

link(t, i, d, n) == dirlink([t EXCEPT !.ino[i].nlink = @ + 1], d, n, i)

----------------------------------------------------------------------------
(* The blocks an operation changed, in block order. *)
Changed(t, u) ==
    SetToSortSeq({b \in {inodestart, bmapstart} \cup DataBlocks :
                    Install(t, b, u) # t}, <)

(* end_op of the operation that made tree u: nothing to commit, or the      *)
(* blocks go to the log area.                                               *)
Commit(u) ==
    IF u = cache THEN UNCHANGED <<cache, copies, phase>>
    ELSE cache' = u /\ copies' = u /\ phase' = "log"

Operate(u) ==
    /\ phase = "run" /\ ops < MaxOps /\ ops' = ops + 1
    /\ Commit(u)
    /\ UNCHANGED <<home, targets, pos, up, crashes, magic, count, expect>>

(* The directories a path leads to.  A process may also stand in a removed  *)
(* directory; paths relative to one are left out.                           *)
InTree == walk(cache).reach
Dirs   == InTree \cap dirs(cache)

OpenFile(i) ==
    /\ phase = "run" /\ i \in InTree \ open
    /\ ops < MaxOps /\ ops' = ops + 1
    /\ open' = open \cup {i}
    /\ UNCHANGED <<home, cache, targets, copies, phase, pos, up, crashes, magic, count, expect>>

Creat(d, n) ==
    /\ phase = "run" /\ d \in Dirs /\ Lookup(cache, d, n) = {} /\ FreeInums(cache) # {}
    /\ open' = open \cup {Min(FreeInums(cache))}
    /\ Operate(create(cache, d, n, "file"))

Mkdir(d, n) ==
    /\ phase = "run" /\ d \in Dirs /\ Lookup(cache, d, n) = {} /\ FreeInums(cache) # {}
    /\ Operate(create(cache, d, n, "dir"))
    /\ UNCHANGED open

Link(i, d, n) ==
    /\ phase = "run" /\ i \in InTree \ dirs(cache) /\ d \in Dirs /\ Lookup(cache, d, n) = {}
    /\ Operate(link(cache, i, d, n))
    /\ UNCHANGED open

UnlinkEntry(d, n) ==
    /\ phase = "run" /\ d \in Dirs
    /\ \E s \in Lookup(cache, d, n) :
         /\ Dir(cache, d)[s].inum \in dirs(cache)
              => isdirempty(cache, Dir(cache, d)[s].inum)
         /\ Operate(unlink(cache, d, s, open))
    /\ UNCHANGED open

Write(i, copied) ==
    /\ phase = "run" /\ i \in open \ dirs(cache) /\ cache.ino[i].size < 2
    /\ Operate(writei(cache, i, copied))
    /\ UNCHANGED open

(* open with O_TRUNC. *)
Truncate(i) ==
    /\ phase = "run" /\ i \in InTree \ (dirs(cache) \cup open)
    /\ Operate(itrunc(cache, i))
    /\ open' = open \cup {i}

(* fileclose, or chdir away from i. *)
CloseFile(i) ==
    /\ i \in open
    /\ open' = open \ {i}
    /\ Operate(iput(cache, i, open'))

----------------------------------------------------------------------------
(* commit: the header, the home blocks one by one, the header again. *)
WriteHead ==
    /\ phase = "log"
    /\ targets' = Changed(home, cache) /\ count' = Len(targets')
    /\ phase' = "install" /\ pos' = 0
    /\ UNCHANGED <<home, cache, copies, open, up, ops, crashes, magic, expect>>

InstallBlock ==
    /\ phase \in {"install", "replay"} /\ pos < count
    /\ home' = Install(home, targets[pos + 1], copies)
    /\ pos' = pos + 1
    /\ UNCHANGED <<cache, targets, copies, phase, open, up, ops, crashes, magic, count, expect>>

(* The group is over; before the system is up ireclaim goes on. *)
ClearHead ==
    /\ phase \in {"install", "replay"} /\ pos = count
    /\ targets' = <<>> /\ count' = 0 /\ pos' = 0
    /\ cache' = home
    /\ phase' = IF up THEN "run" ELSE "reclaim"
    /\ UNCHANGED <<home, copies, open, up, ops, crashes, magic, expect>>

(* ireclaim: each inode without links is freed in a group of its own. *)
Orphans(t) == {i \in inodes(t) : t.ino[i].nlink = 0}

ReclaimNext ==
    /\ phase = "reclaim" /\ Orphans(cache) # {}
    /\ Commit(iput(cache, Min(Orphans(cache)), {}))
    /\ UNCHANGED <<home, targets, pos, open, up, ops, crashes, magic, count, expect>>

ReclaimDone ==
    /\ phase = "reclaim" /\ Orphans(cache) = {}
    /\ phase' = "run" /\ up' = TRUE
    /\ UNCHANGED <<home, cache, targets, copies, pos, open, ops, crashes, magic, count, expect>>

(* Power is lost: only the disk stays, and the next boot starts to replay.  *)
(* The home block that was being installed may be torn.                     *)
Torn == [ino |-> [i \in Inums |-> FreeInode], map |-> {},
         blk |-> [b \in DataBlocks |-> [Zeroed EXCEPT !.ptr = size]]]

Crash(tear) ==
    /\ phase \notin {"hurt", "off"} /\ crashes < MaxCrashes /\ crashes' = crashes + 1
    /\ tear => phase \in {"install", "replay"} /\ pos < count
    /\ home' = IF tear THEN Install(home, targets[pos + 1], Torn) ELSE home
    /\ phase' = "replay" /\ pos' = 0 /\ up' = FALSE
    /\ open' = {} /\ cache' = home'
    /\ UNCHANGED <<targets, copies, ops, magic, count, expect>>

----------------------------------------------------------------------------
(* Damage to the image of a system that stopped with nothing open.  (The    *)
(* images of a system that crashed before are left alone to bound the run.) *)
Stopped == phase = "run" /\ open = {} /\ crashes = 0

Hurt(code) ==
    /\ Stopped
    /\ phase' = "hurt" /\ expect' = code
    /\ UNCHANGED <<cache, pos, open, up, ops, crashes>>

OnDisk(code, t) ==
    /\ Hurt(code) /\ home' = t
    /\ UNCHANGED <<targets, copies, magic, count>>

InLog(code, n, list, t, c) ==
    /\ Hurt(code) /\ home' = t /\ count' = n /\ targets' = list /\ copies' = c
    /\ UNCHANGED magic

(* fsck_mutation_self_test: what it does to the pristine image is done here *)
(* to every image the kernel leaves, with the diagnosis it asks for.        *)
Files(t)   == {i \in inodes(t) : t.ino[i].type = "file" /\ t.ino[i].addrs[1] # 0
                                   /\ t.ino[i].size > 0}
Unmark(t, b)  == [t EXCEPT !.map = @ \ {b}]
Retarget(t, s, i) == [t EXCEPT !.blk[data_start].ents[s].inum = i]
First(t, i)   == t.ino[i].addrs[1]
Single(t) == {s \in Slots \ {1, 2} : LET i == Dir(t, ROOTINO)[s].inum
                IN  i # 0 /\ t.ino[i].type = "file" /\ t.ino[i].nlink = 1}

SelfTestSuper == /\ Hurt("E_SUPER_MAGIC") /\ magic' = FALSE
                 /\ UNCHANGED <<home, targets, copies, count>>

SelfTestLog ==
    \/ InLog("E_LOG_COUNT", LOGBLOCKS + 1, <<>>, home, home)
    \/ InLog("E_LOG_TARGET", 1, <<logstart>>, home, home)

SelfTestPending == \E i \in Files(home) :
    \/ InLog("clean", 1, <<bmapstart>>, Unmark(home, First(home, i)), home)
    \/ InLog("E_BITMAP_UNMARKED", 1, <<bmapstart>>, home, Unmark(home, First(home, i)))

SelfTestBitmap ==
    \/ OnDisk("E_BITMAP_METADATA", Unmark(home, 0))
    \/ \E i \in Files(home) : OnDisk("E_BITMAP_UNMARKED", Unmark(home, First(home, i)))
    \/ \E b \in DataBlocks \ home.map :
         OnDisk("E_BITMAP_LEAK", [home EXCEPT !.map = @ \cup {b}])

SelfTestFile == \E i \in Files(home) :
    \/ OnDisk("E_INODE_HOLE", [home EXCEPT !.ino[i].addrs[1] = 0])
    \/ \E b \in DataBlocks \ home.map : /\ home.ino[i].size < 2
         /\ OnDisk("E_INODE_TRAILING", [home EXCEPT !.ino[i].addrs[2] = b])
    \/ \E v \in Files(home) \ {i} :
         OnDisk("E_BLOCK_DUP", [Unmark(home, First(home, v))
                                  EXCEPT !.ino[v].addrs[1] = First(home, i)])

SelfTestDirectory ==
    \/ OnDisk("E_DOT", Retarget(home, 1, 0))
    \/ \E i \in Files(home) : OnDisk("E_DOTDOT", Retarget(home, 2, i))

SelfTestLinks == \E s \in Single(home) :
    LET i == Dir(home, ROOTINO)[s].inum
        cut == Retarget(home, s, 0)
    IN  \/ OnDisk("E_UNREACHABLE", cut)
        \/ OnDisk("E_NLINK", [home EXCEPT !.ino[i].nlink = @ + 1])
        \/ OnDisk("E_ORPHAN", [cut EXCEPT !.ino[i].nlink = 0])

(* One field of one structure gets any other value, or the header of a      *)
(* committed group another count or target (run_tears); a block nobody owns *)
(* is read by nobody.                                                       *)
Addresses == {0, bmapstart, size} \cup DataBlocks

DamageInode == \E i \in Inums :
    \/ \E y \in {"free", "dir", "file", "odd"} : OnDisk("", [home EXCEPT !.ino[i].type = y])
    \/ \E n \in 0..3 : OnDisk("", [home EXCEPT !.ino[i].nlink = n])
    \/ \E n \in 0..3 : OnDisk("", [home EXCEPT !.ino[i].size = n])
    \/ \E k \in 1..2, a \in Addresses : OnDisk("", [home EXCEPT !.ino[i].addrs[k] = a])

DamageBlock == \E b \in DataBlocks \cap home.map :
    \/ \E a \in Addresses : OnDisk("", [home EXCEPT !.blk[b].ptr = a])
    \/ \E s \in Slots, i \in Inums \cup {0, size} :
         OnDisk("", [home EXCEPT !.blk[b].ents[s].inum = i])
    \/ \E s \in Slots, n \in Names \cup {"", ".", ".."} :
         OnDisk("", [home EXCEPT !.blk[b].ents[s].name = n])

DamageHeader ==
    /\ phase = "install" /\ phase' = "hurt"
    /\ \/ count' = 0 /\ UNCHANGED targets
       \/ \E k \in DOMAIN targets, b \in {logstart, size, inodestart} :
            targets' = [targets EXCEPT ![k] = b] /\ UNCHANGED count
    /\ UNCHANGED <<home, cache, copies, pos, open, up, ops, crashes, magic, expect>>

FsStart(t, p) ==
    /\ home = t /\ cache = t /\ copies = t
    /\ targets = <<>> /\ count = 0 /\ phase = p /\ pos = 0 /\ open = {}
    /\ up = TRUE /\ ops = 0 /\ crashes = 0 /\ magic = TRUE /\ expect = ""
FsInit == FsStart(MkfsTree, "run")

FsNext ==
    \/ \E d \in Inums, n \in Names : Creat(d, n) \/ Mkdir(d, n) \/ UnlinkEntry(d, n)
    \/ \E i \in Inums : OpenFile(i) \/ Truncate(i) \/ CloseFile(i)
    \/ \E i, d \in Inums, n \in Names : Link(i, d, n)
    \/ \E i \in Inums, copied \in BOOLEAN : Write(i, copied)
    \/ WriteHead \/ InstallBlock \/ ClearHead \/ ReclaimNext \/ ReclaimDone
    \/ \E tear \in BOOLEAN : Crash(tear)
    \/ Stopped /\ (SelfTestSuper \/ SelfTestLog \/ SelfTestPending \/ SelfTestBitmap
                     \/ SelfTestFile \/ SelfTestDirectory \/ SelfTestLinks
                     \/ DamageInode \/ DamageBlock)
    \/ DamageHeader

FsSpec == FsInit /\ [][FsNext]_fsvars
----------------------------------------------------------------------------
(* fsck.py on what the kernel leaves behind, whatever step the power failed *)
(* at: it complains only of unlinked inodes (and of the ".." of an unlinked *)
(* directory), which once the system is up and idle are exactly ones still  *)
(* open, and of a block a short write left after the end of a file.         *)
OnlyOrphansFound ==
    phase \notin {"hurt", "off"} =>
        LET v == shadow(image)
        IN  \A d \in diagnostics(image) :
              \/ /\ d[1] \in {"E_ORPHAN", "E_DIRENT_INUM"} /\ v.ino[d[2]].nlink = 0
                 /\ up /\ phase = "run" => d[2] \in open
              \/ d[1] = "E_INODE_TRAILING" /\ v.ino[d[2]].type = "file"

(* Every damage of the self-test gets its diagnosis on every image, and a   *)
(* pending log that repairs the home block is accepted.                     *)
DamageDiagnosed ==
    phase = "hurt" /\ expect # "" =>
        IF expect = "clean" THEN diagnostics(image) = inspect_view(copies)
        ELSE \E d \in diagnostics(image) : d[1] = expect

(* A file system as it should be, said without walking it: the blocks of    *)
(* the inodes, the bitmap, and a tree of directories in which each has one  *)
(* parent, nearer to the root.                                              *)
Entries(v, d) ==
    {x \in {logical(v, d)[k] : k \in 1..v.ino[d].size} \X Slots :
        v.blk[x[1]].ents[x[2]].inum # 0}
At(v, x) == v.blk[x[1]].ents[x[2]]
Children(v, d) == {x \in Entries(v, d) : At(v, x).name \notin {".", ".."}}

SoundBlocks(v, live) ==
    /\ \A i \in live :
         /\ v.ino[i].type # "odd" /\ v.ino[i].size <= 2
         /\ \A k \in 1..2 : /\ (v.ino[i].addrs[k] # 0) = (v.ino[i].size >= k)
                            /\ (logical(v, i)[k] # 0) = (v.ino[i].size >= k)
         /\ \A x \in addresses(v, i) : x[3] \in DataBlocks
    /\ v.map = 0..(data_start - 1)
                 \cup UNION {{x[3] : x \in addresses(v, i)} : i \in live}
    /\ \A i, j \in live : \A x \in addresses(v, i), y \in addresses(v, j) :
         x[3] = y[3] => i = j /\ x = y

SoundTree(v, D, parent) ==
    /\ \A d \in D \ {ROOTINO} :
         Cardinality({x \in Children(v, parent[d]) : At(v, x).inum = d}) = 1
    /\ \A d \in D :
         /\ Entry(".", d) \in {At(v, x) : x \in Entries(v, d)}
         /\ Entry("..", parent[d]) \in {At(v, x) : x \in Entries(v, d)}
         /\ v.ino[d].nlink = Cardinality({c \in D \ {d} : parent[c] = d}) + 1
         /\ \A x \in Children(v, d) :
              At(v, x).inum \in D => At(v, x).inum # ROOTINO /\ parent[At(v, x).inum] = d

Sound(v) ==
    LET live == {i \in Inums : v.ino[i].type # "free"}
        D    == {i \in live : v.ino[i].type = "dir"}
    IN  /\ ROOTINO \in D
        /\ SoundBlocks(v, live)
        /\ \A d \in D :
             /\ \A x \in Entries(v, d) : At(v, x).name # "" /\ At(v, x).inum \in live
             /\ \A x, y \in Entries(v, d) : At(v, x).name = At(v, y).name => x = y
        /\ \E parent \in [D -> D], depth \in [D -> 0..(Cardinality(D) - 1)] :
             /\ parent[ROOTINO] = ROOTINO
             /\ \A d \in D \ {ROOTINO} : depth[parent[d]] < depth[d]
             /\ SoundTree(v, D, parent)
        /\ \A i \in live \ D :
             /\ v.ino[i].nlink > 0
             /\ v.ino[i].nlink = Cardinality({<<d, x>> \in
                    UNION {{d} \X Children(v, d) : d \in D} : At(v, x).inum = i})

(* fsck.py calls an image clean exactly when replaying its log gives a      *)
(* sound file system: whatever one field is damaged to, nothing it accepts  *)
(* is broken and nothing it rejects was in order.                           *)
CleanIsSound ==
    phase # "off" =>
        (clean(image) <=> magic /\ parse_log(image) = {} /\ Sound(shadow(image)))
=============================================================================
