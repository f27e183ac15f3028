-------------------------------- MODULE Fsck --------------------------------
(***************************************************************************)
(* resources/recovery/fsck.py, the offline checker of an xv6 image: the    *)
(* log, the replayed shadow, inodes, block ownership, the bitmap, the      *)
(* directory walk and the verdict.  An inode has one direct and one        *)
(* indirect block (NDIRECT = NINDIRECT = 1), sizes are in blocks, and a    *)
(* directory block has four entries.  Devices are left out.                *)
(* A diagnostic is <<code, number>>: the inode or block it is about.       *)
(***************************************************************************)
EXTENDS Naturals, Sequences, FiniteSets
LOCAL INSTANCE SequencesExt
LOCAL INSTANCE FiniteSetsExt

CONSTANTS Inums, DataBlocks, LOGBLOCKS

ASSUME GeometryAssumption ==
    /\ 1 \in Inums /\ Inums \subseteq Nat \ {0} /\ LOGBLOCKS \in Nat
    /\ DataBlocks = (LOGBLOCKS + 5)..(LOGBLOCKS + 4 + Cardinality(DataBlocks))

ROOTINO    == 1
logstart   == 2
inodestart == logstart + LOGBLOCKS + 1
bmapstart  == inodestart + 1
data_start == bmapstart + 1
size       == data_start + Cardinality(DataBlocks)
InData(b)  == data_start <= b /\ b < size

Slots == 1..4
(* The view of an image that inspect_view gets: the inode block, the bitmap *)
(* block (the set of marked blocks) and the data blocks, each of which may  *)
(* be read as directory entries or as an indirect block.                    *)
Install(view, b, copy) ==
    CASE b = inodestart -> [view EXCEPT !.ino = copy.ino]
      [] b = bmapstart  -> [view EXCEPT !.map = copy.map]
      [] OTHER          -> [view EXCEPT !.blk[b] = copy.blk[b]]

(* The log header's verdict; {} when the log can be replayed. *)
parse_log(img) ==
    IF img.count > LOGBLOCKS THEN {<<"E_LOG_COUNT", 0>>}
    ELSE {<<"E_LOG_TARGET", i>> : i \in {j \in 1..img.count :
             \/ img.targets[j] < inodestart \/ img.targets[j] >= size
             \/ logstart <= img.targets[j] /\ img.targets[j] < inodestart}}
         \cup {<<"E_LOG_DUP", i>> : i \in {j \in 1..img.count :
             \E k \in 1..(j - 1) : img.targets[k] = img.targets[j]}}

(* Mutant of shadow: the last logged block is not replayed. *)
shadowShort(img) ==
    FoldLeft(LAMBDA v, b : Install(v, b, img.copies), img.home,
             SubSeq(img.targets, 1, img.count - 1))
shadow(img) ==
    FoldLeft(LAMBDA v, b : Install(v, b, img.copies), img.home,
             SubSeq(img.targets, 1, img.count))

----------------------------------------------------------------------------
(* The logical blocks of inode i, the addresses it names, its complaints. *)
logical(v, i) ==
    LET a == v.ino[i].addrs
    IN  <<a[1], IF InData(a[2]) THEN v.blk[a[2]].ptr ELSE 0>>

addresses(v, i) ==
    LET a == v.ino[i].addrs
    IN  {x \in {<<"data", 1, a[1]>>, <<"indirect", 1, a[2]>>,
                <<"data", 2, logical(v, i)[2]>>} : x[3] # 0}

(* Mutant of inode_blocks: an empty indirect block is not seen. *)
inode_blocksLax(v, i) ==
    LET required == v.ino[i].size
    IN  {<<"E_INODE_HOLE", i>> : k \in {j \in 1..2 :
            j <= required /\ logical(v, i)[j] = 0}}
        \cup {<<"E_INODE_TRAILING", i>> : k \in {j \in 1..2 :
            j > required /\ logical(v, i)[j] # 0}}
        \cup {<<"E_BLOCK_REGION", x[3]>> : x \in {y \in addresses(v, i) :
            ~InData(y[3])}}
inode_blocks(v, i) ==
    LET required == v.ino[i].size
    IN  {<<"E_INODE_HOLE", i>> : k \in {j \in 1..2 :
            j <= required /\ logical(v, i)[j] = 0}}
        \cup {<<"E_INODE_TRAILING", i>> : k \in {j \in 1..2 :
            j > required /\ logical(v, i)[j] # 0}}
        \cup {<<"E_INODE_TRAILING", i>> : k \in {j \in {2} :
            required <= 1 /\ v.ino[i].addrs[j] # 0}}
        \cup {<<"E_BLOCK_REGION", x[3]>> : x \in {y \in addresses(v, i) :
            ~InData(y[3])}}

(* The inodes parse_inodes keeps. *)
inodes(v) == {i \in Inums : v.ino[i].type \in {"dir", "file"}}

parse_inodes(v) ==
    {<<"E_INODE_TYPE", i>> : i \in {j \in Inums : v.ino[j].type = "odd"}}
      \cup {<<"E_INODE_SIZE", i>> : i \in {j \in inodes(v) : v.ino[j].size > 2}}
      \cup (IF ROOTINO \in inodes(v) /\ v.ino[ROOTINO].type = "dir"
            THEN {} ELSE {<<"E_ROOT", ROOTINO>>})

(* Who owns a data block: inode, kind and index. *)
owners(v, b) ==
    {x \in UNION {{i} \X addresses(v, i) : i \in inodes(v)} : x[2][3] = b}

ownership(v) ==
    LET own == [b \in data_start..(size - 1) |-> Cardinality(owners(v, b))]
    IN  {<<"E_BLOCK_DUP", b>> : b \in {c \in DOMAIN own : own[c] > 1}}
        \cup {<<"E_BITMAP_UNMARKED", b>> : b \in {c \in DOMAIN own :
                own[c] > 0 /\ c \notin v.map}}
        \cup {<<"E_BITMAP_LEAK", b>> : b \in {c \in DOMAIN own :
                own[c] = 0 /\ c \in v.map}}
        \cup {<<"E_BITMAP_METADATA", b>> : b \in (0..(data_start - 1)) \ v.map}

----------------------------------------------------------------------------
(* Directories. *)
NoEntry == [name |-> "", inum |-> 0]

(* read_inode_bytes: a hole reads as zeroes. *)
payload(v, d) ==
    LET block(k) == IF k <= 2 /\ InData(logical(v, d)[k])
                    THEN v.blk[logical(v, d)[k]].ents ELSE [s \in Slots |-> NoEntry]
    IN  SelectSeq(FlattenSeq([k \in 1..v.ino[d].size |-> block(k)]),
                  LAMBDA e : e.inum # 0)

read_holes(v, d) ==
    {<<"E_INODE_HOLE", d>> : k \in {j \in 1..v.ino[d].size :
        j > 2 \/ ~InData(logical(v, d)[j])}}

named(v, d)   == SelectSeq(payload(v, d), LAMBDA e : e.name # "")
good(v, d)    == SelectSeq(named(v, d), LAMBDA e : e.inum \in inodes(v))
edges(v, d)   == SelectSeq(good(v, d), LAMBDA e : e.name \notin {".", ".."})
dots(v, d)    == \E k \in DOMAIN good(v, d) : good(v, d)[k].name = "."
dotdot(v, d)  ==
    LET up == SelectSeq(good(v, d), LAMBDA e : e.name = "..")
    IN  IF up = <<>> THEN 0 ELSE up[Len(up)].inum

dirs(v) == {i \in inodes(v) : v.ino[i].type = "dir"}

directory(v, d) ==
    LET all   == payload(v, d)
        names == named(v, d)
    IN  read_holes(v, d)
        \cup {<<"E_DIR_NAME", d>> : k \in {j \in DOMAIN all : all[j].name = ""}}
        \cup {<<"E_DIR_NAME_DUP", d>> : k \in {j \in DOMAIN names :
                \E h \in 1..(j - 1) : names[h].name = names[j].name}}
        \cup {<<"E_DIRENT_INUM", d>> : k \in {j \in DOMAIN names :
                names[j].inum \notin inodes(v)}}
        \cup {<<"E_DOT", d>> : k \in {j \in DOMAIN names :
                names[j].name = "." /\ names[j].inum \in inodes(v) \ {d}}}

references(v, i) ==
    LET into(d) == Len(SelectSeq(edges(v, d), LAMBDA e : e.inum = i))
    IN  MapThenSumSet(into, dirs(v))

(* The breadth-first walk from the root. *)
Found(v, current, w, t) ==
    IF v.ino[t].type # "dir" THEN [w EXCEPT !.reach = @ \cup {t}]
    ELSE LET incoming == w.incoming[t] + 1
             other    == w.parents[t] \notin {0, current}
         IN  [w EXCEPT
               !.children[current] = @ + 1,
               !.incoming[t] = incoming,
               !.parents[t] = IF other THEN @ ELSE current,
               !.queue = IF t \in w.reach THEN @ ELSE Append(@, t),
               !.diag = @ \cup (IF incoming > 1 THEN {<<"E_DIR_MULTIPARENT", t>>} ELSE {})
                          \cup (IF other THEN {<<"E_DIR_PARENT", t>>} ELSE {})
                          \cup (IF t \in w.reach THEN {<<"E_DIR_CYCLE", t>>} ELSE {})]

RECURSIVE Walk(_, _)
Walk(v, w) ==
    IF w.queue = <<>> THEN w
    ELSE LET current == Head(w.queue)
             rest    == [w EXCEPT !.queue = Tail(@)]
         IN  IF current \in w.reach THEN Walk(v, rest)
             ELSE Walk(v, FoldLeft(LAMBDA x, e : Found(v, current, x, e.inum),
                                   [rest EXCEPT !.reach = @ \cup {current}],
                                   edges(v, current)))

walk(v) ==
    Walk(v, [queue    |-> IF ROOTINO \in inodes(v) THEN <<ROOTINO>> ELSE <<>>,
             reach    |-> {}, diag |-> {},
             parents  |-> [i \in Inums |-> IF i = ROOTINO THEN ROOTINO ELSE 0],
             incoming |-> [i \in Inums |-> 0],
             children |-> [i \in Inums |-> 0]])

(* The verdicts on one inode after the walk. *)
verdict(v, w, i) ==
    LET isdir == v.ino[i].type = "dir"
        reached == i \in w.reach
        links == IF isdir THEN 1 + w.children[i] ELSE references(v, i)
    IN  (IF isdir /\ ~dots(v, i) THEN {<<"E_DOT", i>>} ELSE {})
        \cup (IF reached THEN {}
              ELSE {<<IF v.ino[i].nlink = 0 THEN "E_ORPHAN" ELSE "E_UNREACHABLE", i>>})
        \cup (IF isdir /\ reached /\ dotdot(v, i) # w.parents[i]
              THEN {<<"E_DOTDOT", i>>} ELSE {})
        \cup (IF (isdir => reached) /\ v.ino[i].nlink # links
              THEN {<<"E_NLINK", i>>} ELSE {})

inspect_view(v) ==
    LET w == walk(v)
    IN  parse_inodes(v) \cup UNION {inode_blocks(v, i) : i \in inodes(v)}
        \cup ownership(v) \cup UNION {directory(v, d) : d \in dirs(v)}
        \cup w.diag \cup UNION {verdict(v, w, i) : i \in inodes(v)}

(* check_bytes: the image is clean when its replayed view is.  Without a    *)
(* superblock or a replayable log there is no view.                         *)
diagnostics(img) ==
    IF ~img.magic THEN {<<"E_SUPER_MAGIC", 0>>}
    ELSE IF parse_log(img) # {} THEN parse_log(img)
    ELSE inspect_view(shadow(img))
clean(img) == diagnostics(img) = {}
=============================================================================
