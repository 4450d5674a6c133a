----------------------------- MODULE Namespace ------------------------------
(***************************************************************************)
(* Names: how file_layer.c resolves, creates and removes them in the       *)
(* records of directories, with the path cache in front and the inode table*)
(* behind.  Every action is a whole call.                                  *)
(*                                                                         *)
(* The free blocks are a set, as FreeList is until a block is freed when   *)
(* none is free: that block heads the list and is its entry as well.  The  *)
(* path cache is a map that may forget a key when another one comes        *)
(* (LruStore).  The model stops at such a free, at one of a block that is  *)
(* free or another directory's, and at the use of a removed directory.     *)
(* Directories stay in their direct blocks, and regular files have no      *)
(* blocks here: FileBlocks has both.  Devices do not fail.                 *)
(***************************************************************************)
EXTENDS DirRecords, SequencesExt

CONSTANTS
    Blocks,       \* the data blocks
    Paths,        \* the paths of the callers, sequences of names
    inode_count   \* inodes are numbered below this

ROOT_INODE == 2
NoInode == -1

\* A block of 4096 bytes has room for the two records of a new directory.
ASSUME NameAssumption ==
    /\ Paths \subseteq Seq(NameSet \ {".", ".."}) /\ \A p \in Paths : Len(p) > 0
    /\ Size(".") + Size("..") <= BLOCK_SIZE
    /\ \A p \in Paths : Len(p) > 1 => Front(p) \in Paths
    /\ inode_count \in Nat /\ inode_count > ROOT_INODE

VARIABLES
    image,       \* the records in every block
    free,        \* the blocks create_new_dblock may hand out
    inodes,      \* every inode as it is on the device
    latest_inum, \* the next number create_new_inode tries
    cache,       \* inode numbers by path and whether it ends in a slash
    reply,       \* what the last callback told FUSE: TRUE for success
    tree,        \* (history) what every path stands for by a walk through the records
    removed,     \* (history) the inodes given to free_inode after a removal
    misfreed,    \* (history) a block was freed that was free or another directory's, or when none was free
    strayed      \* (history) a record was found in, or added to, a removed directory

vars == <<image, free, inodes, latest_inum, cache, reply, tree, removed, misfreed, strayed>>

Inums == ROOT_INODE .. inode_count - 1

\* blocks: the block numbers up to the first 0, which may be more than num_blocks.
Absent == [num |-> 0, kind |-> "none"]
BlankInode == [kind |-> "none", links |-> 0, blocks |-> <<>>, num_blocks |-> 0]
NewInode(kind) == [BlankInode EXCEPT !.kind = kind, !.links = 1]

(***************************************************************************)
(* The operations are functions of a device, which also says which blocks  *)
(* create_new_dblock will hand out, in order.                              *)
(***************************************************************************)
Device(pick) == [image |-> image, pick |-> pick, free |-> free, inodes |-> inodes, latest |-> latest_inum,
                 cache |-> cache, removed |-> removed, misfreed |-> misfreed, strayed |-> strayed]

\* No operation takes more than two blocks.
Picks == {s \in UNION {[1 .. n -> free] : n \in 0 .. 2} :
             /\ Cardinality({s[i] : i \in DOMAIN s}) = Len(s)
             /\ Len(s) = Min({2, Cardinality(free)})}

FreeDblock(dev, b) == [dev EXCEPT !.free = @ \cup {b}, !.image[b] = EmptyImage,
                                  !.misfreed = @ \/ b \in dev.free \/ dev.free = {}]

\* What find_file and charm_readdir look at.
Images(dev, node) ==
    [i \in 1 .. IF node.kind = "dir" THEN node.num_blocks ELSE 0 |-> dev.image[node.blocks[i]]]

(* add_new_entry to the directory node, a copy in memory.  Only its last   *)
(* block is searched for room.                                             *)
AddEntry(dev, node, inum, name) ==
    LET last == node.blocks[node.num_blocks]
        n == node.num_blocks + 1
        b == Head(dev.pick)
    IN  IF node.num_blocks # 0 /\ Room(dev.image[last], name) # {}
        THEN [ok |-> TRUE, node |-> node, dev |-> [dev EXCEPT !.image[last] = Split(@, inum, name)]]
        ELSE IF \/ node.num_blocks # 0 /\ EndOf(dev.image[last]) < BLOCK_SIZE
                \/ dev.pick = <<>>
        THEN [ok |-> FALSE, node |-> node, dev |-> dev]
        ELSE [ok |-> TRUE,
              node |-> [node EXCEPT !.blocks = SubSeq(@, 1, n - 1) \o <<b>> \o SubSeq(@, n + 1, Len(@)),
                                    !.num_blocks = n],
              dev |-> [dev EXCEPT !.image[b] = Lone(inum, name), !.free = @ \ {b}, !.pick = Tail(@)]]

\* Mutant: the last block does not take the place of the freed one.
DropBlockMutant(dev, node, i) ==
    [dev |-> FreeDblock(dev, node.blocks[i]), node |-> [node EXCEPT !.num_blocks = @ - 1]]

\* The only record of a block goes, and the block with it.
DropBlock(dev, node, i) ==
    [dev |-> FreeDblock(dev, node.blocks[i]),
     node |-> [node EXCEPT !.blocks[i] = node.blocks[node.num_blocks], !.num_blocks = @ - 1]]

RemoveEntry(dev, node, at) ==
    LET b == node.blocks[at.block]
        change(img) == [dev |-> [dev EXCEPT !.image[b] = img], node |-> node]
    IN  IF at.prev # -1 THEN change(Merge(dev.image[b], at.pos, at.prev))
        ELSE IF dev.image[b][at.pos].len # BLOCK_SIZE THEN change(MoveUp(dev.image[b]))
        ELSE DropBlock(dev, node, at.block)

-----------------------------------------------------------------------------
(* Paths and the path cache                                                *)

KeyMutant(path, n, slash) ==  \* only the last name, as get_child_name leaves it
    <<SubSeq(path, n, n), slash \/ n < Len(path)>>

Key(path, n, slash) == <<SubSeq(path, 1, n), slash \/ n < Len(path)>>

\* One name further than up: what the records of the directory say, which is cached.
Further(up, key, name) ==
    LET imgs == Images(up.dev, up.dev.inodes[up.inum])
        at == FindFile(imgs, name)
        found(inum) ==
            [inum |-> inum,
             dev |-> [up.dev EXCEPT !.cache = [k \in DOMAIN @ \cup {key} |-> IF k = key THEN inum ELSE @[k]],
                                    !.strayed = @ \/ up.inum \in up.dev.removed]]
    IN  IF up.inum = NoInode THEN up
        ELSE IF at.pos = -1 THEN [up EXCEPT !.inum = NoInode]
        ELSE found(imgs[at.block][at.pos].inum)

(* get_inode_num_from_path: a cached prefix, or else what the records of   *)
(* the parent say.  Prefixes end in a slash, and "/a/" is another key than *)
(* "/a".                                                                   *)
Resolve(dev, path, slash) ==
    LET to[n \in 0 .. Len(path)] ==
            LET key == Key(path, n, slash)
            IN  IF n = 0 THEN [dev |-> dev, inum |-> ROOT_INODE]
                ELSE IF key \in DOMAIN dev.cache THEN [dev |-> dev, inum |-> dev.cache[key]]
                ELSE Further(to[n - 1], key, path[n])
    IN  to[Len(path)]

Parent(dev, path) == Resolve(dev, Front(path), TRUE)

\* Mutant: the key stays, for no inode.
UncachedMutant(dev, key) == [dev EXCEPT !.cache[key] = NoInode]
Uncached(dev, key) == [dev EXCEPT !.cache = [k \in DOMAIN @ \ {key} |-> @[k]]]

Failed(dev) == [ok |-> FALSE, dev |-> dev, inum |-> NoInode]

\* Mutant: the number is only used up when the creation succeeds.
NumberedMutant(dev) == dev
\* create_new_inode: marks are never written, so the number it tries is always good.
Numbered(dev) == [dev EXCEPT !.latest = @ + 1]

(* create_new_file up to the write of the parent's inode, once parent and  *)
(* child were looked up.                                                   *)
Entered(child, parent, name) ==
    LET dev == child.dev
        entry == AddEntry(Numbered(dev), dev.inodes[parent], dev.latest, name)
    IN  IF \/ child.inum # NoInode
           \/ dev.inodes[parent].kind # "dir"
           \/ dev.latest >= inode_count
        THEN Failed(dev)
        ELSE IF ~ entry.ok THEN Failed(entry.dev)
        ELSE [ok |-> TRUE, inum |-> dev.latest,
              dev |-> [entry.dev EXCEPT !.inodes[parent] = entry.node, !.strayed = @ \/ parent \in dev.removed]]

EnteredBelow(parent, path) ==
    IF parent.inum = NoInode THEN Failed(parent.dev)
    ELSE Entered(Resolve(parent.dev, path, FALSE), parent.inum, Last(path))

NewFile(dev, path) == EnteredBelow(Parent(dev, path), path)

(* custom_mkdir, after create_new_file.  The name is there before the      *)
(* directory has its "." and "..", and stays when there is no room for them.*)
NewDir(file) ==
    LET dot == AddEntry(file.dev, NewInode("dir"), file.inum, ".")
        dotdot == AddEntry(dot.dev, dot.node, file.inum, "..")
    IN  IF ~ file.ok THEN file
        ELSE IF ~ dot.ok \/ ~ dotdot.ok THEN Failed(dotdot.dev)
        ELSE [file EXCEPT !.dev = [dotdot.dev EXCEPT !.inodes[file.inum] = dotdot.node]]

UsedBy(dev, i) ==
    IF dev.inodes[i].kind = "dir" THEN {dev.inodes[i].blocks[j] : j \in 1 .. dev.inodes[i].num_blocks} ELSE {}

\* free_inode gives back every block before the first 0; the inode keeps its pointers.
FreeInode(dev, inum) ==
    LET others == UNION {UsedBy(dev, i) : i \in Inums \ (dev.removed \cup {inum})}
        blocks == dev.inodes[inum].blocks
        freed[n \in 0 .. Len(blocks)] == IF n = 0 THEN dev ELSE FreeDblock(freed[n - 1], blocks[n])
    IN  [freed[Len(blocks)] EXCEPT !.removed = @ \cup {inum},
                                   !.misfreed = @ \/ \E j \in DOMAIN blocks : blocks[j] \in others]

-----------------------------------------------------------------------------
(* What a path stands for: the names in the records, without the cache and *)
(* the order of searches.                                                  *)
Below(dev, i, name) ==
    LET there == IF i = NoInode THEN {}
                 ELSE {r \in Listing(Images(dev, dev.inodes[i])) : r.name = name}
    IN  IF there = {} THEN NoInode ELSE (CHOOSE r \in there : TRUE).inum

Walk(dev, path) ==
    LET at[n \in 0 .. Len(path)] == IF n = 0 THEN ROOT_INODE ELSE Below(dev, at[n - 1], path[n])
    IN  at[Len(path)]

TreeOf(dev) ==
    [p \in Paths |-> LET i == Walk(dev, p)
                     IN  IF i = NoInode THEN Absent ELSE [num |-> i, kind |-> dev.inodes[i].kind]]

-----------------------------------------------------------------------------
(* The calls                                                               *)

\* What make_fs leaves, and b as the block of the root.
Formatted(b) ==
    [image |-> [c \in Blocks |-> EmptyImage], pick |-> <<b>>, free |-> Blocks,
     inodes |-> [i \in Inums |-> BlankInode], latest |-> ROOT_INODE + 1, cache |-> [k \in {} |-> ROOT_INODE],
     removed |-> {}, misfreed |-> FALSE, strayed |-> FALSE]

\* init_file_layer: a root with its two records, and an empty cache.
Init ==
    /\ \E b \in Blocks :
          LET made == NewDir([ok |-> TRUE, dev |-> Formatted(b), inum |-> ROOT_INODE]).dev
          IN  /\ image = made.image /\ free = made.free /\ inodes = made.inodes
              /\ latest_inum = made.latest /\ cache = made.cache
              /\ removed = made.removed /\ misfreed = made.misfreed /\ strayed = made.strayed
    /\ reply = TRUE /\ tree = [p \in Paths |-> Absent]

\* What a call leaves.
Finish(dev, ok) ==
    /\ image' = dev.image /\ free' = dev.free /\ inodes' = dev.inodes /\ latest_inum' = dev.latest
    /\ cache' = dev.cache /\ removed' = dev.removed /\ misfreed' = dev.misfreed
    /\ strayed' = dev.strayed /\ reply' = ok /\ tree' = TreeOf(dev)

\* charm_access, charm_getattr, charm_readdir, charm_chmod, and charm_open of a file that is there.
LookUp(path) ==
    LET r == Resolve(Device(<<>>), path, FALSE) IN Finish(r.dev, r.inum # NoInode)

\* The lookup of a path that is not in Paths puts the least recently used key out of the cache.
LookUpElsewhere(key) ==
    /\ key \in DOMAIN cache
    /\ Finish(Uncached(Device(<<>>), key), TRUE)

Return(r) == Finish(r.dev, r.ok)

\* charm_mknod, charm_create, and charm_open with O_CREAT of a file that is not there.
CreateFile(path) ==
    LET written(r) == IF r.ok THEN [r EXCEPT !.dev.inodes[r.inum] = NewInode("file")] ELSE r
    IN  \E pick \in Picks : Return(written(NewFile(Device(pick), path)))

\* charm_mkdir.
MakeDir(path) == \E pick \in Picks : Return(NewDir(NewFile(Device(pick), path)))

(* custom_unlink, when the name was found to stand for inum and its parent *)
(* was looked up: the record goes, and then a link of the inode.           *)
Unlinked(parent, inum, path) ==
    LET node == parent.dev.inodes[inum]
        dir == parent.dev.inodes[parent.inum]
        at == FindFile(Images(parent.dev, dir), Last(path))
        gone(dev) == IF node.links - 1 = 0 THEN FreeInode(Uncached(dev, Key(path, Len(path), FALSE)), inum)
                     ELSE [dev EXCEPT !.inodes[inum].links = @ - 1]
        done(without) == [gone(without.dev) EXCEPT !.inodes[parent.inum] = without.node,
                                                   !.strayed = @ \/ parent.inum \in parent.dev.removed]
    IN  IF parent.inum = NoInode \/ at.pos = -1 THEN Failed(parent.dev)
        ELSE [ok |-> TRUE, dev |-> done(RemoveEntry(parent.dev, dir, at)), inum |-> inum]

(* charm_unlink and charm_rmdir.  The -EEXIST of custom_unlink for a name  *)
(* that is not there and its -ENOTEMPTY become a success in fuse_layer.c.  *)
UnlinkFound(r, path) ==
    IF \/ r.inum = NoInode
       \/ r.dev.inodes[r.inum].kind = "dir" /\ ~ IsEmptyDir(Images(r.dev, r.dev.inodes[r.inum]))
    THEN Finish(r.dev, TRUE)
    ELSE Return(Unlinked(Parent(r.dev, path), r.inum, path))

Unlink(path) == UnlinkFound(Resolve(Device(<<>>), path, FALSE), path)

Next ==
    /\ ~ misfreed /\ ~ strayed
    /\ \/ \E path \in Paths : LookUp(path) \/ CreateFile(path) \/ MakeDir(path) \/ Unlink(path)
       \/ \E key \in DOMAIN cache : LookUpElsewhere(key)

Spec == Init /\ [][Next]_vars

-----------------------------------------------------------------------------
Sound == ~ misfreed /\ ~ strayed

\* The directories that are not removed.
Directories == {i \in Inums \ removed : inodes[i].kind = "dir"}
ImagesOf(i) == Images(Device(<<>>), inodes[i])
Named(i) == {r \in Listing(ImagesOf(i)) : r.name \notin {".", ".."}}

(* Types of the state.                                                     *)
TypeOK ==
    /\ free \subseteq Blocks /\ removed \subseteq Inums
    /\ latest_inum \in 3 .. inode_count
    /\ \A i \in Inums : /\ inodes[i].kind \in {"none", "file", "dir"} /\ inodes[i].links \in Int /\ inodes[i].links <= 1
                        /\ inodes[i].blocks \in Seq(Blocks)
                        /\ inodes[i].num_blocks \in 0 .. Len(inodes[i].blocks)
    /\ \A k \in DOMAIN cache : cache[k] \in Inums
    /\ {reply, misfreed, strayed} \subseteq BOOLEAN

(* After any additions and removals the records of every block of a        *)
(* directory tile it, so that no search is broken off or loses a record.   *)
RecordsTile ==
    Sound => \A i \in Directories : \A j \in DOMAIN ImagesOf(i) : Tiled(ImagesOf(i)[j])

(* rmdir's test is right: it passes exactly the directories in which no    *)
(* name is left.  No block but the first stays without one.                *)
EmptyMeansEmpty == Sound => \A i \in Directories : IsEmptyDir(ImagesOf(i)) <=> Named(i) = {}

(* readdir shows a name exactly when a lookup finds it, and once only.     *)
ListedIsFound ==
    Sound =>
      \A i \in Directories : \A r \in Listing(ImagesOf(i)) :
        LET at == FindFile(ImagesOf(i), r.name) IN at.pos # -1 /\ ImagesOf(i)[at.block][at.pos] = r

(* Every inode that was written and not freed has one name, and no name    *)
(* leads to an inode that was freed.                                       *)
OneName ==
    Sound =>
      /\ \A i \in Inums \ (removed \cup {ROOT_INODE}) : inodes[i].kind # "none" =>
            \E d \in Directories : \E r \in Named(d) :
               r.inum = i /\ \A e \in Directories : \A q \in Named(e) : q.inum = i => d = e /\ q = r
      /\ \A d \in Directories : \A r \in Named(d) : r.inum \notin removed

(* No block is lost, and none has two uses, while directories come and go. *)
BlocksAccounted ==
    Sound =>
      /\ free = Blocks \ UNION {UsedBy(Device(<<>>), d) : d \in Directories}
      /\ \A d, e \in Directories : \A j \in 1 .. inodes[d].num_blocks, k \in 1 .. inodes[e].num_blocks :
            inodes[d].blocks[j] = inodes[e].blocks[k] => d = e /\ j = k

(* The cache may answer for what is gone, but it never names the wrong one *)
(* of two objects that are there.                                          *)
CachedIsRightOrGone ==
    Sound =>
      \A key \in DOMAIN cache :
        LET i == cache[key]
        IN  i \notin removed /\ inodes[i].kind # "none" => i = tree[key[1]].num

(* get_inode_num_from_path answers as the records do, for every path whose *)
(* parent is a directory.                                                  *)
LookupAgrees ==
    Sound =>
      \A path \in Paths : Len(path) = 1 \/ tree[Front(path)].kind = "dir" =>
        Resolve(Device(<<>>), path, FALSE).inum = IF tree[path] = Absent THEN NoInode ELSE tree[path].num

(* What FUSE is told is true: a name that was made is there with its kind; *)
(* a name that was removed is gone, or was a directory with names in it,   *)
(* for which rmdir reports success; and an error leaves every name as it   *)
(* was, but for the one that a mkdir without room for the two records of   *)
(* its directory adds.                                                     *)
ReplyTrue ==
    [][Sound' =>
        /\ ~ reply' => \A p \in Paths :
              \/ tree'[p] = tree[p]
              \/ MakeDir(p) /\ tree[p] = Absent /\ tree'[p].num # 0 /\ tree'[p].kind = "none"
        /\ reply' => \A p \in Paths :
              /\ CreateFile(p) => tree'[p].kind = "file"
              /\ MakeDir(p) => tree'[p].kind = "dir"
              /\ Unlink(p) => \/ tree'[p].num = 0
                              \/ tree'[p] = tree[p] /\ \E q \in Paths : Front(q) = p /\ tree[q].num # 0]_vars

Names == INSTANCE NameTree WITH
            Root <- ROOT_INODE, sound <- Sound, taken <- ROOT_INODE .. latest_inum - 1

ImplementsTree == Names!Spec
=============================================================================
