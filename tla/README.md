# File-System-Fuse in TLA+

A user-space file system in C. Four layers sit on one another, each in one file of `src/lib`:

```
kernel ── fuse_layer.c ── file_layer.c ──┬── block_layer.c ── disk_layer.c ── device or memory
                                         └── lru_cache.c (path -> inode number)
```

Calls go downwards only and return before the next one starts, so a single caller sees each layer as a
sequential object. `fuse_main` however runs the callbacks in several threads, and no layer has a lock.
A start always formats the device (`make_fs`), so nothing is ever recovered from an earlier run.

## Inventory

| part | state | operations | what makes it correct |
|---|---|---|---|
| **disk layer** `disk_layer.c` | the blocks; with `DISK` one file descriptor and its position | `alloc_memory`, `read_block`, `write_block` | a block read is the block last written; block numbers below `BLOCK_COUNT` |
| **data-block allocator** `block_layer.c:11-226` | head of the free list in memory and in block 0; the list inside the free blocks | `create_new_dblock`, `free_dblock`, `read_dblock`, `write_dblock` | a block is free or with one caller, none is lost, new blocks are zero |
| **inode table** `block_layer.c:229-326, 448-472` | inode blocks, `latest_inum` | `create_new_inode`, `read_inode`, `write_inode`, `free_inode` | a number is given to one file at a time, deleted numbers come back |
| **file block tree** `file_layer.c:51-172, 246-530`, `block_layer.c:328-446` | pointers of inodes and index blocks, `num_blocks`, `file_size` | `add_dblock_to_inode`, `remove_dblocks_from_inode`, `free_dblocks_from_inode`, `fblock_num_to_dblock_num` | trees are disjoint, nothing leaks, nothing is freed twice |
| **directory records** `file_layer.c:175-244, 636-650, 788-821, 1104-1192` | records with lengths in the blocks of a directory | `find_file`, `add_new_entry`, the entry removal of `custom_unlink`, `is_empty_dir` | record lengths sum up to the block, an added name is found, a removed one is not |
| **namespace** `file_layer.c:532-698, 735-867` | the tree of directories, the path cache | `get_inode_num_from_path`, `create_new_file`, `custom_mkdir`, `custom_mknod`, `custom_unlink`, `custom_open` | the cache answers as a walk of the tree would; a name is created once |
| **path cache** `lru_cache.c` | nodes in a doubly linked list, buckets | `get_cache`, `set_cache`, `pop_cache` | a bounded map that forgets the least recently used key |
| **file contents** `file_layer.c:700-733, 877-1102` | bytes of data blocks | `custom_read`, `custom_write`, `custom_truncate` | a read returns what was written |
| **FUSE callbacks** `fuse_layer.c` | none | sixteen callbacks, among them a rename that copies and deletes | failures are reported; a rename leaves one of the two names |
| hash table `hash_table.c` | not compiled | | |
| tests `test/` | | read as documentation | |

The hard behaviours: the border between the last entry of a list block and the block itself; failures
between two writes that belong together; the arithmetic of three levels of index blocks when files are cut;
pointers left behind in index blocks, in buckets of the cache and in its tail; stale inodes and paths; and,
when FUSE uses more than one thread, every read-modify-write of the list head, of an inode block and of the
cache. `PROJECT.json` lists each of them at its line, with the properties that cover it.

What runs at the same time: `fuse_main` gives every callback a thread. The kernel locks a directory while a name in it
is made or removed and a file while it is written or truncated, and libfuse keeps the paths of a rename locked until
it returns. Everything else may overlap: two reads of a file, callbacks for different files, any two accesses of the
device, the free list or a block of inodes.

## Modules

| module | what it is |
|---|---|
| `BlockPool` | what the allocator promises: a set of free blocks and a set of held ones |
| `FreeList` | `block_layer.c`'s free list on the device, slot by slot; implements `BlockPool` |
| `DataLemmas` | facts about numbers and sequences for the proofs: induction stated with a set, iterated functions, loops step by step |
| `FreeListProofs` | the theorems about `FreeList` |
| `FileMap` | what `file_layer.c` promises about blocks: each file a sequence that changes at its end |
| `FileBlocks` | inodes and index blocks; implements `FileMap` |
| `FileBlocksProofs` | the theorems about `FileBlocks` |
| `LruStore` | what `lru_cache.c` promises: a map with a recency order |
| `LruCache` | the nodes, pointers and buckets of `lru_cache.c`; implements `LruStore` |
| `LruCacheProofs` | the theorems about `LruCache` |
| `DirRecords` | the records in the blocks of a directory: search, split, merge, move up |
| `NameTree` | what `file_layer.c` promises about names: a tree whose objects have one name and one number |
| `Namespace` | paths, the path cache and inode numbers over `DirRecords`; implements `NameTree` |
| `NamespaceProofs` | the theorems about `DirRecords` and the directories and blocks of `Namespace` |
| `TreeProofs` | the theorems about the names of `Namespace`: the tree, the cached numbers, the replies, the refinement |
| `ByteFiles` | what `file_layer.c` promises about contents: a file is a sequence of bytes |
| `FileData` | the bytes `custom_read`, `custom_write`, `custom_truncate` copy, and `charm_rename` step by step; implements `ByteFiles` |
| `FileDataProofs` | the theorems about `FileData` |
| `Threads` | reads, writes and truncations in threads, block access by block access; its free list implements `FreeList` |
| `ThreadsProofs` | the theorems about `Threads`: types, that updates are kept, that the list's calls are atomic and that files stay apart |
| `MC*` | values of constants for TLC |

The layers are modelled one above the other and joined by what each was shown to promise: `FileBlocks`, `Namespace` and
`FileData` take their free blocks from a set, which `FreeList` implements (`ImplementsPool`); `Namespace`'s cache is a map that may
forget (`LruStore`); `FileData` keeps the blocks of a file with the file, because `FileBlocks` shows that no two share one; and `Threads` shows
when the calls of `FreeList` may be taken for single steps (`ListCallsAtomic`).

Operators whose comment says "mutant" are plausible mistakes in the definition they stand before, kept to
show that each property can fail; no specification uses them.

### FreeList

`free_list_head` is the superblock in memory, `super_disk` the one on the device, `disk` the words of every
data block. `held`, `chain` and `mishaps` are history: what the callers have, the list blocks the allocator
believes in, and which failures have happened. One action stands for each way out of `create_new_dblock`
(`CreateFromEntry`, `CreateFromHead`) and `free_dblock` (`FreeIntoEntry`, `FreeAsHead`, `FreeIntoExhausted`,
`FreeFails`), with `WriteDblock` for what callers write. The record `io` gives the outcome of every read and
write of one call; the order of the assignments and writes decides what a failing call leaves behind, so
each action has its failing half. A call is one step: this is the allocator as one thread sees it.

Callers write only 0 and one word that is no block number; that is enough to see a list block overwritten by
its holder, and keeps the words that a corrupted list may contain finite. The assumption that caller data is
no inode block number is the only one about data; without it the corrupted list could hand out inode blocks.

### FileBlocks

An inode has its pointers, `num_blocks` and `file_size`; `words` holds the index blocks. The operations of the
code are functions from a device record to a device record in the order of the calls, and the actions `Write`,
`Truncate`, `AddDirBlock`, `Unlink` and `UnlinkAlone` are whole calls of `custom_write`, `custom_truncate`,
`add_new_entry`, and `custom_unlink` (the last for an entry that is alone in its block of the directory).
`custom_mkdir`, `custom_mknod` and `custom_open` change block pointers only through these. `owner` says which blocks
are free, and (history) which file took each of the others: `FreeList` shows that the free blocks are a set, until
the list is corrupted. Which free block is taken makes no difference, so the model takes a fixed one. The other
history variables are `misfreed` (blocks given back while free or another file's), `emptied` (a block was given back when
none was free), `overrun` (an index block was read past its end), `failed` (a call ran out of space half-way) and `shrunk` (a directory lost a block and now has
a stale slot). Everything stops at the first block freed wrongly, the first one that comes back to an exhausted list, or the first
entry read past a block: what the program does after that is the corruption `FreeList` describes. A block that comes back to an
exhausted list becomes the head of the list and an entry of itself (`FreeIntoExhausted`), and the next `create_new_dblock` hands it out while it is
still the head (`free_list_alias`), so from then on no file's block is safe. No operation of this module both takes and gives back blocks, so
`Install` sees this by comparing the free blocks before and after.

Loops are written with `Each`, a recursive function that applies an operator to one element after the other. `FoldLeft` of the
community modules computes the same, but its definition is not one the provers can expand.

I/O failures are not in this module: they are in `FreeList`, and here they would only add the leaks that
running out of space half-way already shows.

### LruCache

Nodes are addresses that `malloc` hands out again. The statements that reassign pointers are functions of the
cache, composed in the order of the code; an assignment to a node that was freed sets `crashed`, where the
model stops, because what follows is undefined. `Bucket` is the hash modulo the capacity. `latest` is history, and
so is `sound`, which turns FALSE when the tail or a bucket is left pointing to a node that was freed. Everything is promised only until then,
`SearchEnds` too: after the only node was popped the tail dangles, and once its address is given out again the list can become a circle, in which a search for a key that is not there goes
on without end. The attempt to prove `SearchEnds` without the condition showed this; it takes five addresses, one more than the run has.

### DirRecords and Namespace

An image is what a directory block holds: the records at the positions where one was written, those included that no
search reaches any more, since later records are written over parts of them and `MoveUp` copies what is there. A record is an inode
number, the length to the next record and a name. `Positions` is the walk that `find_file`, `add_new_entry`, `is_empty_dir` and `charm_readdir`
share; it stops behind the block or where the length is not positive, and `FindFile` gives up all blocks then, as the code does.

In `Namespace` every action is one callback: `LookUp` (access, getattr, readdir, chmod, open), `CreateFile`, `MakeDir`, `Unlink`
(unlink and rmdir are the same code). They are functions of a device record, composed in the order of the code, and the two
blocks at most that a call can take are chosen beforehand (`Picks`). `Resolve` is the recursion of `get_inode_num_from_path` with its side effect, that every prefix
found is cached; "/a/", the key of a parent, and "/a" are two keys. What the LRU order forgets is left open: `LookUpElsewhere` is the lookup of some path
that evicts a key. `Numbered` is `create_new_inode`: the `allocated` mark is set in a buffer that is not written, so the number is always
`latest_inum`, which only rises. `removed` is history. The history `tree` is what a walk through all records finds, with no cache and no
search order; the properties compare it with what lookups and callbacks say: after an error (`ReplyTrue`) every name is what it was, but for one that a `mkdir` without
room for "." and ".." adds. `misfreed` says that a block was freed which was free, was another directory's, or came back when none was free; the model stops there and at `strayed`, the use of a removed directory. Callers may name any path at any time, which
is more than the kernel does.

### FileData

`nodes` has the size of each file and its blocks of bytes. A callback is a step. `charm_rename` is a loop of calls, so each call is a step of its own
(`RenameReads`, `RenameWrites`, `RenameMiswrites`, `RenameUnlinks`) and callbacks for other files and `OthersTake` come between; `Unlocked` is libfuse's lock. `WriteResults` is the set of results of one `custom_write`:
complete, out of blocks, and failed after any number of blocks, when the inode is not written and the new blocks are forgotten but the
bytes that went into old blocks stay. `custom_truncate` may fail to write its zeros or its inode without noticing and is killed when it cannot read the block. When the inode was not written the file
keeps its size, and has zeros from the cut on if no block was given back; if some were, the inode on the device still names free blocks. `broken` says that this happened, that the program was killed, or that blocks came back to an exhausted list (`Release`), and the model stops.
A failed read is -1, which `charm_rename` holds in a `size_t`; `RenameMiswrites` is what a write of that many bytes does. From offset 0 the loop goes on with an offset
no read accepts; that this offset would come down to the size of the file after 2^64 rounds is not modelled.

### Threads

A thread runs `custom_read`, `custom_write` (appending one block) or `custom_truncate` (cutting to the last block but one) on an inode. `threads[t]` is its
program counter and its local variables: the copy of the inode, the buffer of the list block, the block it works on. Each block access is `Seek`, then the
read or write at `pos`, with the code up to the next access. One inode block holds all files, so `write_inode` is `ReadInodeBlock`
and `WriteInodeBlock` with the whole block in between. Accesses do not fail here.

No lock protects any of this, so the question is which overlaps destroy what. `mixed` (history) records them by name: an access at another
thread's position; two threads in the free list; two operations on one inode of which one is a writer; two threads in `write_inode`; an access to what is no
data block; and a block freed into an exhausted list, which breaks the list without threads. `UpdatesKept` says that inodes keep every update unless *their own* overlap or a position mix-up happened:
races of the free list cannot lose an inode's update. `ListCallsAtomic` says that whatever else interleaves, each `create_new_dblock` and `free_dblock` is one step of `FreeList`; it uses the history `settled`,
the list as the calls that returned left it. These overlaps are therefore the ones that locks would have to exclude: one around each access,
one around the free list, one for each inode and one for each block of inodes.
`ThreadAssumption` has one block of inodes, as many data blocks as one likes, and no inode with the name of one of the other overlaps, which `mixed` could not tell apart.
After the first of them the callbacks under way go on and no other begins (a bound), and a mix-up of positions ends the run.

### Where the promises end

Each of the first three components can be driven, by legal calls, into a state in which its data structure is broken, and
the model follows the code there. So that this does not hide what holds before, each abstract module has a
variable `sound`: it promises everything up to the step that turns `sound` FALSE, and nothing from that step on.
The conditions are named in the properties (`Sound`, `mishaps`, `misfreed = {}`, `shrunk`, `sound`), and the
violated runs show how they come about. In the other modules these words are `strayed` (a removed directory was used through a stale path) and
`misfreed` in `Namespace`, where it stops; `rough` (a write or truncation of the file failed, so the bytes behind its end are unknown) and `broken` in `FileData`; and `mixed` in `Threads`.

One condition is in every module that takes blocks: a block that is freed when none is free. The code then makes it the head of the list and its own first entry. `FreeList` has the whole step and what follows from it; `FileBlocks` (`emptied`), `Namespace`
(`misfreed`), `FileData` (`broken`) and `Threads` ("empty") take their blocks from a set, which the list no longer is, and end their promises there. So what they promise of blocks holds on a device that may run out of blocks, up to the first one that is given back then.

## Runs

Deadlock is checked in the runs of `FreeList`, which never stop. The others do stop: `FileBlocks` at the first block freed wrongly or into an exhausted list, `LruCache` at the first use of freed memory,
`Namespace` at the first use of a removed directory or such a block, `FileData` when the program is killed or the free list is wrong, `Threads` at the first access in the wrong place; so their runs do not check it.

**Fairness.** Only `FileData` assumes any: weak fairness of `RenameStep`, which says that the thread that runs a rename is scheduled again and again. Nothing in
the code blocks, so a thread that is scheduled always has a next step; callbacks are not assumed to be called at all. `RenameReturns` needs it.
The other components have nothing that waits.

| run | instance | what it shows |
|---|---|---|
| `free_list` | 4 data blocks, 3 words per block: two list blocks, the second cut off by the end of the device; every read and write may fail | the six invariants, `HandsOutZeros`, and the refinement of `BlockPool`: the list is well formed, shares no block with its callers, loses none, and which of this survives which failure |
| `free_list_alias` | 5 data blocks in two list blocks, no failures | **violated**: the head of the list is with a caller |
| `file_blocks` | a file and a directory, 13 blocks (they could use 16), D = P = 2; writes to the end of the double indirect region, cuts into the direct blocks, a directory of up to 3 blocks that loses some | up to a block that comes back to an exhausted list: disjoint trees, no leak, unlink gives everything back, size and block count agree, refinement of `FileMap` |
| `truncate_frees_twice` | cut inside the single indirect region | **violated**: freed numbers stay in the index block |
| `rmdir_frees_twice` | directory that lost a block | **violated**: the stale slot is freed again |
| `triple_indirect_leak` | file of 9 blocks | **violated**: double indirect blocks are not freed |
| `lru_cache` | 3 keys in 3 buckets, 4 addresses, capacity 3, 2 values | list and buckets are intact and the cache refines `LruStore`, up to the first pointer left behind; so is that every search ends |
| `lru_stale_answer` | 3 keys in one bucket | **violated**: a popped key is answered, because a hit moved its node in front of the one its bucket points to |
| `names` | 4 blocks of 14 bytes, 5 paths in a root and one directory, names of three lengths, 3 inode numbers to give | records tile their blocks, a listed name is found, the test for emptiness is right, every object has one name, no block is lost, replies are true, the cache never names the wrong one of two objects, refinement of `NameTree` |
| `names_stale` | 6 blocks, two directories with one name in each, 4 inode numbers | **violated**: a lookup in a directory that was removed and made again finds a file of another directory |
| `file_data` | 2 files and a directory, blocks of 2 bytes, 5 blocks of which others hold up to one, sizes up to 5, every read and write may fail | slack is zero, reads are true at every offset and size and lack no block, a rename loses no byte, and it returns unless a read failed; refinement of `ByteFiles` |
| `threads` | 2 threads, 2 files of up to 2 blocks, 4 data blocks in 2 list blocks | updates are kept, quiet files are disjoint and the list's calls are atomic, each until an overlap named for it |

**Bounds.** The real constants are 10 direct blocks, 512 words per block and tens of thousands of blocks. With two
direct blocks and two words per block the four regions end at blocks 2, 4, 8 and 16, so that every border and
every loop over an index block that starts, ends or continues in the middle occurs with a handful of blocks. The
offsets of writes are chosen on both sides of a block border. `Cuts` of `file_blocks` stay in the direct blocks,
where truncation is right; a cut at block 2 already breaks the invariants (`truncate_frees_twice`).
`MaxDirSize` bounds the size of a directory, which the code never lowers. Four addresses with capacity 3 are one
more node than the cache holds after an insertion that evicts, so addresses are used again.

In `names` a block of 14 bytes has room for ".", ".." and one of the shorter names, or for two names; so splitting, merging, moving up and dropping a block, also one in the middle of
three, all occur, and four blocks run out when the root has three and a directory one, or each has two. Three numbers are enough for a failed creation, a directory and a file in it. In
`file_data` sizes up to 5 with blocks of 2 give up to three blocks: a first, a whole and a last part, ends on block borders and in the middle. Payload bytes are all different, so that a byte in the wrong place shows. In `threads` two data blocks are list blocks with one entry each, so that
taking an entry, taking the list block, freeing into an entry and freeing as a new head all occur with files of two blocks. Three threads on one block less were checked once (11.8 million states) and showed nothing else. Blocks of `Namespace`
are interchangeable, and so are the threads of `Threads`, hence the symmetry; the run with a liveness property has none.

**The violated runs** are disagreements between the code and what its comments or tests say; `PROJECT.json` quotes
each line. The shortest behaviours are: exhaust the device, free one block and create one (`free_list_alias`);
write 4 blocks, truncate to 3, unlink (`truncate_frees_twice`); a directory of two blocks that loses one and is
removed (`rmdir_frees_twice`); set A, set B, set A, pop A, set B, get A with both keys in one bucket, where the third call moves A's node in front of B's, to which
the bucket points, so that the pop does not find it (`lru_stale_answer`); make /c, look for /c/b, remove /c, make /c and /a, create /a/b, look for /c/b (`names_stale`). In the last every input is one the kernel sends.

Further disagreements are in the models as the code has them, without a run of their own: a cut to the end of the
double indirect region reads one entry past an index block (`RemoveFromDouble`); a cut from the triple indirect
region removes its tree as if it had two levels (`RemoveFromDirect`); `pop_cache` does not lower `size`, so that a
cache with room evicts (`PopCache`); popping the only node leaves `tail`, and an eviction leaves the bucket of the
evicted key, pointing to the freed node (`DeleteNode`, `Evict`); a `mkdir` without room for "." leaves its name, and unlinking that name leaves it in the cache (`MakeDir`, `Unlink`);
numbers of deleted inodes are never given again, and failed creations use them up (`Numbered`); `rmdir` of a directory with names in it reports success (`Unlink`); a rename of a directory, or one in which the first read fails,
takes all free blocks and goes on without end (`RenameMiswrites`).

## Proofs

Every theorem is proved for all values of the constants its module declares, from the assumptions stated there, and every one that
names a property of a run was checked by TLC on that run first.

`DataLemmas` is what the others share. The provers have no induction over numbers, so `SetInduction` derives it: a set of numbers that has 0 and with each number the
next has all of them, since otherwise the numbers below one that is missing would be as many as those below the one before it. With it `Iterated`
shows that a function defined by iteration exists, `Stepwise` that a value can be carried through the steps of a loop, `RangeInduction` is induction up to a bound, and `FcnIsSeq` says that a function on `1 .. n` is a sequence. A recursive function of a model is unrolled by showing a
function that satisfies its equation, and that there is only one.

### FreeListProofs

For every number of blocks, inode blocks and words per block, with and
without failures. From `GeometryAssumption` (at least one inode block, one data block and two words per
block) and `ClientAssumption` (above):

* `TypeCorrect` - `TypeOK` holds whatever has happened to the list; it is inductive by itself.
* `PoolInvariant` - the inductive invariant `PoolInv`, which says: types; while the list is sound, its head is the
  last of `chain`, links follow `chain`, entries are unique data blocks outside it, held blocks are data blocks
  and not free; and every data block is held or free unless one was lost.
* `ListAlwaysWellFormed`, `HeldNeverFree`, `NothingEverLost` follow from it, `SuperblockAlwaysCurrent` is inductive.
* `EntriesAlwaysZero`, `AlwaysHandsOutZeros` - from `PoolInv`: entries are unique, so zeroing or handing out one
  block disturbs no other entry.
* `FreeListImplementsPool` - initial states map to initial states, and each step to `Alloc`, `Release`, `Lose` or a
  stutter up to the first corrupting step, which maps to `Corrupt`. This is where unique entries are needed: erasing one entry must remove exactly one free block.

Why the strengthening is needed: `HeldNotFree` alone is not inductive. A state in which a block occurs in two
entries satisfies it, and one `create_new_dblock` later does not; so uniqueness must be carried along, uniqueness
needs the link structure (an entry must not be a list block), and the links need `chain` to be duplicate-free.
The initial state needs the most arithmetic: that `ListBlocks` list blocks with `DBLOCKS_PER_BLOCK` slots each cover
every data block exactly once, whatever the remainder of the division.

### FileBlocksProofs

For every number of direct blocks and of words in an index block, every size of a block, and every set of blocks, files and directories. There are two hypotheses, stated in each theorem but `SizesHold`, which needs neither:

* `NoTriple`: either the device has fewer data blocks than a file can have without the triple indirect block (`SmallDevice`), or no request is for a larger file (`SmallFiles`). The first is so for the sizes
  `disk_layer.h` is compiled with: 1 GB are 235929 data blocks and 100 MB are 23039, and 10 + 512 + 512^2 = 262666. The second is so for the run. What the triple indirect block does
  on larger devices is the finding of `triple_indirect_leak`.
* `DirectCuts`: files are truncated in their direct blocks. Beyond them the code leaves pointers to freed blocks in index blocks, and `truncate_frees_twice` shows what follows; `UnlinkFreesTheFile` does not hold then, nor does the invariant. The run `file_blocks` makes the same choice.

Nothing is assumed about failures: blocks may run out in the middle of any call. When one comes back after that the model stops (`emptied`), so the theorems say what holds up to there.

* `InvHolds` - the inductive invariant `Inv`: types; free blocks are full of zeros; how many blocks a file has is known from its size (`Sized`); until a directory has lost a block no block was freed wrongly; and, until one was, every file is `Ordered`.
  A *spot* is a place in an inode or in an index block where a pointer can be; `At` is the block there, `Live(n)` are the spots that n blocks use. `Ordered` says that every live spot has a block, that each block found at a spot
  of the `Scope` of a file is the file's and is at that spot only, and, while nothing has failed, that the file has no others.
* `TypesHold`, `NoBlockSharedHolds`, `NothingLeakedHolds`, `UnlinkFreesTheFileHolds` follow from it (`PlacesAre`: the places of `FileBlocks` are the live spots).
* `SizesHold` - `SizeInv`, an invariant about `num_blocks` and `file_size` alone: blocks are added and cut by counting, and no call changes the two fields of an inode otherwise, whatever its pointers are. So it holds for every cut and every depth of the tree.
* `FileMapImplemented` - `StepInv` also says what each step does to the blocks of every file: the others keep theirs, and one grows or is cut at its end, or goes with a block of its directory. With no block shared this is a step of `FileMap`.

Why the invariant is needed, and why it talks about spots that are *not* in use: `NoBlockShared` looks at live places only, but `free_dblocks_from_inode`, `remove_single_indirect` and `remove_double_indirect` follow pointers until they meet a 0, whatever `num_blocks` says.
A pointer left behind a live one, or a block taken with old numbers in it, would be followed and its target freed, so `Scope` is every spot of a regular file, not only the live ones. It shrinks to the live ones once a directory has lost a block, since `custom_unlink` leaves the last pointer where it was;
from then on `UnlinkFreesTheFile` fails (`rmdir_frees_twice`), which is why that property has its condition. A failed growth leaves index blocks linked under the inode on the device and not in memory, or the other way round: `Growing` describes the two inodes
of a file side by side, with the blocks taken and in neither tree (`Loose`), through every level of `add_dblock_to_inode` (`AddDblockReached`, `WriteGrows`). On the way down, `TreeFreed` and `CutDirect` show which blocks the removals reach.
That a write which asks for more blocks than there are stops before the triple indirect block is `WriteFails`, by counting (`RoomLeft`).

### LruCacheProofs

For every capacity, every finite set of addresses, all keys and values and every hash of the keys.

* `TypeCorrect` - types, and live nodes are never more than `size`, nor `size` more than the capacity. It needs no soundness of the list, so it goes on after an eviction has left a bucket at a freed node; the bound on the nodes ends when the program assigns to such a node.
* `ListAlwaysLinked` - while the cache is sound its nodes form one doubly linked list from head to tail. The invariant has the list as a sequence of nodes without duplicates
  whose neighbours point to one another; each of insertion, unlinking, moving to the front and eviction is shown to turn one such sequence into another.
* `SearchesEnd` - on such a list every search reaches the key or the end.
* `CachedKeysFound` - with `BucketsApart` (no two keys share a bucket) every live node is the one its bucket points to. The condition is necessary: `lru_stale_answer` is its counterexample.
* `CacheImplementsStore` - with the same condition every call is a step of `LruStore`, up to the first pointer left behind.

### ThreadsProofs

For every number of threads, inodes, blocks and words, from `ThreadAssumption`.

* `TypeCorrect` - `TypeInv`, which adds to `TypeOK` what each step of a program may hold in its locals. Overlaps of the free list, of operations on one inode and of `write_inode` do not break it; an access at another thread's position or outside the data blocks ends the model, so nothing is said about what follows one.
* `UpdatesAlwaysKept` - the invariant `UpdateInv`: a thread's copy of its inode is what `files` says of it, and once the list has been changed that with the change due (`CopyTrue`); two threads on one file are readers (`ReadersOnly`); the inode block holds what `files` says (`InodesTrue`), and so does the image of it
  that a thread in `write_inode` has (`ImageTrue`); and one thread at most is between the two accesses of `write_inode` (`OneStores`). Each holds for an inode whose overlaps have not been recorded in `mixed`.
* `ListCallsAreAtomic`, `QuietFilesAlwaysApart` - the invariant `CleanInv`, for as long as `mixed` is empty: one thread at most is in the free list; when none is, the list on the device is `settled`; the one that is there has read what
  its program counter says it has and is about to write what the call of `FreeList` would; and the held blocks can be assigned to the files and the calls that have not yet written their inode, each to one
  (`FilesApart`). `PoolInv` of `FreeListProofs` is carried along through the instance. The last write of each call is then one step of
  `FreeList`, which is one lemma for each of its ways out.

### FileDataProofs

For every block size, number of blocks, set of files and directories, offsets and payloads, with failures and without. `DataAssumption` asks that blocks have a byte,
payloads are not empty, and that `Absent` is no file.

* The first part is about one file and has no state: the parts of `Parts` join up from the offset to the end (`PartsJoin`), each lies within its block (`PartFacts`); after `k` of them `Filled` is the
  file with its bytes replaced up to the end of the `k`-th (`FilledIsPatch`, by induction), and what a read puts together is the bytes from its offset on (`ReadIsSlice`).
  `ReadThere` says that the blocks a read goes through are there, also the one behind a border. `ReadGives`, `WriteGives` and `CutGives` say from this what each result of a call is, the failed ones included.
* `FileInvAlways` - the inductive invariant `FileInv`. `TypeInv`: a file with bytes has the blocks up to the one of its next byte and no others (`Regular`), and the places of the blocks files have are, with `room` and `others`, no more than there are.
  `RenameOK`: the new file of a rename holds the first bytes of the old one, the buffer those that follow, and the old one is what it was when the rename began. `SlackOK`: zeros behind each end.
* `TypeCorrect`, `SlackAlwaysZero`, `ReadsAlwaysTrue` follow from it (`ReadSucceeds`: a read inside a file never lacks a block); `RenamesKeepData` and `FileDataImplementsByteFiles` are proved of each step in it.

Why `FileInv` and not the properties alone: that a rename keeps the data says nothing about the loop before its last step, so what has been copied must be carried
along, also after a read that failed turned the offset back; a write behind the end gives zeros only if the slack was zero before; and both need to know how many blocks a file of a given size has, which a truncation to a block border (one block more than the bytes
need) makes easy to get wrong.

### NamespaceProofs

For every size of a block and of the records, every set of names, paths and blocks, and every number of inodes. `RecordAssumption` says that a record takes some bytes and fits into
a block; `NameAssumption` that a block has room for "." and ".." (the code has 4096 bytes for them), that the names in callers' paths are neither (the kernel resolves those itself), and that the
parent of a path is a path.

* The first part is about one block. `Chain` says that records follow one another to the end of the block; that is what `Positions`, a recursive walk, goes through (`ChainSearched`, by the induction of `DataLemmas`),
  and `Lone`, `Split`, `Merge` and `MoveUp` each turn a chain into a chain with the one name more or less (`SplitGives`, `MergeGives`, `MoveUpGives`), whatever lies between the records that are reached.
* The second is about one directory. `Directory` says that names are unique, that "." and ".." come first, with no room behind ".", and that each block has records. It is kept by adding a name that is not there, also in a new block,
  and by removing one, also with its block (`NameAdded`, `BlockAdded`, `NameMerged`, `NameMovedOver`, `NameDropped`). A record of ".." is never merged, so the test of `is_empty_dir` stays in place.
* The third is about the device. `Sane`: free blocks are those no directory in use holds, no block is held twice, each directory is a `Directory`. `Numbers`: numbers not given yet are in no record, no key of the cache, and
  their inodes are blank; without it a new directory could find old blocks in its inode. Then the lookups, unrolled from their recursion (`ResolveGives`): `ChildNotThere` shows that when the parent of a path is found and the path is not, the
  name is not in the parent, whatever the cache has forgotten or kept; so a creation never makes a name a second time.
* `NamesInvariant` - the inductive invariant `NamesInv`: types, `Numbers`, and `Sane` until a block is freed that was free, or when none is, or a removed directory is used through a stale path (`misfreed`, `strayed`). One lemma for each part of each call
  (`EntryAdded`, `EntryRemoved`, `NewFileMade`, `DirectoryWritten`, `UnlinkedWhole`), with the ways they fail.
* `TypeCorrect`, `RecordsAlwaysTile`, `ListedAlwaysFound`, `EmptyAlwaysMeansEmpty`, `BlocksAlwaysAccounted` follow from it.

Why `NamesInv` and not the properties alone: `ListedIsFound` is not inductive without the lookup that comes before each creation, since nothing in `add_new_entry` asks whether the name is there; `EmptyMeansEmpty` needs unique names, for a second ".."
would pass its test; `RecordsTile` breaks when two directories share a block; and `BlocksAccounted` needs the directories to be ones, so that a removed name is in one block and drops that one only.

### TreeProofs

`NamesInv` knows each directory by itself; these theorems relate directories to one another, to the cache and to the history `tree`. They use the same assumptions as `NamespaceProofs`.
`Edges` are the names in the directories that are there, but for "." and "..": a directory, a name and a number. A path `Denotes` a number when there are edges from the root along its names to that number.

* The first part is about edges alone. `Forest` says that no number is at the end of two edges, that a directory has a name once, and that no edge leads to the root. Then a path denotes one number and a number is denoted by one path (`OnePlace`, `OnePath`);
  an edge to a new number adds the paths through it and no others, and one to a number without edges of its own can be taken away alone (`MoreDenoted`).
* `Treed` is the part of the invariant that needs no history. `Counted`: an inode that was written has one link and others have none. `NamesOnce`: the edges form a forest in which nothing removed is named and everything that is there has an edge and a path of the callers.
  `AllTell`: a number in the cache is what its path denotes, or removed, or not written; and what a path denotes is what the cache says of it, except that a key with a slash behind it may still name a removed directory while what has the path now has no names in it.
* `Shown` says that `tree` has for each path what it denotes; `WalkGives` shows it of the walk that computes `tree`.
* `TreeInvariant` - the inductive invariant `TreeInv`: `NamesInv` and, until a removed directory is used or a block is freed twice or into an exhausted list, `Treed` and `Shown`. For each part of a call one lemma says what it does to the edges (`EdgesElsewhere`, `EdgeGained`, `EdgeLost`) and so to the paths (`TreeGrows`, `TreeShrinks`):
  a lookup changes none and caches true answers (`LookupSameTree`); a creation adds one edge, to a number that is in no record and no key; `custom_unlink` takes away the one of its path.
* `EveryInodeNamedOnce`, `CacheRightOrGone` follow from it. `RepliesAlwaysTrue` and `NameTreeImplemented` are proved of each step in it, from one lemma for each action that says what it does to `tree` (`LookUpStep`, `CreateStep`, `MakeDirStep`, `UnlinkStep`).

Why `TreeInv` and not the properties alone: that a cached number is right or gone does not survive the creation of a file whose parent is found through the cache, nor a removal that takes the number from the cache and the record from the directory,
unless both are known to be the same object: so numbers must be in one record, a cached number must not hide what is there, and the key without the slash, the one that `custom_unlink` drops, must never be stale.
That the property stops at `strayed` is necessary: `names_stale` shows what a key with a slash does then.

### Checked by TLC only

* Of `FileBlocks`: what cuts beyond the direct blocks and the triple indirect block do (see the hypotheses of `FileBlocksProofs`).
* Liveness (`RenameReturns`), which this prover does not do, and the violated runs.

## Not modelled

* Failing reads and writes in `Namespace` and `Threads`: a creation whose `create_new_inode` cannot read its block goes on with inode number 0 and then follows a NULL pointer;
  `custom_unlink` frees the inode when the directory's block could not be written. Both are among the hazards, without a property.
* The race of two relinkings of the path cache, and of two creations in different directories for one inode number: undefined behaviour on pointers in the first case;
  the second would need the namespace split at its block accesses, which is out of reach at sizes where directories are interesting.
* Which errno a callback reports. `charm_rename` returns the negative of one that nobody set.
* Permissions, owners and times, which are stored and never read; links, which the code does not have; `chown` and `utimens`, which do nothing.
* `hash_table.c`, which is not compiled; `free_cache` and `dealloc_memory`, which are never called by the file system; a restart, which formats the device.

## Plan

Every safety property of a passing run has a theorem. What could follow: single reads and writes of `Namespace` that fail, with the two hazards about them; and in `Threads` the accesses of a creation, so that two of
them for one inode number are within the model.
