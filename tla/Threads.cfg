SPECIFICATION Spec
CONSTANTS
    t1 = t1
    t2 = t2
    t3 = t3
    Threads = {t1, t2}
    Inodes = {"f", "g"}
    MaxBlocks = 2
    BLOCK_COUNT = 6
    INODE_B_COUNT = 1
    DBLOCKS_PER_BLOCK = 2
    Data = 99
INVARIANTS TypeOK UpdatesKept QuietFilesApart
PROPERTIES ListCallsAtomic
SYMMETRY Alike
CHECK_DEADLOCK FALSE
