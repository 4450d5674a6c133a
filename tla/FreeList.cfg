SPECIFICATION Spec
CONSTANTS
    BLOCK_COUNT = 6
    INODE_B_COUNT = 1
    DBLOCKS_PER_BLOCK = 3
    ClientWords <- MCClientWords
    IOFaults = TRUE
INVARIANTS TypeOK ListWellFormed HeldNotFree NothingLost SuperblockCurrent EntriesZero
PROPERTIES HandsOutZeros ImplementsPool
