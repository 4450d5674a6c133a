SPECIFICATION Spec
CONSTANTS
    b1 = b1
    b2 = b2
    b3 = b3
    b4 = b4
    b5 = b5
    b6 = b6
    Blocks = {b1, b2, b3, b4, b5, b6}
    BLOCK_SIZE = 14
    Header = 3
    NameLen <- MCNameLen
    Paths <- TwoDirs
    inode_count = 7
INVARIANT LookupAgrees
SYMMETRY Exchangeable
CHECK_DEADLOCK FALSE
