SPECIFICATION Spec
CONSTANTS
    b1 = b1
    b2 = b2
    b3 = b3
    b4 = b4
    b5 = b5
    b6 = b6
    Blocks = {b1, b2, b3, b4}
    BLOCK_SIZE = 14
    Header = 3
    NameLen <- MCNameLen
    Paths <- MCPaths
    inode_count = 6
INVARIANTS TypeOK RecordsTile EmptyMeansEmpty ListedIsFound OneName BlocksAccounted CachedIsRightOrGone
PROPERTIES ReplyTrue ImplementsTree
SYMMETRY Exchangeable
CHECK_DEADLOCK FALSE
