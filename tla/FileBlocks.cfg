SPECIFICATION Spec
CONSTANTS
    FileA = FileA
    Dir = Dir
    Nobody = Nobody
    Blocks = {1, 2, 3, 4, 5, 6, 7, 8, 9, 10, 11, 12, 13}
    RegFiles = {FileA}
    Dirs = {Dir}
    DIRECT_B_COUNT = 2
    DBLOCKS_PER_BLOCK = 2
    BLOCK_SIZE = 2
    Offsets = {0, 3, 5, 9, 15}
    Cuts = {0, 2}
    MaxDirSize = 6
INVARIANTS TypeOK NoBlockShared NothingLeaked UnlinkFreesTheFile BlocksMatchSize
PROPERTY ImplementsFileMap
CHECK_DEADLOCK FALSE
