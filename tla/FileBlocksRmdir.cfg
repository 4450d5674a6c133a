SPECIFICATION Spec
CONSTANTS
    FileA = FileA
    Dir = Dir
    Nobody = Nobody
    Blocks = {1,2,3,4,5,6,7,8,9}
    RegFiles = {FileA}
    Dirs = {Dir}
    DIRECT_B_COUNT = 2
    DBLOCKS_PER_BLOCK = 2
    BLOCK_SIZE = 2
    Offsets = {}
    Cuts = {}
    MaxDirSize = 4
INVARIANT OnlyOwnBlocksFreed
CHECK_DEADLOCK FALSE
