SPECIFICATION Spec
CONSTANTS
    FileA = FileA
    Dir = Dir
    Nobody = Nobody
    Blocks = {1,2,3,4,5,6,7,8,9}
    RegFiles = {FileA}
    Dirs = {}
    DIRECT_B_COUNT = 2
    DBLOCKS_PER_BLOCK = 2
    BLOCK_SIZE = 2
    Offsets = {0, 5, 7}
    Cuts = {4}
    MaxDirSize = 0
INVARIANT OnlyOwnBlocksFreed
CHECK_DEADLOCK FALSE
