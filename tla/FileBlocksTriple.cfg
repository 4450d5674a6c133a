SPECIFICATION Spec
CONSTANTS
    FileA = FileA
    Dir = Dir
    Nobody = Nobody
    Blocks = {1,2,3,4,5,6,7,8,9,10,11,12,13,14,15,16,17}
    RegFiles = {FileA}
    Dirs = {}
    DIRECT_B_COUNT = 2
    DBLOCKS_PER_BLOCK = 2
    BLOCK_SIZE = 2
    Offsets = {0, 16}
    Cuts = {0}
    MaxDirSize = 0
INVARIANT UnlinkFreesTheFile
CHECK_DEADLOCK FALSE
