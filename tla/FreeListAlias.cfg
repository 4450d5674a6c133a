SPECIFICATION Spec
CONSTANTS
    BLOCK_COUNT = 7
    INODE_B_COUNT = 1
    DBLOCKS_PER_BLOCK = 3
    ClientWords <- MCClientWords
    IOFaults = FALSE
INVARIANT HeadNotHeld
