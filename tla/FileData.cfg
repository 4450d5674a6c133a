SPECIFICATION Spec
CONSTANTS
    Absent = Absent
    Files = {"a", "b"}
    Dirs = {"d"}
    BLOCK_SIZE = 2
    BlockCount = 5
    Elsewhere = 1
    MaxSize = 5
    Offsets = {0, 1, 3, 4}
    Payloads <- MCPayloads
    IOFaults = TRUE
INVARIANTS TypeOK SlackZero ReadTrue
PROPERTIES RenameKeepsData RenameReturns ImplementsByteFiles
CHECK_DEADLOCK FALSE
