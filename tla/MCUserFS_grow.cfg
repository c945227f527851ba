SPECIFICATION Spec
CHECK_DEADLOCK FALSE
CONSTANTS
    Names = {n1}
    Files = {f1}
    Bytes = {b1}
    FlagSets = {{"CREATE"}, {"READ_ONLY"}}
    NULL = NULL
    WILD = WILD
    BLOCK_SIZE = 2
    INITIAL_CAPACITY = 2
    MAX_FILE_SIZE = 5
    MaxFds = 2
    MaxOpen = 2
    MaxWrite = 3
    MaxOffset = 6
    n1 = n1
    f1 = f1
    b1 = b1
INVARIANT ResizeReturns
