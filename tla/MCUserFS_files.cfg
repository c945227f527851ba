SPECIFICATION Spec
CHECK_DEADLOCK FALSE
CONSTANTS
    Names = {n1,n2}
    Files = {f1,f2,f3}
    Bytes = {b1}
    FlagSets = {{}, {"CREATE"}}
    NULL = NULL
    WILD = WILD
    BLOCK_SIZE = 1
    INITIAL_CAPACITY = 2
    MAX_FILE_SIZE = 1
    MaxFds = 4
    MaxOpen = 3
    MaxWrite = 1
    MaxOffset = 1
    n1 = n1
    n2 = n2
    f1 = f1
    f2 = f2
    f3 = f3
    b1 = b1
SYMMETRY Symmetry
INVARIANT RefsExact
INVARIANT LiveExactly
INVARIANT ListSound
INVARIANT SlotsCounted
PROPERTY IsFlatFS
