SPECIFICATION SortSpec
CHECK_DEADLOCK FALSE
CONSTANTS
    Coros = {1,2,3}
    SCHED = SCHED
    NULL = NULL
    WILD = WILD
    Values = {1,2,3}
    MaxFiles = 1
    MaxLen = 2
    MaxNumbers = 3
    MAX_LENGTH = 2
    NSEC = 3
    Ticks = {2}
INVARIANT NothingAdded
