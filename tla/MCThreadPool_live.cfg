SPECIFICATION FairSpec
CONSTANTS
    Clients = {c1,c2}
    Tasks = {t1,t2}
    Jobs = {j1,j2}
    NULL = NULL
    TPOOL_MAX_THREADS = 2
    TPOOL_MAX_TASKS = 2
    Env = {"timed", "detach", "spurious"}
    c1 = c1
    c2 = c2
    t1 = t1
    t2 = t2
    j1 = j1
    j2 = j2
INVARIANT JoinedIsDeletable
PROPERTY EveryJobRuns
PROPERTY JoinTerminates
PROPERTY DetachedIsFreed
PROPERTY PoolDeleteReturns
PROPERTY IsFairService
