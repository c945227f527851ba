SPECIFICATION FairSpec
CONSTANTS
    Clients = {c1}
    Tasks = {t1}
    Jobs = {j1,j2}
    NULL = NULL
    TPOOL_MAX_THREADS = 1
    TPOOL_MAX_TASKS = 2
    Env = {"repush", "detach"}
    c1 = c1
    t1 = t1
    j1 = j1
    j2 = j2
PROPERTY DetachedIsFreed
