SPECIFICATION FairSpec
CONSTANTS
    Clients = {c1,c2}
    Tasks = {t1}
    Jobs = {j1}
    NULL = NULL
    TPOOL_MAX_THREADS = 1
    TPOOL_MAX_TASKS = 1
    Env = {"shared_join"}
    c1 = c1
    c2 = c2
    t1 = t1
    j1 = j1
PROPERTY JoinTerminates
