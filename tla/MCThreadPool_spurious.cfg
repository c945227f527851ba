SPECIFICATION Spec
CONSTANTS
    Clients = {c1}
    Tasks = {t1}
    Jobs = {j1}
    NULL = NULL
    TPOOL_MAX_THREADS = 1
    TPOOL_MAX_TASKS = 1
    Env = {"spurious"}
    c1 = c1
    t1 = t1
    j1 = j1
PROPERTY JoinReturnsFinished
