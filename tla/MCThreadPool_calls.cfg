SPECIFICATION Spec
CONSTANTS
    Clients = {c1,c2}
    Tasks = {t1,t2}
    Jobs = {j1,j2,j3}
    NULL = NULL
    TPOOL_MAX_THREADS = 2
    TPOOL_MAX_TASKS = 3
    Env = {"timed", "detach", "repush", "shared_join"}
    c1 = c1
    c2 = c2
    t1 = t1
    t2 = t2
    j1 = j1
    j2 = j2
    j3 = j3
SYMMETRY Symmetry
INVARIANT TypeOK
INVARIANT NoLostWakeup
INVARIANT SomeWorker
INVARIANT UnpickedFirst
INVARIANT TasksCntExact
INVARIANT ThreadsCntExact
INVARIANT OneRunner
INVARIANT OnlyLateSignal
INVARIANT PoolFreedQuiescent
PROPERTY JoinReturnsFinished
PROPERTY FreedAfterRun
