SPECIFICATION Spec
CHECK_DEADLOCK FALSE
CONSTANTS
    Threads = {m,t1}
    Main = m
    Addrs = {p1,p2}
    Static = {s1}
    Sizes = {z1}
    NULL = NULL
    MaxRecords = 4
    Env = {"in_place","no_memory"}
    m = m
    t1 = t1
    p1 = p1
    p2 = p2
    s1 = s1
    z1 = z1
SYMMETRY Symmetry
INVARIANT RecordsApart
INVARIANT TableExact
INVARIANT NoFalseAlarm
INVARIANT ReportExact
