SPECIFICATION Spec
CHECK_DEADLOCK FALSE
CONSTANTS
    Threads = {m,t1}
    Main = m
    Addrs = {p1,p2,p3}
    Static = {s1}
    Sizes = {z1,z2}
    NULL = NULL
    MaxRecords = 3
    Env = {}
    m = m
    t1 = t1
    p1 = p1
    p2 = p2
    p3 = p3
    s1 = s1
    z1 = z1
    z2 = z2
SYMMETRY Symmetry
INVARIANT SizesTrue
