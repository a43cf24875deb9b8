CONSTANTS
    w0 = w0  v0 = v0  w1 = w1  w2 = w2
    FDTABLE_MAX = 3
    READY_MAX = 2
    LIST_MAX = 4
    Watcher = {w0, v0, w1, w2}
    fdOf <- MCfdOf
    qwatcher = w0
    NULL = NULL
    Functor = {f1, f2}
    Thread = {t1, t2}
    MaxAdd = 2
    Item = {1, 2, 3, 4, 5, 6, 7}
    expected_count = 6
    read_start = read_start
    OwnOnly = TRUE
    Uses = {"handoff"}
SPECIFICATION UsesSpec
PROPERTY EveryAddRuns
CHECK_DEADLOCK FALSE
