CONSTANTS
    Tids = {t1, t2}
    Pids = {p1, p2}
    Blocks = {d1, d2, d3}
    NULL = NULL
    Configs <- AllConfigs
    MaxThreads = 4
SYMMETRY Symmetry
SPECIFICATION Spec
INVARIANTS OwnTebWhenQuiet SameProcessTeb FlsDataAccounted
CHECK_DEADLOCK FALSE
