CONSTANTS
    Threads = {t1, t2}
    Heaps = {h1, h2, h3}
    Entries = {e1, e2, e3}
    Kinds <- LocksAndPools
    Sizes = {1, 2}
    PageSize = 2
    Capacities = {1, 4}
    NULL = NULL
    Garbage = Garbage
SYMMETRY Symmetry
SPECIFICATION Spec
INVARIANTS HeapListSound PoolAccounting
PROPERTIES Implements
CHECK_DEADLOCK FALSE
