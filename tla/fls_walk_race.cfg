CONSTANTS
    Threads = {t1,t2}
    MaxIndices = 2
    Callbacks = {c1}
    Values = {v1,v2}
    Blocks = {d1,d2}
    Head = Head
    NULL = NULL
    MaxRestarts = 0
    AllowTls = FALSE
    FreeAlone = FALSE

SPECIFICATION Spec
INVARIANT CursorOnList
CHECK_DEADLOCK FALSE
