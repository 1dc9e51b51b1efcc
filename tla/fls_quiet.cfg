CONSTANTS
    Threads = {t1,t2}
    MaxIndices = 2
    Callbacks = {c1}
    Values = {v1,v2}
    Blocks = {d1,d2}
    Head = Head
    NULL = NULL
    MaxRestarts = 0
    AllowTls = FALSE
    FreeAlone = TRUE
SPECIFICATION FairSpec
INVARIANTS CallbackOwed FreedIndexSettled ReadsOwnValue
PROPERTIES FreeCompletes ExitCompletes
CHECK_DEADLOCK FALSE
