CONSTANTS
    Threads = {t1,t2}
    MaxIndices = 2
    Callbacks = {c1}
    Values = {v1}
    Blocks = {d1,d2}
    Head = Head
    NULL = NULL
    MaxRestarts = 1
    AllowTls = TRUE
    FreeAlone = FALSE
SYMMETRY Symmetry
SPECIFICATION Spec
INVARIANTS ListWellFormed ListHoldsOwnedBlocks LostOnlyAtHighIndex
PROPERTY WalkLeavesOnlyByExit
CHECK_DEADLOCK FALSE
