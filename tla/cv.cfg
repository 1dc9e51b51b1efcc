CONSTANTS
    Threads = {t1, t2, t3}
    Modes = {"exclusive"}
    MinLong <- MinusEight
    MaxLong = 7
    Uses <- BothUses
    MaxTokens = 2
    MaxTimeouts = 2
SPECIFICATION FairSpec
INVARIANTS CounterBounded Accounting
PROPERTIES Implements WakeAllEmpties NoLostWakeup WakeCompletes
CHECK_DEADLOCK FALSE
