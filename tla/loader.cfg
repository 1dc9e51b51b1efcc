SPECIFICATION Spec
CHECK_DEADLOCK FALSE
CONSTANTS
    t1 = t1  t2 = t2  m1 = m1  m2 = m2
    Threads = {t1, t2}
    Modules = {m1, m2}
    Names <- MCNames
    Paths <- MCPaths
    Self = Self  NULL = NULL  TooLong = TooLong
    UINT16_MAX = 4
    MaxReferences = 2
SYMMETRY Alike
INVARIANTS CountCovers
PROPERTIES Implements
