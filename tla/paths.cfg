SPECIFICATION Spec
CONSTANTS
    Symbols <- MCSymbols
    MaxPath = 6
    MaxPathChars = 14
    CountModulus = 32
    FirstDirectory <- MCFirstDirectory
    Directories <- MCDirectories
    Names <- MCNames
    Capacities = {0, 5, 8}
    Patterns <- MCPatterns
    FileNames <- MCFileNames
INVARIANTS ConvertsAbsoluteNames WritesInBuffer ResolvesFromOneDirectory WildcardsMatch
