CONSTANTS
    d = d
    m = m
    a = a
    b = b
    Paths <- MCPaths
    Mounts <- MCMounts
    Entries <- MCEntries
    HasDatabase = TRUE
    MaxRuns = 2
SPECIFICATION Spec
INVARIANT InterruptedStepKeepsOriginal
CHECK_DEADLOCK FALSE
