CONSTANTS
    d = d
    m = m
    a = a
    b = b
    Paths <- MCPaths
    Mounts <- MCMounts
    Entries <- MCEntries
    HasDatabase = TRUE
    MaxRuns = 2
SPECIFICATION FairSpec
INVARIANTS TypeOK OriginalKept RollbackIsComplete
PROPERTIES KeepsContract StartsOnAccountedState FailedRunSettles
CHECK_DEADLOCK FALSE
