SPECIFICATION FairSpec
CONSTANTS
    a = a
    b = b
    c = c
    Symbols = {a, b, c}
    Capacity = 2
    Batches <- Lists
    Starts <- StartLists
    MaxCalls = 3
    MaxFailures = 1
INVARIANT TypeOK
INVARIANT Partitioned
INVARIANT OneSessionPerSymbol
INVARIANT NothingFromOldSessions
INVARIANT PrewarmedIsAssigned
INVARIANT NoOrphans
PROPERTY EventuallyConnected
CHECK_DEADLOCK FALSE
