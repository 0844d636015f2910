SPECIFICATION Spec
CONSTANTS
    FirstNow = 5
    LastNow = 6
    Windows <- MCWindows
    Span = 1
    Placeholder = 5
    StartDate = 1
    KlineChunk = 2
    ChunkOf <- MCChunkOf
    LimitOf <- MCLimitOf
    ResumeOf <- MCResumeOf
    BatchSize = 3
    Requested <- MCRequested
    MaxRuns = 3
    MaxFaults = 2
INVARIANT OnlyKnownHoles
 
 
PROPERTY EveryRunEnds
CHECK_DEADLOCK FALSE
