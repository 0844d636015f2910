SPECIFICATION FairSpec
CONSTANTS
    x = x  y = y  s = s  t = t
    Exchanges = {x, y}
    Symbols <- MCSymbols
    Pairs <- MCPairs
    Gaps <- MCGaps
    KlineTasks = {y}
    Chunk = 1
    Interval = 1
    PerSecond = 1
    MaxTime = 1
    MaxFaults = 1
INVARIANT AnswersAreStored
INVARIANT OneCyclePerTimestamp
PROPERTY EveryTaskStops
CHECK_DEADLOCK FALSE
