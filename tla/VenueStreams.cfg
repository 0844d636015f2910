SPECIFICATION MCSpec
CONSTANTS
    Prices = {1, 2}
    MaxQty = 4
    MaxId = 4
    PreviousIds = {"chain"}
    Batched = TRUE
    Venues = {"lighter", "risex", "edgex", "o1", "gravity"}
    Lossy = TRUE
    MaxFailures = 1
INVARIANT OnlyMissedLevelsDiffer
PROPERTY KeepsCachePromise
PROPERTY OnlyLossesRestart
CHECK_DEADLOCK FALSE
