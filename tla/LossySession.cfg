SPECIFICATION MCSpec
CONSTANTS
    Prices = {1, 2}
    MaxQty = 3
    MaxId = 3
    PreviousIds = {"chain"}
    Batched = TRUE
    BufferSize = 3
    TolerateSnapshotSeam = FALSE
    Frames = {"delta", "snapshot"}
    Lossy = TRUE
    SnapshotLag = 1
    MaxFailures = 1
PROPERTY LiveGapsAreErrors
