SPECIFICATION MCSpec
CONSTANTS
    Prices = {1, 2}
    MaxQty = 4
    MaxId = 4
    PreviousIds = {"chain", "zero"}
    Batched = TRUE
    BufferSize = 4
    TolerateSnapshotSeam = TRUE
    Frames = {"delta"}
    Lossy = FALSE
    SnapshotLag = 0
    MaxFailures = 0
PROPERTY ExemptionIsNeverAGap
