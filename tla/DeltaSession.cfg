SPECIFICATION MCSpec
CONSTANTS
    Prices = {1, 2}
    MaxQty = 4
    MaxId = 4
    PreviousIds = {"chain"}
    Batched = TRUE
    BufferSize = 2
    TolerateSnapshotSeam = FALSE
    Frames = {"delta"}
    Lossy = FALSE
    SnapshotLag = 0
    MaxFailures = 1
INVARIANT DeltaTypeOK
INVARIANT ServedBookIsTrue
INVARIANT CacheFollowsReconstruction
PROPERTY KeepsCachePromise
PROPERTY RestartsOnlyAtSeam
