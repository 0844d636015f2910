SPECIFICATION UncrossedSpec
CONSTANTS
    Prices = {1, 2}
    MaxQty = 1
    MaxId = 3
    PreviousIds = {"chain", "zero"}
    Batched = TRUE
    BufferSize = 2
    TolerateSnapshotSeam = TRUE
INVARIANT TypeOK
INVARIANT Synced
INVARIANT ExemptionOnlyAtSeam
INVARIANT FlaggedBookLostAChange
PROPERTY DeltasNeverRewind
