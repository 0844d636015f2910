SPECIFICATION RestSpec
CONSTANTS
    Callers = {c1, c2}
    Limits <- TwoLimits
    MaxTime = 6
    MaxRetries = 2
    BaseDelay = 1
    Listings = {"listed", "listedLater"}
INVARIANT LimitsRespectedInTurn
INVARIANT WaitIsMinimal
INVARIANT RetriesBackOff
PROPERTY SymbolsNeverChange
CHECK_DEADLOCK FALSE
