\* Runs of the server beside the one-agent endpoint, agents that change upstream.
CONSTANTS
    Tokens = {1, 2}
    Batches = {api}
    Api = {api}
    Singles = {one}
    Listings <- Shifting
    Batch = 3
    ProgressEvery = 2
    Cap = 1
    MaxVer = 2
    None = None
SPECIFICATION Spec
CHECK_DEADLOCK FALSE
INVARIANTS
    CleanUpsertsAreKept
    LossIsBounded
PROPERTY RowsAdvance
