\* Runs of the server and of the CLI, each listing the agents in either order.
CONSTANTS
    Tokens = {1, 2}
    Batches = {api, cli}
    Api = {api}
    Singles = {}
    Listings <- TwoOrders
    Batch = 2
    ProgressEvery = 2
    Cap = 1
    MaxVer = 1
    None = None
SPECIFICATION FairSpec
CHECK_DEADLOCK FALSE
INVARIANTS
    IInv
PROPERTY RunEnds
