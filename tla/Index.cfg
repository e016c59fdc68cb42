SPECIFICATION Spec
CONSTANTS
    Transfer = {t1}
    Event = {e1}
    Agent = {a1, a2}
    Dirty = {a2}
    Wallet = {w1}
    Recipient <- MCRecipient
    NoAgent = NoAgent
    NoWallet = NoWallet
    Unstored = Unstored
    t1 = t1
    e1 = e1
    a1 = a1
    a2 = a2
    w1 = w1
    l1 = l1
    MaxBlock = 5
    Chains <- MCChains
    MaxRows = 1
    FirstBlock = 1
    RealtimeChunk = 1
    RealtimeRange = 1
    BackfillChunk = 2
    BackfillRange = 1
    StartWindow = 2
    Linker = {l1}
    MaxBusy = 2
    Range = {1}
    Count = 1
INVARIANTS IInv ScannedBlocksAreStored LinksAreHonest
PROPERTIES ImplementsIndexLedger SettledBlocksRest
CHECK_DEADLOCK FALSE
