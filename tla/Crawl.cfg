SPECIFICATION Spec
CONSTANTS
    t1 = t1
    t2 = t2
    f1 = f1
    Token = {t1, t2}
    Foreign = {f1}
    Review = {1, 2}
    Owner <- MCOwner
    Revocable = {1}
    Limit = 3
    PageSize = 1
    LastPage = 3
    PageLimit = 1
    MaxPages = 3
    ProgressEvery = 2
    Attempts = 2
    MaxStrikes = 1
INVARIANTS IInv
PROPERTIES CrawlEnds
CHECK_DEADLOCK FALSE
