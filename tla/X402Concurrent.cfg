\* Overlapping pay requests for two hires at equal or different terms, one
\* reusable authorization, a lost request.
CONSTANTS
    Users = {u1}
    Hires = {h1, h2}
    Terms = {t1, t2}
    Auths = {a1}
    Reqs = {r1, r2}
    Assets = {"token"}
    Prices = {1}
    Timeout = 1
    MaxPolls = 1
    Serial = FALSE
    MaxLosses = 1
    MaxTime = 3
    None = None
SYMMETRY Symmetry
SPECIFICATION Spec
CHECK_DEADLOCK FALSE
INVARIANTS
    IInv
    PaidIsSettled
    OneTransferPaysOneHire
