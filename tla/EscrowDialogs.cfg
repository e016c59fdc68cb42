\* Only dialogs submit, one at a time per wallet, abandoned and restarted at
\* any popup; no cancelled transaction, and enough $U for three hires.
CONSTANTS
    Users = {u1}
    Wallets = {a1, a2}
    Hires = {h1, h2, h3}
    Jobs = {j1, j2, j3}
    Tabs = {t1, t2}
    Reqs = {r1, r2}
    Budgets = {1, 2}
    Balance = 6
    OneTab = TRUE
    Serial = {}
    AnyClient = FALSE
    MaxFails = 0
    None = None
SYMMETRY Symmetry
SPECIFICATION Spec
CHECK_DEADLOCK FALSE
INVARIANTS
    IInv
    PaidRowHasOwnJob
    PaidIsFunded
