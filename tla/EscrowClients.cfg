\* Any client, a transaction cancelled in the wallet; the submissions for h1
\* come one after the other, those for h2 overlap.
CONSTANTS
    Users = {u1}
    Wallets = {u1}
    Hires = {h1, h2}
    Jobs = {j1, j2}
    Tabs = {t1}
    Reqs = {r1, r2}
    Budgets = {1}
    Balance = 1
    OneTab = FALSE
    Serial = {h1}
    AnyClient = TRUE
    MaxFails = 1
    None = None
SYMMETRY ClientSymmetry
SPECIFICATION Spec
CHECK_DEADLOCK FALSE
PROPERTY SerialLinkIsFinal
