\* Two overlapping payments of one hire, each with its own authorization.
CONSTANTS
    Users = {u1}
    Hires = {h1}
    Terms = {t1}
    Auths = {a1, a2}
    Reqs = {r1, r2}
    Assets = {"token"}
    Prices = {1}
    Timeout = 1
    MaxPolls = 1
    Serial = FALSE
    MaxLosses = 0
    MaxTime = 3
    None = None
SYMMETRY Symmetry
SPECIFICATION Spec
CHECK_DEADLOCK FALSE
INVARIANT HireSettledOnce
