\* One user and two hires that expire, paid one request at a time, polled twice;
\* one request may be lost, and the user tries again.
CONSTANTS
    Users = {u1}
    Hires = {h1, h2}
    Terms = {t1}
    Auths = {a1, a2}
    Reqs = {r1}
    Assets = {"token"}
    Prices = {1}
    Timeout = 1
    MaxPolls = 2
    Serial = TRUE
    MaxLosses = 1
    MaxTime = 3
    None = None
SPECIFICATION FairSpec
CHECK_DEADLOCK FALSE
INVARIANT HireSettledOnce
PROPERTIES
    PaidStaysPaid
    ImplementsLedger
    PayIsAnswered
