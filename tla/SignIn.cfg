\* A serial wallet and one whose requests overlap.
CONSTANTS
    Addrs = {a1, a2}
    Serial = {a1}
    Nonces = {n1, n2, n3}
    Reqs = {r1, r2, r3, r4, r5}
    TTL = 1
    MaxTime = 1
    None = None
SYMMETRY Symmetry
SPECIFICATION Spec
CHECK_DEADLOCK FALSE
INVARIANTS
    IInv
    SerialNonceOpensOneSession
    SessionIsTimely
    LookupIsCurrent
    SerialIssueSucceeds
PROPERTY ImplementsNonceLedger
