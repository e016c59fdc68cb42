SPECIFICATION Spec
CONSTANTS
    Agent = {a1}
    a1 = a1
    x = x
    X = X
    y = y
    j1 = j1
    j2 = j2
    Orphan = {a1}
    Profile <- MCProfile
    Spelling = {x, X, y}
    Canon <- MCCanon
    FLAGGED_SOURCES <- MCSources
    Published <- MCPublished
    BATCH = 1
    Job = {j1, j2}
    None = None
SYMMETRY MCSymmetry
INVARIANTS IInv PenaltyMatchesFlags MirrorIsPublished FlagsAreCurrent CategoryFollowsSignals
CHECK_DEADLOCK FALSE
