\* Chunks of one agent, so that agents take turns, and of two, so that cycle and
\* batch can hold each other up.
SPECIFICATION Spec
CONSTANTS
    Agent = {a1, a2}
    a1 = a1
    a2 = a2
    IdOrder <- MCIdOrder
    Orphan = {a2}
    Card <- MCCard
    Answers <- MCAnswers
    Activity <- MCActivity
    Age <- MCAge
    Chunks = {1, 2}
    MaxCycle = 2
    MaxBatch = 2
    MaxBusy = 2
    None = None
INVARIANTS IInv HealthIsLatestProbe ScoreFollowsProbe
PROPERTIES ProbesTakeTurns CycleEnds
CHECK_DEADLOCK FALSE
