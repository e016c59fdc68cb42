---------------------------- MODULE MCAgentUpkeep ----------------------------
EXTENDS AgentUpkeep, TLC
CONSTANTS a1, x, X, y, j1, j2

MCCanon == (x :> x) @@ (X :> x) @@ (y :> y)
MCSources == <<"ofac-bsc", "ofac-eth">>
MCPublished == ("ofac-bsc" :> {{X}, {y}}) @@ ("ofac-eth" :> {{x}})

Plain == [termix |-> "none", tags |-> {}, description |-> {}, skills |-> {},
          protocols |-> {}, oasf |-> FALSE]

\* Two spellings of one wallet and tags; then another wallet and nothing to
\* classify, or OASF alone.
MCProfile ==
    [a \in Agent |->
        {[creator |-> X, owner |-> x,
          signals |-> [Plain EXCEPT !.tags = {"data_analytics", "grid_trading"},
                                    !.description = {"rebalancing"}]],
         [creator |-> None, owner |-> y, signals |-> Plain],
         [creator |-> None, owner |-> y, signals |-> [Plain EXCEPT !.oasf = TRUE]]}]

MCSymmetry == Permutations(Job)
==============================================================================
