----------------------------- MODULE MCUsedBlocks -----------------------------
EXTENDS UsedBlocks, TLC
CONSTANTS t1, e1, a1, a2, w1, l1

MCRecipient == [t \in Transfer |-> w1]

\* A transfer near the start, with the event after it; a transfer and the
\* event in one block further on.
MCChains == {(t1 :> 1) @@ (e1 :> 2), (t1 :> 2) @@ (e1 :> 1)}
==============================================================================
