----------------------------- MODULE MCSyncRun -----------------------------
(* Instances of SyncRun for TLC.                                           *)
EXTENDS SyncRun, TLC

\* Two orders in which upstream may list two agents.
TwoOrders == {<<1, 2>>, <<2, 1>>}

\* A listing that shifts between two pages, a shorter one, an empty one.
Shifting == {<<1, 2, 1>>, <<2, 1>>, <<>>}
=============================================================================
