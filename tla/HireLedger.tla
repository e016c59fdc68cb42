----------------------------- MODULE HireLedger -----------------------------
(***************************************************************************)
(* What a hire promises, without requests, nodes or receipts: a hire is    *)
(* opened once, its money moves at most once, it is paid only after its    *)
(* money moved and then for good, and a hire that was cancelled by the TTL *)
(* sweep while its payment was under way may still end paid or failed.     *)
(* When the server loses a payment request, the ledger no longer promises  *)
(* that the money of that hire moves only once.                            *)
(***************************************************************************)
CONSTANT Hires   \* the hires

VARIABLES
    state,       \* the hire's status
    moved,       \* the pairs <<hire, transfer>> that moved money for a hire
    lost         \* the hires a payment request was lost of

ledgerVars == <<state, moved, lost>>

LedgerInit ==
    /\ state = [h \in Hires |-> "absent"]
    /\ moved = {}
    /\ lost = {}

\* A new hire; opening it cancels pending hires whose challenge lapsed.
Open(h) ==
    /\ state[h] = "absent"
    /\ \E lapsed \in SUBSET {g \in Hires : state[g] = "pending"} :
         state' = [g \in Hires |-> IF g = h THEN "pending"
                                   ELSE IF g \in lapsed THEN "cancelled"
                                   ELSE state[g]]
    /\ UNCHANGED <<moved, lost>>

HasMoved(h) == \E p \in moved : p[1] = h

\* Money moves for a hire, once, possibly after the hire was written off.
Move(h) ==
    /\ \/ state[h] \in {"pending", "cancelled", "failed"} /\ ~HasMoved(h)
       \/ h \in lost
    /\ \E p \in moved' \ moved : p[1] = h /\ moved' = moved \cup {p}
    /\ UNCHANGED <<state, lost>>

\* The server loses payment requests of hires that are still to be decided.
Lose ==
    /\ \E H \in SUBSET {h \in Hires : state[h] \in {"pending", "cancelled"}} : lost' = lost \cup H
    /\ UNCHANGED <<state, moved>>

Confirm(h) ==
    /\ state[h] \in {"pending", "cancelled"}
    /\ HasMoved(h)
    /\ state' = [state EXCEPT ![h] = "paid"]
    /\ UNCHANGED <<moved, lost>>

Fail(h) ==
    /\ state[h] \in {"pending", "cancelled"}
    /\ state' = [state EXCEPT ![h] = "failed"]
    /\ UNCHANGED <<moved, lost>>

LedgerNext ==
    \/ \E h \in Hires : Open(h) \/ Move(h) \/ Confirm(h) \/ Fail(h)
    \/ Lose

LedgerSpec == LedgerInit /\ [][LedgerNext]_ledgerVars
=============================================================================
