----------------------------- MODULE IndexLedger -----------------------------
(***************************************************************************)
(* What the index of the chain promises, whoever writes to it: a row is    *)
(* stored only for a log that is on the chain, it is never removed, and a  *)
(* transfer that was linked to an agent is never without an agent again.   *)
(* The link itself may still be replaced (two runs of the link endpoint).  *)
(***************************************************************************)
CONSTANTS Transfer, Event, Agent, NoAgent, Unstored

VARIABLES
    onChain,    \* the logs of the blocks produced so far
    transfers,  \* Transfer -> Unstored, NoAgent or the linked agent
    events      \* the NFT events that have a row

vars == <<onChain, transfers, events>>

Init ==
    /\ onChain = {}
    /\ transfers = [t \in Transfer |-> Unstored]
    /\ events = {}

Produce ==
    /\ \E S \in SUBSET (Transfer \cup Event) : onChain' = onChain \cup S
    /\ UNCHANGED <<transfers, events>>

\* One commit stores transfers of the chain that had no row, and events.
Store ==
    /\ transfers' \in [Transfer -> Agent \cup {NoAgent, Unstored}]
    /\ \A t \in Transfer :
           transfers'[t] # transfers[t] => transfers[t] = Unstored /\ t \in onChain
    /\ \E S \in SUBSET Event : S \subseteq onChain /\ events' = events \cup S
    /\ UNCHANGED onChain

\* One commit of the link endpoint gives agents to stored transfers.
Link ==
    /\ transfers' \in [Transfer -> Agent \cup {NoAgent, Unstored}]
    /\ \A t \in Transfer :
           transfers'[t] # transfers[t] => transfers[t] # Unstored /\ transfers'[t] \in Agent
    /\ UNCHANGED <<onChain, events>>

Next == Produce \/ Store \/ Link

Spec == Init /\ [][Next]_vars
==============================================================================
