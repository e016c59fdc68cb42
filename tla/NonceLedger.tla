----------------------------- MODULE NonceLedger -----------------------------
(***************************************************************************)
(* What the sign-in promises, without requests, rows and locks: a wallet   *)
(* has at most one live nonce, the one issued last, and a nonce opens one  *)
(* session, which uses it up.                                              *)
(***************************************************************************)
CONSTANTS
    Addrs,       \* wallet addresses
    Nonces,      \* the nonces the generator can draw
    None         \* no nonce

VARIABLES
    live,        \* each wallet's nonce that can still open a session
    issued,      \* the nonces handed out so far
    opened       \* the pairs <<address, nonce>> that opened a session

nonceVars == <<live, issued, opened>>

NonceInit ==
    /\ live = [a \in Addrs |-> None]
    /\ issued = {}
    /\ opened = {}

\* A fresh nonce takes the place of the one before it.
IssueNonce(a) ==
    \E n \in Nonces \ issued :
        /\ live' = [live EXCEPT ![a] = n]
        /\ issued' = issued \cup {n}
        /\ UNCHANGED opened

OpenSession(a) ==
    /\ live[a] # None
    /\ opened' = opened \cup {<<a, live[a]>>}
    /\ live' = [live EXCEPT ![a] = None]
    /\ UNCHANGED issued

NonceNext == \E a \in Addrs : IssueNonce(a) \/ OpenSession(a)

NonceSpec == NonceInit /\ [][NonceNext]_nonceVars
=============================================================================
