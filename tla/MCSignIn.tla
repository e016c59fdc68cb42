----------------------------- MODULE MCSignIn -----------------------------
(* Instances of SignIn for TLC.                                            *)
EXTENDS SignIn, TLC

\* Requests and nonces are interchangeable.
Symmetry == Permutations(Reqs) \cup Permutations(Nonces)
===========================================================================
