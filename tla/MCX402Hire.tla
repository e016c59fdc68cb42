----------------------------- MODULE MCX402Hire -----------------------------
(* Instances of X402Hire for TLC.                                          *)
EXTENDS X402Hire, TLC

\* Hires, authorizations and requests are interchangeable in every invariant
\* and action property; liveness runs do without the reduction.
Symmetry == Permutations(Hires) \cup Permutations(Auths) \cup Permutations(Reqs)
=============================================================================
