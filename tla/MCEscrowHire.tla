--------------------------- MODULE MCEscrowHire ---------------------------
(* Instances of EscrowHire for TLC.                                        *)
EXTENDS EscrowHire, TLC

\* Tabs, requests and jobs are interchangeable.
ClientSymmetry == Permutations(Jobs) \cup Permutations(Tabs) \cup Permutations(Reqs)

\* So are the hires when no hire is singled out as serial.
Symmetry == ClientSymmetry \cup Permutations(Hires)
===========================================================================
