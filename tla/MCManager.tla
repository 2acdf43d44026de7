----------------------------- MODULE MCManager -----------------------------
(* Instances of Manager for TLC.                                            *)
EXTENDS Manager, TLC

CONSTANTS c1, c2, ssd, j1, j2, j3

\* Each removable drive is its own serial.
IdentitySerials == [v \in Removable |-> v]

JobSymmetry == Permutations(Jobs)
=============================================================================
