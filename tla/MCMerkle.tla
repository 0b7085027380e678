------------------------------- MODULE MCMerkle --------------------------------
(* An instance of Merkle for TLC: two data, up to six leaves, which is enough *)
(* for an odd number of nodes on two levels of the same tree.                 *)
EXTENDS Merkle, TLC

CONSTANTS d1, d2

Swap == Permutations({d1, d2})
================================================================================
