------------------------------ MODULE MCLIDMap ------------------------------
(* TLC instances of LIDMap. *)
EXTENDS LIDMap, TLC

Symmetry == Permutations(PNs) \cup Permutations(LIDs)
=============================================================================
