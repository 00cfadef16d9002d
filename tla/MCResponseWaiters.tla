------------------------- MODULE MCResponseWaiters -------------------------
(* Small instances of ResponseWaiters for TLC. *)
EXTENDS ResponseWaiters, TLC

Symmetry == Permutations(Queries) \cup Permutations(Messages)
=============================================================================
