----------------------------- MODULE MCIncoming -----------------------------
(* TLC instances of Incoming. *)
EXTENDS Incoming, TLC

(* Goroutines are alike. *)
AnyHandler == Permutations(Handlers)
=============================================================================
