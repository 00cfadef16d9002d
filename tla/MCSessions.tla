---------------------------- MODULE MCSessions ----------------------------
(* A small instance of Sessions for TLC. *)
EXTENDS Sessions, TLC

CONSTANTS m1, m2

(* The messages are alike. *)
MessageSymmetry == Permutations(Messages)

(* Once two processes had the session at once, both properties say nothing  *)
(* more: TLC need not go on from there.                                    *)
StillClean == clean
=============================================================================
