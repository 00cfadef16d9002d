----------------------------- MODULE MCPreKeys ------------------------------
(* TLC instances of PreKeys. *)
EXTENDS PreKeys
=============================================================================
