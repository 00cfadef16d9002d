---------------------------- MODULE MCRecipients ----------------------------
(* A small instance of Recipients for TLC. *)
EXTENDS Recipients
=============================================================================
