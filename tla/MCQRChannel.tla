---------------------------- MODULE MCQRChannel ----------------------------
(* A small instance of QRChannel for TLC. *)
EXTENDS QRChannel
=============================================================================
