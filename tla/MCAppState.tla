---------------------------- MODULE MCAppState ----------------------------
(* A small instance of AppState for TLC. *)
EXTENDS AppState, TLC

CONSTANTS i, j

(* One patch sets an entry, the other removes it and sets a second one. *)
MCShapes == {(i :> "SET") @@ (j :> "none"), (i :> "REMOVE") @@ (j :> "SET")}
=============================================================================
