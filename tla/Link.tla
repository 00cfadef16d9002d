-------------------------------- MODULE Link --------------------------------
(***************************************************************************)
(* What the connection code of a Client promises to the rest of the        *)
(* program, whatever its goroutines do: one websocket at a time, opened    *)
(* once per attempt, and an attempt only while there is no connection.     *)
(* Connection implements it.                                               *)
(***************************************************************************)
CONSTANT Sockets

VARIABLES
    stage,  \* "down", an attempt that is "dialing" or "greeting", or "up"
    live    \* the websockets that are open

Init == stage = "down" /\ live = {}

(* Someone starts an attempt: never over a connection, nor over another     *)
(* attempt.                                                                 *)
Start ==
    /\ stage = "down"
    /\ stage' = "dialing"
    /\ UNCHANGED live

Opened ==
    /\ stage = "dialing" /\ live = {}
    /\ \E s \in Sockets : live' = {s}
    /\ stage' = "greeting"

(* The handshake is over; the websocket may have died in the meantime.      *)
Established ==
    /\ stage = "greeting"
    /\ stage' = IF live = {} THEN "down" ELSE "up"
    /\ UNCHANGED live

(* An attempt that fails leaves nothing open. *)
Abandoned ==
    /\ stage \in {"dialing", "greeting"}
    /\ stage' = "down" /\ live' = {}

(* The websocket is closed by either side. *)
Lost ==
    /\ live # {} /\ live' = {}
    /\ stage' = IF stage = "up" THEN "down" ELSE stage

Next == Start \/ Opened \/ Established \/ Abandoned \/ Lost

Spec == Init /\ [][Next]_<<stage, live>>

=============================================================================
