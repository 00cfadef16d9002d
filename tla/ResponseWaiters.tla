--------------------------- MODULE ResponseWaiters ---------------------------
(***************************************************************************)
(* Requests that wait for an answer over a connection that comes and goes: *)
(* request.go and the waiting part of SendMessage.                         *)
(*                                                                         *)
(* A request registers a channel of capacity one in cli.responseWaiters    *)
(* under its id, writes its frame, and waits.  The reader of a connection  *)
(* takes the channel out of the map and sends the answer to it after       *)
(* unlocking; the end of a connection sends a disconnect node to every     *)
(* registered channel.  A request that gets one waits for a new connection *)
(* and tries a second time, with a new channel under the same id.          *)
(*                                                                         *)
(* A connection is a number here; cli.socket is conn.  Module Connection   *)
(* has the details of how it is made and lost.                             *)
(***************************************************************************)
EXTENDS Integers

CONSTANTS
    Queries,         \* ids of info queries (sendIQ)
    Messages,        \* ids of messages (SendMessage)
    MaxConns,        \* bound: connections ever made
    MaxStreamErrors  \* bound: stream errors handled

ASSUME RequestsAssumption == Queries \cap Messages = {}
ASSUME BoundsAssumption == MaxConns \in Nat /\ MaxStreamErrors \in Nat

VARIABLES
    conn,        \* cli.socket: the number of a connection, or None
    alive,       \* connections whose websocket is open
    made,        \* number of connections made
    notices,     \* connections whose onDisconnect goroutine has yet to run
    errors,      \* number of stream errors handled
    waiters,     \* cli.responseWaiters: the attempt whose channel is in it
    chan,        \* the channel of each attempt of each request
    pc,          \* where each request is
    attempt,     \* the attempt it is making
    sock,        \* the cli.socket it read
    asked,       \* asked[g]: requests written to g and not yet answered
    delivering,  \* delivering[g]: the channel that the reader of g will send to
    crashed      \* a goroutine panicked, which ends the process

linkVars  == <<conn, alive, made, notices, errors>>
tableVars == <<waiters, chan>>
vars == <<conn, alive, made, notices, errors, waiters, chan, pc, attempt, sock,
          asked, delivering, crashed>>

Requests == Queries \cup Messages
Attempts == 1..2
Conns    == 1..MaxConns
None     == 0

Ended == {"done", "failed"}
Steps == {"new", "registered", "sending", "waiting", "reconnecting", "reading",
          "registering"} \cup Ended
(* "disconnect" stands for any node that makes the request try again,      *)
(* "auth" for a stream error that does not.                                *)
Nodes == {"answer", "disconnect", "auth"}

TypeOK ==
    /\ conn \in Conns \cup {None}
    /\ alive \in SUBSET Conns
    /\ made \in 0..MaxConns
    /\ notices \in SUBSET Conns
    /\ errors \in 0..MaxStreamErrors
    /\ waiters \in [Requests -> Attempts \cup {None}]
    /\ chan \in [Requests -> [Attempts -> Nodes \cup {"none", "empty", "closed"}]]
    /\ pc \in [Requests -> Steps]
    /\ attempt \in [Requests -> Attempts]
    /\ sock \in [Requests -> Conns \cup {None}]
    /\ asked \in [Conns -> SUBSET Requests]
    /\ delivering \in [Conns -> SUBSET (Requests \X Attempts)]
    /\ crashed \in BOOLEAN

-----------------------------------------------------------------------------
(* The table of waiters. *)

Go(r, step) == pc' = [pc EXCEPT ![r] = step]

(* waitResponse, for attempt k of r. *)
WaitResponse(r, k) ==
    /\ chan' = [chan EXCEPT ![r][k] = "empty"]
    /\ waiters' = [waiters EXCEPT ![r] = k]

(* cancelResponse, for the channel of attempt k of r. *)
CancelResponse(r, k) ==
    /\ chan' = [chan EXCEPT ![r][k] = "closed"]
    /\ waiters' = [waiters EXCEPT ![r] = None]

(* MUTANT: the waiters are told, and stay in the map. *)
ClearResponseWaitersKept(node) ==
    /\ chan' = [r \in Requests |-> [k \in Attempts |->
                  IF waiters[r] # k THEN chan[r][k]
                  ELSE IF chan[r][k] = "empty" THEN node ELSE "closed"]]
    /\ waiters' = waiters

(* clearResponseWaiters: a send that never blocks, or the channel is closed. *)
ClearResponseWaiters(node) ==
    /\ chan' = [r \in Requests |-> [k \in Attempts |->
                  IF waiters[r] # k THEN chan[r][k]
                  ELSE IF chan[r][k] = "empty" THEN node ELSE "closed"]]
    /\ waiters' = [r \in Requests |-> None]

-----------------------------------------------------------------------------
(* A request.                                                              *)

(* SendMessage holds messageSendLock from here to its return. *)
Register(r) ==
    /\ pc[r] = "new"
    /\ r \in Messages => \A m \in Messages : pc[m] \in Ended \cup {"new"}
    /\ WaitResponse(r, 1)
    /\ Go(r, "registered")
    /\ UNCHANGED <<linkVars, attempt, sock, asked, delivering, crashed>>

(* Preparing a message fails: its session, its devices, its participants. *)
PrepareFails(r) ==
    /\ pc[r] = "registered" /\ r \in Messages
    /\ CancelResponse(r, 1)
    /\ Go(r, "failed")
    /\ UNCHANGED <<linkVars, attempt, sock, asked, delivering, crashed>>

(* sendNodeAndGetData reads cli.socket under its lock ... *)
ReadSocket(r) ==
    /\ pc[r] = "registered"
    /\ \/ /\ conn = None
          /\ CancelResponse(r, 1)
          /\ Go(r, "failed")
          /\ UNCHANGED sock
       \/ /\ conn # None
          /\ sock' = [sock EXCEPT ![r] = conn]
          /\ Go(r, "sending")
          /\ UNCHANGED tableVars
    /\ UNCHANGED <<linkVars, attempt, asked, delivering, crashed>>

(* ... and SendFrame may find that connection closed by now. *)
SendFrame(r) ==
    /\ pc[r] = "sending"
    /\ \/ /\ sock[r] \in alive
          /\ asked' = [asked EXCEPT ![sock[r]] = @ \cup {r}]
          /\ Go(r, "waiting")
          /\ UNCHANGED tableVars
       \/ /\ sock[r] \notin alive
          /\ CancelResponse(r, attempt[r])
          /\ Go(r, "failed")
          /\ UNCHANGED asked
    /\ UNCHANGED <<linkVars, attempt, sock, delivering, crashed>>

Answered(r) ==
    /\ pc[r] = "waiting" /\ chan[r][attempt[r]] = "answer"
    /\ Go(r, "done")
    /\ UNCHANGED <<linkVars, tableVars, attempt, sock, asked, delivering, crashed>>

(* MUTANT: a retry is retried. *)
InterruptedAlways(r) ==
    /\ pc[r] = "waiting" /\ chan[r][attempt[r]] \in {"disconnect", "auth"}
    /\ \/ chan[r][attempt[r]] = "disconnect" /\ Go(r, "reconnecting")
       \/ chan[r][attempt[r]] = "auth" /\ Go(r, "failed")
    /\ UNCHANGED <<linkVars, tableVars, attempt, sock, asked, delivering, crashed>>

(* A disconnect node: the second attempt is not repeated, and neither is a *)
(* first one that an authentication error interrupted.                     *)
Interrupted(r) ==
    /\ pc[r] = "waiting" /\ chan[r][attempt[r]] \in {"disconnect", "auth"}
    /\ \/ attempt[r] = 1 /\ chan[r][1] = "disconnect" /\ Go(r, "reconnecting")
       \/ attempt[r] = 1 /\ chan[r][1] = "auth" /\ Go(r, "failed")
       \/ attempt[r] # 1 /\ Go(r, "failed")
    /\ UNCHANGED <<linkVars, tableVars, attempt, sock, asked, delivering, crashed>>

(* MUTANT: retryFrame gives no timeout to a query either. *)
TimedOutOnce(r) ==
    /\ pc[r] = "waiting" /\ attempt[r] = 1
    /\ \/ r \in Messages /\ CancelResponse(r, 1)
       \/ r \in Queries /\ UNCHANGED tableVars
    /\ Go(r, "failed")
    /\ UNCHANGED <<linkVars, attempt, sock, asked, delivering, crashed>>

(* The wait is over.  Only SendMessage cancels its waiter, and only while   *)
(* its first attempt lasts: it gives retryFrame no timeout.                 *)
TimedOut(r) ==
    /\ pc[r] = "waiting"
    /\ \/ r \in Messages /\ attempt[r] = 1 /\ CancelResponse(r, 1)
       \/ r \in Queries /\ UNCHANGED tableVars
    /\ Go(r, "failed")
    /\ UNCHANGED <<linkVars, attempt, sock, asked, delivering, crashed>>

-----------------------------------------------------------------------------
(* retryFrame.                                                             *)

(* WaitForConnection returns after five seconds, or when a disconnect is   *)
(* expected.                                                               *)
NotReconnected(r) ==
    /\ pc[r] = "reconnecting"
    /\ Go(r, "failed")
    /\ UNCHANGED <<linkVars, tableVars, attempt, sock, asked, delivering, crashed>>

Reconnected(r) ==
    /\ pc[r] = "reconnecting" /\ conn \in alive
    /\ Go(r, "reading")
    /\ UNCHANGED <<linkVars, tableVars, attempt, sock, asked, delivering, crashed>>

ReadSocketAgain(r) ==
    /\ pc[r] = "reading"
    /\ \/ conn = None /\ Go(r, "failed") /\ UNCHANGED sock
       \/ conn # None /\ Go(r, "registering") /\ sock' = [sock EXCEPT ![r] = conn]
    /\ UNCHANGED <<linkVars, tableVars, attempt, asked, delivering, crashed>>

(* waitResponse is called before the frame is written. *)
RegisterAgain(r) ==
    /\ pc[r] = "registering"
    /\ WaitResponse(r, attempt[r] + 1)
    /\ attempt' = [attempt EXCEPT ![r] = @ + 1]
    /\ Go(r, "sending")
    /\ UNCHANGED <<linkVars, sock, asked, delivering, crashed>>

-----------------------------------------------------------------------------
(* The reader of connection g, which also still handles what it had read   *)
(* when the connection closed.                                             *)

(* receiveResponse: the answer to r comes in, its waiter leaves the map ... *)
Receive(g, r) ==
    /\ delivering[g] = {} /\ r \in asked[g]
    /\ asked' = [asked EXCEPT ![g] = @ \ {r}]
    /\ delivering' = [delivering EXCEPT ![g] =
                        IF waiters[r] = None THEN {} ELSE {<<r, waiters[r]>>}]
    /\ waiters' = [waiters EXCEPT ![r] = None]
    /\ UNCHANGED <<linkVars, chan, pc, attempt, sock, crashed>>

(* ... and gets the node.  Sending on a closed channel panics, and sending *)
(* on a full one blocks the reader.                                        *)
Deliver(g) ==
    /\ \E d \in delivering[g] :
        \/ /\ chan[d[1]][d[2]] = "empty"
           /\ chan' = [chan EXCEPT ![d[1]][d[2]] = "answer"]
           /\ UNCHANGED crashed
        \/ /\ chan[d[1]][d[2]] = "closed"
           /\ crashed' = TRUE
           /\ UNCHANGED chan
    /\ delivering' = [delivering EXCEPT ![g] = {}]
    /\ UNCHANGED <<linkVars, waiters, pc, attempt, sock, asked>>

-----------------------------------------------------------------------------
(* The connection.                                                         *)

(* Connect drops a current socket that is dead. *)
DropDead ==
    /\ conn # None /\ conn \notin alive
    /\ conn' = None
    /\ ClearResponseWaiters("disconnect")
    /\ UNCHANGED <<alive, made, notices, errors, pc, attempt, sock, asked,
                   delivering, crashed>>

(* A new connection may be dead when cli.socket is set. *)
Connect ==
    /\ conn = None /\ made < MaxConns
    /\ made' = made + 1
    /\ conn' = made + 1
    /\ alive' \in {alive, alive \cup {made + 1}}
    /\ UNCHANGED <<notices, errors, tableVars, pc, attempt, sock, asked,
                   delivering, crashed>>

RemoteClose(g) ==
    /\ g \in alive
    /\ alive' = alive \ {g}
    /\ notices' = notices \cup {g}
    /\ UNCHANGED <<conn, made, errors, tableVars, pc, attempt, sock, asked,
                   delivering, crashed>>

(* MUTANT: the waiters are only told of an unexpected disconnection. *)
OnDisconnectSilent(g) ==
    /\ g \in notices
    /\ notices' = notices \ {g}
    /\ conn' = IF conn = g THEN None ELSE conn
    /\ UNCHANGED tableVars
    /\ UNCHANGED <<alive, made, errors, pc, attempt, sock, asked, delivering,
                   crashed>>

OnDisconnect(g) ==
    /\ g \in notices
    /\ notices' = notices \ {g}
    /\ \/ conn = g /\ conn' = None /\ ClearResponseWaiters("disconnect")
       \/ conn # g /\ UNCHANGED <<conn, waiters, chan>>
    /\ UNCHANGED <<alive, made, errors, pc, attempt, sock, asked, delivering,
                   crashed>>

Disconnect ==
    /\ conn # None
    /\ alive' = alive \ {conn}
    /\ conn' = None
    /\ ClearResponseWaiters("disconnect")
    /\ UNCHANGED <<made, notices, errors, pc, attempt, sock, asked, delivering,
                   crashed>>

(* handleStreamError, possibly of a node that an old connection received. *)
StreamError ==
    /\ errors < MaxStreamErrors /\ made > 0
    /\ errors' = errors + 1
    /\ \E node \in {"disconnect", "auth"} : ClearResponseWaiters(node)
    /\ UNCHANGED <<conn, alive, made, notices, pc, attempt, sock, asked,
                   delivering, crashed>>

-----------------------------------------------------------------------------
Init ==
    /\ conn = None /\ alive = {} /\ made = 0 /\ notices = {} /\ errors = 0
    /\ waiters = [r \in Requests |-> None]
    /\ chan = [r \in Requests |-> [k \in Attempts |-> "none"]]
    /\ pc = [r \in Requests |-> "new"]
    /\ attempt = [r \in Requests |-> 1]
    /\ sock = [r \in Requests |-> None]
    /\ asked = [g \in Conns |-> {}]
    /\ delivering = [g \in Conns |-> {}]
    /\ crashed = FALSE

RequestStep(r) ==
    \/ Register(r) \/ PrepareFails(r) \/ ReadSocket(r) \/ SendFrame(r)
    \/ Answered(r) \/ Interrupted(r) \/ TimedOut(r)
    \/ NotReconnected(r) \/ Reconnected(r) \/ ReadSocketAgain(r) \/ RegisterAgain(r)

ReaderStep(g) == Deliver(g) \/ \E r \in Requests : Receive(g, r)

LinkStep ==
    \/ DropDead \/ Connect \/ Disconnect \/ StreamError
    \/ \E g \in Conns : RemoteClose(g) \/ OnDisconnect(g)

Next ==
    /\ ~crashed
    /\ \/ \E r \in Requests : RequestStep(r)
       \/ \E g \in Conns : ReaderStep(g)
       \/ LinkStep

Spec == Init /\ [][Next]_vars

(* The goroutines of the requests run, and so do their timers, the readers  *)
(* and onDisconnect.  The server need not answer, and nothing has to close. *)
FairSpec ==
    /\ Spec
    /\ \A r \in Requests : WF_vars(~crashed /\ RequestStep(r))
    /\ \A g \in Conns : WF_vars(~crashed /\ (Deliver(g) \/ OnDisconnect(g)))

-----------------------------------------------------------------------------
(* Safety. *)

(* A channel in the table is open and empty: the reader never blocks on     *)
(* one, and clearResponseWaiters reaches every waiter with its node and     *)
(* never takes the branch that closes a channel under its reader.           *)
WaitersAreEmpty ==
    \A r \in Requests : waiters[r] # None => chan[r][waiters[r]] = "empty"

(* The channel of r's attempt k has been taken by a reader. *)
InDelivery(r, k) == \E g \in Conns : <<r, k>> \in delivering[g]

(* Nobody waits for a connection that is gone: a request that waits with    *)
(* nothing in its channel, and no answer on its way to it, is still in the  *)
(* table, and its frame went to the connection whose end will clear it.     *)
NobodyForgotten ==
    \A r \in Requests :
        pc[r] = "waiting" /\ chan[r][attempt[r]] = "empty" /\ ~InDelivery(r, attempt[r])
        => /\ waiters[r] = attempt[r]
           /\ conn = sock[r]
           /\ conn \in alive \cup notices

(* SendRequestExtra.Timeout: "this only applies to the actual response      *)
(* waiting".  Giving up on a request never takes the process down, however  *)
(* late the answer is.                                                      *)
GivingUpIsSafe == ~crashed

-----------------------------------------------------------------------------
(* Liveness. *)

(* Every query ends, even when the server answers nothing.                  *)
QueriesEnd ==
    \A r \in Queries : pc[r] # "new" ~> pc[r] \in Ended \/ crashed

=============================================================================
