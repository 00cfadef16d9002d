----------------------------- MODULE Connection -----------------------------
(***************************************************************************)
(* The life cycle of the websocket of a whatsmeow Client: Connect,         *)
(* Disconnect, onDisconnect, autoReconnect, the keepalive loop, the        *)
(* handlers of <success>, <failure> and <stream:error>, and the add-on     *)
(* loop that calls Connect whenever it sees the client disconnected.       *)
(*                                                                         *)
(* Each connection attempt builds a new FrameSocket and, when the noise    *)
(* handshake ends, a NoiseSocket around it.  Both are one element of       *)
(* Sockets here; an element is used again once every goroutine of its      *)
(* former life has ended.  cli.socketLock is a variable, because Connect   *)
(* holds it across the dial and the handshake while the socket it is       *)
(* building may already die.                                               *)
(*                                                                         *)
(* Goroutines that are in the same state are interchangeable, so the       *)
(* autoReconnect goroutines and the goroutines started for a pairing and   *)
(* for code 515 are counted, not named.                                                     *)
(***************************************************************************)
EXTENDS Integers, Sequences

CONSTANTS
    Sockets,              \* FrameSocket / NoiseSocket instances
    NoSocket,             \* the nil socket
    EnableAutoReconnect,  \* the client option of that name
    InitialAutoReconnect, \* the client option of that name
    QueueCap,             \* bound: nodes waiting in cli.handlerQueue
    MaxFaults             \* bound: faults and manual disconnections

ASSUME SocketsAssumption == NoSocket \notin Sockets
ASSUME OptionsAssumption == /\ EnableAutoReconnect \in BOOLEAN
                            /\ InitialAutoReconnect \in BOOLEAN
ASSUME BoundsAssumption == QueueCap \in Nat /\ MaxFaults \in Nat

VARIABLES
    cur,       \* cli.socket
    open,      \* open[s]: fs.conn # nil
    running,   \* running[s]: fs.OnDisconnect is set and ns.destroyed is not
    lock,      \* who holds cli.socketLock to connect: "free" or a caller
    phase,     \* how far that caller is: "none", "dial", "handshake", "finish"
    dialing,   \* the FrameSocket it is connecting
    expected,  \* cli.expectedDisconnect
    loggedIn,  \* cli.isLoggedIn
    hasID,     \* cli.Store.ID # nil
    notify,    \* notify[s]: the onDisconnect goroutine of s
    auto,      \* number of autoReconnect goroutines in each state
    relogin,   \* number of goroutines that pair or handle code 515, in each state
    app,       \* the add-on loop: "idle", or inside Connect
    keepalive, \* keepalive[s]: the keepAliveLoop of s
    looping,   \* sockets whose handlerQueueLoop runs
    handling,  \* handling[s]: the node that loop is handling, if any
    queue,     \* cli.handlerQueue
    server,    \* server[s]: what the server has told s so far
    quiet,     \* history: nobody is supposed to be reconnecting
    faults     \* number of faults so far

connVars  == <<cur, open, running, dialing>>
lockVars  == <<lock, phase>>
nodeVars  == <<looping, handling, queue, server>>
vars == <<cur, open, running, lock, phase, dialing, expected, loggedIn, hasID,
          notify, auto, relogin, app, keepalive, looping, handling, queue, server,
          quiet, faults>>

Callers == {"app", "auto", "relogin"}

(* The nodes whose handlers touch the connection. *)
LoginNodes  == {"success", "failure_retry", "failure_final", "failure_loggedout"}
StreamNodes == {"stream_515", "stream_removed", "stream_replaced", "stream_503"}
Kinds       == LoginNodes \cup StreamNodes \cup {"pair"}

(* What the server waits for: the scan of a QR code, the confirmation of a  *)
(* pairing, nothing before it asks for a new login, an answer of its own to *)
(* the login, and nothing before or after it ends a session.                *)
ServerStates == {"pairing", "confirm", "paired", "login", "in", "done"}

(* States of the goroutines that are counted. *)
AutoStates    == {"wait", "woken", "connect"}
ReloginStates == {"pair", "disconnect", "connect"}

Idle == "idle"
Off  == "off"

(* With its type every variable keeps what ties it to the lock: a caller of *)
(* Connect holds it in every phase, and there is a half-open websocket only *)
(* from the dial to the end of the handshake.                              *)
TypeOK ==
    /\ cur \in Sockets \cup {NoSocket}
    /\ open \in [Sockets -> BOOLEAN]
    /\ running \in [Sockets -> BOOLEAN]
    /\ lock \in Callers \cup {"free"}
    /\ phase \in {"none", "dial", "handshake", "finish"}
    /\ dialing \in Sockets \cup {NoSocket}
    /\ lock = "free" <=> phase = "none"
    /\ dialing # NoSocket <=> phase \in {"handshake", "finish"}
    /\ expected \in BOOLEAN /\ loggedIn \in BOOLEAN /\ hasID \in BOOLEAN
    /\ notify \in [Sockets -> {"none", "called", "stopped"}]
    /\ auto \in [AutoStates -> Nat]
    /\ relogin \in [ReloginStates -> Nat]
    /\ app \in {Idle, "connect"}
    /\ keepalive \in [Sockets -> {Off, "on", "disconnect", "reset"}]
    /\ looping \in SUBSET Sockets
    /\ handling \in [Sockets -> SUBSET Kinds]
    /\ queue \in Seq(Kinds)
    /\ server \in [Sockets -> ServerStates]
    /\ quiet \in BOOLEAN
    /\ faults \in 0..MaxFaults

-----------------------------------------------------------------------------
(* Helpers.  Each is a part of the actions below, never a step of its own. *)

IsConnected == cur # NoSocket /\ open[cur]

(* No goroutine of a former life of s is left. *)
Unused(s) ==
    /\ s # cur /\ s # dialing /\ ~open[s] /\ ~running[s]
    /\ notify[s] = "none" /\ keepalive[s] = Off
    /\ s \notin looping /\ handling[s] = {}

Fault == faults < MaxFaults /\ faults' = faults + 1

Moved(count, from, to) == [count EXCEPT ![from] = @ - 1, ![to] = @ + 1]
Gone(count, from)      == [count EXCEPT ![from] = @ - 1]
Added(count, to)       == [count EXCEPT ![to] = @ + 1]

(* Set() of the event: everyone waiting for it sees its channel closed, and *)
(* still does after a later Clear().                                        *)
AllWoken == [auto EXCEPT !["wait"] = 0, !["woken"] = @ + auto["wait"]]
ExpectDisconnect == expected' = TRUE /\ auto' = AllWoken

(* The state in which WaitTimeoutCtx starts while the event is set or not. *)
WaitState(isSet) == IF isSet THEN "woken" ELSE "wait"

(* The autoReconnect goroutine up to its first wait. *)
Spawned(count, isSet) ==
    IF EnableAutoReconnect /\ hasID THEN Added(count, WaitState(isSet)) ELSE count

(* MUTANT: Stop(false), the websocket is left open. *)
UnlockedDisconnectLeaks ==
    /\ cur' = NoSocket
    /\ open' = open
    /\ running' = [s \in Sockets |-> running[s] /\ s # cur]

(* socket.Stop(true) and cli.socket = nil.  OnDisconnect is nil by the time *)
(* the websocket is closed, so closing it starts no onDisconnect.           *)
UnlockedDisconnect ==
    /\ cur' = NoSocket
    /\ open' = [s \in Sockets |-> open[s] /\ s # cur]
    /\ running' = [s \in Sockets |-> running[s] /\ s # cur]

Disconnect ==
    /\ lock = "free"
    /\ ExpectDisconnect
    /\ UnlockedDisconnect

-----------------------------------------------------------------------------
(* Connect: the callers are the add-on loop (through ConnectContext),      *)
(* autoReconnect goroutines and goroutines handling code 515.              *)

Waiting(c) ==
    \/ c = "app" /\ app = "connect"
    \/ c = "auto" /\ auto["connect"] > 0
    \/ c = "relogin" /\ relogin["connect"] > 0

(* The add-on loop saw IsConnected() false some time before it locks. *)
AppPoll ==
    /\ app = Idle /\ ~IsConnected
    /\ app' = "connect"
    /\ UNCHANGED <<connVars, lockVars, nodeVars, expected, loggedIn, hasID,
                   notify, auto, relogin, keepalive, quiet, faults>>

(* What the caller does when connect() returned nil or ErrAlreadyConnected: *)
(* an autoReconnect ends, and so does the goroutine of a 515.               *)
Returned(c) ==
    \/ c = "app"     /\ app' = Idle /\ UNCHANGED <<auto, relogin>>
    \/ c = "auto"    /\ auto' = Gone(auto, "connect") /\ UNCHANGED <<app, relogin>>
    \/ c = "relogin" /\ relogin' = Gone(relogin, "connect") /\ UNCHANGED <<app, auto>>

(* ... and when it returned any other error.  autoReconnect tries again    *)
(* unless a disconnect is expected; ConnectContext hands a retryable error *)
(* to an autoReconnect only if InitialAutoReconnect is set.                *)
Failed(c, retryable) ==
    \/ /\ c = "auto"
       /\ auto' = IF expected THEN Gone(auto, "connect")
                  ELSE Moved(auto, "connect", "wait")
       /\ UNCHANGED <<app, relogin, quiet>>
    \/ /\ c = "relogin"
       /\ relogin' = Gone(relogin, "connect")
       /\ quiet' = TRUE
       /\ UNCHANGED <<app, auto>>
    \/ /\ c = "app"
       /\ app' = Idle
       /\ IF retryable /\ InitialAutoReconnect /\ EnableAutoReconnect /\ hasID
          THEN auto' = Added(auto, WaitState(expected)) /\ UNCHANGED quiet
          ELSE quiet' = TRUE /\ UNCHANGED auto
       /\ UNCHANGED relogin

ConnectRefused(c) ==
    /\ Waiting(c) /\ lock = "free"
    /\ IsConnected
    /\ Returned(c)
    /\ UNCHANGED <<connVars, lockVars, nodeVars, expected, loggedIn, hasID,
                   notify, keepalive, quiet, faults>>

(* MUTANT: the check is left to the caller, which saw the client disconnected *)
(* before it waited for the lock.                                           *)
ConnectStartUnchecked(c) ==
    /\ Waiting(c) /\ lock = "free"
    /\ UnlockedDisconnect
    /\ expected' = FALSE
    /\ lock' = c /\ phase' = "dial"
    /\ UNCHANGED <<dialing, nodeVars, loggedIn, hasID, notify, auto, relogin,
                   app, keepalive, quiet, faults>>

(* A current socket that is already dead is dropped first. *)
ConnectStart(c) ==
    /\ Waiting(c) /\ lock = "free"
    /\ ~IsConnected
    /\ UnlockedDisconnect
    /\ expected' = FALSE
    /\ lock' = c /\ phase' = "dial"
    /\ UNCHANGED <<dialing, nodeVars, loggedIn, hasID, notify, auto, relogin,
                   app, keepalive, quiet, faults>>

DialOk ==
    /\ phase = "dial"
    /\ \E s \in Sockets :
        /\ Unused(s)
        /\ dialing' = s
        /\ open' = [open EXCEPT ![s] = TRUE]
    /\ phase' = "handshake"
    /\ UNCHANGED <<cur, running, lock, nodeVars, expected, loggedIn, hasID,
                   notify, auto, relogin, app, keepalive, quiet, faults>>

(* The last handshake message is written: SendFrame needs an open socket. *)
HandshakeSent ==
    /\ phase = "handshake" /\ open[dialing]
    /\ phase' = "finish"
    /\ UNCHANGED <<connVars, lock, nodeVars, expected, loggedIn, hasID, notify,
                   auto, relogin, app, keepalive, quiet, faults>>

(* MUTANT: the error path returns without unlocking. *)
ConnectFailedLocked ==
    /\ phase \in {"dial", "handshake"}
    /\ IF phase = "handshake" /\ ~open[dialing] THEN UNCHANGED faults ELSE Fault
    /\ open' = [s \in Sockets |-> open[s] /\ s # dialing]
    /\ dialing' = NoSocket
    /\ \E retryable \in BOOLEAN : Failed(lock, retryable)
    /\ lock' = lock /\ phase' = "none"
    /\ UNCHANGED <<cur, running, nodeVars, expected, loggedIn, hasID, notify,
                   keepalive>>

(* MUTANT: the error path leaves the half-open websocket. *)
ConnectFailedOpen ==
    /\ phase \in {"dial", "handshake"}
    /\ IF phase = "handshake" /\ ~open[dialing] THEN UNCHANGED faults ELSE Fault
    /\ \E retryable \in BOOLEAN : Failed(lock, retryable)
    /\ lock' = "free" /\ phase' = "none"
    /\ UNCHANGED <<connVars, nodeVars, expected, loggedIn, hasID, notify, keepalive>>

(* The dial or the handshake fails, with an error of the network or any    *)
(* other; fs.Close(0) finds no OnDisconnect.                               *)
ConnectFailed ==
    /\ phase \in {"dial", "handshake"}
    /\ IF phase = "handshake" /\ ~open[dialing] THEN UNCHANGED faults ELSE Fault
    /\ open' = [s \in Sockets |-> open[s] /\ s # dialing]
    /\ dialing' = NoSocket
    /\ \E retryable \in BOOLEAN : Failed(lock, retryable)
    /\ lock' = "free" /\ phase' = "none"
    /\ UNCHANGED <<cur, running, nodeVars, expected, loggedIn, hasID, notify,
                   keepalive>>

(* newNoiseSocket sets OnDisconnect whether or not the websocket still is  *)
(* open; then cli.socket is set and the two loops are started.             *)
Installed ==
    /\ phase = "finish"
    /\ cur' = dialing /\ dialing' = NoSocket
    /\ running' = [running EXCEPT ![dialing] = TRUE]
    /\ keepalive' = [keepalive EXCEPT ![dialing] = "on"]
    /\ looping' = looping \cup {dialing}
    /\ server' = [server EXCEPT ![dialing] = IF hasID THEN "login" ELSE "pairing"]
    /\ Returned(lock)
    /\ quiet' = FALSE
    /\ lock' = "free" /\ phase' = "none"
    /\ UNCHANGED <<open, handling, queue, expected, loggedIn, hasID, notify,
                   faults>>

-----------------------------------------------------------------------------
(* Losing the connection.                                                  *)

(* readPump ends with fs.Close(0): the server or the network closed it,    *)
(* which is no fault once the server has ended the session.                *)
RemoteClose(s) ==
    /\ open[s]
    /\ IF running[s] /\ server[s] = "done" THEN UNCHANGED faults ELSE Fault
    /\ open' = [open EXCEPT ![s] = FALSE]
    /\ notify' = IF running[s] THEN [notify EXCEPT ![s] = "called"] ELSE notify
    /\ UNCHANGED <<cur, running, dialing, lockVars, nodeVars, expected, loggedIn,
                   hasID, auto, relogin, app, keepalive, quiet>>

(* onDisconnect, before it locks: ns.Stop(false). *)
OnDisconnectStop(s) ==
    /\ notify[s] = "called"
    /\ notify' = [notify EXCEPT ![s] = "stopped"]
    /\ running' = [running EXCEPT ![s] = FALSE]
    /\ UNCHANGED <<cur, open, dialing, lockVars, nodeVars, expected, loggedIn,
                   hasID, auto, relogin, app, keepalive, quiet, faults>>

(* MUTANT: cli.socket is set to nil before it is compared. *)
OnDisconnectForgets(s) ==
    /\ notify[s] = "stopped" /\ lock = "free"
    /\ notify' = [notify EXCEPT ![s] = "none"]
    /\ cur' = IF cur = s THEN NoSocket ELSE cur
    /\ UNCHANGED <<open, running, dialing, lockVars, nodeVars, expected, loggedIn,
                   hasID, auto, relogin, app, keepalive, quiet, faults>>

(* onDisconnect, under the lock. *)
OnDisconnect(s) ==
    /\ notify[s] = "stopped" /\ lock = "free"
    /\ notify' = [notify EXCEPT ![s] = "none"]
    /\ cur' = IF cur = s THEN NoSocket ELSE cur
    /\ auto' = IF cur = s /\ ~expected THEN Spawned(auto, FALSE) ELSE auto
    /\ quiet' = (quiet \/ (cur = s /\ ~expected /\ ~(EnableAutoReconnect /\ hasID)))
    /\ UNCHANGED <<open, running, dialing, lockVars, nodeVars, expected,
                   loggedIn, hasID, relogin, app, keepalive, faults>>

(* Any goroutine calling Disconnect: the QR emitter at its timeout, the    *)
(* add-on's shutdown.                                                      *)
ManualDisconnect ==
    /\ Disconnect /\ Fault
    /\ UNCHANGED <<dialing, lockVars, nodeVars, loggedIn, hasID, notify, relogin,
                   app, keepalive, quiet>>

-----------------------------------------------------------------------------
(* autoReconnect: its sleep ends by the timer or by expectedDisconnect.    *)
(* When both are ready the select takes either.                            *)

AutoTimeout(from) ==
    /\ from \in {"wait", "woken"} /\ auto[from] > 0
    /\ auto' = Moved(auto, from, "connect")
    /\ UNCHANGED <<connVars, lockVars, nodeVars, expected, loggedIn, hasID,
                   notify, relogin, app, keepalive, quiet, faults>>

AutoCancelled ==
    /\ auto["woken"] > 0
    /\ auto' = Gone(auto, "woken")
    /\ UNCHANGED <<connVars, lockVars, nodeVars, expected, loggedIn, hasID,
                   notify, relogin, app, keepalive, quiet, faults>>

-----------------------------------------------------------------------------
(* keepAliveLoop: pings fail for KeepAliveMaxFailTime on an open socket.   *)

KeepAliveGiveUp(s) ==
    /\ keepalive[s] = "on" /\ open[s] /\ EnableAutoReconnect /\ Fault
    /\ keepalive' = [keepalive EXCEPT ![s] = "disconnect"]
    /\ UNCHANGED <<connVars, lockVars, nodeVars, expected, loggedIn, hasID,
                   notify, auto, relogin, app, quiet>>

KeepAliveDisconnect(s) ==
    /\ keepalive[s] = "disconnect"
    /\ Disconnect
    /\ keepalive' = [keepalive EXCEPT ![s] = "reset"]
    /\ UNCHANGED <<dialing, lockVars, nodeVars, loggedIn, hasID, notify, relogin,
                   app, quiet, faults>>

KeepAliveReset(s) ==
    /\ keepalive[s] = "reset"
    /\ expected' = FALSE
    /\ auto' = Spawned(auto, FALSE)
    /\ keepalive' = [keepalive EXCEPT ![s] = "on"]
    /\ quiet' = (quiet \/ ~hasID)
    /\ UNCHANGED <<connVars, lockVars, nodeVars, loggedIn, hasID, notify,
                   relogin, app, faults>>

(* fs.Close cancelled the context of the connection. *)
KeepAliveExit(s) ==
    /\ keepalive[s] = "on" /\ ~open[s]
    /\ keepalive' = [keepalive EXCEPT ![s] = Off]
    /\ UNCHANGED <<connVars, lockVars, nodeVars, expected, loggedIn, hasID,
                   notify, auto, relogin, app, quiet, faults>>

-----------------------------------------------------------------------------
(* Nodes.  The server answers a login with <success> or <failure>, sends   *)
(* at most one stream error, and 515 only once a pairing is confirmed.     *)

Answers(state) ==
    CASE state = "pairing" -> {<<"pair", "confirm">>}
      [] state = "paired"  -> {<<"stream_515", "done">>}
      [] state = "login"   -> {<<"success", "in">>} \cup
                              (LoginNodes \ {"success"}) \X {"done"}
      [] state = "in"      -> StreamNodes \X {"done"}
      [] OTHER             -> {}

(* handleFrame: the node goes to the queue the handler loops share. *)
Receive(s) ==
    /\ open[s] /\ running[s] /\ Len(queue) < QueueCap
    /\ \E a \in Answers(server[s]) :
        /\ IF a[1] \in {"success", "pair"} THEN UNCHANGED faults ELSE Fault
        /\ queue' = Append(queue, a[1])
        /\ server' = [server EXCEPT ![s] = a[2]]
    /\ UNCHANGED <<connVars, lockVars, looping, handling, expected, loggedIn,
                   hasID, notify, auto, relogin, app, keepalive, quiet>>

(* Whichever loop is free takes the node, whatever socket it came from. *)
Dequeue(s) ==
    /\ s \in looping /\ handling[s] = {} /\ queue # <<>>
    /\ handling' = [handling EXCEPT ![s] = {Head(queue)}]
    /\ queue' = Tail(queue)
    /\ UNCHANGED <<connVars, lockVars, looping, server, expected, loggedIn,
                   hasID, notify, auto, relogin, app, keepalive, quiet, faults>>

(* MUTANT: the loop looks at the context only when it gets a node. *)
LoopExitLate(s) ==
    /\ s \in looping /\ handling[s] = {} /\ ~open[s] /\ queue # <<>>
    /\ looping' = looping \ {s}
    /\ UNCHANGED <<connVars, lockVars, handling, queue, server, expected,
                   loggedIn, hasID, notify, auto, relogin, app, keepalive,
                   quiet, faults>>

LoopExit(s) ==
    /\ s \in looping /\ handling[s] = {} /\ ~open[s]
    /\ looping' = looping \ {s}
    /\ UNCHANGED <<connVars, lockVars, handling, queue, server, expected,
                   loggedIn, hasID, notify, auto, relogin, app, keepalive,
                   quiet, faults>>

(* The handler of the node that the loop of s took is done. *)
Handle(s, kinds) ==
    /\ \E n \in handling[s] : n \in kinds
    /\ handling' = [handling EXCEPT ![s] = {}]
    /\ UNCHANGED <<looping, queue>>

HandleSuccess(s) ==
    /\ Handle(s, {"success"})
    /\ loggedIn' = TRUE
    /\ UNCHANGED <<connVars, lockVars, server, expected, hasID, notify, auto, relogin,
                   app, keepalive, quiet, faults>>

(* handleConnectFailure; a logged out device also loses its store, unless  *)
(* the deletion fails.                                                     *)
HandleFailure(s) ==
    \/ /\ Handle(s, {"failure_retry"})
       /\ UNCHANGED <<connVars, lockVars, server, expected, loggedIn, hasID,
                      notify, auto, relogin, app, keepalive, quiet, faults>>
    \/ /\ Handle(s, {"failure_final"})
       /\ ExpectDisconnect
       /\ UNCHANGED <<connVars, lockVars, server, loggedIn, hasID, notify, relogin,
                      app, keepalive, quiet, faults>>
    \/ /\ Handle(s, {"failure_loggedout"})
       /\ ExpectDisconnect
       /\ hasID' \in {FALSE, hasID}
       /\ UNCHANGED <<connVars, lockVars, server, loggedIn, notify, relogin, app,
                      keepalive, quiet, faults>>

(* handleStreamError *)
HandleStreamError(s) ==
    /\ Handle(s, StreamNodes)
    /\ loggedIn' = FALSE
    /\ \E n \in handling[s] :
        \/ /\ n = "stream_515"
           /\ relogin' = Added(relogin, "disconnect")
           /\ UNCHANGED <<expected, auto, hasID>>
        \/ /\ n = "stream_removed"
           /\ ExpectDisconnect
           /\ hasID' \in {FALSE, hasID}
           /\ UNCHANGED relogin
        \/ /\ n = "stream_replaced"
           /\ ExpectDisconnect
           /\ UNCHANGED <<relogin, hasID>>
        \/ /\ n = "stream_503"
           /\ UNCHANGED <<expected, auto, relogin, hasID>>
    /\ UNCHANGED <<connVars, lockVars, server, notify, app, keepalive, quiet, faults>>

(* The goroutine of a 515: Disconnect, then connect. *)
ReloginDisconnect ==
    /\ relogin["disconnect"] > 0
    /\ Disconnect
    /\ relogin' = Moved(relogin, "disconnect", "connect")
    /\ UNCHANGED <<dialing, lockVars, nodeVars, loggedIn, hasID, notify, app,
                   keepalive, quiet, faults>>

(* handlePairSuccess: the pairing goes on in a goroutine of its own. *)
HandlePairSuccess(s) ==
    /\ Handle(s, {"pair"})
    /\ relogin' = Added(relogin, "pair")
    /\ UNCHANGED <<connVars, lockVars, server, expected, loggedIn, hasID, notify,
                   auto, app, keepalive, quiet, faults>>

(* handlePair saves the device, expects a disconnect and confirms on the    *)
(* current connection.  If anything fails on the way the goroutine calls    *)
(* Disconnect; how much of the device is left depends on what failed.       *)
HandlePair ==
    /\ relogin["pair"] > 0
    /\ relogin' = Gone(relogin, "pair")
    /\ \/ /\ IsConnected
          /\ hasID' = TRUE
          /\ ExpectDisconnect
          /\ server' = IF server[cur] = "confirm" THEN [server EXCEPT ![cur] = "paired"]
                       ELSE server
          /\ UNCHANGED <<cur, open, running, faults>>
       \/ /\ hasID' \in BOOLEAN
          /\ Disconnect
          /\ IF IsConnected THEN Fault ELSE UNCHANGED faults
          /\ UNCHANGED server
    /\ UNCHANGED <<dialing, lockVars, looping, handling, queue, loggedIn, notify,
                   app, keepalive, quiet>>

-----------------------------------------------------------------------------
Init ==
    /\ cur = NoSocket /\ dialing = NoSocket
    /\ open = [s \in Sockets |-> FALSE]
    /\ running = [s \in Sockets |-> FALSE]
    /\ lock = "free" /\ phase = "none"
    /\ expected = FALSE /\ loggedIn = FALSE
    /\ hasID \in BOOLEAN
    /\ notify = [s \in Sockets |-> "none"]
    /\ auto = [a \in AutoStates |-> 0]
    /\ relogin = [r \in ReloginStates |-> 0]
    /\ app = Idle
    /\ keepalive = [s \in Sockets |-> Off]
    /\ looping = {}
    /\ handling = [s \in Sockets |-> {}]
    /\ queue = <<>>
    /\ server = [s \in Sockets |-> "done"]
    /\ quiet = TRUE
    /\ faults = 0

Connecting ==
    \/ \E c \in Callers : ConnectRefused(c) \/ ConnectStart(c)
    \/ DialOk \/ HandshakeSent \/ ConnectFailed \/ Installed

SocketStep(s) ==
    \/ RemoteClose(s) \/ OnDisconnectStop(s) \/ OnDisconnect(s)
    \/ KeepAliveGiveUp(s) \/ KeepAliveDisconnect(s) \/ KeepAliveReset(s)
    \/ KeepAliveExit(s)
    \/ Receive(s) \/ Dequeue(s) \/ LoopExit(s)
    \/ HandleSuccess(s) \/ HandleFailure(s) \/ HandleStreamError(s)
    \/ HandlePairSuccess(s)

Next ==
    \/ AppPoll \/ Connecting \/ ManualDisconnect
    \/ \E s \in Sockets : SocketStep(s)
    \/ \E from \in AutoStates : AutoTimeout(from)
    \/ AutoCancelled \/ ReloginDisconnect \/ HandlePair

Spec == Init /\ [][Next]_vars

(* What the client does without being driven by a fault or by a node: the  *)
(* goroutines that can run, the timers, the add-on's poll, the end of a    *)
(* handshake the server answers or lets time out, and the server closing   *)
(* the stream of a session it has ended.                                   *)
Progress ==
    \/ AppPoll \/ DialOk \/ HandshakeSent \/ Installed
    \/ \E c \in Callers : ConnectRefused(c) \/ ConnectStart(c)
    \/ phase = "handshake" /\ ~open[dialing] /\ ConnectFailed
    \/ AutoTimeout("wait") \/ AutoTimeout("woken") \/ AutoCancelled
    \/ ReloginDisconnect \/ HandlePair
    \/ \E s \in Sockets :
        \/ OnDisconnectStop(s) \/ OnDisconnect(s)
        \/ KeepAliveDisconnect(s) \/ KeepAliveReset(s) \/ KeepAliveExit(s)
        \/ Dequeue(s) \/ LoopExit(s)
        \/ HandleSuccess(s) \/ HandleFailure(s) \/ HandleStreamError(s)
        \/ HandlePairSuccess(s)
        \/ server[s] = "done" /\ running[s] /\ RemoteClose(s)

(* As long as some of these can happen, one of them eventually does.  It    *)
(* is all the fairness needed, and less than the Go scheduler gives.        *)
FairSpec == Spec /\ WF_vars(Progress)

-----------------------------------------------------------------------------
(* Safety. *)

(* At most one websocket is alive at a time, and it is the one cli.socket   *)
(* points to or the one Connect is still building: no sequence of Connect,  *)
(* Disconnect, onDisconnect and reconnects leaks a live connection.         *)
OneLiveSocket ==
    /\ \A s \in Sockets : open[s] => s = cur \/ s = dialing
    /\ dialing # NoSocket => cur = NoSocket

(* cli.socket died between the last handshake frame and the registration of *)
(* OnDisconnect, or its onDisconnect is still on the way.                   *)
DeadOnArrival == cur # NoSocket /\ ~open[cur] /\ notify[cur] = "none"

(* An unexpected loss of the connection never leaves a paired client with   *)
(* nobody to reconnect it: while it is down, an onDisconnect or an          *)
(* autoReconnect goroutine that nothing has cancelled is on its way, unless *)
(* the last attempt's error was returned to a caller, or the socket was     *)
(* dead on arrival.                                                         *)
RecoveryPending ==
    ( /\ EnableAutoReconnect /\ hasID /\ ~expected /\ ~quiet
      /\ lock = "free" /\ ~IsConnected /\ ~DeadOnArrival )
    => \/ cur # NoSocket /\ notify[cur] # "none"
       \/ auto["wait"] > 0 \/ auto["connect"] > 0

-----------------------------------------------------------------------------
(* Refinement. *)

LinkStage ==
    CASE phase = "dial" -> "dialing"
      [] phase \in {"handshake", "finish"} -> "greeting"
      [] phase = "none" /\ IsConnected -> "up"
      [] OTHER -> "down"

LinkLive == {s \in Sockets : open[s]}

Abstract == INSTANCE Link WITH stage <- LinkStage, live <- LinkLive

(* The goroutines that connect, disconnect and reconnect together behave    *)
(* like one link: nobody dials while a connection is up or another attempt  *)
(* is on its way (ErrAlreadyConnected under socketLock), an attempt opens   *)
(* one websocket and closes it if it fails, and a connection that is        *)
(* dropped is closed.                                                       *)
ImplementsLink == Abstract!Spec

-----------------------------------------------------------------------------
(* Liveness. *)

(* Once the faults stop, a paired client ends up connected and stays so:    *)
(* the add-on's poll, autoReconnect, the keepalive loops and the 515        *)
(* goroutines do not keep tearing down each other's connections.            *)
EventuallyConnected == <>[](hasID => IsConnected)

(* The two loops of a connection that is gone end. *)
SocketGoroutinesEnd ==
    \A s \in Sockets :
        ~open[s] ~> keepalive[s] = Off /\ s \notin looping

=============================================================================
