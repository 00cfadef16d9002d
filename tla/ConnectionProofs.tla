-------------------------- MODULE ConnectionProofs --------------------------
(* Safety of Connection, for any set of sockets and any bounds.            *)
EXTENDS Connection, TLAPS

USE SocketsAssumption, OptionsAssumption, BoundsAssumption

(* Connect holds the lock for a goroutine that is inside connect(), has a   *)
(* FrameSocket from the dial on, and has cleared cli.socket before.         *)
LockConsistent ==
    /\ lock = "free" <=> phase = "none"
    /\ dialing # NoSocket <=> phase \in {"handshake", "finish"}
    /\ phase # "none" => cur = NoSocket
    /\ lock # "free" => Waiting(lock)

(* onDisconnect runs for sockets whose websocket is closed.                 *)
NotifiedIsClosed == \A s \in Sockets : notify[s] # "none" => ~open[s]

(* OneLiveSocket is not inductive by itself: that Disconnect and            *)
(* onDisconnect may clear cli.socket needs to know what the lock protects.  *)
IInv == TypeOK /\ LockConsistent /\ NotifiedIsClosed /\ OneLiveSocket

(* The counters stay natural numbers when a goroutine that exists leaves. *)
LEMMA Counting ==
    ASSUME NEW S, NEW f \in [S -> Nat], NEW a \in S, f[a] > 0, NEW b \in S, a # b
    PROVE  /\ Moved(f, a, b) \in [S -> Nat]
           /\ Gone(f, a) \in [S -> Nat]
  BY DEF Moved, Gone

LEMMA Adding ==
    ASSUME NEW S, NEW f \in [S -> Nat], NEW a \in S
    PROVE  Added(f, a) \in [S -> Nat] /\ \A b \in S : Added(f, a)[b] >= f[b]
  BY DEF Added

(* Every node the server may send is known, and leaves it in a known state. *)
LEMMA AnswersTyped ==
    ASSUME NEW state, NEW a \in Answers(state)
    PROVE  a[1] \in Kinds /\ a[2] \in ServerStates
  BY DEF Answers, Kinds, LoginNodes, StreamNodes, ServerStates

(* Set() and the start of autoReconnect keep the counters typed. *)
LEMMA WakingTyped ==
    ASSUME auto \in [AutoStates -> Nat]
    PROVE  AllWoken \in [AutoStates -> Nat] /\ AllWoken["connect"] = auto["connect"]
  BY DEF AllWoken, AutoStates

LEMMA SpawnedTyped ==
    ASSUME auto \in [AutoStates -> Nat]
    PROVE  /\ Spawned(auto, FALSE) \in [AutoStates -> Nat]
           /\ Spawned(auto, FALSE)["connect"] >= auto["connect"]
  BY Adding DEF Spawned, WaitState, AutoStates

-----------------------------------------------------------------------------
LEMMA InitIInv == Init => IInv
  <1> SUFFICES ASSUME Init PROVE IInv
    OBVIOUS
  <1>1. TypeOK
    <2>1. auto \in [AutoStates -> Nat] /\ relogin \in [ReloginStates -> Nat]
      BY DEF Init
    <2>2. queue \in Seq(Kinds) /\ handling \in [Sockets -> SUBSET Kinds]
      BY DEF Init
    <2>3. faults \in 0..MaxFaults
      BY DEF Init
    <2>4. QED
      BY <2>1, <2>2, <2>3 DEF Init, TypeOK, Idle, Off, Callers, ServerStates
  <1>2. LockConsistent /\ NotifiedIsClosed /\ OneLiveSocket
    BY DEF Init, LockConsistent, NotifiedIsClosed, OneLiveSocket
  <1>3. QED
    BY <1>1, <1>2 DEF IInv

(* The steps of Connect. *)
LEMMA ConnectingIInv ==
    ASSUME IInv, Connecting
    PROVE  IInv'
  <1> USE DEF IInv, TypeOK, LockConsistent, NotifiedIsClosed, OneLiveSocket, connVars, lockVars,
              nodeVars, Callers, Idle, Off, IsConnected
  <1>1. ASSUME NEW c \in Callers, ConnectRefused(c)
        PROVE  IInv'
    BY <1>1, Counting DEF ConnectRefused, Returned, Waiting, Gone, AutoStates, ReloginStates
  <1>2. ASSUME NEW c \in Callers, ConnectStart(c)
        PROVE  IInv'
    BY <1>2 DEF ConnectStart, UnlockedDisconnect, Waiting
  <1>3. CASE DialOk
    BY <1>3 DEF DialOk, Waiting, Unused
  <1>4. CASE HandshakeSent
    BY <1>4 DEF HandshakeSent, Waiting
  <1>5. CASE ConnectFailed
    <2>r. PICK retryable \in BOOLEAN : Failed(lock, retryable)
      BY <1>5 DEF ConnectFailed
    <2>1. Waiting(lock) /\ Failed(lock, retryable) /\ cur = NoSocket
      BY <1>5, <2>r DEF ConnectFailed
    <2>2. /\ auto' \in [AutoStates -> Nat] /\ relogin' \in [ReloginStates -> Nat]
          /\ app' \in {Idle, "connect"} /\ quiet' \in BOOLEAN
      <3>1. CASE lock = "auto"
        <4>1. auto["connect"] > 0
          BY <3>1, <2>1 DEF Waiting
        <4>2. /\ Gone(auto, "connect") \in [AutoStates -> Nat]
              /\ Moved(auto, "connect", "wait") \in [AutoStates -> Nat]
          BY <4>1, Counting DEF AutoStates
        <4>3. QED
          BY <3>1, <2>1, <4>2 DEF Failed
      <3>2. CASE lock = "relogin"
        BY <3>2, <2>1 DEF Failed, Waiting, Gone, ReloginStates
      <3>3. CASE lock = "app"
        <4>1. Added(auto, WaitState(expected)) \in [AutoStates -> Nat]
          BY Adding DEF AutoStates, WaitState
        <4>2. QED
          BY <3>3, <2>1, <4>1 DEF Failed
      <3>4. QED
        BY <3>1, <3>2, <3>3, <2>1 DEF Failed
    <2>3. faults' \in 0..MaxFaults
      BY <1>5 DEF ConnectFailed, Fault
    <2>4. TypeOK'
      BY <1>5, <2>2, <2>3 DEF ConnectFailed
    <2>5. LockConsistent' /\ NotifiedIsClosed' /\ OneLiveSocket'
      BY <1>5, <2>1 DEF ConnectFailed
    <2>6. QED
      BY <2>4, <2>5
  <1>6. CASE Installed
    <2>1. lock # "free" /\ Waiting(lock) /\ dialing \in Sockets
      BY <1>6 DEF Installed
    <2>2. /\ auto' \in [AutoStates -> Nat]
          /\ relogin' \in [ReloginStates -> Nat]
          /\ app' \in {Idle, "connect"}
      BY <1>6, <2>1 DEF Installed, Returned, Waiting, Gone, AutoStates, ReloginStates
    <2>3. TypeOK'
      BY <1>6, <2>1, <2>2 DEF Installed, ServerStates
    <2>4. LockConsistent' /\ NotifiedIsClosed' /\ OneLiveSocket'
      BY <1>6, <2>1 DEF Installed
    <2>5. QED
      BY <2>3, <2>4
  <1>7. QED
    BY <1>1, <1>2, <1>3, <1>4, <1>5, <1>6 DEF Connecting

(* Disconnect, called under a free lock by any goroutine. *)
LEMMA DisconnectIInv ==
    ASSUME IInv, Disconnect,
           UNCHANGED <<dialing, lockVars, looping, queue, server, loggedIn, notify, app,
                       quiet>>,
           hasID' \in BOOLEAN, handling' \in [Sockets -> SUBSET Kinds],
           relogin' \in [ReloginStates -> Nat],
           keepalive' \in [Sockets -> {Off, "on", "disconnect", "reset"}],
           faults' \in 0..MaxFaults
    PROVE  IInv'
  <1>1. auto' \in [AutoStates -> Nat]
    BY WakingTyped DEF IInv, TypeOK, Disconnect, ExpectDisconnect
  <1>2. TypeOK'
    BY <1>1 DEF IInv, TypeOK, Disconnect, ExpectDisconnect, UnlockedDisconnect,
                lockVars
  <1>3. LockConsistent' /\ NotifiedIsClosed' /\ OneLiveSocket'
    BY DEF IInv, TypeOK, LockConsistent, NotifiedIsClosed, OneLiveSocket, Disconnect,
           UnlockedDisconnect, lockVars
  <1>4. QED
    BY <1>2, <1>3 DEF IInv

(* A step that leaves the lock, cli.socket and the FrameSockets alone.  If  *)
(* someone holds the lock, that goroutine stays inside connect().           *)
LEMMA QuietStep ==
    ASSUME IInv, TypeOK', UNCHANGED <<cur, dialing, open, lock, phase, app>>,
           relogin'["connect"] >= relogin["connect"],
           auto'["connect"] >= auto["connect"],
           NotifiedIsClosed'
    PROVE  IInv'
  BY DEF IInv, TypeOK, LockConsistent, OneLiveSocket, Waiting, AutoStates, ReloginStates

(* The steps of the goroutines of one socket. *)
LEMMA SocketIInv ==
    ASSUME IInv, NEW s \in Sockets, SocketStep(s)
    PROVE  IInv'
  <1> USE DEF connVars, lockVars, nodeVars
  <1>a. /\ TypeOK /\ LockConsistent /\ NotifiedIsClosed /\ OneLiveSocket
        /\ auto \in [AutoStates -> Nat] /\ relogin \in [ReloginStates -> Nat]
        /\ "connect" \in AutoStates /\ "connect" \in ReloginStates
        /\ auto["connect"] \in Nat /\ relogin["connect"] \in Nat
    BY DEF IInv, TypeOK, AutoStates, ReloginStates
  <1>1. CASE RemoteClose(s)
    <2>1. TypeOK'
      BY <1>1, <1>a DEF TypeOK, RemoteClose, Fault
    <2>2. LockConsistent' /\ NotifiedIsClosed' /\ OneLiveSocket'
      BY <1>1, <1>a DEF TypeOK, RemoteClose, LockConsistent, NotifiedIsClosed,
                        OneLiveSocket, Waiting
    <2>3. QED
      BY <2>1, <2>2 DEF IInv
  <1>2. CASE OnDisconnectStop(s)
    <2>1. TypeOK'
      BY <1>2, <1>a DEF TypeOK, OnDisconnectStop
    <2>2. QED
      BY <1>2, <1>a, <2>1, QuietStep DEF OnDisconnectStop, NotifiedIsClosed, TypeOK
  <1>3. CASE OnDisconnect(s)
    <2>1. auto' \in [AutoStates -> Nat]
      BY <1>3, <1>a, SpawnedTyped DEF OnDisconnect
    <2>2. quiet' \in BOOLEAN
      BY <1>3, Zenon DEF OnDisconnect
    <2>3. TypeOK'
      BY <1>3, <1>a, <2>1, <2>2 DEF TypeOK, OnDisconnect
    <2>4. lock = "free" /\ phase = "none" /\ dialing = NoSocket
      BY <1>3, <1>a DEF OnDisconnect, LockConsistent
    <2>5. LockConsistent'
      BY <1>3, <2>4 DEF OnDisconnect, LockConsistent
    <2>6. NotifiedIsClosed' /\ OneLiveSocket'
      BY <1>3, <1>a, <2>4 DEF OnDisconnect, NotifiedIsClosed, OneLiveSocket, TypeOK
    <2>7. QED
      BY <2>3, <2>5, <2>6 DEF IInv
  <1>4. CASE KeepAliveGiveUp(s)
    <2>1. TypeOK'
      BY <1>4, <1>a DEF TypeOK, KeepAliveGiveUp, Fault
    <2>2. QED
      BY <1>4, <1>a, <2>1, QuietStep DEF KeepAliveGiveUp, NotifiedIsClosed
  <1>5. CASE KeepAliveDisconnect(s)
    <2>1. /\ keepalive' \in [Sockets -> {Off, "on", "disconnect", "reset"}]
          /\ relogin' \in [ReloginStates -> Nat] /\ faults' \in 0..MaxFaults
          /\ hasID' \in BOOLEAN /\ handling' \in [Sockets -> SUBSET Kinds]
      BY <1>5, <1>a DEF TypeOK, KeepAliveDisconnect
    <2>2. QED
      BY <1>5, <2>1, DisconnectIInv DEF KeepAliveDisconnect
  <1>6. CASE KeepAliveReset(s)
    <2>1. auto' \in [AutoStates -> Nat] /\ auto'["connect"] >= auto["connect"]
      BY <1>6, <1>a, SpawnedTyped DEF KeepAliveReset
    <2>2. quiet' \in BOOLEAN
      BY <1>6, Zenon DEF KeepAliveReset
    <2>3. TypeOK'
      BY <1>6, <1>a, <2>1, <2>2 DEF TypeOK, KeepAliveReset
    <2>4. QED
      BY <1>6, <1>a, <2>1, <2>3, QuietStep DEF KeepAliveReset, NotifiedIsClosed
  <1>7. CASE KeepAliveExit(s)
    <2>1. TypeOK'
      BY <1>7, <1>a DEF TypeOK, KeepAliveExit
    <2>2. QED
      BY <1>7, <1>a, <2>1, QuietStep DEF KeepAliveExit, NotifiedIsClosed
  <1>8. CASE Receive(s)
    <2>1. PICK a \in Answers(server[s]) :
            /\ IF a[1] \in {"success", "pair"} THEN UNCHANGED faults ELSE Fault
            /\ queue' = Append(queue, a[1])
            /\ server' = [server EXCEPT ![s] = a[2]]
      BY <1>8 DEF Receive
    <2>2. a[1] \in Kinds /\ a[2] \in ServerStates
      BY AnswersTyped
    <2>3. faults' \in 0..MaxFaults
      BY <2>1, <1>a DEF Fault, TypeOK
    <2>4. TypeOK'
      BY <1>8, <1>a, <2>1, <2>2, <2>3 DEF TypeOK, Receive
    <2>5. QED
      BY <1>8, <1>a, <2>4, QuietStep DEF Receive, NotifiedIsClosed
  <1>9. CASE Dequeue(s)
    <2>1. Head(queue) \in Kinds /\ Tail(queue) \in Seq(Kinds)
      BY <1>9, <1>a DEF Dequeue, TypeOK
    <2>2. TypeOK'
      BY <1>9, <1>a, <2>1 DEF TypeOK, Dequeue
    <2>3. QED
      BY <1>9, <1>a, <2>2, QuietStep DEF Dequeue, NotifiedIsClosed
  <1>10. CASE LoopExit(s)
    <2>1. TypeOK'
      BY <1>10, <1>a DEF TypeOK, LoopExit
    <2>2. QED
      BY <1>10, <1>a, <2>1, QuietStep DEF LoopExit, NotifiedIsClosed
  <1>11. CASE HandleSuccess(s)
    <2>1. TypeOK'
      BY <1>11, <1>a DEF TypeOK, HandleSuccess, Handle
    <2>2. QED
      BY <1>11, <1>a, <2>1, QuietStep DEF HandleSuccess, NotifiedIsClosed
  <1>12. CASE HandleFailure(s)
    <2>0. auto' = AllWoken \/ auto' = auto
      BY <1>12, Zenon DEF HandleFailure, ExpectDisconnect
    <2>1. auto' \in [AutoStates -> Nat] /\ auto'["connect"] >= auto["connect"]
      BY <1>a, <2>0, WakingTyped
    <2>2. TypeOK'
      BY <1>12, <1>a, <2>1 DEF TypeOK, HandleFailure, Handle, ExpectDisconnect
    <2>3. UNCHANGED <<cur, dialing, open, lock, phase, app, relogin, notify>>
      BY <1>12 DEF HandleFailure
    <2>4. QED
      BY <1>a, <2>1, <2>2, <2>3, QuietStep DEF NotifiedIsClosed
  <1>13. CASE HandleStreamError(s)
    <2>0. auto' = AllWoken \/ auto' = auto
      BY <1>13, Zenon DEF HandleStreamError, ExpectDisconnect
    <2>1. auto' \in [AutoStates -> Nat] /\ auto'["connect"] >= auto["connect"]
      BY <1>a, <2>0, WakingTyped
    <2>2. /\ Added(relogin, "disconnect") \in [ReloginStates -> Nat]
          /\ Added(relogin, "disconnect")["connect"] >= relogin["connect"]
      BY <1>a, Adding DEF ReloginStates
    <2>3. /\ relogin' \in [ReloginStates -> Nat]
          /\ relogin'["connect"] >= relogin["connect"]
      <3>1. relogin' = Added(relogin, "disconnect") \/ relogin' = relogin
        BY <1>13, Zenon DEF HandleStreamError
      <3>2. QED
        BY <1>a, <2>2, <3>1
    <2>4. expected' \in BOOLEAN /\ hasID' \in BOOLEAN
      BY <1>13, <1>a DEF TypeOK, HandleStreamError, ExpectDisconnect
    <2>5. TypeOK'
      BY <1>13, <1>a, <2>1, <2>3, <2>4 DEF TypeOK, HandleStreamError, Handle
    <2>6. UNCHANGED <<cur, dialing, open, lock, phase, app, notify>>
      BY <1>13 DEF HandleStreamError
    <2>7. QED
      BY <1>a, <2>1, <2>3, <2>5, <2>6, QuietStep DEF NotifiedIsClosed
  <1>14. CASE HandlePairSuccess(s)
    <2>1. /\ relogin' \in [ReloginStates -> Nat]
          /\ relogin'["connect"] = relogin["connect"]
      BY <1>14, <1>a, Adding DEF HandlePairSuccess, Added, ReloginStates
    <2>2. TypeOK'
      BY <1>14, <1>a, <2>1 DEF TypeOK, HandlePairSuccess, Handle
    <2>3. UNCHANGED <<cur, dialing, open, lock, phase, app, auto, notify>>
      BY <1>14 DEF HandlePairSuccess
    <2>4. QED
      BY <1>a, <2>1, <2>2, <2>3, QuietStep DEF NotifiedIsClosed
  <1>15. QED
    BY <1>1, <1>2, <1>3, <1>4, <1>5, <1>6, <1>7, <1>8, <1>9, <1>10, <1>11,
       <1>12, <1>13, <1>14 DEF SocketStep

(* The goroutine of a pairing. *)
LEMMA PairIInv ==
    ASSUME IInv, HandlePair
    PROVE  IInv'
  <1> USE DEF connVars, lockVars, nodeVars
  <1>a. /\ TypeOK /\ LockConsistent /\ NotifiedIsClosed /\ OneLiveSocket
        /\ auto \in [AutoStates -> Nat] /\ relogin \in [ReloginStates -> Nat]
        /\ auto["connect"] \in Nat /\ relogin["connect"] \in Nat
    BY DEF IInv, TypeOK, AutoStates, ReloginStates
  <1>1. UNCHANGED <<looping, handling, queue, dialing, lock, phase, loggedIn, notify,
                    app, keepalive, quiet>>
    BY DEF HandlePair
  <1>2. /\ relogin' \in [ReloginStates -> Nat]
        /\ relogin'["connect"] = relogin["connect"]
    BY <1>a DEF HandlePair, Gone, ReloginStates
  <1>3. /\ handling' \in [Sockets -> SUBSET Kinds]
        /\ keepalive' \in [Sockets -> {Off, "on", "disconnect", "reset"}]
    BY <1>a, <1>1 DEF TypeOK
  <1>4. CASE /\ IsConnected
             /\ hasID' = TRUE
             /\ ExpectDisconnect
             /\ server' = IF server[cur] = "confirm"
                          THEN [server EXCEPT ![cur] = "paired"] ELSE server
             /\ UNCHANGED <<cur, open, running, faults>>
    <2>1. auto' \in [AutoStates -> Nat] /\ auto'["connect"] >= auto["connect"]
      BY <1>a, <1>4, WakingTyped DEF ExpectDisconnect
    <2>2. server' \in [Sockets -> ServerStates] /\ expected' \in BOOLEAN
      BY <1>a, <1>4 DEF TypeOK, ServerStates, ExpectDisconnect
    <2>3. TypeOK'
      BY <1>a, <1>1, <1>2, <1>3, <1>4, <2>1, <2>2 DEF TypeOK
    <2>4. QED
      BY <1>a, <1>1, <1>2, <1>4, <2>1, <2>3, QuietStep DEF NotifiedIsClosed
  <1>5. CASE /\ hasID' \in BOOLEAN
             /\ Disconnect
             /\ IF IsConnected THEN Fault ELSE UNCHANGED faults
             /\ UNCHANGED server
    <2>1. faults' \in 0..MaxFaults
      BY <1>a, <1>5 DEF TypeOK, Fault
    <2>2. QED
      BY <1>1, <1>2, <1>3, <1>5, <2>1, DisconnectIInv
  <1>6. QED
    BY <1>4, <1>5 DEF HandlePair

LEMMA NextIInv == IInv /\ [Next]_vars => IInv'
  <1> SUFFICES ASSUME IInv, [Next]_vars PROVE IInv'
    OBVIOUS
  <1> USE DEF connVars, lockVars, nodeVars
  <1>a. /\ TypeOK /\ LockConsistent /\ NotifiedIsClosed /\ OneLiveSocket
        /\ auto \in [AutoStates -> Nat] /\ relogin \in [ReloginStates -> Nat]
    BY DEF IInv, TypeOK
  <1>1. CASE AppPoll
    <2>1. TypeOK'
      BY <1>1, <1>a DEF TypeOK, AppPoll, Idle
    <2>2. QED
      BY <1>1, <1>a, <2>1 DEF IInv, LockConsistent, NotifiedIsClosed, OneLiveSocket,
                              Waiting, AppPoll, Idle
  <1>2. CASE Connecting
    BY <1>2, ConnectingIInv
  <1>3. CASE ManualDisconnect
    <2>1. faults' \in 0..MaxFaults /\ relogin' \in [ReloginStates -> Nat]
      BY <1>3, <1>a DEF ManualDisconnect, Fault, TypeOK
    <2>2. /\ keepalive' \in [Sockets -> {Off, "on", "disconnect", "reset"}]
          /\ hasID' \in BOOLEAN /\ handling' \in [Sockets -> SUBSET Kinds]
      BY <1>3, <1>a DEF ManualDisconnect, TypeOK
    <2>3. QED
      BY <1>3, <2>1, <2>2, DisconnectIInv DEF ManualDisconnect
  <1>4. ASSUME NEW s \in Sockets, SocketStep(s)
        PROVE  IInv'
    BY <1>4, SocketIInv
  <1>5. ASSUME NEW from \in AutoStates, AutoTimeout(from)
        PROVE  IInv'
    <2>1. from # "connect" /\ auto[from] > 0 /\ "connect" \in AutoStates
      BY <1>5 DEF AutoTimeout, AutoStates
    <2>2. auto' \in [AutoStates -> Nat]
      BY <1>5, <1>a, <2>1, Counting DEF AutoTimeout
    <2>3. auto'["connect"] >= auto["connect"]
      BY <1>5, <1>a, <2>1 DEF AutoTimeout, Moved
    <2>4. TypeOK'
      BY <1>5, <1>a, <2>2 DEF AutoTimeout, TypeOK
    <2>5. UNCHANGED <<cur, dialing, open, lock, phase, app, relogin, notify>>
      BY <1>5 DEF AutoTimeout
    <2>6. QED
      BY <1>a, <2>3, <2>4, <2>5, QuietStep DEF NotifiedIsClosed, ReloginStates
  <1>6. CASE AutoCancelled
    <2>1. auto' \in [AutoStates -> Nat] /\ auto'["connect"] >= auto["connect"]
      BY <1>6, <1>a DEF AutoCancelled, Gone, AutoStates
    <2>2. TypeOK'
      BY <1>6, <1>a, <2>1 DEF AutoCancelled, TypeOK
    <2>3. UNCHANGED <<cur, dialing, open, lock, phase, app, relogin, notify>>
      BY <1>6 DEF AutoCancelled
    <2>4. QED
      BY <1>a, <2>1, <2>2, <2>3, QuietStep DEF NotifiedIsClosed, ReloginStates
  <1>7. CASE ReloginDisconnect
    <2>1. relogin' \in [ReloginStates -> Nat]
      BY <1>7, <1>a, Counting DEF ReloginDisconnect, ReloginStates
    <2>2. /\ keepalive' \in [Sockets -> {Off, "on", "disconnect", "reset"}]
          /\ faults' \in 0..MaxFaults
          /\ hasID' \in BOOLEAN /\ handling' \in [Sockets -> SUBSET Kinds]
      BY <1>7, <1>a DEF ReloginDisconnect, TypeOK
    <2>3. QED
      BY <1>7, <2>1, <2>2, DisconnectIInv DEF ReloginDisconnect
  <1>8. CASE UNCHANGED vars
    BY <1>8, <1>a DEF vars, IInv, TypeOK, LockConsistent, NotifiedIsClosed,
                      OneLiveSocket, Waiting
  <1>9. CASE HandlePair
    BY <1>9, PairIInv
  <1>10. QED
    BY <1>1, <1>2, <1>3, <1>4, <1>5, <1>6, <1>7, <1>8, <1>9 DEF Next

LEMMA AlwaysIInv == Spec => []IInv
  BY InitIInv, NextIInv, PTL DEF Spec

(* Every variable keeps its type and its tie to socketLock: whoever holds   *)
(* it to connect is in some phase of Connect, and a half-open websocket     *)
(* never outlives the Connect that dialed it.                              *)
THEOREM TypeCorrect == Spec => []TypeOK
  <1>1. IInv => TypeOK
    BY DEF IInv
  <1>2. QED
    BY <1>1, AlwaysIInv, PTL

(* No interleaving of Connect, Disconnect, onDisconnect, keepalive and      *)
(* reconnects, with any number of sockets, leaves a websocket alive that    *)
(* neither cli.socket nor the running Connect knows.                        *)
THEOREM OneLive == Spec => []OneLiveSocket
  <1>1. IInv => OneLiveSocket
    BY DEF IInv
  <1>2. QED
    BY <1>1, AlwaysIInv, PTL

-----------------------------------------------------------------------------
(* RecoveryPending is inductive together with the typing of the counters.   *)

(* What can go: a reason for nobody to reconnect, and nothing else.         *)
LEMMA RecoveryKept ==
    ASSUME RecoveryPending, UNCHANGED <<cur, open, notify, lock, expected>>,
           hasID' => hasID, quiet => quiet',
           auto["wait"] > 0 \/ auto["connect"] > 0
             => auto'["wait"] > 0 \/ auto'["connect"] > 0
    PROVE  RecoveryPending'
  BY DEF RecoveryPending, IsConnected, DeadOnArrival

LEMMA RecoveryExcused ==
    ASSUME expected' \/ quiet' \/ lock' # "free" \/ auto'["wait"] > 0
    PROVE  RecoveryPending'
  BY DEF RecoveryPending

(* A started autoReconnect waits, unless nobody is to be reconnected.       *)
LEMMA SpawnedWaits ==
    ASSUME auto \in [AutoStates -> Nat]
    PROVE  /\ EnableAutoReconnect /\ hasID => Spawned(auto, FALSE)["wait"] > 0
           /\ Spawned(auto, FALSE)["wait"] >= auto["wait"]
  BY DEF Spawned, Added, WaitState, AutoStates

LEMMA InitRecovery == Init => RecoveryPending
  BY DEF Init, RecoveryPending

LEMMA NextRecovery == IInv /\ RecoveryPending /\ [Next]_vars => RecoveryPending'
  <1> SUFFICES ASSUME IInv, RecoveryPending, [Next]_vars PROVE RecoveryPending'
    OBVIOUS
  <1> USE DEF connVars, lockVars, nodeVars
  <1>a. /\ TypeOK /\ auto \in [AutoStates -> Nat]
        /\ "wait" \in AutoStates /\ "woken" \in AutoStates /\ "connect" \in AutoStates
        /\ auto["wait"] \in Nat /\ auto["connect"] \in Nat
    BY DEF IInv, TypeOK, AutoStates
  <1>1. CASE AppPoll
    BY <1>1, RecoveryKept DEF AppPoll
  <1>2. ASSUME NEW c \in Callers, ConnectRefused(c)
        PROVE  RecoveryPending'
    BY <1>2 DEF ConnectRefused, RecoveryPending, IsConnected
  <1>3. ASSUME NEW c \in Callers, ConnectStart(c)
        PROVE  RecoveryPending'
    BY <1>3, RecoveryExcused DEF ConnectStart, Callers
  <1>4. CASE DialOk \/ HandshakeSent
    <2>1. lock' # "free"
      BY <1>4 DEF DialOk, HandshakeSent, IInv, LockConsistent
    <2>2. QED
      BY <2>1, RecoveryExcused
  <1>5. CASE ConnectFailed
    <2>1. PICK retryable \in BOOLEAN : Failed(lock, retryable)
      BY <1>5 DEF ConnectFailed
    <2>e. expected' = expected
      BY <1>5 DEF ConnectFailed
    <2>2. CASE lock = "auto"
      <3>1. expected \/ auto'["wait"] > 0
        BY <1>a, <2>1, <2>2 DEF Failed, Moved, AutoStates
      <3>2. QED
        BY <2>e, <3>1, RecoveryExcused
    <2>3. CASE lock = "relogin"
      BY <2>1, <2>3, RecoveryExcused DEF Failed
    <2>4. CASE lock = "app"
      <3>1. expected \/ quiet' \/ auto'["wait"] > 0
        BY <1>a, <2>1, <2>4 DEF Failed, Added, WaitState, AutoStates
      <3>2. QED
        BY <2>e, <3>1, RecoveryExcused
    <2>5. QED
      BY <2>1, <2>2, <2>3, <2>4 DEF Failed
  <1>6. CASE Installed
    <2>1. cur' # NoSocket /\ cur' \in Sockets
      BY <1>6, <1>a DEF Installed, TypeOK, IInv, LockConsistent
    <2>2. QED
      BY <1>6, <2>1 DEF Installed, RecoveryPending, DeadOnArrival, IsConnected
  <1>7. CASE ManualDisconnect \/ ReloginDisconnect
    BY <1>7, RecoveryExcused DEF ManualDisconnect, ReloginDisconnect, Disconnect,
                                 ExpectDisconnect
  <1>8. ASSUME NEW from \in AutoStates, AutoTimeout(from)
        PROVE  RecoveryPending'
    <2>1. auto'["connect"] > 0
      BY <1>8, <1>a DEF AutoTimeout, Moved
    <2>2. QED
      BY <1>8, <2>1, RecoveryKept DEF AutoTimeout
  <1>9. CASE AutoCancelled
    <2>1. auto'["wait"] = auto["wait"] /\ auto'["connect"] = auto["connect"]
      BY <1>9, <1>a DEF AutoCancelled, Gone
    <2>2. QED
      BY <1>9, <2>1, RecoveryKept DEF AutoCancelled
  <1>10. ASSUME NEW s \in Sockets, SocketStep(s)
         PROVE  RecoveryPending'
    <2>1. CASE RemoteClose(s)
      BY <2>1, <1>a DEF RemoteClose, TypeOK, RecoveryPending, IsConnected, DeadOnArrival
    <2>2. CASE OnDisconnectStop(s)
      BY <2>2, <1>a DEF OnDisconnectStop, TypeOK, RecoveryPending, IsConnected, DeadOnArrival
    <2>3. CASE OnDisconnect(s)
      <3>1. CASE cur = s /\ ~expected
        <4>1. CASE EnableAutoReconnect /\ hasID
          BY <2>3, <3>1, <4>1, <1>a, SpawnedWaits, RecoveryExcused DEF OnDisconnect
        <4>2. CASE ~(EnableAutoReconnect /\ hasID)
          <5>1. quiet'
            BY <2>3, <3>1, <4>2, Zenon DEF OnDisconnect
          <5>2. QED
            BY <5>1, RecoveryExcused
        <4>3. QED
          BY <4>1, <4>2
      <3>2. CASE cur = s /\ expected
        BY <2>3, <3>2, RecoveryExcused DEF OnDisconnect
      <3>3. CASE cur # s
        BY <2>3, <3>3, <1>a DEF OnDisconnect, TypeOK, RecoveryPending, IsConnected,
                                DeadOnArrival
      <3>4. QED
        BY <3>1, <3>2, <3>3
    <2>4. CASE KeepAliveDisconnect(s)
      BY <2>4, RecoveryExcused DEF KeepAliveDisconnect, Disconnect, ExpectDisconnect
    <2>5. CASE KeepAliveReset(s)
      <3>1. CASE hasID /\ EnableAutoReconnect
        BY <2>5, <3>1, <1>a, SpawnedWaits, RecoveryExcused DEF KeepAliveReset
      <3>2. CASE ~hasID
        <4>1. quiet'
          BY <2>5, <3>2, Zenon DEF KeepAliveReset
        <4>2. QED
          BY <4>1, RecoveryExcused
      <3>3. CASE ~EnableAutoReconnect
        BY <3>3 DEF RecoveryPending
      <3>4. QED
        BY <3>1, <3>2, <3>3
    <2>6. CASE KeepAliveGiveUp(s) \/ KeepAliveExit(s)
      BY <2>6, RecoveryKept DEF KeepAliveGiveUp, KeepAliveExit
    <2>7. CASE Receive(s) \/ Dequeue(s) \/ LoopExit(s) \/ HandleSuccess(s)
      BY <2>7, RecoveryKept DEF Receive, Dequeue, LoopExit, HandleSuccess
    <2>8. CASE HandleFailure(s)
      <3>1. \/ expected'
            \/ UNCHANGED <<cur, open, notify, lock, expected, hasID, quiet, auto>>
        BY <2>8 DEF HandleFailure, ExpectDisconnect
      <3>2. QED
        BY <3>1, RecoveryKept, RecoveryExcused
    <2>9. CASE HandleStreamError(s)
      <3>1. \/ expected'
            \/ UNCHANGED <<cur, open, notify, lock, expected, hasID, quiet, auto>>
        BY <2>9 DEF HandleStreamError, ExpectDisconnect
      <3>2. QED
        BY <3>1, RecoveryKept, RecoveryExcused
    <2>10. CASE HandlePairSuccess(s)
      BY <2>10, RecoveryKept DEF HandlePairSuccess
    <2>11. QED
      BY <1>10, <2>1, <2>2, <2>3, <2>4, <2>5, <2>6, <2>7, <2>8, <2>9, <2>10
         DEF SocketStep
  <1>11. CASE UNCHANGED vars
    BY <1>11, RecoveryKept DEF vars
  <1>12. CASE HandlePair
    BY <1>12, RecoveryExcused DEF HandlePair, Disconnect, ExpectDisconnect
  <1>13. QED
    BY <1>1, <1>2, <1>3, <1>4, <1>5, <1>6, <1>7, <1>8, <1>9, <1>10, <1>11, <1>12
       DEF Next, Connecting

(* A paired client whose connection was lost unexpectedly always has an     *)
(* onDisconnect or an autoReconnect goroutine on its way, except in the two *)
(* cases RecoveryPending names: the error went to a caller of Connect, or   *)
(* the socket was dead on arrival.                                          *)
THEOREM Recovery == Spec => []RecoveryPending
  BY InitRecovery, NextRecovery, AlwaysIInv, PTL DEF Spec

-----------------------------------------------------------------------------
(* Connection implements Link.                                              *)

(* What the steps of Link are made of, in terms of the client.              *)
LEMMA LinkView ==
    ASSUME IInv
    PROVE  /\ phase = "none" /\ IsConnected => LinkStage = "up" /\ LinkLive = {cur}
           /\ phase = "none" /\ ~IsConnected => LinkStage = "down" /\ LinkLive = {}
           /\ phase = "dial" => LinkStage = "dialing" /\ LinkLive = {}
           /\ phase \in {"handshake", "finish"} =>
                /\ LinkStage = "greeting"
                /\ LinkLive = {s \in {dialing} : open[s]}
  <1>1. /\ open \in [Sockets -> BOOLEAN]
        /\ phase \in {"none", "dial", "handshake", "finish"}
        /\ dialing \in Sockets \cup {NoSocket} /\ cur \in Sockets \cup {NoSocket}
    BY DEF IInv, TypeOK
  <1>2. CASE phase = "none"
    <2>1. dialing = NoSocket /\ \A s \in Sockets : open[s] => s = cur
      BY <1>2 DEF IInv, LockConsistent, OneLiveSocket
    <2>2. IsConnected => LinkLive = {cur}
      BY <1>1, <2>1 DEF LinkLive, IsConnected
    <2>3. ~IsConnected => LinkLive = {}
      BY <1>1, <2>1 DEF LinkLive, IsConnected
    <2>4. QED
      BY <1>2, <2>2, <2>3 DEF LinkStage
  <1>3. CASE phase = "dial"
    <2>1. \A s \in Sockets : ~open[s]
      BY <1>1, <1>3 DEF IInv, LockConsistent, OneLiveSocket
    <2>2. QED
      BY <1>3, <2>1 DEF LinkStage, LinkLive
  <1>4. CASE phase \in {"handshake", "finish"}
    <2>1. dialing \in Sockets /\ \A s \in Sockets : open[s] => s = dialing
      BY <1>1, <1>4 DEF IInv, LockConsistent, OneLiveSocket
    <2>2. LinkLive = {s \in {dialing} : open[s]}
      BY <2>1 DEF LinkLive
    <2>3. QED
      BY <1>4, <2>2 DEF LinkStage
  <1>5. QED
    BY <1>1, <1>2, <1>3, <1>4

(* A step that leaves the lock, cli.socket and the FrameSockets alone.      *)
LEMMA LinkUnmoved ==
    ASSUME UNCHANGED <<cur, open, phase>>
    PROVE  UNCHANGED <<LinkStage, LinkLive>>
  BY DEF LinkStage, LinkLive, IsConnected

(* Disconnect, called under a free lock, loses the connection if there is one. *)
LEMMA LinkDisconnected ==
    ASSUME IInv, IInv', Disconnect, UNCHANGED phase
    PROVE  Abstract!Lost \/ UNCHANGED <<LinkStage, LinkLive>>
  <1>1. phase = "none" /\ phase' = "none" /\ cur' = NoSocket
    BY DEF IInv, LockConsistent, Disconnect, UnlockedDisconnect
  <1>2. LinkStage' = "down" /\ LinkLive' = {}
    BY <1>1, LinkView DEF LinkStage, IsConnected, LinkLive, IInv, OneLiveSocket,
                          LockConsistent
  <1>3. CASE IsConnected
    BY <1>1, <1>2, <1>3, LinkView DEF Abstract!Lost
  <1>4. CASE ~IsConnected
    BY <1>1, <1>2, <1>4, LinkView
  <1>5. QED
    BY <1>3, <1>4

LEMMA LinkInit == Init => Abstract!Init
  BY DEF Init, Abstract!Init, LinkStage, LinkLive, IsConnected

LEMMA LinkConnecting ==
    ASSUME IInv, IInv', Connecting
    PROVE  Abstract!Next \/ UNCHANGED <<LinkStage, LinkLive>>
  <1> USE DEF connVars, lockVars, nodeVars
  <1>a. /\ open \in [Sockets -> BOOLEAN]
        /\ dialing \in Sockets \cup {NoSocket} /\ cur \in Sockets \cup {NoSocket}
        /\ phase # "none" => cur = NoSocket
        /\ lock = "free" <=> phase = "none"
        /\ dialing # NoSocket <=> phase \in {"handshake", "finish"}
        /\ \A s \in Sockets : open[s] => s = cur \/ s = dialing
    BY DEF IInv, TypeOK, LockConsistent, OneLiveSocket
  <1>1. ASSUME NEW c \in Callers, ConnectRefused(c)
        PROVE  UNCHANGED <<LinkStage, LinkLive>>
    BY <1>1, LinkUnmoved DEF ConnectRefused
  <1>2. ASSUME NEW c \in Callers, ConnectStart(c)
        PROVE  Abstract!Start
    <2>1. phase = "none" /\ ~IsConnected /\ phase' = "dial"
      BY <1>2, <1>a DEF ConnectStart
    <2>2. LinkLive = {} /\ LinkStage = "down"
      BY <2>1, LinkView
    <2>3. LinkLive' = {}
      BY <1>2, <2>2 DEF ConnectStart, UnlockedDisconnect, LinkLive
    <2>4. LinkStage' = "dialing"
      BY <2>1 DEF LinkStage
    <2>5. QED
      BY <2>2, <2>3, <2>4 DEF Abstract!Start
  <1>3. CASE DialOk
    <2>1. PICK s \in Sockets : open' = [open EXCEPT ![s] = TRUE]
      BY <1>3 DEF DialOk
    <2>2. LinkStage = "dialing" /\ LinkLive = {} /\ LinkStage' = "greeting"
      BY <1>3, LinkView DEF DialOk, LinkStage
    <2>3. LinkLive' = {s}
      BY <1>a, <2>1, <2>2 DEF LinkLive
    <2>4. QED
      BY <2>2, <2>3 DEF Abstract!Next, Abstract!Opened
  <1>4. CASE HandshakeSent
    BY <1>4 DEF HandshakeSent, LinkStage, LinkLive
  <1>5. CASE ConnectFailed
    <2>1. phase' = "none" /\ cur' = NoSocket /\ LinkStage \in {"dialing", "greeting"}
      BY <1>5, <1>a, LinkView DEF ConnectFailed
    <2>2. LinkLive' = {}
      BY <1>5, <1>a DEF ConnectFailed, LinkLive
    <2>3. LinkStage' = "down"
      BY <2>1 DEF LinkStage, IsConnected
    <2>4. QED
      BY <2>1, <2>2, <2>3 DEF Abstract!Next, Abstract!Abandoned
  <1>6. CASE Installed
    <2>1. LinkStage = "greeting" /\ LinkLive = {s \in {dialing} : open[s]}
      BY <1>6, LinkView DEF Installed
    <2>2. /\ dialing \in Sockets /\ cur' = dialing /\ phase' = "none"
          /\ UNCHANGED <<open, LinkLive>>
      BY <1>6, <1>a DEF Installed, LinkLive
    <2>3. IsConnected' <=> open[dialing]
      BY <2>2, SocketsAssumption DEF IsConnected
    <2>4. LinkStage' = IF LinkLive = {} THEN "down" ELSE "up"
      BY <2>1, <2>2, <2>3 DEF LinkStage
    <2>5. QED
      BY <2>1, <2>2, <2>4 DEF Abstract!Next, Abstract!Established
  <1>7. QED
    BY <1>1, <1>2, <1>3, <1>4, <1>5, <1>6 DEF Connecting, Abstract!Next

LEMMA LinkSocket ==
    ASSUME IInv, IInv', NEW s \in Sockets, SocketStep(s)
    PROVE  Abstract!Lost \/ UNCHANGED <<LinkStage, LinkLive>>
  <1> USE DEF connVars, lockVars, nodeVars
  <1>1. CASE RemoteClose(s)
    <2>1. /\ open \in [Sockets -> BOOLEAN] /\ open[s]
          /\ open' = [open EXCEPT ![s] = FALSE] /\ UNCHANGED <<cur, phase, dialing>>
      BY <1>1 DEF RemoteClose, IInv, TypeOK
    <2>2. s \in LinkLive /\ LinkLive' = LinkLive \ {s}
      BY <2>1 DEF LinkLive
    <2>3. LinkLive = {s}
      BY <2>2, LinkView DEF IInv, TypeOK
    <2>4. LinkStage' = IF LinkStage = "up" THEN "down" ELSE LinkStage
      <3>1. CASE phase = "none"
        <4>1. IsConnected /\ s = cur
          BY <2>3, <3>1, LinkView
        <4>2. ~IsConnected'
          BY <2>1, <4>1 DEF IsConnected
        <4>3. QED
          BY <2>1, <3>1, <4>1, <4>2 DEF LinkStage
      <3>2. CASE phase # "none"
        BY <2>1, <3>2 DEF LinkStage
      <3>3. QED
        BY <3>1, <3>2
    <2>5. QED
      BY <2>2, <2>3, <2>4 DEF Abstract!Lost
  <1>2. CASE OnDisconnect(s)
    <2>1. UNCHANGED <<open, phase>> /\ phase = "none" /\ ~open[s]
      BY <1>2 DEF OnDisconnect, IInv, LockConsistent, NotifiedIsClosed
    <2>2. IsConnected' <=> IsConnected
      BY <1>2, <2>1 DEF OnDisconnect, IsConnected
    <2>3. QED
      BY <2>1, <2>2 DEF LinkStage, LinkLive
  <1>3. CASE KeepAliveDisconnect(s)
    BY <1>3, LinkDisconnected DEF KeepAliveDisconnect
  <1>4. CASE HandlePairSuccess(s)
    BY <1>4, LinkUnmoved DEF HandlePairSuccess
  <1>5. CASE \/ OnDisconnectStop(s) \/ KeepAliveGiveUp(s) \/ KeepAliveReset(s)
             \/ KeepAliveExit(s) \/ Receive(s) \/ Dequeue(s) \/ LoopExit(s)
    BY <1>5, LinkUnmoved DEF OnDisconnectStop, KeepAliveGiveUp, KeepAliveReset,
                             KeepAliveExit, Receive, Dequeue, LoopExit
  <1>6. CASE HandleSuccess(s) \/ HandleFailure(s) \/ HandleStreamError(s)
    BY <1>6, LinkUnmoved DEF HandleSuccess, HandleFailure, HandleStreamError
  <1>7. QED
    BY <1>1, <1>2, <1>3, <1>4, <1>5, <1>6 DEF SocketStep

LEMMA LinkNext ==
    IInv /\ IInv' /\ [Next]_vars => [Abstract!Next]_<<LinkStage, LinkLive>>
  <1> SUFFICES ASSUME IInv, IInv', [Next]_vars
               PROVE  Abstract!Next \/ UNCHANGED <<LinkStage, LinkLive>>
    OBVIOUS
  <1> USE DEF connVars, lockVars, nodeVars
  <1>1. CASE Connecting
    BY <1>1, LinkConnecting
  <1>2. ASSUME NEW s \in Sockets, SocketStep(s)
        PROVE  Abstract!Next \/ UNCHANGED <<LinkStage, LinkLive>>
    BY <1>2, LinkSocket DEF Abstract!Next
  <1>3. CASE ManualDisconnect \/ ReloginDisconnect
    BY <1>3, LinkDisconnected DEF ManualDisconnect, ReloginDisconnect, Abstract!Next
  <1>4. CASE AppPoll \/ AutoCancelled \/ UNCHANGED vars
    BY <1>4, LinkUnmoved DEF AppPoll, AutoCancelled, vars
  <1>5. ASSUME NEW from \in AutoStates, AutoTimeout(from)
        PROVE  UNCHANGED <<LinkStage, LinkLive>>
    BY <1>5, LinkUnmoved DEF AutoTimeout
  <1>6. CASE HandlePair
    <2>1. UNCHANGED phase
      BY <1>6 DEF HandlePair
    <2>2. UNCHANGED <<cur, open>> \/ Disconnect
      BY <1>6 DEF HandlePair
    <2>3. QED
      BY <2>1, <2>2, LinkUnmoved, LinkDisconnected DEF Abstract!Next
  <1>7. QED
    BY <1>1, <1>2, <1>3, <1>4, <1>5, <1>6 DEF Next

(* For any set of sockets and whatever its goroutines do, the client's      *)
(* connection behaves like Link: one websocket at a time, opened once per   *)
(* attempt, and an attempt only while there is no connection.               *)
THEOREM LinkImplemented == Spec => ImplementsLink
  BY LinkInit, LinkNext, AlwaysIInv, PTL DEF Spec, ImplementsLink, Abstract!Spec

=============================================================================
