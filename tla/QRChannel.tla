------------------------------ MODULE QRChannel ------------------------------
(***************************************************************************)
(* Pairing by QR code: qrchan.go, the events it listens to, and the loop   *)
(* of the add-on that reads its channel.                                   *)
(*                                                                         *)
(* GetQRChannel makes a buffered channel and registers an event handler.   *)
(* A QR event starts a goroutine that emits the codes one by one; any      *)
(* event that ends the pairing stops it, sends a final item and closes the *)
(* channel.  An atomic flag decides who closes.  The add-on asks for a     *)
(* channel, connects, and reads until the channel is closed; when the      *)
(* connection fails it asks for another and leaves the first one unread.   *)
(***************************************************************************)
EXTENDS Integers, Sequences, FiniteSetsExt

CONSTANTS
    Codes,        \* codes in a QR event (6)
    Buffer,       \* capacity of a channel (8)
    Slots,        \* bound: events dispatched at a time
    MaxChannels,  \* bound: channels made
    MaxConns,     \* bound: connections made
    MaxTurns,     \* bound: scans without multidevice, and the add-on's shutdown
    CancelUpTo    \* bound: channels made when the add-on shuts down

ASSUME BufferAssumption == Codes \in Nat /\ Buffer \in Nat \ {0}
ASSUME BoundsAssumption ==
    Slots \subseteq Nat /\ MaxChannels \in Nat /\ MaxConns \in Nat /\ MaxTurns \in Nat /\ CancelUpTo \in Nat

VARIABLES
    app,         \* what the add-on's loop is doing
    cur,         \* number of channels made: the add-on reads the last one
    link,        \* cli.socket, and whether its end is expected
    conns,       \* number of connections made
    qrSent,      \* the server has sent the codes on this connection
    pairing,     \* a handlePair goroutine is running
    paired,      \* cli.Store.ID # nil
    scans,       \* number of scans without multidevice
    ctxDone,     \* the add-on is shutting down
    buffered,    \* buffered[c]: how many items channel c holds
    results,     \* history: how many final items were sent to channel c
    open,        \* open[c]: the channel is not closed
    closed,      \* qrc.closed
    stopped,     \* qrc.stopQRs is closed
    listening,   \* channels whose handler is in cli.eventHandlers
    removing,    \* channels with a RemoveEventHandler goroutine
    emitter,     \* emitter[c, k]: the k-th goroutine started for channel c
    dispatch,    \* events on their way through cli.eventHandlers
    crashed      \* a goroutine panicked, which ends the process

appVars     == <<app, cur>>
linkVars    == <<link, conns, qrSent, pairing, paired, scans, ctxDone>>
channelVars == <<buffered, results, open, closed, stopped>>
handlerVars == <<listening, removing>>
vars == <<app, cur, link, conns, qrSent, pairing, paired, scans, ctxDone, buffered,
          results, open, closed, stopped, listening, removing, emitter, dispatch, crashed>>

Channels == 1..MaxChannels
Conns    == 1..MaxConns
Events   == {"qr", "scanned", "final"}

EmitterSteps  == {"none", "loop", "send", "wait", "timeout", "close", "disconnect", "done"}
DispatchSteps == {"idle", "waiting", "check", "send", "stop", "swap", "close"}

TypeOK ==
    /\ app \in {"polling", "connecting", "reading", "stopped"}
    /\ cur \in 0..MaxChannels /\ conns \in 0..MaxConns /\ scans \in 0..MaxTurns
    /\ link \in {"down", "up", "ending"}
    /\ {qrSent, pairing, paired, ctxDone, crashed} \subseteq BOOLEAN
    /\ buffered \in [Channels -> 0..Buffer] /\ results \in [Channels -> Nat]
    /\ {open, closed, stopped} \subseteq [Channels -> BOOLEAN]
    /\ listening \subseteq Channels /\ removing \subseteq Channels
    /\ emitter \in [Channels \X Conns -> [step : EmitterSteps, left : 0..Codes]]
    /\ dispatch \in [Slots -> [step : DispatchSteps, event : Events, todo : SUBSET Channels]]

-----------------------------------------------------------------------------
HasRoom(c) == buffered[c] < Buffer

Send(c, item) ==
    /\ buffered' = [buffered EXCEPT ![c] = @ + 1]
    /\ results' = [results EXCEPT ![c] = IF item = "final" THEN @ + 1 ELSE @]

(* Disconnect: no event follows. *)
Disconnect == link' = "down" /\ qrSent' = FALSE

Idle == [step |-> "idle", event |-> "final", todo |-> {}]

(* The event waits for eventHandlersLock, in a free slot. *)
Dispatch(event) ==
    LET free == {d \in Slots : dispatch[d] = Idle}
    IN  /\ free # {}
        /\ dispatch' = [dispatch EXCEPT ![Min(free)] =
                          [step |-> "waiting", event |-> event, todo |-> {}]]

Running == {d \in Slots : dispatch[d].step \notin {"idle", "waiting"}}

-----------------------------------------------------------------------------
(* The add-on's loop.                                                      *)

Stop ==
    /\ app = "polling" /\ ctxDone
    /\ app' = "stopped"
    /\ UNCHANGED <<cur, linkVars, channelVars, handlerVars, emitter, dispatch, crashed>>

(* AddEventHandler needs the lock that dispatchEvent holds. *)
GetQRChannel ==
    /\ app = "polling" /\ ~ctxDone /\ link = "down" /\ ~paired
    /\ Running = {} /\ cur < MaxChannels
    /\ cur' = cur + 1
    /\ listening' = listening \cup {cur + 1}
    /\ app' = "connecting"
    /\ UNCHANGED <<linkVars, channelVars, removing, emitter, dispatch, crashed>>

(* When Connect fails the channel stays registered, and nobody reads it.   *)
Connect ==
    /\ app = "connecting"
    /\ \/ app' = "polling" /\ UNCHANGED <<link, conns>>
       \/ /\ link = "down" /\ conns < MaxConns
          /\ app' = "reading"
          /\ link' = "up"
          /\ conns' = conns + 1
    /\ UNCHANGED <<cur, qrSent, pairing, paired, scans, ctxDone, channelVars, handlerVars,
                   emitter, dispatch, crashed>>

Read ==
    /\ app = "reading" /\ buffered[cur] > 0
    /\ buffered' = [buffered EXCEPT ![cur] = @ - 1]
    /\ UNCHANGED <<appVars, linkVars, results, open, closed, stopped, handlerVars, emitter,
                   dispatch, crashed>>

RangeEnds ==
    /\ app = "reading" /\ buffered[cur] = 0 /\ ~open[cur]
    /\ app' = "polling"
    /\ UNCHANGED <<cur, linkVars, channelVars, handlerVars, emitter, dispatch, crashed>>

Turns == scans + IF ctxDone THEN 1 ELSE 0

(* The context is cancelled, and newClient's goroutine disconnects. *)
Cancel ==
    /\ ~ctxDone /\ Turns < MaxTurns /\ cur <= CancelUpTo
    /\ ctxDone' = TRUE
    /\ Disconnect
    /\ UNCHANGED <<appVars, conns, pairing, paired, scans, channelVars, handlerVars, emitter,
                   dispatch, crashed>>

AppStep == Stop \/ GetQRChannel \/ Connect \/ Read \/ RangeEnds

-----------------------------------------------------------------------------
(* The server and the rest of the client.                                  *)

ServerSendsCodes ==
    /\ link = "up" /\ ~qrSent /\ ~paired
    /\ qrSent' = TRUE
    /\ Dispatch("qr")
    /\ UNCHANGED <<appVars, link, conns, pairing, paired, scans, ctxDone, channelVars,
                   handlerVars, emitter, crashed>>

ScannedWithoutMultidevice ==
    /\ link = "up" /\ qrSent /\ Turns < MaxTurns
    /\ scans' = scans + 1
    /\ Dispatch("scanned")
    /\ UNCHANGED <<appVars, link, conns, qrSent, pairing, paired, ctxDone, channelVars,
                   handlerVars, emitter, crashed>>

(* onDisconnect: a Disconnected event, unless the end was expected.  There  *)
(* is none either when the websocket closed before OnDisconnect was set,   *)
(* or when the keepalive loop gave up.                                     *)
ConnectionEnds ==
    /\ link # "down"
    /\ Disconnect
    /\ \/ link = "up" /\ Dispatch("final")
       \/ UNCHANGED dispatch
    /\ UNCHANGED <<appVars, conns, pairing, paired, scans, ctxDone, channelVars, handlerVars,
                   emitter, crashed>>

(* A connect failure: ClientOutdated, TemporaryBan, ConnectFailure.        *)
ServerRefuses ==
    /\ link = "up"
    /\ link' = "ending"
    /\ Dispatch("final")
    /\ UNCHANGED <<appVars, conns, qrSent, pairing, paired, scans, ctxDone, channelVars,
                   handlerVars, emitter, crashed>>

PairSuccessNode ==
    /\ link = "up" /\ qrSent /\ ~pairing /\ ~paired
    /\ pairing' = TRUE
    /\ UNCHANGED <<appVars, link, conns, qrSent, paired, scans, ctxDone, channelVars,
                   handlerVars, emitter, dispatch, crashed>>

(* handlePair stores the device, expects a disconnect and confirms.        *)
PairSucceeds ==
    /\ pairing /\ link # "down"
    /\ pairing' = FALSE /\ paired' = TRUE /\ link' = "ending"
    /\ Dispatch("final")
    /\ UNCHANGED <<appVars, conns, qrSent, scans, ctxDone, channelVars, handlerVars, emitter,
                   crashed>>

(* Some failures leave cli.Store.ID set.                                   *)
PairFails ==
    /\ pairing
    /\ pairing' = FALSE /\ paired' \in BOOLEAN
    /\ Disconnect
    /\ Dispatch("final")
    /\ UNCHANGED <<appVars, conns, scans, ctxDone, channelVars, handlerVars, emitter, crashed>>

Environment ==
    \/ Cancel \/ ServerSendsCodes \/ ScannedWithoutMultidevice \/ ConnectionEnds
    \/ ServerRefuses \/ PairSuccessNode \/ PairSucceeds \/ PairFails

-----------------------------------------------------------------------------
(* dispatchEvent, and handleEvent for one channel after the other.         *)

(* RLock, which only a running writer holds up. *)
Begin(d) ==
    /\ dispatch[d].step = "waiting"
    /\ dispatch' = [dispatch EXCEPT ![d] =
                       IF listening = {} THEN Idle
                       ELSE [step |-> "check", event |-> @.event, todo |-> listening]]
    /\ UNCHANGED <<appVars, linkVars, channelVars, handlerVars, emitter, crashed>>

Goes(d, step) == dispatch' = [dispatch EXCEPT ![d].step = step]

(* The handler returns, and the next one is called.                        *)
NextHandler(d) ==
    LET rest == dispatch[d].todo \ {Min(dispatch[d].todo)}
    IN  dispatch' = [dispatch EXCEPT ![d] =
                       IF rest = {} THEN Idle
                       ELSE [step |-> "check", event |-> @.event, todo |-> rest]]

(* A panic in a handler ends the dispatch: dispatchEvent recovers from it. *)
Panics(d) == dispatch' = [dispatch EXCEPT ![d] = Idle]

(* go qrc.emitQRs: one for each connection whose codes reach the channel.  *)
StartEmitter(c) ==
    LET free == {k \in Conns : emitter[<<c, k>>].step = "none"}
    IN  /\ free # {}
        /\ emitter' = [emitter EXCEPT ![<<c, Min(free)>>] = [step |-> "loop", left |-> Codes]]

Check(d, c) ==
    /\ dispatch[d].step = "check"
    /\ \/ closed[c] /\ NextHandler(d) /\ UNCHANGED emitter
       \/ /\ ~closed[c] /\ dispatch[d].event = "qr"
          /\ StartEmitter(c)
          /\ NextHandler(d)
       \/ ~closed[c] /\ dispatch[d].event = "scanned" /\ Goes(d, "send") /\ UNCHANGED emitter
       \/ ~closed[c] /\ dispatch[d].event = "final" /\ Goes(d, "stop") /\ UNCHANGED emitter
    /\ UNCHANGED <<appVars, linkVars, channelVars, handlerVars, crashed>>

(* The send waits for room; on a channel closed meanwhile it panics.       *)
SendScanned(d, c) ==
    /\ dispatch[d].step = "send" /\ dispatch[d].event = "scanned"
    /\ \/ open[c] /\ HasRoom(c) /\ Send(c, "scanned") /\ NextHandler(d)
       \/ ~open[c] /\ Panics(d) /\ UNCHANGED <<buffered, results>>
    /\ UNCHANGED <<appVars, linkVars, open, closed, stopped, handlerVars, emitter,
                   crashed>>

(* MUTANT: the handler takes a stopped emitter for one that closes.         *)
StopQRsReturns(d, c) ==
    /\ dispatch[d].step = "stop"
    /\ stopped' = [stopped EXCEPT ![c] = TRUE]
    /\ NextHandler(d)
    /\ UNCHANGED <<appVars, linkVars, buffered, results, open, closed, handlerVars, emitter, crashed>>

(* close(qrc.stopQRs): a second close panics.                              *)
StopQRs(d, c) ==
    /\ dispatch[d].step = "stop"
    /\ \/ stopped[c] /\ Panics(d) /\ UNCHANGED stopped
       \/ ~stopped[c] /\ stopped' = [stopped EXCEPT ![c] = TRUE] /\ Goes(d, "swap")
    /\ UNCHANGED <<appVars, linkVars, buffered, results, open, closed, handlerVars, emitter, crashed>>

(* MUTANT: the flag is set, but not compared.                              *)
SwapAnyway(d, c) ==
    /\ dispatch[d].step = "swap"
    /\ closed' = [closed EXCEPT ![c] = TRUE]
    /\ Goes(d, "send")
    /\ UNCHANGED <<appVars, linkVars, buffered, results, open, stopped, handlerVars, emitter,
                   crashed>>

Swap(d, c) ==
    /\ dispatch[d].step = "swap"
    /\ \/ /\ closed[c]
          /\ removing' = removing \cup {c}
          /\ NextHandler(d)
          /\ UNCHANGED closed
       \/ /\ ~closed[c]
          /\ closed' = [closed EXCEPT ![c] = TRUE]
          /\ Goes(d, "send")
          /\ UNCHANGED removing
    /\ UNCHANGED <<appVars, linkVars, buffered, results, open, stopped, listening, emitter, crashed>>

SendFinal(d, c) ==
    /\ dispatch[d].step = "send" /\ dispatch[d].event = "final"
    /\ HasRoom(c)
    /\ Send(c, "final")
    /\ Goes(d, "close")
    /\ UNCHANGED <<appVars, linkVars, open, closed, stopped, handlerVars, emitter,
                   crashed>>

(* MUTANT: the channel is left for the garbage collector.                  *)
CloseForgotten(d, c) ==
    /\ dispatch[d].step = "close"
    /\ removing' = removing \cup {c}
    /\ NextHandler(d)
    /\ UNCHANGED <<appVars, linkVars, buffered, results, open, closed, stopped, listening, emitter,
                   crashed>>

Close(d, c) ==
    /\ dispatch[d].step = "close"
    /\ open' = [open EXCEPT ![c] = FALSE]
    /\ removing' = removing \cup {c}
    /\ NextHandler(d)
    /\ UNCHANGED <<appVars, linkVars, buffered, results, closed, stopped, listening, emitter,
                   crashed>>

HandleStep(d, c) ==
    \/ Check(d, c) \/ SendScanned(d, c) \/ StopQRs(d, c) \/ Swap(d, c)
    \/ SendFinal(d, c) \/ Close(d, c)

DispatchStep(d) ==
    \/ Begin(d)
    \/ d \in Running /\ HandleStep(d, Min(dispatch[d].todo))

RemoveEventHandler(c) ==
    /\ c \in removing /\ Running = {}
    /\ listening' = listening \ {c}
    /\ removing' = removing \ {c}
    /\ UNCHANGED <<appVars, linkVars, channelVars, emitter, dispatch, crashed>>

-----------------------------------------------------------------------------
(* emitQRs: e = <<c, k>>, an emitter of channel c.                          *)

At(e, step)  == emitter[e].step = step
Goto(e, step) == emitter' = [emitter EXCEPT ![e].step = step]
Ends(e)       == emitter' = [emitter EXCEPT ![e] = [step |-> "done", left |-> 0]]

NoCodesLeft(e) ==
    /\ At(e, "loop") /\ emitter[e].left = 0
    /\ \/ ~closed[e[1]] /\ closed' = [closed EXCEPT ![e[1]] = TRUE] /\ Goto(e, "timeout")
       \/ closed[e[1]] /\ Ends(e) /\ UNCHANGED closed
    /\ UNCHANGED <<appVars, linkVars, buffered, results, open, stopped, handlerVars, dispatch,
                   crashed>>

(* MUTANT: a code is taken from an empty list.                             *)
CheckClosedOnly(e) ==
    /\ At(e, "loop")
    /\ \/ closed[e[1]] /\ Ends(e)
       \/ ~closed[e[1]] /\ Goto(e, "send")
    /\ UNCHANGED <<appVars, linkVars, channelVars, handlerVars, dispatch, crashed>>

CheckClosed(e) ==
    /\ At(e, "loop") /\ emitter[e].left > 0
    /\ \/ closed[e[1]] /\ Ends(e)
       \/ ~closed[e[1]] /\ Goto(e, "send")
    /\ UNCHANGED <<appVars, linkVars, channelVars, handlerVars, dispatch, crashed>>

(* MUTANT: the code that was sent stays at the head of the list.           *)
SendHead(e) ==
    /\ At(e, "send")
    /\ \/ /\ ~open[e[1]]
          /\ crashed' = TRUE
          /\ UNCHANGED <<emitter, buffered, results, closed>>
       \/ /\ open[e[1]] /\ HasRoom(e[1])
          /\ Send(e[1], "code")
          /\ Goto(e, "wait")
          /\ UNCHANGED <<closed, crashed>>
       \/ /\ open[e[1]] /\ ~HasRoom(e[1])
          /\ \/ ~closed[e[1]] /\ closed' = [closed EXCEPT ![e[1]] = TRUE] /\ Goto(e, "close")
             \/ closed[e[1]] /\ Ends(e) /\ UNCHANGED closed
          /\ UNCHANGED <<buffered, results, crashed>>
    /\ UNCHANGED <<appVars, linkVars, open, stopped, handlerVars, dispatch>>

(* A send that does not wait: without room the channel is closed, with no  *)
(* final item.  Nothing recovers from the panic of a send after the close. *)
SendCode(e) ==
    /\ At(e, "send")
    /\ \/ /\ ~open[e[1]]
          /\ crashed' = TRUE
          /\ UNCHANGED <<emitter, buffered, results, closed>>
       \/ /\ open[e[1]] /\ HasRoom(e[1])
          /\ Send(e[1], "code")
          /\ emitter' = [emitter EXCEPT ![e] = [step |-> "wait", left |-> @.left - 1]]
          /\ UNCHANGED <<closed, crashed>>
       \/ /\ open[e[1]] /\ ~HasRoom(e[1])
          /\ \/ ~closed[e[1]] /\ closed' = [closed EXCEPT ![e[1]] = TRUE] /\ Goto(e, "close")
             \/ closed[e[1]] /\ Ends(e) /\ UNCHANGED closed
          /\ UNCHANGED <<buffered, results, crashed>>
    /\ UNCHANGED <<appVars, linkVars, open, stopped, handlerVars, dispatch>>

(* When the context is done the channel is closed, with no final item, and *)
(* the loop goes on; it then finds the flag set.                           *)
Wait(e) ==
    /\ At(e, "wait")
    /\ \/ Goto(e, "loop") /\ UNCHANGED closed
       \/ stopped[e[1]] /\ Ends(e) /\ UNCHANGED closed
       \/ /\ ctxDone /\ ~closed[e[1]]
          /\ closed' = [closed EXCEPT ![e[1]] = TRUE]
          /\ Goto(e, "close")
    /\ UNCHANGED <<appVars, linkVars, buffered, results, open, stopped, handlerVars, dispatch,
                   crashed>>

SendTimeout(e) ==
    /\ At(e, "timeout") /\ HasRoom(e[1])
    /\ Send(e[1], "final")
    /\ Goto(e, "close")
    /\ UNCHANGED <<appVars, linkVars, open, closed, stopped, handlerVars, dispatch,
                   crashed>>

CloseOutput(e) ==
    /\ At(e, "close")
    /\ open' = [open EXCEPT ![e[1]] = FALSE]
    /\ removing' = removing \cup {e[1]}
    /\ Goto(e, "disconnect")
    /\ UNCHANGED <<appVars, linkVars, buffered, results, closed, stopped, listening, dispatch,
                   crashed>>

EmitterDisconnects(e) ==
    /\ At(e, "disconnect")
    /\ Disconnect
    /\ Ends(e)
    /\ UNCHANGED <<appVars, conns, pairing, paired, scans, ctxDone, channelVars, handlerVars,
                   dispatch, crashed>>

EmitterStep(e) ==
    \/ NoCodesLeft(e) \/ CheckClosed(e) \/ SendCode(e) \/ Wait(e)
    \/ SendTimeout(e) \/ CloseOutput(e) \/ EmitterDisconnects(e)

-----------------------------------------------------------------------------
Init ==
    /\ app = "polling" /\ cur = 0 /\ link = "down" /\ conns = 0 /\ scans = 0
    /\ qrSent = FALSE /\ pairing = FALSE /\ paired = FALSE /\ ctxDone = FALSE
    /\ buffered = [c \in Channels |-> 0]
    /\ results = [c \in Channels |-> 0]
    /\ open = [c \in Channels |-> TRUE]
    /\ closed = [c \in Channels |-> FALSE]
    /\ stopped = [c \in Channels |-> FALSE]
    /\ listening = {} /\ removing = {}
    /\ emitter = [e \in Channels \X Conns |-> [step |-> "none", left |-> 0]]
    /\ dispatch = [d \in Slots |-> Idle]
    /\ crashed = FALSE

Next ==
    /\ ~crashed
    /\ \/ AppStep \/ Environment
       \/ \E d \in Slots : DispatchStep(d)
       \/ \E c \in Channels : RemoveEventHandler(c)
       \/ \E e \in Channels \X Conns : EmitterStep(e)

Spec == Init /\ [][Next]_vars

(* Goroutines run.  Nobody has to connect, scan, close or cancel anything. *)
FairSpec ==
    /\ Spec
    /\ WF_vars(~crashed /\ (Read \/ RangeEnds))
    /\ WF_vars(~crashed /\ \E d \in Slots : DispatchStep(d))
    /\ WF_vars(~crashed /\ \E e \in Channels \X Conns : EmitterStep(e))

-----------------------------------------------------------------------------
(* Safety. *)

Reading(c) == app = "reading" /\ cur = c

(* However many events and emitters end a pairing at once, its reader sees  *)
(* at most one result.                                                     *)
OneResult == \A c \in Channels : results[c] <= 1

(* handleEvent closes stopQRs before it swaps the flag, and a second event  *)
(* that does the same is lost in a panic.  Still somebody closes the        *)
(* channel: a stopped emitter leaves no reader behind.                     *)
StoppedIsEnding ==
    \A c \in Channels : stopped[c] =>
        \/ closed[c]
        \/ \E d \in Running : dispatch[d].step = "swap" /\ c = Min(dispatch[d].todo)

(* dispatchEvent holds eventHandlersLock, so a handler that waits for ever  *)
(* stops every event and every change of the handlers.  client.go:682       *)
(* promises that all handlers receive all events: a handler should only     *)
(* wait for room in a channel whose reader is there.  One that was left     *)
(* unread also gets the codes and the scans, and breaks this when full.     *)
HandlersReturn ==
    \A d \in Running :
        dispatch[d].step = "send"
        => LET c == Min(dispatch[d].todo) IN HasRoom(c) \/ Reading(c)

(* How full a channel gets that nobody reads: its handler stays registered  *)
(* while others are made, and several emitters and handlers fill it, yet it *)
(* holds at most the codes of every connection, the scans and its result.   *)
BufferedIsCounted ==
    \A c \in Channels : buffered[c] <= Codes * conns + scans + results[c]

-----------------------------------------------------------------------------
(* Liveness. *)

(* The range loop ends, in spite of the channels before it that nobody      *)
(* reads, once an event that ends the pairing is dispatched, and once a     *)
(* code was shown, whatever becomes of the connection, the phone and the    *)
(* add-on: the codes run out.                                               *)
Ending ==
    \/ \E d \in Running : dispatch[d].event = "final" /\ cur \in dispatch[d].todo
    \/ \E k \in Conns : emitter[<<cur, k>>].step = "wait"
ReadingEnds == (app = "reading" /\ Ending) ~> (app # "reading" \/ crashed)
=============================================================================
