--------------------------- MODULE QRChannelProofs ---------------------------
(***************************************************************************)
(* Proofs about QRChannel: types, the one result of a pairing, that a      *)
(* stopped emitter leaves somebody to close the channel, and, by counting  *)
(* what was sent to a channel, that handlers find room while the codes and *)
(* the scans fit its buffer: for any number of codes, channels,            *)
(* connections and events at a time.                                       *)
(***************************************************************************)
EXTENDS QRChannel, FiniteSetTheorems, TLAPS

Emitters == Channels \X Conns

(* A goroutine that won the flag of channel c and has not closed it yet:    *)
(* an event's handler, or an emitter.                                      *)
HandlerHolds(d, c) ==
    /\ dispatch[d].step \in {"send", "close"} /\ dispatch[d].event = "final"
    /\ c = Min(dispatch[d].todo)
EmitterHolds(e) == emitter[e].step \in {"timeout", "close"}

(* One that still has the result to send. *)
HandlerOwes(d, c) == HandlerHolds(d, c) /\ dispatch[d].step = "send"
EmitterOwes(e)    == emitter[e].step = "timeout"

(* What each place in handleEvent and emitQRs knows. *)
HandlerOK(d) ==
    /\ dispatch[d].step \notin {"idle", "waiting"} => dispatch[d].todo # {}
    /\ dispatch[d].step \in {"stop", "swap", "close"} => dispatch[d].event = "final"
    /\ dispatch[d].step = "send" => dispatch[d].event \in {"scanned", "final"}
EmitterOK(e) == emitter[e].step = "send" => emitter[e].left # 0
PlacesOK ==
    /\ app \in {"connecting", "reading"} => cur # 0
    /\ \A d \in Slots : HandlerOK(d)
    /\ \A e \in Emitters : EmitterOK(e)

(* The flag is the token of the one that ends the pairing. *)
HeldOnlyClosed ==
    /\ \A c \in Channels : results[c] # 0 => closed[c]
    /\ \A d \in Slots, c \in Channels : HandlerHolds(d, c) => closed[c]
    /\ \A e \in Emitters : EmitterHolds(e) => closed[e[1]]
OneHolder ==
    /\ \A d1 \in Slots, d2 \in Slots, c \in Channels :
          HandlerHolds(d1, c) /\ HandlerHolds(d2, c) => d1 = d2
    /\ \A e1 \in Emitters, e2 \in Emitters :
          EmitterHolds(e1) /\ EmitterHolds(e2) /\ e1[1] = e2[1] => e1 = e2
    /\ \A d \in Slots, e \in Emitters : ~(HandlerHolds(d, e[1]) /\ EmitterHolds(e))
OwedIsUnsent ==
    /\ \A c \in Channels : results[c] \in {0, 1}
    /\ \A d \in Slots, c \in Channels : HandlerOwes(d, c) => results[c] = 0
    /\ \A e \in Emitters : EmitterOwes(e) => results[e[1]] = 0

IInv ==
    /\ TypeOK /\ PlacesOK
    /\ HeldOnlyClosed /\ OneHolder /\ OwedIsUnsent
    /\ StoppedIsEnding

-----------------------------------------------------------------------------
(* Operators.                                                              *)

(* Min picks a member of a set of naturals that is not empty. *)
LEMMA MinIsMember ==
    ASSUME NEW S, S \subseteq Nat, S # {}
    PROVE  Min(S) \in S
<1>1. \E x \in S : \A y \in S : x <= y
  <2>1. PICK x \in S : \A y \in S : ~ (<<y, x>> \in OpToRel(<, Nat))
    BY WFMin, NatLessThanWellFounded, Zenon
  <2>2. \A y \in S : <<y, x>> \in Nat \X Nat
    BY <2>1
  <2>3. \A y \in S : ~ (y < x)
    BY <2>1, <2>2 DEF OpToRel
  <2>4. x \in S /\ \A y \in S : y \in Nat
    OBVIOUS
  <2> HIDE DEF Min
  <2>5. \A y \in S : x <= y
    BY <2>3, <2>4, SMT
  <2>6. QED
    BY <2>4, <2>5
<1>2. QED
  BY <1>1 DEF Min

LEMMA ChannelsAreNaturals == Channels \subseteq Nat /\ Conns \subseteq Nat
BY BoundsAssumption DEF Channels, Conns

(* What Goes, NextHandler, Panics and Dispatch leave in dispatch. *)
LEMMA GoesOK ==
    ASSUME TypeOK, NEW d \in Slots, NEW step \in DispatchSteps, Goes(d, step)
    PROVE  /\ dispatch' \in [Slots -> [step : DispatchSteps, event : Events, todo : SUBSET Channels]]
           /\ dispatch'[d].step = step
           /\ dispatch'[d].event = dispatch[d].event
           /\ dispatch'[d].todo = dispatch[d].todo
           /\ \A x \in Slots : x # d => dispatch'[x] = dispatch[x]
BY DEF TypeOK, Goes

LEMMA PanicsOK ==
    ASSUME TypeOK, NEW d \in Slots, Panics(d)
    PROVE  /\ dispatch' \in [Slots -> [step : DispatchSteps, event : Events, todo : SUBSET Channels]]
           /\ dispatch'[d].step = "idle"
           /\ \A x \in Slots : x # d => dispatch'[x] = dispatch[x]
BY DEF TypeOK, Panics, Idle, DispatchSteps, Events

LEMMA NextHandlerOK ==
    ASSUME TypeOK, NEW d \in Slots, NextHandler(d)
    PROVE  /\ dispatch' \in [Slots -> [step : DispatchSteps, event : Events, todo : SUBSET Channels]]
           /\ dispatch'[d].step \in {"idle", "check"}
           /\ dispatch'[d].step = "check" => dispatch'[d].todo # {}
           /\ \A x \in Slots : x # d => dispatch'[x] = dispatch[x]
<1> DEFINE rest == dispatch[d].todo \ {Min(dispatch[d].todo)}
           next == [step |-> "check", event |-> dispatch[d].event, todo |-> rest]
<1>1. rest \subseteq Channels /\ dispatch[d].event \in Events
  BY DEF TypeOK
<1>2. CASE rest = {}
  <2>1. dispatch' = [dispatch EXCEPT ![d] = Idle]
    BY <1>2 DEF NextHandler
  <2>2. QED
    BY <2>1 DEF TypeOK, Idle, DispatchSteps, Events
<1>3. CASE rest # {}
  <2>1. dispatch' = [dispatch EXCEPT ![d] = next]
    BY <1>3 DEF NextHandler
  <2>2. next \in [step : DispatchSteps, event : Events, todo : SUBSET Channels]
    BY <1>1 DEF DispatchSteps
  <2>3. next.step = "check" /\ next.todo # {}
    BY <1>3
  <2> HIDE DEF next
  <2>4. QED
    BY <2>1, <2>2, <2>3 DEF TypeOK
<1>4. QED
  BY <1>2, <1>3

LEMMA DispatchOK ==
    ASSUME TypeOK, NEW event \in Events, Dispatch(event)
    PROVE  /\ dispatch' \in [Slots -> [step : DispatchSteps, event : Events, todo : SUBSET Channels]]
           /\ \A x \in Slots : \/ dispatch'[x] = dispatch[x]
                               \/ (dispatch[x].step = "idle" /\ dispatch'[x].step = "waiting")
<1> DEFINE free == {d \in Slots : dispatch[d] = Idle}
           d == Min(free)
           new == [step |-> "waiting", event |-> event, todo |-> {}]
<1>1. free # {} /\ dispatch' = [dispatch EXCEPT ![d] = new]
  BY DEF Dispatch
<1>2. d \in free
  BY <1>1, MinIsMember, BoundsAssumption
<1>3. dispatch[d].step = "idle" /\ d \in Slots
  BY <1>2 DEF Idle
<1>4. new \in [step : DispatchSteps, event : Events, todo : SUBSET Channels]
  BY DEF DispatchSteps
<1>5. new.step = "waiting"
  OBVIOUS
<1> HIDE DEF d, new, free
<1>6. dispatch \in [Slots -> [step : DispatchSteps, event : Events, todo : SUBSET Channels]]
  BY DEF TypeOK
<1>7. dispatch'[d] = new /\ \A x \in Slots : x # d => dispatch'[x] = dispatch[x]
  BY <1>1, <1>3, <1>6
<1>8. dispatch' \in [Slots -> [step : DispatchSteps, event : Events, todo : SUBSET Channels]]
  BY <1>1, <1>4, <1>6
<1>9. QED
  BY <1>3, <1>5, <1>7, <1>8

-----------------------------------------------------------------------------
(* How the parts about the flag are kept.                                  *)

(* By a step in which nobody wins the flag and no result is sent. *)
LEMMA NobodyTakes ==
    ASSUME IInv, results' = results,
           \A c \in Channels : closed[c] => closed'[c],
           \A d \in Slots : \/ dispatch'[d] = dispatch[d]
                            \/ dispatch'[d].step \notin {"send", "close"}
                            \/ dispatch'[d].event # "final",
           \A e \in Emitters : \/ emitter'[e].step = emitter[e].step
                               \/ emitter'[e].step \notin {"timeout", "close"}
    PROVE  HeldOnlyClosed' /\ OneHolder' /\ OwedIsUnsent'
<1>1. \A d \in Slots, c \in Channels :
         /\ HandlerHolds(d, c)' => HandlerHolds(d, c)
         /\ HandlerOwes(d, c)' => HandlerOwes(d, c)
  BY DEF HandlerHolds, HandlerOwes
<1>2. \A e \in Emitters :
         /\ EmitterHolds(e)' => EmitterHolds(e)
         /\ EmitterOwes(e)' => EmitterOwes(e)
  BY DEF EmitterHolds, EmitterOwes
<1>3. \A e \in Emitters : e[1] \in Channels
  BY DEF Emitters
<1>4. HeldOnlyClosed'
  BY <1>1, <1>2, <1>3 DEF HeldOnlyClosed, IInv
<1>5. OneHolder'
  BY <1>1, <1>2, <1>3 DEF OneHolder, IInv
<1>6. OwedIsUnsent'
  BY <1>1, <1>2 DEF OwedIsUnsent, IInv
<1>7. QED
  BY <1>4, <1>5, <1>6

(* By a step in which emitter e wins it. *)
LEMMA EmitterTakes ==
    ASSUME IInv, NEW e \in Emitters, NEW step \in {"timeout", "close"}, ~closed[e[1]],
           closed' = [closed EXCEPT ![e[1]] = TRUE], Goto(e, step),
           UNCHANGED <<results, dispatch>>
    PROVE  HeldOnlyClosed' /\ OneHolder' /\ OwedIsUnsent'
<1>1. e[1] \in Channels /\ \A x \in Emitters : x[1] \in Channels
  BY DEF Emitters
<1>2. \A x \in Emitters : x # e => emitter'[x] = emitter[x]
  BY DEF Goto, IInv, TypeOK, Emitters
<1>3. closed'[e[1]] /\ \A c \in Channels : closed[c] => closed'[c]
  BY <1>1 DEF IInv, TypeOK
<1>4. results[e[1]] = 0 /\ \A d \in Slots : ~HandlerHolds(d, e[1])
  BY <1>1 DEF IInv, HeldOnlyClosed, OwedIsUnsent
<1>5. \A x \in Emitters : EmitterHolds(x) => x[1] # e[1]
  BY DEF IInv, HeldOnlyClosed
<1>6. \A d \in Slots, c \in Channels :
         HandlerHolds(d, c)' = HandlerHolds(d, c) /\ HandlerOwes(d, c)' = HandlerOwes(d, c)
  BY DEF HandlerHolds, HandlerOwes
<1>7. \A x \in Emitters : x # e =>
         (EmitterHolds(x)' => EmitterHolds(x)) /\ (EmitterOwes(x)' => EmitterOwes(x))
  BY <1>2 DEF EmitterHolds, EmitterOwes
<1>8. HeldOnlyClosed'
  BY <1>1, <1>3, <1>6, <1>7 DEF HeldOnlyClosed, IInv
<1>9. OneHolder'
  <2>1. (\A d1 \in Slots, d2 \in Slots, c \in Channels :
            HandlerHolds(d1, c) /\ HandlerHolds(d2, c) => d1 = d2)'
    BY <1>6 DEF OneHolder, IInv
  <2>2. (\A e1 \in Emitters, e2 \in Emitters :
            EmitterHolds(e1) /\ EmitterHolds(e2) /\ e1[1] = e2[1] => e1 = e2)'
    BY <1>5, <1>7 DEF OneHolder, IInv
  <2>3. (\A d \in Slots, x \in Emitters : ~(HandlerHolds(d, x[1]) /\ EmitterHolds(x)))'
    BY <1>1, <1>4, <1>6, <1>7 DEF OneHolder, IInv
  <2>4. QED
    BY <2>1, <2>2, <2>3 DEF OneHolder
<1>10. OwedIsUnsent'
  <2>1. (\A c \in Channels : results[c] \in {0, 1})'
    BY DEF OwedIsUnsent, IInv
  <2>2. (\A d \in Slots, c \in Channels : HandlerOwes(d, c) => results[c] = 0)'
    BY <1>6 DEF OwedIsUnsent, IInv
  <2>3. ASSUME NEW x \in Emitters, EmitterOwes(x)'
        PROVE  results'[x[1]] = 0
    <3>1. CASE x = e
      BY <3>1, <1>4
    <3>2. CASE x # e
      <4>1. EmitterOwes(x)
        BY <3>2, <2>3, <1>7
      <4>2. QED
        BY <4>1 DEF OwedIsUnsent, IInv
    <3>3. QED
      BY <3>1, <3>2
  <2>4. QED
    BY <2>1, <2>2, <2>3 DEF OwedIsUnsent
<1>11. QED
  BY <1>8, <1>9, <1>10

(* A stopped channel stays one that somebody closes, unless the step stops *)
(* one or ends a swap.                                                     *)
LEMMA StoppedKept ==
    ASSUME StoppedIsEnding, stopped' = stopped,
           \A c \in Channels : closed[c] => closed'[c],
           \A d \in Slots : dispatch[d].step = "swap" => dispatch'[d] = dispatch[d]
    PROVE  StoppedIsEnding'
<1> SUFFICES ASSUME NEW c \in Channels, stopped[c], ~closed[c]
             PROVE  \E d \in Running' : dispatch'[d].step = "swap" /\ c = Min(dispatch'[d].todo)
  BY DEF StoppedIsEnding
<1>1. PICK d \in Running : dispatch[d].step = "swap" /\ c = Min(dispatch[d].todo)
  BY DEF StoppedIsEnding
<1>2. d \in Slots /\ dispatch'[d] = dispatch[d]
  BY <1>1 DEF Running
<1>3. d \in Running'
  BY <1>1, <1>2 DEF Running
<1>4. QED
  BY <1>1, <1>2, <1>3

-----------------------------------------------------------------------------
(* The steps.                                                              *)

(* A step that changes no emitter, no result, no flag and no stopQRs, and   *)
(* dispatch at most by an event that begins to wait.                       *)
LEMMA OnlyDispatches ==
    ASSUME IInv, TypeOK', app' \in {"connecting", "reading"} => cur' # 0,
           UNCHANGED <<emitter, results, closed, stopped>>,
           \A d \in Slots : \/ dispatch'[d] = dispatch[d]
                            \/ (dispatch[d].step = "idle" /\ dispatch'[d].step = "waiting")
    PROVE  IInv'
<1>1. HeldOnlyClosed' /\ OneHolder' /\ OwedIsUnsent'
  BY NobodyTakes
<1>2. StoppedIsEnding'
  BY StoppedKept DEF IInv
<1>3. PlacesOK'
  <2>1. \A d \in Slots : HandlerOK(d)'
    BY DEF IInv, PlacesOK, HandlerOK
  <2>2. \A e \in Emitters : EmitterOK(e)'
    BY DEF IInv, PlacesOK, EmitterOK
  <2>3. QED
    BY <2>1, <2>2 DEF PlacesOK
<1>4. QED
  BY <1>1, <1>2, <1>3 DEF IInv

LEMMA AppSteps ==
    ASSUME IInv, AppStep
    PROVE  IInv'
<1> USE DEF IInv
<1>1. CASE Stop
  <2>1. TypeOK'
    BY <1>1 DEF TypeOK, Stop, linkVars, channelVars, handlerVars
  <2>2. QED
    BY <1>1, <2>1, OnlyDispatches DEF Stop, linkVars, channelVars, handlerVars
<1>2. CASE GetQRChannel
  <2>1. cur' \in Channels
    BY <1>2, BoundsAssumption DEF GetQRChannel, TypeOK, Channels
  <2>2. TypeOK'
    BY <1>2, <2>1, BoundsAssumption DEF TypeOK, GetQRChannel, linkVars, channelVars, Channels
  <2>3. QED
    BY <1>2, <2>1, <2>2, OnlyDispatches, BoundsAssumption
    DEF GetQRChannel, linkVars, channelVars, Channels
<1>3. CASE Connect
  <2>1. TypeOK' /\ (app' \in {"connecting", "reading"} => cur' # 0)
    <3>1. CASE app' = "polling" /\ UNCHANGED <<link, conns>>
      BY <1>3, <3>1 DEF TypeOK, Connect, linkVars, channelVars, handlerVars
    <3>2. CASE conns < MaxConns /\ app' = "reading" /\ link' = "up" /\ conns' = conns + 1
      <4>1. conns' \in 0..MaxConns
        BY <3>2, BoundsAssumption DEF TypeOK
      <4>2. cur' = cur /\ cur # 0
        BY <1>3 DEF Connect, PlacesOK
      <4>3. QED
        BY <1>3, <3>2, <4>1, <4>2 DEF TypeOK, Connect, linkVars, channelVars, handlerVars
    <3>3. QED
      BY <1>3, <3>1, <3>2 DEF Connect
  <2>2. QED
    BY <1>3, <2>1, OnlyDispatches DEF Connect, channelVars
<1>4. CASE Read
  <2>1. cur # 0 /\ cur \in Channels
    BY <1>4, BoundsAssumption DEF Read, PlacesOK, TypeOK, Channels
  <2>2. buffered[cur] - 1 \in 0..Buffer
    BY <1>4, <2>1, BufferAssumption DEF Read, TypeOK
  <2>3. TypeOK'
    BY <1>4, <2>1, <2>2 DEF TypeOK, Read, appVars, linkVars, handlerVars
  <2>4. QED
    BY <1>4, <2>1, <2>3, OnlyDispatches DEF Read, appVars
<1>5. CASE RangeEnds
  <2>1. TypeOK'
    BY <1>5 DEF TypeOK, RangeEnds, linkVars, channelVars, handlerVars
  <2>2. QED
    BY <1>5, <2>1, OnlyDispatches DEF RangeEnds, channelVars
<1>6. QED
  BY <1>1, <1>2, <1>3, <1>4, <1>5 DEF AppStep

LEMMA EnvironmentSteps ==
    ASSUME IInv, Environment
    PROVE  IInv'
<1>1. ASSUME UNCHANGED <<app, cur, channelVars, handlerVars, emitter, crashed>>,
             conns' = conns, scans' \in 0..MaxTurns, link' \in {"down", "up", "ending"},
             {qrSent', pairing', paired', ctxDone'} \subseteq BOOLEAN,
             dispatch' = dispatch \/ \E event \in Events : Dispatch(event)
      PROVE  IInv'
  <2>1. /\ dispatch' \in [Slots -> [step : DispatchSteps, event : Events, todo : SUBSET Channels]]
        /\ \A d \in Slots : \/ dispatch'[d] = dispatch[d]
                            \/ (dispatch[d].step = "idle" /\ dispatch'[d].step = "waiting")
    <3>1. CASE dispatch' = dispatch
      BY <3>1 DEF IInv, TypeOK
    <3>2. ASSUME NEW event \in Events, Dispatch(event)
          PROVE  <2>1!1 /\ <2>1!2
      BY <3>2, DispatchOK DEF IInv
    <3>3. QED
      BY <1>1, <3>1, <3>2
  <2>2. TypeOK'
    BY <1>1, <2>1 DEF IInv, TypeOK, channelVars, handlerVars
  <2>3. app' \in {"connecting", "reading"} => cur' # 0
    BY <1>1 DEF IInv, PlacesOK
  <2>4. QED
    BY <1>1, <2>1, <2>2, <2>3, OnlyDispatches DEF channelVars
<1>2. {"qr", "scanned", "final"} = Events /\ UNCHANGED <<app, cur, conns>>
         /\ UNCHANGED <<channelVars, handlerVars, emitter, crashed>>
  BY DEF Events, Environment, Cancel, ServerSendsCodes, ScannedWithoutMultidevice,
         ConnectionEnds, ServerRefuses, PairSuccessNode, PairSucceeds, PairFails, appVars
<1>3. dispatch' = dispatch \/ \E event \in Events : Dispatch(event)
  BY <1>2 DEF Environment, Cancel, ServerSendsCodes, ScannedWithoutMultidevice,
         ConnectionEnds, ServerRefuses, PairSuccessNode, PairSucceeds, PairFails
<1>4. scans' \in 0..MaxTurns
  <2>1. CASE ScannedWithoutMultidevice
    <3>1. Turns \in {scans, scans + 1}
      BY DEF Turns, IInv, TypeOK
    <3>2. QED
      BY <2>1, <3>1, BoundsAssumption DEF ScannedWithoutMultidevice, IInv, TypeOK
  <2>2. CASE scans' = scans
    BY <2>2 DEF IInv, TypeOK
  <2>3. QED
    BY <2>1, <2>2 DEF Environment, Cancel, ServerSendsCodes, ScannedWithoutMultidevice,
         ConnectionEnds, ServerRefuses, PairSuccessNode, PairSucceeds, PairFails
<1>5. link' \in {"down", "up", "ending"}
  BY DEF IInv, TypeOK, Environment, Cancel, ServerSendsCodes, ScannedWithoutMultidevice,
         ConnectionEnds, ServerRefuses, PairSuccessNode, PairSucceeds, PairFails, Disconnect
<1>6. {qrSent', pairing', paired', ctxDone'} \subseteq BOOLEAN
  BY DEF IInv, TypeOK, Environment, Cancel, ServerSendsCodes, ScannedWithoutMultidevice,
         ConnectionEnds, ServerRefuses, PairSuccessNode, PairSucceeds, PairFails, Disconnect
<1>7. QED
  BY <1>1, <1>2, <1>3, <1>4, <1>5, <1>6

(* A step of dispatchEvent in slot d that leaves nobody new with the flag.  *)
LEMMA HandlerMoves ==
    ASSUME IInv, TypeOK', NEW d \in Slots, UNCHANGED <<app, cur, results, closed, stopped>>,
           \A x \in Slots : x # d => dispatch'[x] = dispatch[x],
           HandlerOK(d)', dispatch[d].step # "swap",
           dispatch'[d].step \notin {"send", "close"} \/ dispatch'[d].event # "final",
           \A e \in Emitters : emitter'[e] = emitter[e] \/ emitter'[e].step = "loop"
    PROVE  IInv'
<1>1. \A e \in Emitters : \/ emitter'[e].step = emitter[e].step
                          \/ emitter'[e].step \notin {"timeout", "close"}
  OBVIOUS
<1>2. HeldOnlyClosed' /\ OneHolder' /\ OwedIsUnsent'
  BY <1>1, NobodyTakes
<1>3. StoppedIsEnding'
  BY StoppedKept DEF IInv
<1>4. PlacesOK'
  <2>1. \A x \in Slots : HandlerOK(x)'
    BY DEF IInv, PlacesOK, HandlerOK
  <2>2. \A e \in Emitters : EmitterOK(e)'
    BY DEF IInv, PlacesOK, EmitterOK
  <2>3. QED
    BY <2>1, <2>2 DEF IInv, PlacesOK
<1>5. QED
  BY <1>2, <1>3, <1>4 DEF IInv

(* The handler of an event that ends the pairing: stopQRs, then the flag.   *)
LEMMA HandlerStops ==
    ASSUME IInv, NEW d \in Running, StopQRs(d, Min(dispatch[d].todo)),
           Min(dispatch[d].todo) \in Channels
    PROVE  IInv'
<1> DEFINE c == Min(dispatch[d].todo)
<1>1. d \in Slots /\ dispatch[d].step = "stop" /\ dispatch[d].event = "final"
  BY DEF StopQRs, Running, IInv, PlacesOK, HandlerOK
<1>2. CASE Panics(d) /\ UNCHANGED stopped
  <2>1. /\ dispatch'[d].step = "idle"
        /\ \A x \in Slots : x # d => dispatch'[x] = dispatch[x]
    BY <1>1, <1>2, PanicsOK DEF IInv
  <2>2. TypeOK'
    BY <1>1, <1>2, PanicsOK
    DEF StopQRs, IInv, TypeOK, appVars, linkVars, handlerVars
  <2>3. HandlerOK(d)'
    BY <2>1 DEF HandlerOK
  <2>4. QED
    BY <1>1, <1>2, <2>1, <2>2, <2>3, HandlerMoves DEF StopQRs, appVars
<1>3. CASE stopped' = [stopped EXCEPT ![c] = TRUE] /\ Goes(d, "swap")
  <2>1. /\ dispatch'[d].step = "swap" /\ dispatch'[d].event = "final"
        /\ dispatch'[d].todo = dispatch[d].todo
        /\ \A x \in Slots : x # d => dispatch'[x] = dispatch[x]
    BY <1>1, <1>3, GoesOK DEF IInv, DispatchSteps
  <2>2. TypeOK'
    BY <1>1, <1>3, GoesOK
    DEF StopQRs, IInv, TypeOK, appVars, linkVars, handlerVars, DispatchSteps
  <2>3. HeldOnlyClosed' /\ OneHolder' /\ OwedIsUnsent'
    BY <2>1, NobodyTakes DEF StopQRs
  <2>4. PlacesOK'
    <3>1. \A x \in Slots : HandlerOK(x)'
      BY <1>1, <2>1 DEF IInv, PlacesOK, HandlerOK
    <3>2. \A e \in Emitters : EmitterOK(e)'
      BY DEF StopQRs, IInv, PlacesOK, EmitterOK
    <3>3. QED
      BY <3>1, <3>2 DEF StopQRs, appVars, IInv, PlacesOK
  <2>5. StoppedIsEnding'
    <3> SUFFICES ASSUME NEW h \in Channels, stopped'[h], ~closed'[h]
                 PROVE  \E x \in Running' : dispatch'[x].step = "swap" /\ h = Min(dispatch'[x].todo)
      BY DEF StoppedIsEnding
    <3>1. closed' = closed
      BY DEF StopQRs
    <3>2. CASE h = c
      <4>1. d \in Running'
        BY <1>1, <2>1 DEF Running
      <4>2. QED
        BY <3>2, <4>1, <2>1
    <3>3. CASE h # c
      <4>1. stopped[h] /\ ~closed[h]
        BY <1>3, <3>1, <3>3 DEF IInv, TypeOK
      <4>2. PICK x \in Running : dispatch[x].step = "swap" /\ h = Min(dispatch[x].todo)
        BY <4>1 DEF IInv, StoppedIsEnding
      <4>3. x \in Slots /\ x # d
        BY <4>2, <1>1 DEF Running
      <4>4. dispatch'[x] = dispatch[x]
        BY <4>3, <2>1
      <4>5. x \in Running'
        BY <4>2, <4>3, <4>4 DEF Running
      <4>6. QED
        BY <4>2, <4>4, <4>5
    <3>4. QED
      BY <3>2, <3>3
  <2>6. QED
    BY <2>2, <2>3, <2>4, <2>5 DEF IInv
<1>4. QED
  BY <1>2, <1>3 DEF StopQRs

LEMMA HandlerSwaps ==
    ASSUME IInv, NEW d \in Running, Swap(d, Min(dispatch[d].todo)),
           Min(dispatch[d].todo) \in Channels
    PROVE  IInv'
<1> DEFINE c == Min(dispatch[d].todo)
<1>1. d \in Slots /\ dispatch[d].step = "swap" /\ dispatch[d].event = "final"
  BY DEF Swap, Running, IInv, PlacesOK, HandlerOK
<1>2. /\ closed' \in [Channels -> BOOLEAN] /\ closed'[c]
      /\ \A h \in Channels : closed[h] => closed'[h]
      /\ \A h \in Channels : h # c => closed'[h] = closed[h]
  BY DEF Swap, IInv, TypeOK
<1>3. /\ dispatch' \in [Slots -> [step : DispatchSteps, event : Events, todo : SUBSET Channels]]
      /\ \A x \in Slots : x # d => dispatch'[x] = dispatch[x]
      /\ HandlerOK(d)'
  <2>1. CASE NextHandler(d)
    BY <1>1, <2>1, NextHandlerOK DEF IInv, HandlerOK
  <2>2. CASE Goes(d, "send")
    BY <1>1, <2>2, GoesOK DEF IInv, HandlerOK, DispatchSteps, PlacesOK
  <2>3. QED
    BY <2>1, <2>2 DEF Swap
<1>4. TypeOK'
  BY <1>2, <1>3 DEF Swap, IInv, TypeOK, appVars, linkVars
<1>5. PlacesOK'
  <2>1. \A x \in Slots : HandlerOK(x)'
    BY <1>3 DEF IInv, PlacesOK, HandlerOK
  <2>2. \A e \in Emitters : EmitterOK(e)'
    BY DEF Swap, IInv, PlacesOK, EmitterOK
  <2>3. QED
    BY <2>1, <2>2 DEF Swap, appVars, IInv, PlacesOK
<1>6. StoppedIsEnding'
  <2> SUFFICES ASSUME NEW h \in Channels, stopped'[h], ~closed'[h]
               PROVE  \E x \in Running' : dispatch'[x].step = "swap" /\ h = Min(dispatch'[x].todo)
    BY DEF StoppedIsEnding
  <2>1. h # c /\ stopped[h] /\ ~closed[h]
    BY <1>2 DEF Swap
  <2>2. PICK x \in Running : dispatch[x].step = "swap" /\ h = Min(dispatch[x].todo)
    BY <2>1 DEF IInv, StoppedIsEnding
  <2>3. x \in Slots /\ x # d
    BY <2>1, <2>2 DEF Running
  <2>4. dispatch'[x] = dispatch[x]
    BY <2>3, <1>3
  <2>5. x \in Running'
    BY <2>2, <2>3, <2>4 DEF Running
  <2>6. QED
    BY <2>2, <2>4, <2>5
<1>7. HeldOnlyClosed' /\ OneHolder' /\ OwedIsUnsent'
  <2>1. CASE NextHandler(d)
    <3>1. dispatch'[d].step \in {"idle", "check"}
      BY <1>1, <2>1, NextHandlerOK DEF IInv
    <3>2. QED
      BY <1>2, <1>3, <3>1, NobodyTakes DEF Swap
  <2>2. CASE ~closed[c] /\ Goes(d, "send")
    <3>1. /\ dispatch'[d].todo = dispatch[d].todo
          /\ \A x \in Slots : x # d => dispatch'[x] = dispatch[x]
      BY <1>1, <2>2, GoesOK DEF IInv, DispatchSteps
    <3>2. UNCHANGED <<results, emitter>>
      BY DEF Swap
    <3>3. results[c] = 0 /\ \A e \in Emitters : EmitterHolds(e) => e[1] # c
      BY <2>2 DEF IInv, HeldOnlyClosed, OwedIsUnsent
    <3>4. \A x \in Slots : ~HandlerHolds(x, c)
      BY <2>2 DEF IInv, HeldOnlyClosed
    <3>5. \A x \in Slots, h \in Channels : HandlerHolds(x, h)' =>
             (HandlerHolds(x, h) \/ (x = d /\ h = c))
      BY <3>1 DEF HandlerHolds
    <3>6. \A x \in Slots, h \in Channels : HandlerOwes(x, h)' =>
             (HandlerOwes(x, h) \/ (x = d /\ h = c))
      BY <3>1 DEF HandlerHolds, HandlerOwes
    <3>7. \A e \in Emitters : /\ e[1] \in Channels
                              /\ EmitterHolds(e)' = EmitterHolds(e)
                              /\ EmitterOwes(e)' = EmitterOwes(e)
      BY <3>2 DEF EmitterHolds, EmitterOwes, Emitters
    <3>8. HeldOnlyClosed'
      BY <1>2, <3>2, <3>5, <3>7 DEF HeldOnlyClosed, IInv
    <3>9. OneHolder'
      <4>1. (\A d1 \in Slots, d2 \in Slots, h \in Channels :
                HandlerHolds(d1, h) /\ HandlerHolds(d2, h) => d1 = d2)'
        BY <3>4, <3>5 DEF OneHolder, IInv
      <4>2. (\A e1 \in Emitters, e2 \in Emitters :
                EmitterHolds(e1) /\ EmitterHolds(e2) /\ e1[1] = e2[1] => e1 = e2)'
        BY <3>7 DEF OneHolder, IInv
      <4>3. (\A x \in Slots, e \in Emitters : ~(HandlerHolds(x, e[1]) /\ EmitterHolds(e)))'
        BY <3>3, <3>5, <3>7 DEF OneHolder, IInv
      <4>4. QED
        BY <4>1, <4>2, <4>3 DEF OneHolder
    <3>10. OwedIsUnsent'
      BY <3>2, <3>3, <3>6, <3>7 DEF OwedIsUnsent, IInv
    <3>11. QED
      BY <3>8, <3>9, <3>10
  <2>3. QED
    BY <2>1, <2>2 DEF Swap
<1>8. QED
  BY <1>4, <1>5, <1>6, <1>7 DEF IInv

(* The result is sent once: before that the channel had none. *)
LEMMA HandlerSends ==
    ASSUME IInv, NEW d \in Running, SendFinal(d, Min(dispatch[d].todo)),
           Min(dispatch[d].todo) \in Channels
    PROVE  IInv'
<1> DEFINE c == Min(dispatch[d].todo)
<1>1. d \in Slots /\ dispatch[d].step = "send" /\ dispatch[d].event = "final"
  BY DEF SendFinal, Running
<1>2. HandlerHolds(d, c) /\ HandlerOwes(d, c)
  BY <1>1 DEF HandlerHolds, HandlerOwes
<1>3. closed[c] /\ results[c] = 0
  BY <1>1, <1>2 DEF IInv, HeldOnlyClosed, OwedIsUnsent
<1>4. /\ dispatch' \in [Slots -> [step : DispatchSteps, event : Events, todo : SUBSET Channels]]
      /\ dispatch'[d].step = "close" /\ dispatch'[d].event = "final"
      /\ dispatch'[d].todo = dispatch[d].todo
      /\ \A x \in Slots : x # d => dispatch'[x] = dispatch[x]
  BY <1>1, GoesOK DEF SendFinal, IInv, DispatchSteps
<1>5. results' = [results EXCEPT ![c] = 1]
  BY <1>3 DEF SendFinal, Send, IInv, TypeOK
<1>6. results'[c] = 1 /\ \A h \in Channels : h # c => results'[h] = results[h]
  BY <1>5 DEF IInv, TypeOK
<1>7. TypeOK'
  <2>1. buffered[c] + 1 \in 0..Buffer
    BY BufferAssumption DEF SendFinal, HasRoom, IInv, TypeOK
  <2>2. buffered' \in [Channels -> 0..Buffer] /\ results' \in [Channels -> Nat]
    BY <1>5, <2>1 DEF SendFinal, Send, IInv, TypeOK
  <2>3. QED
    BY <1>4, <2>2 DEF SendFinal, IInv, TypeOK, appVars, linkVars, handlerVars
<1>8. PlacesOK'
  <2>1. \A x \in Slots : HandlerOK(x)'
    BY <1>1, <1>4 DEF IInv, PlacesOK, HandlerOK
  <2>2. \A e \in Emitters : EmitterOK(e)'
    BY DEF SendFinal, IInv, PlacesOK, EmitterOK
  <2>3. QED
    BY <2>1, <2>2 DEF SendFinal, appVars, IInv, PlacesOK
<1>9. StoppedIsEnding'
  <2>1. \A x \in Slots : dispatch[x].step = "swap" => dispatch'[x] = dispatch[x]
    BY <1>1, <1>4
  <2>2. QED
    BY <2>1, StoppedKept DEF IInv, SendFinal
<1>10. \A x \in Slots, h \in Channels :
          /\ HandlerHolds(x, h)' = HandlerHolds(x, h)
          /\ HandlerOwes(x, h)' => (HandlerOwes(x, h) /\ x # d)
  BY <1>1, <1>4 DEF HandlerHolds, HandlerOwes
<1>11. \A e \in Emitters : /\ e[1] \in Channels
                           /\ EmitterHolds(e)' = EmitterHolds(e)
                           /\ EmitterOwes(e)' = EmitterOwes(e)
                           /\ EmitterOwes(e) => EmitterHolds(e)
  BY DEF SendFinal, EmitterHolds, EmitterOwes, Emitters
<1>12. HeldOnlyClosed' /\ OneHolder'
  <2>1. closed' = closed
    BY DEF SendFinal
  <2> HIDE DEF c
  <2>2. (\A h \in Channels : results[h] # 0 => closed[h])'
    BY <1>3, <1>6, <2>1 DEF IInv, HeldOnlyClosed
  <2>3. HeldOnlyClosed'
    BY <1>10, <1>11, <2>1, <2>2 DEF HeldOnlyClosed, IInv
  <2>4. OneHolder'
    BY <1>10, <1>11 DEF OneHolder, IInv
  <2>5. QED
    BY <2>3, <2>4
<1>13. OwedIsUnsent'
  <2>1. (\A h \in Channels : results[h] \in {0, 1})'
    BY <1>6 DEF OwedIsUnsent, IInv
  <2>2. (\A x \in Slots, h \in Channels : HandlerOwes(x, h) => results[h] = 0)'
    <3> SUFFICES ASSUME NEW x \in Slots, NEW h \in Channels, HandlerOwes(x, h)'
                 PROVE  results'[h] = 0
      OBVIOUS
    <3>1. HandlerOwes(x, h) /\ x # d
      BY <1>10
    <3>2. h # c
      BY <1>1, <1>2, <3>1 DEF IInv, OneHolder, HandlerOwes
    <3>3. QED
      BY <3>1, <3>2, <1>6 DEF IInv, OwedIsUnsent
  <2>3. (\A e \in Emitters : EmitterOwes(e) => results[e[1]] = 0)'
    <3> SUFFICES ASSUME NEW e \in Emitters, EmitterOwes(e)'
                 PROVE  results'[e[1]] = 0
      OBVIOUS
    <3>1. EmitterOwes(e) /\ EmitterHolds(e) /\ e[1] \in Channels
      BY <1>11
    <3> HIDE DEF c
    <3>2. e[1] # c
      BY <1>1, <1>2, <3>1 DEF IInv, OneHolder
    <3>3. QED
      BY <3>1, <3>2, <1>6 DEF IInv, OwedIsUnsent
  <2>4. QED
    BY <2>1, <2>2, <2>3 DEF OwedIsUnsent
<1>14. QED
  BY <1>7, <1>8, <1>9, <1>12, <1>13 DEF IInv

LEMMA HandlerSteps ==
    ASSUME IInv, NEW d \in Slots, DispatchStep(d)
    PROVE  IInv'
<1> DEFINE c == Min(dispatch[d].todo)
<1>1. CASE Begin(d)
  <2> DEFINE new == [step |-> "check", event |-> dispatch[d].event, todo |-> listening]
  <2>1. CASE listening = {}
    <3>1. dispatch' = [dispatch EXCEPT ![d] = Idle]
      BY <1>1, <2>1 DEF Begin
    <3>2. Idle \in [step : DispatchSteps, event : Events, todo : SUBSET Channels]
      BY DEF Idle, DispatchSteps, Events
    <3>3. TypeOK'
      BY <1>1, <3>1, <3>2 DEF Begin, IInv, TypeOK, appVars, linkVars, channelVars, handlerVars
    <3>4. dispatch'[d].step = "idle" /\ \A x \in Slots : x # d => dispatch'[x] = dispatch[x]
      BY <3>1 DEF IInv, TypeOK, Idle
    <3>5. HandlerOK(d)'
      BY <3>4 DEF HandlerOK
    <3>6. QED
      BY <1>1, <3>3, <3>4, <3>5, HandlerMoves DEF Begin, appVars, channelVars
  <2>2. CASE listening # {}
    <3>1. dispatch' = [dispatch EXCEPT ![d] = new]
      BY <1>1, <2>2 DEF Begin
    <3>2. new \in [step : DispatchSteps, event : Events, todo : SUBSET Channels]
      BY DEF DispatchSteps, IInv, TypeOK
    <3>3. new.step = "check" /\ new.todo # {}
      BY <2>2
    <3> HIDE DEF new
    <3>4. TypeOK'
      BY <1>1, <3>1, <3>2 DEF Begin, IInv, TypeOK, appVars, linkVars, channelVars, handlerVars
    <3>5. dispatch'[d] = new /\ \A x \in Slots : x # d => dispatch'[x] = dispatch[x]
      BY <3>1 DEF IInv, TypeOK
    <3>6. HandlerOK(d)'
      BY <3>3, <3>5 DEF HandlerOK
    <3>7. QED
      BY <1>1, <3>3, <3>4, <3>5, <3>6, HandlerMoves DEF Begin, appVars, channelVars
  <2>3. QED
    BY <2>1, <2>2
<1>2. ASSUME d \in Running PROVE c \in Channels
  <2>1. dispatch[d].todo # {} /\ dispatch[d].todo \subseteq Channels
    BY <1>2 DEF Running, IInv, PlacesOK, HandlerOK, TypeOK
  <2>2. QED
    BY <2>1, MinIsMember, ChannelsAreNaturals
<1>3. ASSUME d \in Running, NextHandler(d),
             dispatch[d].step # "swap", UNCHANGED <<results, closed, stopped>>,
             UNCHANGED <<appVars, linkVars, crashed>>,
             {open'} \subseteq [Channels -> BOOLEAN], buffered' \in [Channels -> 0..Buffer],
             listening' \subseteq Channels, removing' \subseteq Channels,
             emitter' \in [Channels \X Conns -> [step : EmitterSteps, left : 0..Codes]],
             \A e \in Emitters : emitter'[e] = emitter[e] \/ emitter'[e].step = "loop"
      PROVE  IInv'
  <2>1. TypeOK'
    BY <1>3, NextHandlerOK DEF IInv, TypeOK, appVars, linkVars
  <2>2. HandlerOK(d)'
    BY <1>3, NextHandlerOK DEF IInv, HandlerOK
  <2>3. QED
    BY <1>3, <2>1, <2>2, NextHandlerOK, HandlerMoves DEF IInv, appVars
<1>4. CASE d \in Running /\ Check(d, c)
  <2>0. c \in Channels
    BY <1>2, <1>4
  <2>1. CASE NextHandler(d) /\ UNCHANGED emitter
    BY <1>3, <1>4, <2>1 DEF Check, IInv, TypeOK, appVars, linkVars, channelVars, handlerVars
  <2>2. CASE NextHandler(d) /\ StartEmitter(c)
    <3> DEFINE free == {k \in Conns : emitter[<<c, k>>].step = "none"}
               k == Min(free)
               new == [step |-> "loop", left |-> Codes]
    <3>1. free # {} /\ emitter' = [emitter EXCEPT ![<<c, k>>] = new]
      BY <2>2 DEF StartEmitter
    <3>2. k \in Conns
      BY <3>1, MinIsMember, ChannelsAreNaturals
    <3>3. new \in [step : EmitterSteps, left : 0..Codes] /\ new.step = "loop"
      BY BufferAssumption DEF EmitterSteps
    <3> HIDE DEF k, new
    <3>4. /\ emitter' \in [Channels \X Conns -> [step : EmitterSteps, left : 0..Codes]]
          /\ \A e \in Emitters : emitter'[e] = emitter[e] \/ emitter'[e].step = "loop"
      BY <2>0, <3>1, <3>2, <3>3 DEF IInv, TypeOK, Emitters
    <3>5. QED
      BY <1>3, <1>4, <2>2, <3>4
      DEF Check, IInv, TypeOK, appVars, linkVars, channelVars, handlerVars
  <2>3. ASSUME NEW step \in {"send", "stop"}, Goes(d, step), UNCHANGED emitter,
               step = "send" => dispatch[d].event = "scanned",
               step = "stop" => dispatch[d].event = "final"
        PROVE  IInv'
    <3>1. /\ dispatch' \in [Slots -> [step : DispatchSteps, event : Events, todo : SUBSET Channels]]
          /\ dispatch'[d].step = step /\ dispatch'[d].event = dispatch[d].event
          /\ dispatch'[d].todo = dispatch[d].todo
          /\ \A x \in Slots : x # d => dispatch'[x] = dispatch[x]
      BY <2>3, GoesOK DEF IInv, DispatchSteps
    <3>2. TypeOK'
      BY <1>4, <2>3, <3>1
      DEF Check, IInv, TypeOK, appVars, linkVars, channelVars, handlerVars
    <3>3. HandlerOK(d)'
      BY <1>4, <2>3, <3>1 DEF Check, HandlerOK, IInv, PlacesOK
    <3>4. QED
      BY <1>4, <2>3, <3>1, <3>2, <3>3, HandlerMoves DEF Check, appVars, channelVars
  <2>4. QED
    BY <1>4, <2>1, <2>2, <2>3 DEF Check
<1>5. CASE d \in Running /\ SendScanned(d, c)
  <2>0. c \in Channels
    BY <1>2, <1>5
  <2>1. CASE open[c] /\ HasRoom(c) /\ Send(c, "scanned") /\ NextHandler(d)
    <3>1. buffered[c] + 1 \in 0..Buffer
      BY <2>0, <2>1, BufferAssumption DEF HasRoom, IInv, TypeOK
    <3>2. buffered' \in [Channels -> 0..Buffer] /\ results' = results
      BY <2>0, <2>1, <3>1 DEF Send, IInv, TypeOK
    <3>3. QED
      BY <1>3, <1>5, <2>1, <3>2 DEF SendScanned, IInv, TypeOK, handlerVars
  <2>2. CASE Panics(d) /\ UNCHANGED <<buffered, results>>
    <3>1. /\ dispatch' \in [Slots -> [step : DispatchSteps, event : Events, todo : SUBSET Channels]]
          /\ dispatch'[d].step = "idle"
          /\ \A x \in Slots : x # d => dispatch'[x] = dispatch[x]
      BY <2>2, PanicsOK DEF IInv
    <3>2. TypeOK'
      BY <1>5, <2>2, <3>1 DEF SendScanned, IInv, TypeOK, appVars, linkVars, handlerVars
    <3>3. HandlerOK(d)'
      BY <3>1 DEF HandlerOK
    <3>4. QED
      BY <1>5, <2>2, <3>1, <3>2, <3>3, HandlerMoves DEF SendScanned, appVars
  <2>3. QED
    BY <1>5, <2>1, <2>2 DEF SendScanned
<1>6. CASE d \in Running /\ Close(d, c)
  <2>1. {open'} \subseteq [Channels -> BOOLEAN] /\ removing' \subseteq Channels
    BY <1>2, <1>6 DEF Close, IInv, TypeOK
  <2>2. QED
    BY <1>3, <1>6, <2>1 DEF Close, IInv, TypeOK
<1>7. QED
  BY <1>1, <1>2, <1>4, <1>5, <1>6, HandlerStops, HandlerSwaps, HandlerSends
  DEF DispatchStep, HandleStep

(* A step of emitter e that leaves it without the flag.                     *)
LEMMA EmitterMoves ==
    ASSUME IInv, TypeOK', NEW e \in Emitters,
           UNCHANGED <<app, cur, results, closed, stopped, dispatch>>,
           \A x \in Emitters : x # e => emitter'[x] = emitter[x],
           EmitterOK(e)', emitter'[e].step \notin {"timeout", "close"}
    PROVE  IInv'
<1>1. HeldOnlyClosed' /\ OneHolder' /\ OwedIsUnsent'
  BY NobodyTakes
<1>2. StoppedIsEnding'
  BY StoppedKept DEF IInv
<1>3. PlacesOK'
  <2>1. \A d \in Slots : HandlerOK(d)'
    BY DEF IInv, PlacesOK, HandlerOK
  <2>2. \A x \in Emitters : EmitterOK(x)'
    BY DEF IInv, PlacesOK, EmitterOK
  <2>3. QED
    BY <2>1, <2>2 DEF IInv, PlacesOK
<1>4. QED
  BY <1>1, <1>2, <1>3 DEF IInv

LEMMA GotoOK ==
    ASSUME TypeOK, NEW e \in Emitters, NEW step \in EmitterSteps, Goto(e, step)
    PROVE  /\ emitter' \in [Channels \X Conns -> [step : EmitterSteps, left : 0..Codes]]
           /\ emitter'[e].step = step /\ emitter'[e].left = emitter[e].left
           /\ \A x \in Emitters : x # e => emitter'[x] = emitter[x]
BY DEF TypeOK, Goto, Emitters

LEMMA EndsOK ==
    ASSUME TypeOK, NEW e \in Emitters, Ends(e)
    PROVE  /\ emitter' \in [Channels \X Conns -> [step : EmitterSteps, left : 0..Codes]]
           /\ emitter'[e].step = "done"
           /\ \A x \in Emitters : x # e => emitter'[x] = emitter[x]
BY BufferAssumption DEF TypeOK, Ends, Emitters, EmitterSteps

(* The emitter closes the channel without a result, or has run out of codes. *)
LEMMA EmitterCloses ==
    ASSUME IInv, NEW e \in Emitters, NEW step \in {"timeout", "close"}, ~closed[e[1]],
           closed' = [closed EXCEPT ![e[1]] = TRUE], Goto(e, step),
           UNCHANGED <<appVars, linkVars, buffered, results, open, stopped, handlerVars,
                       dispatch, crashed>>
    PROVE  IInv'
<1>1. closed' \in [Channels -> BOOLEAN] /\ \A c \in Channels : closed[c] => closed'[c]
  BY DEF IInv, TypeOK, Emitters
<1>2. TypeOK'
  BY <1>1, GotoOK DEF IInv, TypeOK, EmitterSteps, appVars, linkVars, handlerVars
<1>3. HeldOnlyClosed' /\ OneHolder' /\ OwedIsUnsent'
  BY EmitterTakes
<1>4. StoppedIsEnding'
  BY <1>1, StoppedKept DEF IInv
<1>5. PlacesOK'
  <2>1. \A d \in Slots : HandlerOK(d)'
    BY DEF IInv, PlacesOK, HandlerOK
  <2>2. \A x \in Emitters : EmitterOK(x)'
    BY GotoOK DEF IInv, PlacesOK, EmitterOK, EmitterSteps
  <2>3. QED
    BY <2>1, <2>2 DEF IInv, PlacesOK, appVars
<1>6. QED
  BY <1>2, <1>3, <1>4, <1>5 DEF IInv

(* The last code has expired: the result is sent before the channel closes. *)
LEMMA EmitterSends ==
    ASSUME IInv, NEW e \in Emitters, SendTimeout(e)
    PROVE  IInv'
<1> DEFINE c == e[1]
<1>1. c \in Channels /\ emitter[e].step = "timeout"
  BY DEF SendTimeout, At, Emitters
<1>2. EmitterHolds(e) /\ EmitterOwes(e)
  BY <1>1 DEF EmitterHolds, EmitterOwes
<1>3. closed[c] /\ results[c] = 0
  BY <1>1, <1>2 DEF IInv, HeldOnlyClosed, OwedIsUnsent
<1>4. /\ emitter' \in [Channels \X Conns -> [step : EmitterSteps, left : 0..Codes]]
      /\ emitter'[e].step = "close"
      /\ \A x \in Emitters : x # e => emitter'[x] = emitter[x]
  BY GotoOK DEF SendTimeout, IInv, EmitterSteps
<1>5. results' = [results EXCEPT ![c] = 1]
  BY <1>3 DEF SendTimeout, Send, IInv, TypeOK
<1>6. results'[c] = 1 /\ \A h \in Channels : h # c => results'[h] = results[h]
  BY <1>1, <1>5 DEF IInv, TypeOK
<1>7. TypeOK'
  <2>1. buffered[c] + 1 \in 0..Buffer
    BY <1>1, BufferAssumption DEF SendTimeout, HasRoom, IInv, TypeOK
  <2>2. buffered' \in [Channels -> 0..Buffer] /\ results' \in [Channels -> Nat]
    BY <1>1, <1>5, <2>1 DEF SendTimeout, Send, IInv, TypeOK
  <2>3. QED
    BY <1>4, <2>2 DEF SendTimeout, IInv, TypeOK, appVars, linkVars, handlerVars
<1>8. PlacesOK'
  <2>1. \A d \in Slots : HandlerOK(d)'
    BY DEF SendTimeout, IInv, PlacesOK, HandlerOK
  <2>2. \A x \in Emitters : EmitterOK(x)'
    BY <1>4 DEF IInv, PlacesOK, EmitterOK
  <2>3. QED
    BY <2>1, <2>2 DEF SendTimeout, appVars, IInv, PlacesOK
<1>9. StoppedIsEnding'
  BY StoppedKept DEF IInv, SendTimeout
<1>10. \A d \in Slots, h \in Channels :
          HandlerHolds(d, h)' = HandlerHolds(d, h) /\ HandlerOwes(d, h)' = HandlerOwes(d, h)
  BY DEF SendTimeout, HandlerHolds, HandlerOwes
<1>11. \A x \in Emitters : x[1] \in Channels /\ EmitterHolds(x)' = EmitterHolds(x)
  BY <1>1, <1>4 DEF EmitterHolds, Emitters
<1>12. \A x \in Emitters : EmitterOwes(x)' => (EmitterOwes(x) /\ EmitterHolds(x) /\ x # e)
  BY <1>4 DEF EmitterOwes, EmitterHolds
<1> HIDE DEF c
<1>13. HeldOnlyClosed'
  <2>1. closed' = closed
    BY DEF SendTimeout
  <2>2. (\A h \in Channels : results[h] # 0 => closed[h])'
    BY <1>3, <1>6, <2>1 DEF IInv, HeldOnlyClosed
  <2>3. QED
    BY <1>10, <1>11, <2>1, <2>2 DEF HeldOnlyClosed, IInv
<1>14. OneHolder'
  BY <1>10, <1>11 DEF OneHolder, IInv
<1>15. OwedIsUnsent'
  <2>1. (\A h \in Channels : results[h] \in {0, 1})'
    BY <1>6 DEF OwedIsUnsent, IInv
  <2>2. (\A d \in Slots, h \in Channels : HandlerOwes(d, h) => results[h] = 0)'
    <3> SUFFICES ASSUME NEW d \in Slots, NEW h \in Channels, HandlerOwes(d, h)'
                 PROVE  results'[h] = 0
      OBVIOUS
    <3>1. HandlerOwes(d, h) /\ HandlerHolds(d, h)
      BY <1>10 DEF HandlerOwes
    <3>2. h # c
      BY <1>2, <3>1 DEF c, IInv, OneHolder
    <3>3. QED
      BY <3>1, <3>2, <1>6 DEF IInv, OwedIsUnsent
  <2>3. (\A x \in Emitters : EmitterOwes(x) => results[x[1]] = 0)'
    <3> SUFFICES ASSUME NEW x \in Emitters, EmitterOwes(x)'
                 PROVE  results'[x[1]] = 0
      OBVIOUS
    <3>1. EmitterOwes(x) /\ EmitterHolds(x) /\ x # e /\ x[1] \in Channels
      BY <1>11, <1>12
    <3>2. x[1] # c
      BY <1>2, <3>1 DEF c, IInv, OneHolder
    <3>3. QED
      BY <3>1, <3>2, <1>6 DEF IInv, OwedIsUnsent
  <2>4. QED
    BY <2>1, <2>2, <2>3 DEF OwedIsUnsent
<1>16. QED
  BY <1>7, <1>8, <1>9, <1>13, <1>14, <1>15 DEF IInv

LEMMA EmittingSteps ==
    ASSUME IInv, NEW e \in Emitters, EmitterStep(e)
    PROVE  IInv'
<1>0. e[1] \in Channels
  BY DEF Emitters
<1>1. ASSUME Ends(e) \/ (\E step \in {"loop", "disconnect"} : Goto(e, step))
                   \/ (Goto(e, "send") /\ emitter[e].left # 0),
             UNCHANGED <<appVars, channelVars, dispatch, crashed>>,
             UNCHANGED handlerVars \/ (removing' = removing \cup {e[1]} /\ listening' = listening),
             UNCHANGED linkVars \/ (Disconnect /\ UNCHANGED <<conns, pairing, paired, scans, ctxDone>>)
      PROVE  IInv'
  <2>1. /\ emitter' \in [Channels \X Conns -> [step : EmitterSteps, left : 0..Codes]]
        /\ emitter'[e].step \in {"done", "loop", "disconnect", "send"}
        /\ emitter'[e].step = "send" => emitter'[e].left # 0
        /\ \A x \in Emitters : x # e => emitter'[x] = emitter[x]
    <3>1. CASE Ends(e)
      BY <3>1, EndsOK DEF IInv
    <3>2. CASE \E step \in {"loop", "disconnect"} : Goto(e, step)
      BY <3>2, GotoOK DEF IInv, EmitterSteps
    <3>3. CASE Goto(e, "send") /\ emitter[e].left # 0
      BY <3>3, GotoOK DEF IInv, EmitterSteps
    <3>4. QED
      BY <1>1, <3>1, <3>2, <3>3
  <2>2. TypeOK'
    <3>1. listening' \subseteq Channels /\ removing' \subseteq Channels
      BY <1>0, <1>1 DEF IInv, TypeOK, handlerVars
    <3>2. /\ link' \in {"down", "up", "ending"}
          /\ {qrSent', pairing', paired', ctxDone'} \subseteq BOOLEAN
          /\ conns' = conns /\ scans' = scans
      BY <1>1 DEF IInv, TypeOK, linkVars, Disconnect
    <3>3. QED
      BY <1>1, <2>1, <3>1, <3>2 DEF IInv, TypeOK, appVars, channelVars
  <2>3. EmitterOK(e)'
    BY <2>1 DEF EmitterOK
  <2>4. QED
    BY <1>1, <2>1, <2>2, <2>3, EmitterMoves DEF appVars, channelVars
<1>2. CASE NoCodesLeft(e)
  BY <1>1, <1>2, EmitterCloses DEF NoCodesLeft, channelVars, handlerVars
<1>3. CASE CheckClosed(e)
  BY <1>1, <1>3 DEF CheckClosed
<1>4. CASE SendCode(e)
  <2>1. CASE crashed' = TRUE /\ UNCHANGED <<emitter, buffered, results, closed>>
    <3>1. TypeOK'
      BY <1>4, <2>1 DEF SendCode, IInv, TypeOK, appVars, linkVars, handlerVars
    <3>2. QED
      BY <1>4, <2>1, <3>1, OnlyDispatches DEF SendCode, appVars, IInv, PlacesOK
  <2>2. CASE /\ HasRoom(e[1]) /\ Send(e[1], "code") /\ UNCHANGED <<closed, crashed>>
             /\ emitter' = [emitter EXCEPT ![e] = [step |-> "wait", left |-> @.left - 1]]
    <3> DEFINE new == [step |-> "wait", left |-> emitter[e].left - 1]
    <3>1. buffered[e[1]] + 1 \in 0..Buffer
      BY <1>0, <2>2, BufferAssumption DEF HasRoom, IInv, TypeOK
    <3>2. buffered' \in [Channels -> 0..Buffer] /\ results' = results
      BY <1>0, <2>2, <3>1 DEF Send, IInv, TypeOK
    <3>3. emitter[e].left # 0 /\ emitter[e].left \in 0..Codes
      BY <1>4 DEF SendCode, At, IInv, PlacesOK, EmitterOK, TypeOK, Emitters
    <3>4. emitter[e].left - 1 \in 0..Codes
      BY <3>3, BufferAssumption
    <3>5. new \in [step : EmitterSteps, left : 0..Codes] /\ new.step = "wait"
      BY <3>4 DEF EmitterSteps
    <3>6. emitter' = [emitter EXCEPT ![e] = new]
      BY <2>2
    <3> HIDE DEF new
    <3>7. /\ emitter' \in [Channels \X Conns -> [step : EmitterSteps, left : 0..Codes]]
          /\ emitter'[e].step = "wait"
          /\ \A x \in Emitters : x # e => emitter'[x] = emitter[x]
      BY <3>5, <3>6 DEF IInv, TypeOK, Emitters
    <3>8. TypeOK'
      BY <1>4, <2>2, <3>2, <3>7 DEF SendCode, IInv, TypeOK, appVars, linkVars, handlerVars
    <3>9. EmitterOK(e)'
      BY <3>7 DEF EmitterOK
    <3>10. QED
      BY <1>4, <2>2, <3>2, <3>7, <3>8, <3>9, EmitterMoves DEF SendCode, appVars
  <2>3. CASE /\ ~closed[e[1]] /\ closed' = [closed EXCEPT ![e[1]] = TRUE] /\ Goto(e, "close")
             /\ UNCHANGED <<buffered, results, crashed>>
    BY <1>4, <2>3, EmitterCloses DEF SendCode
  <2>4. CASE Ends(e) /\ UNCHANGED <<closed, buffered, results, crashed>>
    BY <1>1, <1>4, <2>4 DEF SendCode, channelVars
  <2>5. QED
    BY <1>4, <2>1, <2>2, <2>3, <2>4 DEF SendCode
<1>5. CASE Wait(e)
  BY <1>1, <1>5, EmitterCloses DEF Wait, channelVars
<1>6. CASE CloseOutput(e)
  <2>1. /\ emitter' \in [Channels \X Conns -> [step : EmitterSteps, left : 0..Codes]]
        /\ emitter'[e].step = "disconnect"
        /\ \A x \in Emitters : x # e => emitter'[x] = emitter[x]
    BY <1>6, GotoOK DEF CloseOutput, IInv, EmitterSteps
  <2>2. TypeOK'
    BY <1>0, <1>6, <2>1 DEF CloseOutput, IInv, TypeOK, appVars, linkVars
  <2>3. EmitterOK(e)'
    BY <2>1 DEF EmitterOK
  <2>4. QED
    BY <1>6, <2>1, <2>2, <2>3, EmitterMoves DEF CloseOutput, appVars
<1>7. CASE EmitterDisconnects(e)
  BY <1>1, <1>7 DEF EmitterDisconnects
<1>8. QED
  BY <1>2, <1>3, <1>4, <1>5, <1>6, <1>7, EmitterSends DEF EmitterStep

-----------------------------------------------------------------------------
(* The theorems.                                                           *)

LEMMA Initially == Init => IInv
<1> SUFFICES ASSUME Init PROVE IInv
  OBVIOUS
<1>1. TypeOK
  <2>1. /\ 0 \in 0..Codes /\ 0 \in 0..Buffer
        /\ 0 \in 0..MaxChannels /\ 0 \in 0..MaxConns /\ 0 \in 0..MaxTurns
    BY BufferAssumption, BoundsAssumption
  <2>2. Idle \in [step : DispatchSteps, event : Events, todo : SUBSET Channels]
    BY DEF Idle, DispatchSteps, Events
  <2>3. [step |-> "none", left |-> 0] \in [step : EmitterSteps, left : 0..Codes]
    BY <2>1 DEF EmitterSteps
  <2>4. QED
    BY <2>1, <2>2, <2>3 DEF Init, TypeOK
<1>2. PlacesOK
  BY DEF Init, PlacesOK, HandlerOK, EmitterOK, Emitters, Idle
<1>3. HeldOnlyClosed /\ OneHolder /\ OwedIsUnsent
  BY DEF Init, HeldOnlyClosed, OneHolder, OwedIsUnsent, HandlerHolds, HandlerOwes,
         EmitterHolds, EmitterOwes, Emitters, Idle
<1>4. StoppedIsEnding
  BY DEF Init, StoppedIsEnding
<1>5. QED
  BY <1>1, <1>2, <1>3, <1>4 DEF IInv

LEMMA Inductive == IInv /\ [Next]_vars => IInv'
<1> SUFFICES ASSUME IInv, [Next]_vars PROVE IInv'
  OBVIOUS
<1>1. CASE UNCHANGED vars
  BY <1>1, OnlyDispatches DEF vars, IInv, TypeOK, PlacesOK
<1>2. CASE AppStep
  BY <1>2, AppSteps
<1>3. CASE Environment
  BY <1>3, EnvironmentSteps
<1>4. CASE \E d \in Slots : DispatchStep(d)
  BY <1>4, HandlerSteps
<1>5. CASE \E c \in Channels : RemoveEventHandler(c)
  <2>1. TypeOK'
    BY <1>5 DEF RemoveEventHandler, IInv, TypeOK, appVars, linkVars, channelVars
  <2>2. QED
    BY <1>5, <2>1, OnlyDispatches DEF RemoveEventHandler, IInv, PlacesOK, appVars, channelVars
<1>6. CASE \E e \in Channels \X Conns : EmitterStep(e)
  BY <1>6, EmittingSteps DEF Emitters
<1>7. QED
  BY <1>1, <1>2, <1>3, <1>4, <1>5, <1>6 DEF Next

LEMMA Always == Spec => []IInv
BY Initially, Inductive, PTL DEF Spec

(* Every variable keeps its type: in particular a code is only taken from   *)
(* a list that has one, and no channel holds more than its buffer.         *)
THEOREM TypeCorrect == Spec => []TypeOK
<1>1. IInv => TypeOK
  BY DEF IInv
<1>2. QED
  BY <1>1, Always, PTL

(* For any number of codes, channels, connections and events at a time, a   *)
(* channel is sent at most one result: the flag is swapped by one only.     *)
THEOREM OneResultSent == Spec => []OneResult
<1>1. IInv => OneResult
  BY DEF IInv, OwedIsUnsent, OneResult
<1>2. QED
  BY <1>1, Always, PTL

(* A closed stopQRs leaves a channel whose flag is set, or a handler that   *)
(* is about to set it, although a second event panics on closing it again.  *)
THEOREM StoppedEnds == Spec => []StoppedIsEnding
<1>1. IInv => StoppedIsEnding
  BY DEF IInv
<1>2. QED
  BY <1>1, Always, PTL

-----------------------------------------------------------------------------
(* Room for everybody.  A channel holds at most the codes that its emitters *)
(* sent, one item for each scan, and the result.  Each connection starts    *)
(* one emitter per channel.                                                *)

Started(c) == {k \in Conns : emitter[<<c, k>>].step # "none"}
Sent(c) ==
    {p \in Conns \X (1..Codes) :
        /\ emitter[<<c, p[1]>>].step # "none"
        /\ p[2] > emitter[<<c, p[1]>>].left}

(* The events that the handler of c has not seen yet. *)
Bound(d, c) == dispatch[d].step = "waiting" \/ c \in dispatch[d].todo
QRsTo(c)    == {d \in Slots : dispatch[d].event = "qr" /\ Bound(d, c)}
ScansTo(c)  == {d \in Slots : dispatch[d].event = "scanned" /\ Bound(d, c)}

(* The codes of this connection are still to come. *)
Unsent == IF link = "up" /\ ~qrSent THEN 1 ELSE 0

StartsCounted(c) ==
    /\ IsFiniteSet(QRsTo(c))
    /\ Cardinality(Started(c)) + Cardinality(QRsTo(c)) + Unsent <= conns
ItemsCounted(c) ==
    /\ IsFiniteSet(ScansTo(c))
    /\ buffered[c] + Cardinality(ScansTo(c)) <= Cardinality(Sent(c)) + scans + results[c]
Counted == \A c \in Channels : StartsCounted(c) /\ ItemsCounted(c)

LEMMA StartedIsFinite ==
    /\ \A c : Cardinality(Started(c)) \in Nat
    /\ \A c : IsFiniteSet(Started(c)) /\ IsFiniteSet(Started(c)')
    /\ \A c : Cardinality(Sent(c)) \in Nat /\ Cardinality(Sent(c)') \in Nat
    /\ \A c : IsFiniteSet(Sent(c)) /\ IsFiniteSet(Sent(c)')
<1>1. IsFiniteSet(Conns) /\ IsFiniteSet(1..Codes)
  BY FS_Interval, BoundsAssumption, BufferAssumption DEF Conns
<1>2. IsFiniteSet(Conns \X (1..Codes))
  BY <1>1, FS_Product
<1>3. \A c : /\ Started(c) \subseteq Conns /\ Sent(c) \subseteq Conns \X (1..Codes)
            /\ Started(c)' \subseteq Conns /\ Sent(c)' \subseteq Conns \X (1..Codes)
  BY DEF Started, Sent
<1>4. \A c : /\ IsFiniteSet(Started(c)) /\ IsFiniteSet(Sent(c))
            /\ IsFiniteSet(Started(c)') /\ IsFiniteSet(Sent(c)')
  BY <1>1, <1>2, <1>3, FS_Subset
<1> QED BY <1>4, FS_CardinalityType

(* So there are no more codes than the connections had. *)
LEMMA SentIsBounded ==
    ASSUME TypeOK, NEW c \in Channels, StartsCounted(c)
    PROVE  Cardinality(Sent(c)) <= Codes * conns
<1>1. IsFiniteSet(1..Codes) /\ Cardinality(1..Codes) = Codes
  BY FS_Interval, BufferAssumption
<1>2. Sent(c) \subseteq Started(c) \X (1..Codes)
  BY DEF Sent, Started
<1>3. /\ IsFiniteSet(Started(c) \X (1..Codes))
      /\ Cardinality(Started(c) \X (1..Codes)) = Cardinality(Started(c)) * Codes
  BY <1>1, StartedIsFinite, FS_Product
<1>4. Cardinality(Sent(c)) <= Cardinality(Started(c)) * Codes
  BY <1>2, <1>3, FS_Subset
<1>5. \A n, k \in Nat : n <= k => n * Codes <= Codes * k
  BY BufferAssumption
<1>6. Cardinality(QRsTo(c)) \in Nat /\ Unsent \in Nat /\ conns \in Nat
  BY FS_CardinalityType, BoundsAssumption DEF StartsCounted, Unsent, TypeOK
<1>7. Cardinality(Started(c)) \in Nat /\ Cardinality(Started(c)) <= conns
  BY <1>6, StartedIsFinite DEF StartsCounted
<1>8. Cardinality(Started(c)) * Codes <= Codes * conns
  BY <1>5, <1>6, <1>7
<1>9. Codes * conns \in Nat /\ Cardinality(Started(c)) * Codes \in Nat
  BY <1>6, <1>7, BufferAssumption
<1> QED BY <1>4, <1>8, <1>9, StartedIsFinite

(* How the counts are kept. *)
LEMMA StartsStay ==
    ASSUME TypeOK, TypeOK', NEW c \in Channels, StartsCounted(c), QRsTo(c)' \subseteq QRsTo(c),
           Started(c)' = Started(c), Unsent' + conns <= Unsent + conns'
    PROVE  StartsCounted(c)'
<1>1. /\ IsFiniteSet(QRsTo(c)') /\ Cardinality(QRsTo(c)') <= Cardinality(QRsTo(c))
      /\ Cardinality(QRsTo(c)) \in Nat /\ Cardinality(QRsTo(c)') \in Nat
  BY FS_Subset, FS_CardinalityType DEF StartsCounted
<1>2. Unsent \in Nat /\ Unsent' \in Nat /\ conns \in Nat /\ conns' \in Nat
  BY BoundsAssumption DEF Unsent, TypeOK
<1>3. Cardinality(Started(c)) \in Nat
  BY StartedIsFinite
<1>4. Cardinality(Started(c)) + Cardinality(QRsTo(c)) + Unsent <= conns
  BY DEF StartsCounted
<1>5. \A n, old, new, u, v, k, l \in Nat :
          n + old + u <= k /\ new <= old /\ v + k <= u + l => n + new + v <= l
  OBVIOUS
<1>6. Cardinality(Started(c)) + Cardinality(QRsTo(c)') + Unsent' <= conns'
  BY <1>1, <1>2, <1>3, <1>4, <1>5
<1> QED BY <1>1, <1>6 DEF StartsCounted

LEMMA ItemsStay ==
    ASSUME TypeOK, TypeOK', NEW c \in Channels, ItemsCounted(c),
           ScansTo(c)' \subseteq ScansTo(c), Sent(c) \subseteq Sent(c)', scans' = scans,
           buffered'[c] + results[c] <= buffered[c] + results'[c]
    PROVE  ItemsCounted(c)'
<1>1. /\ IsFiniteSet(ScansTo(c)') /\ Cardinality(ScansTo(c)') <= Cardinality(ScansTo(c))
      /\ Cardinality(ScansTo(c)) \in Nat /\ Cardinality(ScansTo(c)') \in Nat
  BY FS_Subset, FS_CardinalityType DEF ItemsCounted
<1>2. Cardinality(Sent(c)) <= Cardinality(Sent(c)')
  BY StartedIsFinite, FS_Subset
<1>3. Cardinality(Sent(c)) \in Nat /\ Cardinality(Sent(c)') \in Nat
  BY StartedIsFinite
<1>4. /\ buffered[c] \in Nat /\ buffered'[c] \in Nat /\ results[c] \in Nat /\ results'[c] \in Nat
      /\ scans \in Nat
  BY BufferAssumption, BoundsAssumption DEF TypeOK
<1>5. buffered'[c] + Cardinality(ScansTo(c)') <= Cardinality(Sent(c)') + scans' + results'[c]
  BY <1>1, <1>2, <1>3, <1>4 DEF ItemsCounted
<1> QED BY <1>1, <1>5 DEF ItemsCounted

(* What an event has to do in slot d becomes less. *)
Shrinks(d) ==
    \/ dispatch'[d] = dispatch[d]
    \/ dispatch'[d].event = "final"
    \/ /\ dispatch'[d].event = dispatch[d].event /\ dispatch'[d].step # "waiting"
       /\ dispatch[d].step = "waiting" \/ dispatch'[d].todo \subseteq dispatch[d].todo

LEMMA LessToDo ==
    ASSUME \A d \in Slots : Shrinks(d)
    PROVE  \A c : QRsTo(c)' \subseteq QRsTo(c) /\ ScansTo(c)' \subseteq ScansTo(c)
BY DEF Shrinks, QRsTo, ScansTo, Bound

(* No emitter starts, and none takes a code back. *)
LEMMA SameEmitters ==
    ASSUME TypeOK, TypeOK',
           \A e \in Emitters : /\ emitter'[e].step = "none" <=> emitter[e].step = "none"
                               /\ emitter'[e].left <= emitter[e].left
    PROVE  \A c \in Channels : Started(c)' = Started(c) /\ Sent(c) \subseteq Sent(c)'
<1> SUFFICES ASSUME NEW c \in Channels
             PROVE  Started(c)' = Started(c) /\ Sent(c) \subseteq Sent(c)'
  OBVIOUS
<1>1. \A k \in Conns : <<c, k>> \in Emitters
  BY DEF Emitters
<1>2. \A k \in Conns : emitter[<<c, k>>].left \in Int /\ emitter'[<<c, k>>].left \in Int
  BY BufferAssumption DEF TypeOK
<1>3. Started(c)' = Started(c)
  BY <1>1 DEF Started
<1>4. ASSUME NEW p \in Sent(c) PROVE p \in Sent(c)'
  <2>1. p \in Conns \X (1..Codes) /\ p[1] \in Conns /\ p[2] \in Int
    BY DEF Sent
  <2>2. emitter[<<c, p[1]>>].step # "none" /\ p[2] > emitter[<<c, p[1]>>].left
    BY DEF Sent
  <2>3. emitter'[<<c, p[1]>>].step # "none" /\ p[2] > emitter'[<<c, p[1]>>].left
    BY <1>1, <1>2, <2>1, <2>2
  <2> QED BY <2>1, <2>3 DEF Sent
<1> QED BY <1>3, <1>4

LEMMA CountedStays ==
    ASSUME TypeOK, TypeOK', Counted, scans' = scans,
           \A d \in Slots : Shrinks(d), Unsent' + conns <= Unsent + conns',
           \A e \in Emitters : /\ emitter'[e].step = "none" <=> emitter[e].step = "none"
                               /\ emitter'[e].left <= emitter[e].left,
           \A c \in Channels : buffered'[c] + results[c] <= buffered[c] + results'[c]
    PROVE  Counted'
<1> SUFFICES ASSUME NEW c \in Channels PROVE StartsCounted(c)' /\ ItemsCounted(c)'
  BY DEF Counted
<1>1. QRsTo(c)' \subseteq QRsTo(c) /\ ScansTo(c)' \subseteq ScansTo(c)
  BY LessToDo
<1>2. Started(c)' = Started(c) /\ Sent(c) \subseteq Sent(c)'
  BY SameEmitters
<1>3. StartsCounted(c) /\ ItemsCounted(c)
  BY DEF Counted
<1> QED BY <1>1, <1>2, <1>3, StartsStay, ItemsStay

(* One member more, at most. *)
LEMMA OneMore ==
    ASSUME NEW S, IsFiniteSet(S), NEW x
    PROVE  /\ IsFiniteSet(S \cup {x}) /\ Cardinality(S \cup {x}) <= Cardinality(S) + 1
           /\ Cardinality(S \cup {x}) \in Nat
<1>1. IsFiniteSet(S \cup {x}) /\ Cardinality(S) \in Nat
  BY FS_AddElement, FS_CardinalityType
<1>2. Cardinality(S \cup {x}) = Cardinality(S) \/ Cardinality(S \cup {x}) = Cardinality(S) + 1
  BY FS_AddElement
<1> QED BY <1>1, <1>2

(* A new event is in one slot. *)
LEMMA DispatchAdds ==
    ASSUME TypeOK, NEW event \in Events, Dispatch(event)
    PROVE  \E d \in Slots : /\ dispatch'[d].event = event
                            /\ \A x \in Slots : x # d => dispatch'[x] = dispatch[x]
<1> DEFINE free == {x \in Slots : dispatch[x] = Idle}
<1>1. PICK d : d = Min(free)
  OBVIOUS
<1>2. free # {} /\ dispatch' = [dispatch EXCEPT ![d] =
                                  [step |-> "waiting", event |-> event, todo |-> {}]]
  BY <1>1 DEF Dispatch
<1>3. d \in free
  BY <1>1, <1>2, MinIsMember, BoundsAssumption
<1>4. d \in Slots
  BY <1>3
<1> QED BY <1>2, <1>4 DEF TypeOK

(* The client's and the server's steps: an event at most begins to wait. *)
LEMMA OnlyEvents ==
    ASSUME TypeOK, TypeOK', Counted, UNCHANGED <<emitter, buffered, results>>, conns' = conns,
           NEW event \in Events, dispatch' = dispatch \/ Dispatch(event),
           (dispatch' # dispatch /\ event = "qr") => Unsent = 1 /\ Unsent' = 0,
           (dispatch' # dispatch /\ event = "scanned") => scans' = scans + 1,
           scans' \in {scans, scans + 1}, Unsent' <= Unsent
    PROVE  Counted'
<1> SUFFICES ASSUME NEW c \in Channels PROVE StartsCounted(c)' /\ ItemsCounted(c)'
  BY DEF Counted
<1>1. StartsCounted(c) /\ ItemsCounted(c)
  BY DEF Counted
<1>2. Started(c)' = Started(c) /\ Sent(c)' = Sent(c)
  BY DEF Started, Sent
<1>3. /\ Unsent \in Nat /\ Unsent' \in Nat /\ conns \in Nat /\ scans \in Nat
      /\ buffered[c] \in Nat /\ results[c] \in Nat
  BY BufferAssumption, BoundsAssumption DEF Unsent, TypeOK
<1>4. Cardinality(QRsTo(c)) \in Nat /\ Cardinality(ScansTo(c)) \in Nat
  BY <1>1, FS_CardinalityType DEF StartsCounted, ItemsCounted
<1>5. PICK n, s : n = Cardinality(Started(c)) /\ s = Cardinality(Sent(c)) /\ n \in Nat /\ s \in Nat
  BY StartedIsFinite
<1>6. CASE dispatch' = dispatch
  <2>1. QRsTo(c)' = QRsTo(c) /\ ScansTo(c)' = ScansTo(c)
    BY <1>6 DEF QRsTo, ScansTo, Bound
  <2>2. n + Cardinality(QRsTo(c)) + Unsent' <= conns
    BY <1>1, <1>3, <1>4, <1>5 DEF StartsCounted
  <2>3. buffered[c] + Cardinality(ScansTo(c)) <= s + scans' + results[c]
    BY <1>1, <1>3, <1>4, <1>5 DEF ItemsCounted
  <2> QED BY <1>1, <1>2, <1>5, <2>1, <2>2, <2>3 DEF StartsCounted, ItemsCounted
<1>7. CASE dispatch' # dispatch
  <2>1. PICK d \in Slots : /\ dispatch'[d].event = event
                           /\ \A x \in Slots : x # d => dispatch'[x] = dispatch[x]
    BY <1>7, DispatchAdds
  <2>2. /\ QRsTo(c)' \subseteq QRsTo(c) \cup {d}
        /\ event # "qr" => QRsTo(c)' \subseteq QRsTo(c)
        /\ ScansTo(c)' \subseteq ScansTo(c) \cup {d}
        /\ event # "scanned" => ScansTo(c)' \subseteq ScansTo(c)
    BY <2>1 DEF QRsTo, ScansTo, Bound
  <2>3. /\ IsFiniteSet(QRsTo(c) \cup {d}) /\ IsFiniteSet(ScansTo(c) \cup {d})
        /\ Cardinality(QRsTo(c) \cup {d}) <= Cardinality(QRsTo(c)) + 1
        /\ Cardinality(QRsTo(c) \cup {d}) \in Nat
        /\ Cardinality(ScansTo(c) \cup {d}) <= Cardinality(ScansTo(c)) + 1
        /\ Cardinality(ScansTo(c) \cup {d}) \in Nat
    BY <1>1, OneMore DEF StartsCounted, ItemsCounted
  <2>4. /\ IsFiniteSet(QRsTo(c)') /\ IsFiniteSet(ScansTo(c)')
        /\ Cardinality(QRsTo(c)') \in Nat /\ Cardinality(ScansTo(c)') \in Nat
        /\ Cardinality(QRsTo(c)') <= Cardinality(QRsTo(c) \cup {d})
        /\ event # "qr" => Cardinality(QRsTo(c)') <= Cardinality(QRsTo(c))
        /\ Cardinality(ScansTo(c)') <= Cardinality(ScansTo(c) \cup {d})
        /\ event # "scanned" => Cardinality(ScansTo(c)') <= Cardinality(ScansTo(c))
    BY <1>1, <2>2, <2>3, FS_Subset, FS_CardinalityType DEF StartsCounted, ItemsCounted
  <2>5. PICK q, r : q = Cardinality(QRsTo(c)') /\ r = Cardinality(ScansTo(c)')
    OBVIOUS
  <2>6. /\ q \in Nat /\ q <= Cardinality(QRsTo(c)) + 1
        /\ event # "qr" => q <= Cardinality(QRsTo(c))
        /\ r \in Nat /\ r <= Cardinality(ScansTo(c)) + 1
        /\ event # "scanned" => r <= Cardinality(ScansTo(c))
    BY <1>4, <2>3, <2>4, <2>5
  <2>7. n + q + Unsent' <= conns
    BY <1>1, <1>3, <1>4, <1>5, <1>7, <2>6 DEF StartsCounted
  <2>8. buffered[c] + r <= s + scans' + results[c]
    BY <1>1, <1>3, <1>4, <1>5, <1>7, <2>6 DEF ItemsCounted
  <2> QED BY <1>2, <1>5, <2>4, <2>5, <2>7, <2>8 DEF StartsCounted, ItemsCounted
<1> QED BY <1>6, <1>7

(* The steps of the add-on's loop, of the client and the server. *)
LEMMA AppCounts ==
    ASSUME TypeOK, TypeOK', Counted, AppStep
    PROVE  Counted'
<1>1. /\ UNCHANGED <<emitter, dispatch, results, scans, qrSent>>
      /\ \A c \in Channels : buffered'[c] <= buffered[c]
  BY BufferAssumption
     DEF AppStep, Stop, GetQRChannel, Connect, Read, RangeEnds, linkVars, channelVars, TypeOK
<1>2. conns \in Nat /\ (\A c \in Channels : buffered[c] \in Nat /\ buffered'[c] \in Nat /\ results[c] \in Nat)
  BY BoundsAssumption, BufferAssumption DEF TypeOK
<1>3. Unsent' + conns <= Unsent + conns'
  <2>1. CASE Stop \/ GetQRChannel \/ Read \/ RangeEnds
    BY <1>2, <2>1 DEF Stop, GetQRChannel, Read, RangeEnds, linkVars, Unsent
  <2>2. CASE Connect
    BY <1>2, <2>2 DEF Connect, Unsent
  <2> QED BY <2>1, <2>2 DEF AppStep
<1>4. \A c \in Channels : buffered'[c] + results[c] <= buffered[c] + results'[c]
  BY <1>1, <1>2
<1>5. \A d \in Slots : Shrinks(d)
  BY <1>1 DEF Shrinks
<1>6. \A e \in Emitters : /\ emitter'[e].step = "none" <=> emitter[e].step = "none"
                          /\ emitter'[e].left <= emitter[e].left
  BY <1>1, BufferAssumption DEF TypeOK, Emitters
<1> QED BY <1>1, <1>3, <1>4, <1>5, <1>6, CountedStays

LEMMA EnvironmentCounts ==
    ASSUME TypeOK, TypeOK', Counted, Environment
    PROVE  Counted'
<1>1. UNCHANGED <<emitter, buffered, results>> /\ conns' = conns /\ scans \in Nat
  BY BoundsAssumption
     DEF Environment, Cancel, ServerSendsCodes, ScannedWithoutMultidevice, ConnectionEnds,
         ServerRefuses, PairSuccessNode, PairSucceeds, PairFails, channelVars, TypeOK
<1>2. {"qr", "scanned", "final"} \subseteq Events
  BY DEF Events
<1>3. CASE ServerSendsCodes
  <2>1. Unsent = 1 /\ Unsent' = 0 /\ scans' = scans /\ Dispatch("qr")
    BY <1>3 DEF ServerSendsCodes, Unsent
  <2> QED BY <1>1, <1>2, <2>1, OnlyEvents
<1>4. CASE ScannedWithoutMultidevice
  <2>1. Unsent' = Unsent /\ scans' = scans + 1 /\ Dispatch("scanned")
    BY <1>4 DEF ScannedWithoutMultidevice, Unsent
  <2>2. Unsent' <= Unsent
    BY <2>1 DEF Unsent
  <2> QED BY <1>1, <1>2, <2>1, <2>2, OnlyEvents
<1>5. CASE Cancel \/ ConnectionEnds \/ ServerRefuses \/ PairSuccessNode \/ PairSucceeds \/ PairFails
  <2>1. scans' = scans /\ (dispatch' = dispatch \/ Dispatch("final"))
    BY <1>5 DEF Cancel, ConnectionEnds, ServerRefuses, PairSuccessNode, PairSucceeds, PairFails
  <2>2. Unsent' <= Unsent
    BY <1>5 DEF Cancel, ConnectionEnds, ServerRefuses, PairSuccessNode, PairSucceeds, PairFails,
                Disconnect, Unsent
  <2> QED BY <1>1, <1>2, <2>1, <2>2, OnlyEvents
<1> QED BY <1>3, <1>4, <1>5 DEF Environment

(* One member less, at least. *)
LEMMA OneLess ==
    ASSUME NEW S, IsFiniteSet(S), NEW x \in S, NEW T, T \subseteq S \ {x}
    PROVE  /\ IsFiniteSet(T) /\ Cardinality(T) \in Nat /\ Cardinality(S) \in Nat
           /\ Cardinality(T) + 1 <= Cardinality(S)
<1>1. /\ IsFiniteSet(S \ {x}) /\ Cardinality(S \ {x}) = Cardinality(S) - 1
      /\ Cardinality(S) \in Nat
  BY FS_RemoveElement, FS_CardinalityType
<1>2. IsFiniteSet(T) /\ Cardinality(T) <= Cardinality(S \ {x})
  BY <1>1, FS_Subset
<1>3. Cardinality(T) \in Nat
  BY <1>2, FS_CardinalityType
<1> QED BY <1>1, <1>2, <1>3

(* The next handler is never the one that returned. *)
LEMMA NextShrinks ==
    ASSUME TypeOK, NEW d \in Slots, NextHandler(d)
    PROVE  /\ \A x \in Slots : Shrinks(x) /\ (x # d => dispatch'[x] = dispatch[x])
           /\ dispatch'[d].step # "waiting"
           /\ \/ dispatch'[d].event = "final"
              \/ /\ dispatch'[d].event = dispatch[d].event
                 /\ dispatch'[d].todo \subseteq dispatch[d].todo \ {Min(dispatch[d].todo)}
<1> DEFINE rest == dispatch[d].todo \ {Min(dispatch[d].todo)}
           next == [step |-> "check", event |-> dispatch[d].event, todo |-> rest]
<1>1. rest \subseteq dispatch[d].todo
  OBVIOUS
<1>2. CASE rest = {}
  <2>1. dispatch' = [dispatch EXCEPT ![d] = Idle]
    BY <1>2 DEF NextHandler
  <2> QED BY <2>1 DEF Shrinks, TypeOK, Idle
<1>3. CASE rest # {}
  <2>1. dispatch' = [dispatch EXCEPT ![d] = next]
    BY <1>3 DEF NextHandler
  <2>2. next.step = "check" /\ next.event = dispatch[d].event /\ next.todo = rest
    OBVIOUS
  <2> HIDE DEF next
  <2>3. dispatch'[d] = next /\ \A x \in Slots : x # d => dispatch'[x] = dispatch[x]
    BY <2>1 DEF TypeOK
  <2>4. Shrinks(d)
    BY <1>1, <2>2, <2>3 DEF Shrinks
  <2>5. \A x \in Slots : x # d => Shrinks(x)
    BY <2>3 DEF Shrinks
  <2> QED BY <2>2, <2>3, <2>4, <2>5
<1> QED BY <1>2, <1>3

(* A handler that leaves the emitters alone and, at most, sends the result. *)
LEMMA HandlerCounts ==
    ASSUME TypeOK, TypeOK', Counted, UNCHANGED <<emitter, scans, conns, link, qrSent>>,
           \A x \in Slots : Shrinks(x),
           \A x \in Channels : buffered'[x] + results[x] <= buffered[x] + results'[x]
    PROVE  Counted'
<1>1. \A e \in Emitters : /\ emitter'[e].step = "none" <=> emitter[e].step = "none"
                          /\ emitter'[e].left <= emitter[e].left
  BY BufferAssumption DEF TypeOK, Emitters
<1>2. Unsent' + conns <= Unsent + conns'
  BY BoundsAssumption DEF Unsent, TypeOK
<1> QED BY <1>1, <1>2, CountedStays

(* The codes for channel c start an emitter: one event less, one emitter    *)
(* more.                                                                   *)
LEMMA StartCounts ==
    ASSUME IInv, TypeOK', Counted, NEW d \in Running, NEW c \in Channels,
           c = Min(dispatch[d].todo), dispatch[d].event = "qr", c \in dispatch[d].todo,
           StartEmitter(c), NextHandler(d),
           UNCHANGED <<linkVars, channelVars>>
    PROVE  Counted'
<1> DEFINE free == {k \in Conns : emitter[<<c, k>>].step = "none"}
<1>0. d \in Slots
  BY DEF Running
<1>1. PICK k : k = Min(free)
  OBVIOUS
<1>2. PICK new : new = [step |-> "loop", left |-> Codes]
  OBVIOUS
<1>3. free # {} /\ emitter' = [emitter EXCEPT ![<<c, k>>] = new]
  BY <1>1, <1>2 DEF StartEmitter
<1>4. k \in Conns /\ emitter[<<c, k>>].step = "none"
  BY <1>1, <1>3, MinIsMember, ChannelsAreNaturals
<1>5. /\ emitter'[<<c, k>>].step # "none"
      /\ \A e \in Emitters : e # <<c, k>> => emitter'[e] = emitter[e]
  BY <1>2, <1>3, <1>4 DEF IInv, TypeOK, Emitters
<1>6. Started(c)' \subseteq Started(c) \cup {k}
  BY <1>5 DEF Started, Emitters
<1>7. \A x \in Channels : x # c => Started(x)' = Started(x)
  BY <1>5 DEF Started, Emitters
<1>8. \A x \in Channels : Sent(x) \subseteq Sent(x)'
  <2> SUFFICES ASSUME NEW x \in Channels, NEW p \in Sent(x) PROVE p \in Sent(x)'
    OBVIOUS
  <2>1. p \in Conns \X (1..Codes) /\ p[1] \in Conns /\ emitter[<<x, p[1]>>].step # "none"
        /\ p[2] > emitter[<<x, p[1]>>].left
    BY DEF Sent
  <2>2. <<x, p[1]>> \in Emitters /\ <<x, p[1]>> # <<c, k>>
    BY <1>4, <2>1 DEF Emitters
  <2>3. emitter'[<<x, p[1]>>] = emitter[<<x, p[1]>>]
    BY <1>5, <2>2
  <2> QED BY <2>1, <2>3 DEF Sent
<1>9. \A x \in Slots : Shrinks(x)
  BY <1>0, NextShrinks DEF IInv
<1>10. \A x : QRsTo(x)' \subseteq QRsTo(x) /\ ScansTo(x)' \subseteq ScansTo(x)
  BY <1>9, LessToDo
<1>11. d \in QRsTo(c) /\ QRsTo(c)' \subseteq QRsTo(c) \ {d}
  <2>1. d \in QRsTo(c)
    BY <1>0 DEF QRsTo, Bound
  <2>2. d \notin QRsTo(c)'
    BY <1>0, NextShrinks DEF IInv, QRsTo, Bound
  <2> QED BY <1>10, <2>1, <2>2
<1>12. \A x \in Channels : ItemsCounted(x)'
  <2>1. \A x \in Channels : buffered'[x] + results[x] <= buffered[x] + results'[x]
    BY BufferAssumption DEF channelVars, IInv, TypeOK
  <2> QED BY <1>8, <1>10, <2>1, ItemsStay DEF Counted, IInv, linkVars
<1>13. Unsent' = Unsent /\ conns' = conns /\ Unsent \in Nat /\ conns \in Nat
  BY BoundsAssumption DEF linkVars, Unsent, IInv, TypeOK
<1>14. \A x \in Channels : x # c => StartsCounted(x)'
  <2>1. Unsent' + conns <= Unsent + conns'
    BY <1>13
  <2> QED BY <1>7, <1>10, <2>1, StartsStay DEF Counted, IInv
<1>15. StartsCounted(c)'
  <2>1. StartsCounted(c) /\ IsFiniteSet(QRsTo(c))
    BY DEF Counted, StartsCounted
  <2>2. PICK q : q = Cardinality(QRsTo(c)')
    OBVIOUS
  <2>3. /\ IsFiniteSet(QRsTo(c)') /\ q \in Nat /\ Cardinality(QRsTo(c)) \in Nat
        /\ q + 1 <= Cardinality(QRsTo(c))
    BY <1>11, <2>1, <2>2, OneLess
  <2>4. PICK n : n = Cardinality(Started(c)')
    OBVIOUS
  <2>5. n \in Nat /\ Cardinality(Started(c)) \in Nat /\ n <= Cardinality(Started(c)) + 1
    <3>1. /\ IsFiniteSet(Started(c) \cup {k})
          /\ Cardinality(Started(c) \cup {k}) <= Cardinality(Started(c)) + 1
          /\ Cardinality(Started(c) \cup {k}) \in Nat
      BY StartedIsFinite, OneMore
    <3>2. Cardinality(Started(c)') <= Cardinality(Started(c) \cup {k})
      BY <1>6, <3>1, FS_Subset
    <3>3. Cardinality(Started(c)') \in Nat /\ Cardinality(Started(c)) \in Nat
      BY StartedIsFinite, FS_CardinalityType
    <3> QED BY <2>4, <3>1, <3>2, <3>3
  <2>6. Cardinality(Started(c)) + Cardinality(QRsTo(c)) + Unsent <= conns
    BY <2>1 DEF StartsCounted
  <2>7. n + q + Unsent' <= conns'
    BY <1>13, <2>3, <2>5, <2>6
  <2> QED BY <2>2, <2>3, <2>4, <2>7 DEF StartsCounted
<1> QED BY <1>12, <1>14, <1>15 DEF Counted

(* A scan reaches channel c: one event less, one item more. *)
LEMMA ScanCounts ==
    ASSUME IInv, TypeOK', Counted, NEW d \in Running, NEW c \in Channels,
           c = Min(dispatch[d].todo), dispatch[d].event = "scanned", c \in dispatch[d].todo,
           Send(c, "scanned"), NextHandler(d), UNCHANGED <<linkVars, emitter>>
    PROVE  Counted'
<1>0. d \in Slots
  BY DEF Running
<1>1. results' = results /\ buffered'[c] = buffered[c] + 1
      /\ \A x \in Channels : x # c => buffered'[x] = buffered[x]
  BY DEF Send, IInv, TypeOK
<1>2. \A x \in Channels : Started(x)' = Started(x) /\ Sent(x)' = Sent(x)
  BY DEF Started, Sent
<1>3. \A x : QRsTo(x)' \subseteq QRsTo(x) /\ ScansTo(x)' \subseteq ScansTo(x)
  BY <1>0, NextShrinks, LessToDo DEF IInv
<1>4. d \in ScansTo(c) /\ ScansTo(c)' \subseteq ScansTo(c) \ {d}
  <2>1. d \in ScansTo(c)
    BY <1>0 DEF ScansTo, Bound
  <2>2. d \notin ScansTo(c)'
    BY <1>0, NextShrinks DEF IInv, ScansTo, Bound
  <2> QED BY <1>3, <2>1, <2>2
<1>5. \A x \in Channels : StartsCounted(x)'
  <2>1. Unsent' + conns <= Unsent + conns'
    BY BoundsAssumption DEF linkVars, Unsent, IInv, TypeOK
  <2> QED BY <1>2, <1>3, <2>1, StartsStay DEF Counted, IInv
<1>6. \A x \in Channels : x # c => ItemsCounted(x)'
  <2>1. \A x \in Channels : x # c => buffered'[x] + results[x] <= buffered[x] + results'[x]
    BY <1>1, BufferAssumption DEF IInv, TypeOK
  <2> QED BY <1>2, <1>3, <2>1, ItemsStay DEF Counted, IInv, linkVars
<1>7. ItemsCounted(c)'
  <2>1. ItemsCounted(c) /\ IsFiniteSet(ScansTo(c))
    BY DEF Counted, ItemsCounted
  <2>2. PICK r, s : r = Cardinality(ScansTo(c)') /\ s = Cardinality(Sent(c))
    OBVIOUS
  <2>3. /\ IsFiniteSet(ScansTo(c)') /\ r \in Nat /\ Cardinality(ScansTo(c)) \in Nat
        /\ r + 1 <= Cardinality(ScansTo(c))
    BY <1>4, <2>1, <2>2, OneLess
  <2>4. s \in Nat /\ scans \in Nat /\ results[c] \in Nat /\ buffered[c] \in Nat /\ scans' = scans
    BY <2>2, StartedIsFinite, BoundsAssumption, BufferAssumption DEF IInv, TypeOK, linkVars
  <2>5. buffered[c] + Cardinality(ScansTo(c)) <= s + scans + results[c]
    BY <2>1, <2>2 DEF ItemsCounted
  <2>6. buffered'[c] + r <= s + scans' + results'[c]
    BY <1>1, <2>3, <2>4, <2>5
  <2> QED BY <1>2, <2>2, <2>3, <2>6 DEF ItemsCounted
<1> QED BY <1>5, <1>6, <1>7 DEF Counted

LEMMA DispatchCounts ==
    ASSUME IInv, TypeOK', Counted, NEW d \in Slots, DispatchStep(d)
    PROVE  Counted'
<1>1. TypeOK
  BY DEF IInv
<1>2. CASE Begin(d)
  <2>1. UNCHANGED <<emitter, buffered, results, scans, conns, link, qrSent>>
    BY <1>2 DEF Begin, linkVars, channelVars
  <2>2. dispatch[d].step = "waiting"
    BY <1>2 DEF Begin
  <2>3. \A x \in Slots : Shrinks(x)
    <3>1. CASE listening = {}
      <4>1. dispatch' = [dispatch EXCEPT ![d] = Idle]
        BY <1>2, <3>1 DEF Begin
      <4> QED BY <1>1, <4>1 DEF Shrinks, TypeOK, Idle
    <3>2. CASE listening # {}
      <4> DEFINE new == [step |-> "check", event |-> dispatch[d].event, todo |-> listening]
      <4>1. dispatch' = [dispatch EXCEPT ![d] = new]
        BY <1>2, <3>2 DEF Begin
      <4>2. new.step = "check" /\ new.event = dispatch[d].event
        OBVIOUS
      <4> HIDE DEF new
      <4>3. dispatch'[d] = new /\ \A x \in Slots : x # d => dispatch'[x] = dispatch[x]
        BY <1>1, <4>1 DEF TypeOK
      <4>4. Shrinks(d)
        BY <2>2, <4>2, <4>3 DEF Shrinks
      <4>5. \A x \in Slots : x # d => Shrinks(x)
        BY <4>3 DEF Shrinks
      <4> QED BY <4>4, <4>5
    <3> QED BY <3>1, <3>2
  <2>4. \A x \in Channels : buffered'[x] + results[x] <= buffered[x] + results'[x]
    BY <1>1, <2>1, BufferAssumption DEF TypeOK
  <2> QED BY <1>1, <2>1, <2>3, <2>4, HandlerCounts
<1>3. CASE d \in Running /\ HandleStep(d, Min(dispatch[d].todo))
  <2>1. PICK c : c = Min(dispatch[d].todo)
    OBVIOUS
  <2>2. c \in Channels /\ c \in dispatch[d].todo
    <3>1. dispatch[d].todo # {} /\ dispatch[d].todo \subseteq Channels
      BY <1>3 DEF Running, IInv, PlacesOK, HandlerOK, TypeOK
    <3>2. Min(dispatch[d].todo) \in dispatch[d].todo
      BY <3>1, MinIsMember, ChannelsAreNaturals
    <3> QED BY <2>1, <3>1, <3>2
  <2>3. HandleStep(d, c) /\ UNCHANGED linkVars
    BY <1>3, <2>1
    DEF HandleStep, Check, SendScanned, StopQRs, Swap, SendFinal, Close
  <2>4. ASSUME UNCHANGED emitter,
               NextHandler(d) \/ Panics(d) \/ (\E step \in DispatchSteps \ {"waiting"} : Goes(d, step)),
               \A x \in Channels : buffered'[x] + results[x] <= buffered[x] + results'[x]
        PROVE  Counted'
    <3>1. \A x \in Slots : Shrinks(x)
      <4>1. CASE NextHandler(d)
        BY <1>1, <4>1, NextShrinks
      <4>2. CASE Panics(d)
        BY <1>1, <4>2 DEF Panics, Shrinks, TypeOK, Idle
      <4>3. ASSUME NEW step \in DispatchSteps \ {"waiting"}, Goes(d, step)
            PROVE  \A x \in Slots : Shrinks(x)
        <5>1. /\ dispatch'[d].step # "waiting" /\ dispatch'[d].event = dispatch[d].event
              /\ dispatch'[d].todo = dispatch[d].todo
              /\ \A x \in Slots : x # d => dispatch'[x] = dispatch[x]
          BY <1>1, <4>3, GoesOK
        <5>2. \A x \in Slots : x # d => Shrinks(x)
          BY <5>1 DEF Shrinks
        <5>3. Shrinks(d)
          BY <5>1 DEF Shrinks
        <5> QED BY <5>2, <5>3
      <4> QED BY <2>4, <4>1, <4>2, <4>3
    <3> QED BY <1>1, <2>3, <2>4, <3>1, HandlerCounts DEF linkVars
  <2>5. ASSUME UNCHANGED <<buffered, results>>
        PROVE  \A x \in Channels : buffered'[x] + results[x] <= buffered[x] + results'[x]
    BY <1>1, <2>5, BufferAssumption DEF TypeOK
  <2>6. {"send", "stop", "swap", "close"} \subseteq DispatchSteps \ {"waiting"}
    BY DEF DispatchSteps
  <2>7. CASE Check(d, c)
    <3>1. UNCHANGED <<buffered, results>> /\ UNCHANGED channelVars
      BY <2>7 DEF Check, channelVars
    <3>2. CASE dispatch[d].event = "qr" /\ StartEmitter(c) /\ NextHandler(d)
      BY <1>3, <2>1, <2>2, <2>3, <3>1, <3>2, StartCounts
    <3>3. CASE UNCHANGED emitter /\ (NextHandler(d) \/ Goes(d, "send") \/ Goes(d, "stop"))
      BY <2>4, <2>5, <2>6, <3>1, <3>3
    <3> QED BY <2>7, <3>2, <3>3 DEF Check
  <2>8. CASE SendScanned(d, c)
    <3>1. CASE Send(c, "scanned") /\ NextHandler(d)
      BY <1>3, <2>1, <2>2, <2>3, <2>8, <3>1, ScanCounts DEF SendScanned
    <3>2. CASE Panics(d) /\ UNCHANGED <<buffered, results>>
      BY <2>4, <2>5, <2>8, <3>2 DEF SendScanned
    <3> QED BY <2>8, <3>1, <3>2 DEF SendScanned
  <2>9. CASE StopQRs(d, c) \/ Swap(d, c) \/ Close(d, c)
    <3>1. /\ UNCHANGED <<emitter, buffered, results>>
          /\ NextHandler(d) \/ Panics(d) \/ (\E step \in DispatchSteps \ {"waiting"} : Goes(d, step))
      BY <2>6, <2>9 DEF StopQRs, Swap, Close
    <3> QED BY <2>4, <2>5, <3>1
  <2>10. CASE SendFinal(d, c)
    <3>1. UNCHANGED emitter /\ Goes(d, "close") /\ Send(c, "final")
      BY <2>10 DEF SendFinal
    <3>2. \A x \in Channels : buffered'[x] + results[x] <= buffered[x] + results'[x]
      BY <1>1, <3>1, BufferAssumption DEF Send, TypeOK
    <3> QED BY <2>4, <2>6, <3>1, <3>2
  <2> QED BY <2>3, <2>7, <2>8, <2>9, <2>10 DEF HandleStep
<1> QED BY <1>2, <1>3 DEF DispatchStep

(* An emitter sends a code: one item more, one code sent more. *)
LEMMA CodeCounts ==
    ASSUME IInv, TypeOK', Counted, NEW e \in Emitters, At(e, "send"), Send(e[1], "code"),
           emitter' = [emitter EXCEPT ![e] = [step |-> "wait", left |-> @.left - 1]],
           UNCHANGED <<linkVars, dispatch>>
    PROVE  Counted'
<1>1. PICK c \in Channels, k \in Conns : e = <<c, k>>
  BY DEF Emitters
<1>2. PICK left : left = emitter[e].left
  OBVIOUS
<1>3. left \in 1..Codes /\ emitter[e].step = "send"
  BY <1>2, BufferAssumption DEF IInv, PlacesOK, EmitterOK, TypeOK, At, Emitters
<1>4. PICK new : new = [step |-> "wait", left |-> left - 1]
  OBVIOUS
<1>5. /\ emitter'[e].step = "wait" /\ emitter'[e].left = left - 1
      /\ \A x \in Emitters : x # e => emitter'[x] = emitter[x]
  <2>1. emitter' = [emitter EXCEPT ![e] = new]
    BY <1>2, <1>4
  <2> QED BY <1>4, <2>1 DEF IInv, TypeOK, Emitters
<1>6. \A x \in Emitters : /\ emitter'[x].step = "none" <=> emitter[x].step = "none"
                          /\ emitter'[x].left <= emitter[x].left
  <2>1. \A x \in Emitters : emitter[x].left \in Int
    BY BufferAssumption DEF IInv, TypeOK, Emitters
  <2> QED BY <1>2, <1>3, <1>5, <2>1
<1>7. \A x \in Channels : Started(x)' = Started(x) /\ Sent(x) \subseteq Sent(x)'
  BY <1>6, SameEmitters DEF IInv
<1>8. \A x : QRsTo(x)' = QRsTo(x) /\ ScansTo(x)' = ScansTo(x)
  BY DEF QRsTo, ScansTo, Bound
<1>9. results' = results /\ buffered'[c] = buffered[c] + 1
      /\ \A x \in Channels : x # c => buffered'[x] = buffered[x]
  BY <1>1 DEF Send, IInv, TypeOK
<1>10. \A x \in Channels : StartsCounted(x)'
  <2>1. Unsent' + conns <= Unsent + conns'
    BY BoundsAssumption DEF linkVars, Unsent, IInv, TypeOK
  <2> QED BY <1>7, <1>8, <2>1, StartsStay DEF Counted, IInv
<1>11. \A x \in Channels : x # c => ItemsCounted(x)'
  <2>1. \A x \in Channels : x # c => buffered'[x] + results[x] <= buffered[x] + results'[x]
    BY <1>9, BufferAssumption DEF IInv, TypeOK
  <2> QED BY <1>7, <1>8, <2>1, ItemsStay DEF Counted, IInv, linkVars
<1>12. ItemsCounted(c)'
  <2>1. ItemsCounted(c)
    BY DEF Counted
  <2>2. <<k, left>> \in Sent(c)' /\ <<k, left>> \notin Sent(c)
    BY <1>1, <1>2, <1>3, <1>5 DEF Sent
  <2>3. PICK old, now : old = Sent(c) /\ now = Sent(c)'
    OBVIOUS
  <2>4. /\ IsFiniteSet(now) /\ <<k, left>> \in now /\ old \subseteq now \ {<<k, left>>}
    BY <1>7, <2>2, <2>3, StartedIsFinite
  <2>5. Cardinality(old) \in Nat /\ Cardinality(now) \in Nat /\ Cardinality(old) + 1 <= Cardinality(now)
    BY <2>4, OneLess
  <2>6. PICK r : r = Cardinality(ScansTo(c))
    OBVIOUS
  <2>7. r \in Nat /\ IsFiniteSet(ScansTo(c))
    BY <2>1, <2>6, FS_CardinalityType DEF ItemsCounted
  <2>8. scans \in Nat /\ results[c] \in Nat /\ buffered[c] \in Nat /\ scans' = scans
    BY BoundsAssumption, BufferAssumption DEF IInv, TypeOK, linkVars
  <2>9. buffered[c] + r <= Cardinality(old) + scans + results[c]
    BY <2>1, <2>3, <2>6 DEF ItemsCounted
  <2>10. buffered'[c] + r <= Cardinality(now) + scans' + results'[c]
    BY <1>9, <2>5, <2>7, <2>8, <2>9
  <2> QED BY <1>8, <2>3, <2>6, <2>7, <2>10 DEF ItemsCounted
<1> QED BY <1>10, <1>11, <1>12 DEF Counted

LEMMA EmitterCounts ==
    ASSUME IInv, TypeOK', Counted, NEW e \in Emitters, EmitterStep(e)
    PROVE  Counted'
<1>1. TypeOK /\ emitter[e].step \in EmitterSteps /\ emitter[e].left \in 0..Codes
  BY DEF IInv, TypeOK, Emitters
<1>2. ASSUME Ends(e) \/ (\E step \in EmitterSteps \ {"none"} : Goto(e, step)),
             ~At(e, "none"), UNCHANGED <<dispatch, scans, conns>>,
             UNCHANGED <<link, qrSent>> \/ Disconnect,
             \A x \in Channels : buffered'[x] + results[x] <= buffered[x] + results'[x]
      PROVE  Counted'
  <2>1. \A x \in Slots : Shrinks(x)
    BY <1>2 DEF Shrinks
  <2>2. Unsent' + conns <= Unsent + conns'
    BY <1>1, <1>2, BoundsAssumption DEF Unsent, Disconnect, TypeOK
  <2>3. /\ emitter'[e].step # "none" /\ emitter'[e].left <= emitter[e].left
        /\ \A x \in Emitters : x # e => emitter'[x] = emitter[x]
    <3>1. CASE Ends(e)
      BY <1>1, <3>1, BufferAssumption DEF Ends, TypeOK, Emitters
    <3>2. CASE \E step \in EmitterSteps \ {"none"} : Goto(e, step)
      BY <1>1, <3>2, BufferAssumption DEF Goto, TypeOK, Emitters
    <3> QED BY <1>2, <3>1, <3>2
  <2>4. \A x \in Emitters : emitter[x].left \in Int
    BY <1>1, BufferAssumption DEF TypeOK, Emitters
  <2>5. \A x \in Emitters : /\ emitter'[x].step = "none" <=> emitter[x].step = "none"
                            /\ emitter'[x].left <= emitter[x].left
    BY <1>2, <2>3, <2>4 DEF At
  <2> QED BY <1>1, <1>2, <2>1, <2>2, <2>5, CountedStays
<1>3. ASSUME UNCHANGED <<buffered, results>>
      PROVE  \A x \in Channels : buffered'[x] + results[x] <= buffered[x] + results'[x]
  BY <1>1, <1>3, BufferAssumption DEF TypeOK
<1>4. ~At(e, "none") /\ dispatch' = dispatch /\ scans' = scans /\ conns' = conns
  BY DEF EmitterStep, NoCodesLeft, CheckClosed, SendCode, Wait, SendTimeout, CloseOutput,
         EmitterDisconnects, At, linkVars
<1>5. UNCHANGED <<link, qrSent>> \/ Disconnect
  BY DEF EmitterStep, NoCodesLeft, CheckClosed, SendCode, Wait, SendTimeout, CloseOutput,
         EmitterDisconnects, linkVars
<1>6. {"loop", "send", "timeout", "close", "disconnect"} \subseteq EmitterSteps \ {"none"}
  BY DEF EmitterSteps
<1>7. CASE NoCodesLeft(e) \/ CheckClosed(e) \/ Wait(e) \/ CloseOutput(e) \/ EmitterDisconnects(e)
  <2>1. UNCHANGED <<buffered, results>>
    BY <1>7 DEF NoCodesLeft, CheckClosed, Wait, CloseOutput, EmitterDisconnects, channelVars
  <2>2. Ends(e) \/ \E step \in EmitterSteps \ {"none"} : Goto(e, step)
    BY <1>6, <1>7 DEF NoCodesLeft, CheckClosed, Wait, CloseOutput, EmitterDisconnects
  <2> QED BY <1>2, <1>3, <1>4, <1>5, <2>1, <2>2
<1>8. CASE SendTimeout(e)
  <2>1. Goto(e, "close") /\ Send(e[1], "final")
    BY <1>8 DEF SendTimeout
  <2>2. \A x \in Channels : buffered'[x] + results[x] <= buffered[x] + results'[x]
    BY <1>1, <2>1, BufferAssumption DEF Send, TypeOK
  <2> QED BY <1>2, <1>4, <1>5, <1>6, <2>1, <2>2
<1>9. CASE SendCode(e)
  <2>1. CASE UNCHANGED <<emitter, buffered, results>>
    <3>1. \A x \in Channels : buffered'[x] + results[x] <= buffered[x] + results'[x]
      BY <1>3, <2>1
    <3>2. UNCHANGED <<scans, conns, link, qrSent>> /\ \A x \in Slots : Shrinks(x)
      BY <1>4, <1>9 DEF SendCode, linkVars, Shrinks
    <3> QED BY <1>1, <2>1, <3>1, <3>2, HandlerCounts
  <2>2. CASE /\ Send(e[1], "code")
             /\ emitter' = [emitter EXCEPT ![e] = [step |-> "wait", left |-> @.left - 1]]
    BY <1>9, <2>2, CodeCounts DEF SendCode
  <2>3. CASE (Goto(e, "close") \/ Ends(e)) /\ UNCHANGED <<buffered, results>>
    BY <1>2, <1>3, <1>4, <1>5, <1>6, <2>3
  <2> QED BY <1>9, <2>1, <2>2, <2>3 DEF SendCode
<1> QED BY <1>7, <1>8, <1>9 DEF EmitterStep

LEMMA InitiallyCounted == Init => Counted
<1> SUFFICES ASSUME Init, NEW c \in Channels PROVE StartsCounted(c) /\ ItemsCounted(c)
  BY DEF Counted
<1>1. Started(c) = {} /\ Sent(c) = {} /\ QRsTo(c) = {} /\ ScansTo(c) = {} /\ Unsent = 0
  BY DEF Init, Started, Sent, QRsTo, ScansTo, Bound, Unsent, Idle
<1>2. IsFiniteSet({}) /\ Cardinality({}) = 0
  BY FS_EmptySet
<1> HIDE DEF Started, Sent, QRsTo, ScansTo, Unsent
<1>3. conns = 0 /\ scans = 0 /\ buffered[c] = 0 /\ results[c] = 0
  BY DEF Init
<1> QED BY <1>1, <1>2, <1>3 DEF StartsCounted, ItemsCounted

LEMMA StaysCounted == IInv /\ TypeOK' /\ Counted /\ [Next]_vars => Counted'
<1> SUFFICES ASSUME IInv, TypeOK', Counted, [Next]_vars PROVE Counted'
  OBVIOUS
<1>1. TypeOK
  BY DEF IInv
<1>2. ASSUME UNCHANGED <<emitter, buffered, results, scans, conns, link, qrSent, dispatch>>
      PROVE  Counted'
  <2>1. \A x \in Channels : buffered'[x] + results[x] <= buffered[x] + results'[x]
    BY <1>1, <1>2, BufferAssumption DEF TypeOK
  <2>2. \A x \in Slots : Shrinks(x)
    BY <1>2 DEF Shrinks
  <2> QED BY <1>1, <1>2, <2>1, <2>2, HandlerCounts
<1>3. CASE UNCHANGED vars
  BY <1>2, <1>3 DEF vars
<1>4. CASE \E c \in Channels : RemoveEventHandler(c)
  BY <1>2, <1>4 DEF RemoveEventHandler, linkVars, channelVars
<1>5. CASE AppStep
  BY <1>1, <1>5, AppCounts
<1>6. CASE Environment
  BY <1>1, <1>6, EnvironmentCounts
<1>7. CASE \E d \in Slots : DispatchStep(d)
  BY <1>7, DispatchCounts
<1>8. CASE \E e \in Channels \X Conns : EmitterStep(e)
  BY <1>8, EmitterCounts DEF Emitters
<1> QED BY <1>3, <1>4, <1>5, <1>6, <1>7, <1>8 DEF Next

LEMMA AlwaysCounted == Spec => []Counted
<1>1. IInv => TypeOK
  BY DEF IInv
<1> QED BY <1>1, Always, InitiallyCounted, StaysCounted, PTL DEF Spec

(* However many channels were given up, and for any number of codes,        *)
(* channels, connections and events at a time, a channel holds no more than *)
(* the codes of the connections so far, the scans and its result.  With at  *)
(* most Buffer - 1 codes and scans no handler waits in dispatchEvent; with   *)
(* more one does, which the run of HandlersReturn shows.                     *)
THEOREM ChannelsFillSlowly == Spec => []BufferedIsCounted
<1>1. ASSUME IInv, Counted, NEW c \in Channels
      PROVE  buffered[c] <= Codes * conns + scans + results[c]
  <2>1. StartsCounted(c) /\ ItemsCounted(c)
    BY <1>1 DEF Counted
  <2>2. PICK s, r : s = Cardinality(Sent(c)) /\ r = Cardinality(ScansTo(c))
    OBVIOUS
  <2>3. s \in Nat /\ r \in Nat /\ s <= Codes * conns
    BY <1>1, <2>1, <2>2, StartedIsFinite, SentIsBounded, FS_CardinalityType
    DEF ItemsCounted, IInv
  <2>4. PICK all : all = Codes * conns
    OBVIOUS
  <2>5. buffered[c] \in Nat /\ results[c] \in Nat /\ scans \in Nat /\ all \in Nat
    <3>1. conns \in Nat
      BY <1>1, BoundsAssumption DEF IInv, TypeOK
    <3>2. Codes * conns \in Nat
      BY <3>1, BufferAssumption
    <3> QED BY <1>1, <2>4, <3>2, BoundsAssumption, BufferAssumption DEF IInv, TypeOK
  <2>6. buffered[c] + r <= s + scans + results[c]
    BY <2>1, <2>2 DEF ItemsCounted
  <2>7. s <= all
    BY <2>3, <2>4
  <2>8. buffered[c] <= all + scans + results[c]
    BY <2>3, <2>5, <2>6, <2>7
  <2> QED BY <2>4, <2>8
<1>2. IInv /\ Counted => BufferedIsCounted
  BY <1>1 DEF BufferedIsCounted
<1> QED BY <1>2, Always, AlwaysCounted, PTL
=============================================================================
