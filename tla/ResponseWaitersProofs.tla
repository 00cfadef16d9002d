------------------------ MODULE ResponseWaitersProofs ------------------------
(* Safety of ResponseWaiters, for any requests and any bounds.             *)
EXTENDS ResponseWaiters, TLAPS

USE RequestsAssumption, BoundsAssumption

(* Only cli.socket can be alive: what OneLive says of module Connection.    *)
(* A connection that has closed stays closed, and the next one is new.     *)
LinkOk ==
    /\ \A g \in alive : g = conn
    /\ \A g \in notices : g \notin alive /\ g <= made
    /\ conn <= made

(* The channel in the table is that of the current attempt, and a request  *)
(* that is between its attempts has been told of a disconnection.          *)
RequestOk ==
    \A r \in Requests :
        /\ waiters[r] \in {None, attempt[r]}
        /\ pc[r] = "new" => waiters[r] = None /\ attempt[r] = 1 /\ chan[r][1] = "none"
        /\ pc[r] = "registered" => attempt[r] = 1
        /\ pc[r] \in {"reconnecting", "reading", "registering"}
             => waiters[r] = None /\ attempt[r] = 1 /\ chan[r][1] = "disconnect"

(* A reader sends to the channel of the current attempt, which is out of    *)
(* the table, empty or cancelled meanwhile, and no other reader has it.     *)
DeliveryOk ==
    \A g \in Conns : \A d \in delivering[g] :
        /\ d[2] = attempt[d[1]]
        /\ waiters[d[1]] = None
        /\ chan[d[1]][d[2]] \in {"empty", "closed"}
        /\ \A h \in Conns : \A e \in delivering[h] : e[1] = d[1] => h = g /\ e = d
        /\ \A e \in delivering[g] : e = d

(* An empty channel that no reader has taken is in the table from the       *)
(* moment its frame can be written.                                         *)
StillRegistered ==
    \A r \in Requests :
        /\ pc[r] \in {"registered", "sending", "waiting"}
        /\ chan[r][attempt[r]] = "empty"
        /\ ~InDelivery(r, attempt[r])
        => waiters[r] = attempt[r]

IInv == /\ TypeOK /\ LinkOk /\ RequestOk /\ DeliveryOk
        /\ WaitersAreEmpty /\ StillRegistered /\ NobodyForgotten

-----------------------------------------------------------------------------
LEMMA InitIInv == Init => IInv
  <1> SUFFICES ASSUME Init PROVE IInv
    OBVIOUS
  <1>1. TypeOK
    <2>1. chan \in [Requests -> [Attempts -> Nodes \cup {"none", "empty", "closed"}]]
      BY DEF Init
    <2>2. asked \in [Conns -> SUBSET Requests] /\ alive \in SUBSET Conns
      BY DEF Init
    <2>3. delivering \in [Conns -> SUBSET (Requests \X Attempts)]
      BY DEF Init
    <2>4. pc \in [Requests -> Steps] /\ crashed \in BOOLEAN
      BY DEF Init, Steps
    <2>5. QED
      BY <2>1, <2>2, <2>3, <2>4 DEF Init, TypeOK, Attempts, Conns, None
  <1>2. LinkOk /\ RequestOk /\ DeliveryOk
    BY DEF Init, LinkOk, RequestOk, DeliveryOk, None, Attempts
  <1>3. WaitersAreEmpty /\ StillRegistered /\ NobodyForgotten
    BY DEF Init, WaitersAreEmpty, StillRegistered, NobodyForgotten
  <1>4. QED
    BY <1>1, <1>2, <1>3 DEF IInv

-----------------------------------------------------------------------------
(* A request goes on to step s and leaves the table and the link alone.    *)
LEMMA GoesOn ==
    ASSUME IInv, NEW r \in Requests, NEW s \in Steps \ {"new", "registered"}, Go(r, s),
           UNCHANGED <<linkVars, tableVars, attempt, delivering>>, TypeOK',
           \A q \in Requests : q # r => sock'[q] = sock[q],
           s \in {"reconnecting", "reading", "registering"}
             => waiters[r] = None /\ attempt[r] = 1 /\ chan[r][1] = "disconnect",
           s \in {"sending", "waiting"} => pc[r] \in {"registered", "sending"},
           s = "waiting" => sock'[r] \in alive
    PROVE  IInv'
  <1> USE DEF IInv, linkVars, tableVars, Go
  <1>1. pc'[r] = s /\ \A q \in Requests : q # r => pc'[q] = pc[q]
    BY DEF TypeOK
  <1>2. LinkOk' /\ RequestOk' /\ WaitersAreEmpty'
    BY <1>1 DEF LinkOk, RequestOk, WaitersAreEmpty
  <1>3. DeliveryOk'
    BY DEF DeliveryOk
  <1>4. StillRegistered'
    BY <1>1 DEF StillRegistered, InDelivery
  <1>5. NobodyForgotten'
    BY <1>1 DEF StillRegistered, NobodyForgotten, InDelivery, LinkOk
  <1>6. QED
    BY <1>2, <1>3, <1>4, <1>5

(* A request gives up and cancels its waiter.                              *)
LEMMA CancelTyped ==
    ASSUME TypeOK, NEW r \in Requests, NEW k \in Attempts, CancelResponse(r, k)
    PROVE  /\ waiters' \in [Requests -> Attempts \cup {None}]
           /\ chan' \in [Requests -> [Attempts -> Nodes \cup {"none", "empty", "closed"}]]
           /\ chan'[r][k] = "closed" /\ waiters'[r] = None
           /\ \A q \in Requests : q # r => chan'[q] = chan[q] /\ waiters'[q] = waiters[q]
  BY DEF TypeOK, CancelResponse

LEMMA GivesUp ==
    ASSUME IInv, NEW r \in Requests, CancelResponse(r, attempt[r]), Go(r, "failed"),
           UNCHANGED <<linkVars, attempt, sock, asked, delivering, crashed>>
    PROVE  IInv'
  <1> USE DEF linkVars
  <1>0. TypeOK /\ attempt[r] \in Attempts
    BY DEF IInv, TypeOK
  <1>1. /\ waiters' \in [Requests -> Attempts \cup {None}]
        /\ chan' \in [Requests -> [Attempts -> Nodes \cup {"none", "empty", "closed"}]]
        /\ chan'[r][attempt[r]] = "closed" /\ waiters'[r] = None
        /\ \A q \in Requests : q # r => chan'[q] = chan[q] /\ waiters'[q] = waiters[q]
    BY <1>0, CancelTyped
  <1>2. /\ pc' \in [Requests -> Steps] /\ pc'[r] = "failed"
        /\ \A q \in Requests : q # r => pc'[q] = pc[q]
    BY <1>0 DEF Go, TypeOK, Steps, Ended
  <1>3. TypeOK'
    BY <1>0, <1>1, <1>2 DEF TypeOK
  <1>4. LinkOk' /\ RequestOk' /\ WaitersAreEmpty'
    BY <1>1, <1>2 DEF IInv, LinkOk, RequestOk, WaitersAreEmpty
  <1>5. DeliveryOk'
    <2> SUFFICES ASSUME NEW g \in Conns, NEW d \in delivering[g]
                 PROVE  waiters'[d[1]] = None /\ chan'[d[1]][d[2]] \in {"empty", "closed"}
      BY DEF IInv, DeliveryOk
    <2>1. d[1] \in Requests
      BY <1>0 DEF TypeOK
    <2>2. /\ d[2] = attempt[d[1]] /\ waiters[d[1]] = None
          /\ chan[d[1]][d[2]] \in {"empty", "closed"}
      BY DEF IInv, DeliveryOk
    <2>3. QED
      BY <1>1, <2>1, <2>2
  <1>6. StillRegistered' /\ NobodyForgotten'
    BY <1>1, <1>2 DEF IInv, StillRegistered, NobodyForgotten, InDelivery
  <1>7. QED
    BY <1>3, <1>4, <1>5, <1>6 DEF IInv

(* A request registers a new channel.                                      *)
LEMMA Registers ==
    ASSUME IInv, NEW r \in Requests, NEW k \in Attempts, NEW s \in {"registered", "sending"},
           WaitResponse(r, k), Go(r, s),
           attempt' = [attempt EXCEPT ![r] = k],
           UNCHANGED <<linkVars, sock, asked, delivering, crashed>>,
           waiters[r] = None, chan[r][attempt[r]] \notin {"empty", "closed"},
           s = "registered" => k = 1
    PROVE  IInv'
  <1> USE DEF linkVars
  <1>0. TypeOK
    BY DEF IInv
  <1>1. /\ waiters' \in [Requests -> Attempts \cup {None}]
        /\ chan' \in [Requests -> [Attempts -> Nodes \cup {"none", "empty", "closed"}]]
        /\ attempt' \in [Requests -> Attempts]
        /\ pc' \in [Requests -> Steps]
    BY <1>0 DEF TypeOK, WaitResponse, Go, Steps
  <1>2. chan'[r][k] = "empty" /\ waiters'[r] = k /\ attempt'[r] = k /\ pc'[r] = s
    BY <1>0 DEF TypeOK, WaitResponse, Go
  <1>3. \A q \in Requests : q # r => /\ chan'[q] = chan[q] /\ waiters'[q] = waiters[q]
                                     /\ attempt'[q] = attempt[q] /\ pc'[q] = pc[q]
    BY <1>0 DEF TypeOK, WaitResponse, Go
  <1>4. TypeOK'
    BY <1>0, <1>1 DEF TypeOK
  <1>5. LinkOk' /\ RequestOk' /\ WaitersAreEmpty'
    BY <1>2, <1>3 DEF IInv, LinkOk, RequestOk, WaitersAreEmpty
  <1>6. DeliveryOk'
    <2> SUFFICES ASSUME NEW g \in Conns, NEW d \in delivering[g]
                 PROVE  /\ d[2] = attempt'[d[1]]
                        /\ waiters'[d[1]] = None /\ chan'[d[1]][d[2]] \in {"empty", "closed"}
      BY DEF IInv, DeliveryOk
    <2>1. d[1] \in Requests
      BY <1>0 DEF TypeOK
    <2>2. /\ d[2] = attempt[d[1]] /\ waiters[d[1]] = None
          /\ chan[d[1]][d[2]] \in {"empty", "closed"}
      BY DEF IInv, DeliveryOk
    <2>3. d[1] # r
      BY <2>2
    <2>4. QED
      BY <1>3, <2>1, <2>2, <2>3
  <1>7. StillRegistered' /\ NobodyForgotten'
    BY <1>2, <1>3 DEF IInv, StillRegistered, NobodyForgotten, InDelivery
  <1>8. QED
    BY <1>4, <1>5, <1>6, <1>7 DEF IInv

(* The steps of a request. *)
LEMMA RequestIInv ==
    ASSUME IInv, NEW r \in Requests, RequestStep(r)
    PROVE  IInv'
  <1> USE DEF linkVars, tableVars
  <1>a. /\ TypeOK /\ RequestOk /\ attempt[r] \in Attempts /\ 1 \in Attempts
        /\ waiters[r] \in {None, attempt[r]} /\ WaitersAreEmpty
        /\ pc[r] = "registered" => attempt[r] = 1
    BY DEF IInv, TypeOK, RequestOk, Attempts
  <1>b. /\ Ended \subseteq Steps /\ "failed" \in Ended
        /\ Steps \ {"new"} = {"registered", "sending", "waiting", "reconnecting", "reading",
                              "registering", "done", "failed"}
    BY DEF Steps, Ended
  <1>c. ASSUME NEW s \in Steps, Go(r, s)
        PROVE  pc' \in [Requests -> Steps]
    BY <1>a, <1>c DEF TypeOK, Go
  <1>1. CASE Register(r)
    <2>1. /\ waiters[r] = None /\ attempt[r] = 1 /\ chan[r][1] = "none"
          /\ attempt' = [attempt EXCEPT ![r] = 1]
      BY <1>1, <1>a DEF Register, RequestOk, TypeOK
    <2>2. QED
      BY <1>1, <1>a, <2>1, Registers DEF Register
  <1>2. CASE PrepareFails(r)
    BY <1>2, <1>a, GivesUp DEF PrepareFails
  <1>3. CASE ReadSocket(r)
    <2>1. CASE conn = None
      BY <1>3, <1>a, <2>1, GivesUp DEF ReadSocket
    <2>2. CASE conn # None
      <3>1. /\ Go(r, "sending") /\ sock' = [sock EXCEPT ![r] = conn]
            /\ UNCHANGED <<linkVars, tableVars, attempt, asked, delivering, crashed>>
        BY <1>3, <2>2 DEF ReadSocket
      <3>2. sock' \in [Requests -> Conns \cup {None}]
            /\ \A q \in Requests : q # r => sock'[q] = sock[q]
        BY <1>a, <3>1 DEF TypeOK
      <3>3. TypeOK'
        BY <1>a, <1>b, <1>c, <3>1, <3>2 DEF TypeOK
      <3>4. QED
        BY <1>3, <1>b, <3>1, <3>2, <3>3, GoesOn DEF ReadSocket
    <2>3. QED
      BY <2>1, <2>2
  <1>4. CASE SendFrame(r)
    <2>1. CASE sock[r] \in alive
      <3>1. /\ Go(r, "waiting") /\ asked' = [asked EXCEPT ![sock[r]] = @ \cup {r}]
            /\ UNCHANGED <<linkVars, tableVars, attempt, sock, delivering, crashed>>
        BY <1>4, <2>1 DEF SendFrame
      <3>2. asked' \in [Conns -> SUBSET Requests]
        BY <1>a, <2>1, <3>1 DEF TypeOK
      <3>3. TypeOK'
        BY <1>a, <1>b, <1>c, <3>1, <3>2 DEF TypeOK
      <3>4. QED
        BY <1>4, <1>b, <2>1, <3>1, <3>3, GoesOn DEF SendFrame
    <2>2. CASE sock[r] \notin alive
      BY <1>4, <2>2, GivesUp DEF SendFrame
    <2>3. QED
      BY <2>1, <2>2
  <1>5. CASE Answered(r)
    <2>1. TypeOK'
      BY <1>5, <1>a, <1>b, <1>c DEF Answered, TypeOK
    <2>2. QED
      BY <1>5, <1>b, <2>1, GoesOn DEF Answered
  <1>6. CASE Interrupted(r)
    <2>1. PICK s \in {"reconnecting", "failed"} :
            /\ Go(r, s)
            /\ s = "reconnecting" => attempt[r] = 1 /\ chan[r][1] = "disconnect"
      BY <1>6 DEF Interrupted
    <2>2. TypeOK'
      BY <1>6, <1>a, <1>b, <1>c, <2>1 DEF Interrupted, TypeOK
    <2>3. chan[r][attempt[r]] # "empty"
      BY <1>6 DEF Interrupted
    <2>4. waiters[r] = None
      BY <1>a, <2>3 DEF WaitersAreEmpty
    <2>5. QED
      BY <1>6, <1>b, <2>1, <2>2, <2>4, GoesOn DEF Interrupted
  <1>7. CASE TimedOut(r)
    <2>1. CASE CancelResponse(r, 1) /\ attempt[r] = 1
      BY <1>7, <2>1, GivesUp DEF TimedOut
    <2>2. CASE UNCHANGED tableVars
      <3>1. TypeOK'
        BY <1>7, <1>a, <1>b, <1>c, <2>2 DEF TimedOut, TypeOK
      <3>2. QED
        BY <1>7, <1>b, <2>2, <3>1, GoesOn DEF TimedOut
    <2>3. QED
      BY <1>7, <2>1, <2>2 DEF TimedOut
  <1>8. CASE NotReconnected(r)
    <2>1. TypeOK'
      BY <1>8, <1>a, <1>b, <1>c DEF NotReconnected, TypeOK
    <2>2. QED
      BY <1>8, <1>b, <2>1, GoesOn DEF NotReconnected
  <1>9. CASE Reconnected(r)
    <2>1. TypeOK'
      BY <1>9, <1>a, <1>b, <1>c DEF Reconnected, TypeOK
    <2>2. QED
      BY <1>9, <1>a, <1>b, <2>1, GoesOn DEF Reconnected, RequestOk
  <1>10. CASE ReadSocketAgain(r)
    <2>1. CASE conn = None
      <3>1. TypeOK'
        BY <1>10, <1>a, <1>b, <1>c, <2>1 DEF ReadSocketAgain, TypeOK
      <3>2. QED
        BY <1>10, <1>b, <2>1, <3>1, GoesOn DEF ReadSocketAgain
    <2>2. CASE conn # None
      <3>1. /\ Go(r, "registering") /\ sock' = [sock EXCEPT ![r] = conn]
            /\ UNCHANGED <<linkVars, tableVars, attempt, asked, delivering, crashed>>
        BY <1>10, <2>2 DEF ReadSocketAgain
      <3>2. sock' \in [Requests -> Conns \cup {None}]
            /\ \A q \in Requests : q # r => sock'[q] = sock[q]
        BY <1>a, <3>1 DEF TypeOK
      <3>3. TypeOK'
        BY <1>a, <1>b, <1>c, <3>1, <3>2 DEF TypeOK
      <3>4. QED
        BY <1>10, <1>a, <1>b, <3>1, <3>2, <3>3, GoesOn DEF ReadSocketAgain, RequestOk
    <2>3. QED
      BY <2>1, <2>2
  <1>11. CASE RegisterAgain(r)
    <2>1. waiters[r] = None /\ attempt[r] = 1 /\ chan[r][1] = "disconnect"
      BY <1>11, <1>a DEF RegisterAgain, RequestOk
    <2>2. attempt' = [attempt EXCEPT ![r] = 2] /\ WaitResponse(r, 2) /\ 2 \in Attempts
      BY <1>11, <1>a, <2>1 DEF RegisterAgain, TypeOK, Attempts
    <2>3. QED
      BY <1>11, <2>1, <2>2, Registers DEF RegisterAgain
  <1>12. QED
    BY <1>1, <1>2, <1>3, <1>4, <1>5, <1>6, <1>7, <1>8, <1>9, <1>10, <1>11 DEF RequestStep

-----------------------------------------------------------------------------
(* The reader of a connection.                                             *)
LEMMA ReceiveIInv ==
    ASSUME IInv, NEW g \in Conns, NEW r \in Requests, Receive(g, r)
    PROVE  IInv'
  <1> USE DEF linkVars
  <1>a. /\ TypeOK /\ delivering[g] = {}
        /\ waiters[r] = None \/ (waiters[r] = attempt[r] /\ chan[r][attempt[r]] = "empty")
    BY DEF IInv, RequestOk, WaitersAreEmpty, Receive
  <1>1. /\ waiters' \in [Requests -> Attempts \cup {None}] /\ waiters'[r] = None
        /\ \A q \in Requests : q # r => waiters'[q] = waiters[q]
        /\ asked' \in [Conns -> SUBSET Requests]
    BY <1>a DEF Receive, TypeOK
  <1>2. CASE waiters[r] = None
    <2>1. waiters' = waiters /\ delivering' = delivering
      BY <1>a, <1>2 DEF Receive, TypeOK
    <2>2. TypeOK'
      BY <1>a, <1>1, <2>1 DEF TypeOK, Receive
    <2>3. QED
      BY <2>1, <2>2 DEF IInv, LinkOk, RequestOk, DeliveryOk, WaitersAreEmpty,
                        StillRegistered, NobodyForgotten, InDelivery, Receive
  <1>3. CASE waiters[r] # None
    <2>1. /\ waiters[r] = attempt[r] /\ chan[r][attempt[r]] = "empty"
          /\ attempt[r] \in Attempts
      BY <1>a, <1>3 DEF TypeOK
    <2>2. delivering' = [delivering EXCEPT ![g] = {<<r, attempt[r]>>}]
      BY <1>3, <2>1 DEF Receive
    <2>3. /\ delivering'[g] = {<<r, attempt[r]>>}
          /\ \A h \in Conns : h # g => delivering'[h] = delivering[h]
          /\ delivering' \in [Conns -> SUBSET (Requests \X Attempts)]
      BY <1>a, <2>1, <2>2 DEF TypeOK
    <2>4. TypeOK'
      BY <1>a, <1>1, <2>3 DEF TypeOK, Receive
    <2>5. LinkOk' /\ RequestOk' /\ WaitersAreEmpty'
      BY <1>1, <2>1 DEF IInv, LinkOk, RequestOk, WaitersAreEmpty, Receive
    <2>6. \A h \in Conns : \A d \in delivering[h] : d[1] # r
      BY <1>3 DEF IInv, DeliveryOk
    <2>7. \A h \in Conns : \A d \in delivering[h] : d[1] \in Requests
      BY <1>a DEF TypeOK
    <2>8. DeliveryOk'
      <3> SUFFICES ASSUME NEW h \in Conns, NEW d \in delivering'[h]
                   PROVE  /\ d[2] = attempt[d[1]]
                          /\ waiters'[d[1]] = None
                          /\ chan[d[1]][d[2]] \in {"empty", "closed"}
                          /\ \A i \in Conns : \A e \in delivering'[i] :
                                e[1] = d[1] => i = h /\ e = d
                          /\ \A e \in delivering'[h] : e = d
        BY DEF DeliveryOk, Receive
      <3>1. CASE h = g
        BY <1>1, <2>1, <2>3, <2>6, <3>1
      <3>2. CASE h # g
        <4>1. d \in delivering[h] /\ delivering'[h] = delivering[h] /\ d[1] \in Requests
          BY <2>3, <2>7, <3>2
        <4>2. d[1] # r /\ waiters[d[1]] = None
          BY <2>6, <4>1 DEF IInv, DeliveryOk
        <4>3. QED
          BY <1>1, <2>3, <3>2, <4>1, <4>2 DEF IInv, DeliveryOk
      <3>3. QED
        BY <3>1, <3>2
    <2>9. InDelivery(r, attempt[r])'
      BY <2>3 DEF InDelivery, Receive
    <2>10. \A q \in Requests, k \in Attempts : InDelivery(q, k) => InDelivery(q, k)'
      BY <1>a, <2>3 DEF InDelivery
    <2>11. StillRegistered' /\ NobodyForgotten'
      BY <1>a, <1>1, <2>9, <2>10
         DEF IInv, StillRegistered, NobodyForgotten, TypeOK, Receive
    <2>12. QED
      BY <2>4, <2>5, <2>8, <2>11 DEF IInv
  <1>4. QED
    BY <1>2, <1>3

LEMMA DeliverIInv ==
    ASSUME IInv, NEW g \in Conns, Deliver(g)
    PROVE  IInv'
  <1> USE DEF linkVars
  <1>a. TypeOK /\ RequestOk /\ DeliveryOk
    BY DEF IInv
  <1>1. PICK d \in delivering[g] :
          \/ /\ chan[d[1]][d[2]] = "empty"
             /\ chan' = [chan EXCEPT ![d[1]][d[2]] = "answer"]
             /\ UNCHANGED crashed
          \/ /\ chan[d[1]][d[2]] = "closed"
             /\ crashed' = TRUE
             /\ UNCHANGED chan
    BY DEF Deliver
  <1>2. /\ d[1] \in Requests /\ d[2] \in Attempts /\ d[2] = attempt[d[1]]
        /\ d = <<d[1], d[2]>> /\ waiters[d[1]] = None
        /\ \A e \in delivering[g] : e = d
    BY <1>a DEF TypeOK, DeliveryOk
  <1>3. /\ chan' \in [Requests -> [Attempts -> Nodes \cup {"none", "empty", "closed"}]]
        /\ chan'[d[1]][d[2]] # "empty" /\ crashed' \in BOOLEAN
        /\ chan[d[1]][d[2]] \in {"empty", "closed"}
        /\ \A q \in Requests : q # d[1] => chan'[q] = chan[q]
        /\ \A k \in Attempts : k # d[2] => chan'[d[1]][k] = chan[d[1]][k]
    <2>1. CASE chan[d[1]][d[2]] = "empty"
      <3>1. /\ chan' = [chan EXCEPT ![d[1]][d[2]] = "answer"] /\ crashed' = crashed
            /\ chan \in [Requests -> [Attempts -> Nodes \cup {"none", "empty", "closed"}]]
            /\ crashed \in BOOLEAN /\ "answer" \in Nodes
        BY <1>a, <1>1, <2>1 DEF TypeOK, Nodes
      <3>2. chan' = [chan EXCEPT ![d[1]] = [chan[d[1]] EXCEPT ![d[2]] = "answer"]]
        BY <3>1
      <3>3. chan'[d[1]] = [chan[d[1]] EXCEPT ![d[2]] = "answer"]
            /\ chan[d[1]] \in [Attempts -> Nodes \cup {"none", "empty", "closed"}]
        BY <1>2, <3>1, <3>2
      <3>4. /\ chan'[d[1]] \in [Attempts -> Nodes \cup {"none", "empty", "closed"}]
            /\ chan'[d[1]][d[2]] = "answer"
            /\ \A k \in Attempts : k # d[2] => chan'[d[1]][k] = chan[d[1]][k]
        BY <1>2, <3>1, <3>3
      <3>5. /\ chan' \in [Requests -> [Attempts -> Nodes \cup {"none", "empty", "closed"}]]
            /\ \A q \in Requests : q # d[1] => chan'[q] = chan[q]
        BY <1>2, <3>1, <3>2, <3>3, <3>4
      <3>6. QED
        BY <2>1, <3>1, <3>4, <3>5
    <2>2. CASE chan[d[1]][d[2]] = "closed"
      BY <1>a, <1>1, <1>2, <2>2 DEF TypeOK
    <2>3. QED
      BY <1>1, <2>1, <2>2
  <1>4. /\ delivering' \in [Conns -> SUBSET (Requests \X Attempts)]
        /\ delivering'[g] = {}
        /\ \A h \in Conns : h # g => delivering'[h] = delivering[h]
    BY <1>a DEF TypeOK, Deliver
  <1>5. TypeOK'
    BY <1>a, <1>3, <1>4 DEF TypeOK, Deliver
  <1>6. LinkOk' /\ WaitersAreEmpty'
    BY <1>2, <1>3 DEF IInv, LinkOk, WaitersAreEmpty, Deliver, TypeOK
  <1>7. RequestOk'
    <2>1. d[2] = 1 => chan[d[1]][1] \in {"empty", "closed"}
      BY <1>3
    <2>2. /\ pc[d[1]] \notin {"new", "reconnecting", "reading", "registering"}
      BY <1>a, <1>2, <1>3 DEF RequestOk
    <2>3. QED
      BY <1>a, <1>3, <2>2 DEF RequestOk, Deliver
  <1>8. DeliveryOk'
    <2> SUFFICES ASSUME NEW h \in Conns, NEW e \in delivering'[h]
                 PROVE  /\ e[2] = attempt[e[1]]
                        /\ waiters[e[1]] = None
                        /\ chan'[e[1]][e[2]] \in {"empty", "closed"}
                        /\ \A i \in Conns : \A f \in delivering'[i] :
                              f[1] = e[1] => i = h /\ f = e
                        /\ \A f \in delivering'[h] : f = e
      BY DEF DeliveryOk, Deliver
    <2>1. h # g /\ e \in delivering[h] /\ e[1] \in Requests
      BY <1>a, <1>4 DEF TypeOK
    <2>2. e[1] # d[1]
      BY <1>a, <2>1 DEF DeliveryOk
    <2>3. chan'[e[1]] = chan[e[1]]
      BY <1>3, <2>1, <2>2
    <2>4. /\ e[2] = attempt[e[1]] /\ waiters[e[1]] = None
          /\ chan[e[1]][e[2]] \in {"empty", "closed"}
          /\ \A f \in delivering[h] : f = e
      BY <1>a, <2>1 DEF DeliveryOk
    <2>5. ASSUME NEW i \in Conns, NEW f \in delivering'[i], f[1] = e[1]
          PROVE  i = h /\ f = e
      BY <1>a, <1>4, <2>1, <2>5 DEF DeliveryOk
    <2>6. QED
      BY <1>4, <2>1, <2>3, <2>4, <2>5
  <1>9. \A q \in Requests, k \in Attempts :
           InDelivery(q, k) => InDelivery(q, k)' \/ <<q, k>> = d
    BY <1>2, <1>4 DEF InDelivery
  <1>10. \A q \in Requests : /\ attempt[q] \in Attempts
                             /\ <<q, attempt[q]>> = d => chan'[q][attempt[q]] # "empty"
                             /\ chan'[q][attempt[q]] = "empty" => chan[q][attempt[q]] = "empty"
    BY <1>a, <1>2, <1>3 DEF TypeOK
  <1>11. StillRegistered' /\ NobodyForgotten'
    BY <1>9, <1>10 DEF IInv, StillRegistered, NobodyForgotten, Deliver
  <1>12. QED
    BY <1>5, <1>6, <1>7, <1>8, <1>11 DEF IInv

-----------------------------------------------------------------------------
(* The connection.  When the waiters are cleared nobody is left waiting    *)
(* with an empty channel, whatever becomes of the connection.              *)
LEMMA ClearIInv ==
    ASSUME IInv, NEW node \in {"disconnect", "auth"}, ClearResponseWaiters(node),
           UNCHANGED <<pc, attempt, sock, asked, delivering, crashed>>,
           conn' \in Conns \cup {None}, alive' \in SUBSET Conns, LinkOk',
           made' \in 0..MaxConns, notices' \in SUBSET Conns, errors' \in 0..MaxStreamErrors
    PROVE  IInv'
  <1>a. TypeOK /\ RequestOk /\ DeliveryOk /\ WaitersAreEmpty
    BY DEF IInv
  <1>1. /\ waiters' \in [Requests -> Attempts \cup {None}]
        /\ \A r \in Requests : waiters'[r] = None
    BY DEF ClearResponseWaiters
  <1>2. \A r \in Requests : \A k \in Attempts :
          chan'[r][k] = IF waiters[r] = k THEN node ELSE chan[r][k]
    BY <1>a DEF ClearResponseWaiters, WaitersAreEmpty, Attempts, None
  <1>3. chan' \in [Requests -> [Attempts -> Nodes \cup {"none", "empty", "closed"}]]
    BY <1>a DEF ClearResponseWaiters, TypeOK, Nodes
  <1>4. TypeOK'
    BY <1>a, <1>1, <1>3 DEF TypeOK
  <1>5. WaitersAreEmpty'
    BY <1>1 DEF WaitersAreEmpty
  <1>6. RequestOk'
    BY <1>a, <1>1, <1>2 DEF RequestOk, Attempts, None
  <1>7. DeliveryOk'
    <2> SUFFICES ASSUME NEW g \in Conns, NEW d \in delivering[g]
                 PROVE  waiters'[d[1]] = None /\ chan'[d[1]][d[2]] \in {"empty", "closed"}
      BY <1>a DEF DeliveryOk
    <2>1. d[1] \in Requests /\ d[2] \in Attempts
      BY <1>a DEF TypeOK
    <2>2. waiters[d[1]] = None /\ chan[d[1]][d[2]] \in {"empty", "closed"}
      BY <1>a DEF DeliveryOk
    <2>3. QED
      BY <1>1, <1>2, <2>1, <2>2 DEF Attempts, None
  <1>8. StillRegistered' /\ NobodyForgotten'
    <2>1. ASSUME NEW r \in Requests, pc[r] \in {"registered", "sending", "waiting"},
                 chan'[r][attempt[r]] = "empty", ~InDelivery(r, attempt[r])
          PROVE  FALSE
      <3>1. attempt[r] \in Attempts
        BY <1>a DEF TypeOK
      <3>2. waiters[r] # attempt[r] /\ chan[r][attempt[r]] = "empty"
        BY <1>2, <2>1, <3>1
      <3>3. QED
        BY <2>1, <3>2 DEF IInv, StillRegistered
    <2>2. QED
      BY <2>1 DEF StillRegistered, NobodyForgotten, InDelivery
  <1>9. QED
    BY <1>4, <1>5, <1>6, <1>7, <1>8 DEF IInv

LEMMA LinkIInv ==
    ASSUME IInv, LinkStep
    PROVE  IInv'
  <1> USE DEF linkVars, tableVars
  <1>a. TypeOK /\ LinkOk /\ None \notin Conns
    BY DEF IInv, None, Conns
  <1>1. CASE DropDead
    <2>1. LinkOk'
      BY <1>1, <1>a DEF DropDead, TypeOK, LinkOk, None, Conns
    <2>2. QED
      BY <1>1, <1>a, <2>1, ClearIInv DEF DropDead, TypeOK
  <1>2. CASE Connect
    <2>1. made + 1 \in Conns /\ alive = {} /\ made' \in 0..MaxConns
      BY <1>2, <1>a DEF Connect, TypeOK, LinkOk, Conns
    <2>2. TypeOK'
      BY <1>2, <1>a, <2>1 DEF Connect, TypeOK
    <2>a. LinkOk'
      BY <1>2, <1>a, <2>1 DEF Connect, TypeOK, LinkOk, Conns
    <2>3. \A r \in Requests : ~(/\ pc[r] = "waiting" /\ chan[r][attempt[r]] = "empty"
                                /\ ~InDelivery(r, attempt[r]))
      BY <1>2, <1>a, <2>1 DEF IInv, NobodyForgotten, Connect, TypeOK
    <2>4. RequestOk' /\ DeliveryOk' /\ WaitersAreEmpty' /\ StillRegistered'
      BY <1>2 DEF Connect, IInv, RequestOk, DeliveryOk, WaitersAreEmpty, StillRegistered,
                  InDelivery
    <2>5. NobodyForgotten'
      BY <1>2, <2>3 DEF Connect, NobodyForgotten, InDelivery
    <2>6. QED
      BY <2>2, <2>a, <2>4, <2>5 DEF IInv
  <1>3. CASE Disconnect
    <2>1. LinkOk'
      BY <1>3, <1>a DEF Disconnect, TypeOK, LinkOk, None, Conns
    <2>2. QED
      BY <1>3, <1>a, <2>1, ClearIInv DEF Disconnect, TypeOK
  <1>4. CASE StreamError
    <2>1. PICK node \in {"disconnect", "auth"} : ClearResponseWaiters(node)
      BY <1>4 DEF StreamError
    <2>2. errors' \in 0..MaxStreamErrors
      BY <1>4, <1>a DEF StreamError, TypeOK
    <2>3. QED
      BY <1>4, <1>a, <2>1, <2>2, ClearIInv DEF StreamError, TypeOK, LinkOk
  <1>5. ASSUME NEW g \in Conns, RemoteClose(g)
        PROVE  IInv'
    <2>1. TypeOK' /\ LinkOk'
      BY <1>5, <1>a DEF RemoteClose, TypeOK, LinkOk
    <2>2. RequestOk' /\ DeliveryOk' /\ WaitersAreEmpty' /\ StillRegistered'
      BY <1>5 DEF RemoteClose, IInv, RequestOk, DeliveryOk, WaitersAreEmpty,
                  StillRegistered, InDelivery
    <2>3. NobodyForgotten'
      BY <1>5 DEF RemoteClose, IInv, NobodyForgotten, InDelivery
    <2>4. QED
      BY <2>1, <2>2, <2>3 DEF IInv
  <1>6. ASSUME NEW g \in Conns, OnDisconnect(g)
        PROVE  IInv'
    <2>1. CASE conn = g
      <3>1. g \in notices /\ conn' = None /\ ClearResponseWaiters("disconnect")
        BY <1>6, <2>1 DEF OnDisconnect
      <3>2. LinkOk'
        <4>1. alive = {}
          BY <1>a, <2>1, <3>1 DEF LinkOk
        <4>2. QED
          BY <1>6, <1>a, <3>1, <4>1 DEF OnDisconnect, LinkOk, TypeOK, None
      <3>3. QED
        BY <1>6, <1>a, <3>1, <3>2, ClearIInv DEF OnDisconnect, TypeOK
    <2>2. CASE conn # g
      <3>1. TypeOK' /\ LinkOk'
        BY <1>6, <1>a, <2>2 DEF OnDisconnect, TypeOK, LinkOk
      <3>2. RequestOk' /\ DeliveryOk' /\ WaitersAreEmpty' /\ StillRegistered'
        BY <1>6, <2>2 DEF OnDisconnect, IInv, RequestOk, DeliveryOk, WaitersAreEmpty,
                          StillRegistered, InDelivery
      <3>3. NobodyForgotten'
        BY <1>6, <2>2 DEF OnDisconnect, IInv, NobodyForgotten, InDelivery
      <3>4. QED
        BY <3>1, <3>2, <3>3 DEF IInv
    <2>3. QED
      BY <2>1, <2>2
  <1>7. QED
    BY <1>1, <1>2, <1>3, <1>4, <1>5, <1>6 DEF LinkStep

LEMMA NextIInv == IInv /\ [Next]_vars => IInv'
  <1> SUFFICES ASSUME IInv, [Next]_vars PROVE IInv'
    OBVIOUS
  <1>1. CASE Next
    BY <1>1, RequestIInv, ReceiveIInv, DeliverIInv, LinkIInv DEF Next, ReaderStep
  <1>2. CASE UNCHANGED vars
    BY <1>2 DEF vars, IInv, TypeOK, LinkOk, RequestOk, DeliveryOk, WaitersAreEmpty,
                StillRegistered, NobodyForgotten, InDelivery
  <1>3. QED
    BY <1>1, <1>2

LEMMA AlwaysIInv == Spec => []IInv
  BY InitIInv, NextIInv, PTL DEF Spec

-----------------------------------------------------------------------------
(* Every variable keeps its type: no request makes a third attempt.        *)
THEOREM TypeCorrect == Spec => []TypeOK
  <1>1. IInv => TypeOK
    BY DEF IInv
  <1>2. QED
    BY <1>1, AlwaysIInv, PTL

(* Channels in cli.responseWaiters are open and empty, whatever the order   *)
(* in which requests, readers and disconnections touch the table.          *)
THEOREM NeverBlocks == Spec => []WaitersAreEmpty
  <1>1. IInv => WaitersAreEmpty
    BY DEF IInv
  <1>2. QED
    BY <1>1, AlwaysIInv, PTL

(* No request waits for the answer of a connection that is gone.           *)
THEOREM NoLostWakeup == Spec => []NobodyForgotten
  <1>1. IInv => NobodyForgotten
    BY DEF IInv
  <1>2. QED
    BY <1>1, AlwaysIInv, PTL

=============================================================================
