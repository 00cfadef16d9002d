--------------------------- MODULE DirectoryProofs ---------------------------
(***************************************************************************)
(* Proofs about what the client remembers of the users it writes to:       *)
(* Recipients (cached device lists and group members), for any devices,    *)
(* members, capacity of the node queue and number of changes and of lost   *)
(* connections, and LIDMap (the two addresses of a user), for any numbers, *)
(* LIDs, batches and lookups.                                              *)
(*                                                                         *)
(* Recipients: the invariant says of every notification on its way what it *)
(* tells (ListInv: a list that was once the user's and, with the youngest  *)
(* number, is now; GroupInv: the last queued change of a member is the one *)
(* that counts), so that when none is left the cached value is the         *)
(* server's.  A lookup's answer that waits to be stored is held to the     *)
(* same, because the lock keeps out the notifications meanwhile.           *)
(*                                                                         *)
(* LIDMap: Found and Agree are the two invariants with the rows and the    *)
(* entries that may be wrong as parameters.  While a transaction is open   *)
(* they have to hold twice: for the rows it sees, and, in case it is       *)
(* rolled back, for the committed rows and the entries it has not written. *)
(***************************************************************************)
EXTENDS Recipients, LIDMap, SequenceTheorems, TLAPS

(* BoundsAssumption, as a part of the invariant. *)
BoundsOK == QueueCap \in Nat /\ MaxChanges \in Nat /\ MaxReconnects \in Nat

Users == {Peer, "own"}
Elems(q) == {q[n] : n \in DOMAIN q}

Sends == [step : {"idle", "devices", "store", "upload", "answer"},
          to : Targets, members : SUBSET Members,
          lists : [Addresses -> Lists \cup {None}], match : BOOLEAN]

(* A message has the lists it needs. *)
Complete(s) == s.step \in {"store", "upload"} => \A a \in Needed(s) : s.lists[a] # None

(* The types, and that the numbers of all kinds together stay in the bound. *)
TypeInv ==
    /\ BoundsOK
    /\ devices \in [Users -> SUBSET Devices] /\ members \in SUBSET Members
    /\ past \in [Users -> SUBSET Lists]
    /\ youngest \in [Kinds -> Nat]
    /\ youngest["devices"] + youngest["own"] + youngest["group"] <= MaxChanges
    /\ queue \in Seq(Nodes) /\ Len(queue) <= QueueCap
    /\ loose \in SUBSET Nodes /\ spawned \in SUBSET Nodes
    /\ cache \in [Addresses -> Lists \cup {None}]
    /\ group \in (SUBSET Members) \cup {None}
    /\ send \in Sends
    /\ Complete(send)
    /\ lookup \in [step : {"idle", "store"}, locked : BOOLEAN, answer : SUBSET Members]
    /\ late \in SUBSET Kinds /\ swapped \in BOOLEAN /\ raced \in BOOLEAN
    /\ reconnects \in 0..MaxReconnects

-----------------------------------------------------------------------------
(* What is in a queue. *)

LEMMA AppendElems ==
    ASSUME NEW S, NEW q \in Seq(S), NEW x \in S
    PROVE  /\ Append(q, x) \in Seq(S) /\ Len(Append(q, x)) = Len(q) + 1
           /\ Elems(Append(q, x)) = Elems(q) \cup {x}
<1>1. /\ Append(q, x) \in Seq(S) /\ Len(Append(q, x)) = Len(q) + 1 /\ Len(q) \in Nat
      /\ DOMAIN q = 1..Len(q) /\ DOMAIN Append(q, x) = 1..(Len(q) + 1)
      /\ \A n \in 1..Len(q) : Append(q, x)[n] = q[n]
      /\ Append(q, x)[Len(q) + 1] = x
  OBVIOUS
<1>2. \A n \in 1..(Len(q) + 1) : n \in 1..Len(q) \/ n = Len(q) + 1
  BY <1>1
<1>3. Len(q) + 1 \in 1..(Len(q) + 1) /\ \A n \in 1..Len(q) : n \in 1..(Len(q) + 1)
  BY <1>1
<1>4. PICK a : a = Append(q, x)
  OBVIOUS
<1>5. Elems(a) = Elems(q) \cup {x}
  BY <1>1, <1>2, <1>3, <1>4 DEF Elems
<1> QED BY <1>1, <1>4, <1>5

LEMMA TailElems ==
    ASSUME NEW S, NEW q \in Seq(S), q # <<>>
    PROVE  /\ Head(q) \in S /\ Head(q) = q[1] /\ Tail(q) \in Seq(S) /\ Len(q) \in Nat \ {0}
           /\ Len(Tail(q)) = Len(q) - 1
           /\ \A n \in 1..Len(q) - 1 : Tail(q)[n] = q[n + 1]
           /\ Elems(q) = Elems(Tail(q)) \cup {Head(q)}
<1>1. /\ Head(q) \in S /\ Head(q) = q[1] /\ Tail(q) \in Seq(S) /\ Len(q) \in Nat \ {0}
      /\ Len(Tail(q)) = Len(q) - 1
      /\ \A n \in 1..Len(q) - 1 : Tail(q)[n] = q[n + 1]
  <2>1. /\ Head(q) \in S /\ Head(q) = q[1] /\ Tail(q) \in Seq(S) /\ Len(Tail(q)) = Len(q) - 1
        /\ \A n \in 1..Len(Tail(q)) : Tail(q)[n] = q[n + 1]
    BY HeadTailProperties
  <2>2. Len(q) \in Nat \ {0}
    BY EmptySeq, LenProperties
  <2> QED BY <2>1, <2>2
<1>2. DOMAIN q = 1..Len(q) /\ DOMAIN Tail(q) = 1..Len(q) - 1
  BY <1>1, LenProperties
<1>3. PICK t, h : t = Tail(q) /\ h = Head(q)
  OBVIOUS
<1>4. ASSUME NEW n \in 1..Len(q) PROVE q[n] = h \/ \E k \in DOMAIN t : t[k] = q[n]
  <2>1. CASE n = 1
    BY <1>1, <1>3, <2>1
  <2>2. CASE n # 1
    <3>1. n - 1 \in 1..Len(q) - 1 /\ (n - 1) + 1 = n
      BY <2>2, <1>1
    <3> QED BY <1>1, <1>2, <1>3, <3>1
  <2> QED BY <2>1, <2>2
<1>5. ASSUME NEW k \in DOMAIN t PROVE t[k] \in Elems(q)
  <2>1. k + 1 \in 1..Len(q) /\ t[k] = q[k + 1]
    BY <1>1, <1>2, <1>3
  <2> QED BY <1>2, <2>1 DEF Elems
<1>6. h \in Elems(q)
  BY <1>1, <1>2, <1>3 DEF Elems
<1>7. Elems(q) = Elems(t) \cup {h}
  <2>1. Elems(q) \subseteq Elems(t) \cup {h}
    BY <1>2, <1>4 DEF Elems
  <2>2. Elems(t) \subseteq Elems(q)
    BY <1>5 DEF Elems
  <2> QED BY <1>6, <2>1, <2>2
<1> QED BY <1>1, <1>3, <1>7

LEMMA TwiceElems ==
    ASSUME NEW S, NEW q \in Seq(S)
    PROVE  /\ q \o q \in Seq(S) /\ Len(q \o q) = 2 * Len(q) /\ Len(q) \in Nat
           /\ \A n \in 1..2 * Len(q) :
                (q \o q)[n] = IF n <= Len(q) THEN q[n] ELSE q[n - Len(q)]
           /\ Elems(q \o q) = Elems(q)
<1>1. /\ q \o q \in Seq(S) /\ Len(q \o q) = Len(q) + Len(q)
      /\ \A n \in 1..Len(q) + Len(q) :
            (q \o q)[n] = IF n <= Len(q) THEN q[n] ELSE q[n - Len(q)]
  BY ConcatProperties, Zenon
<1>2. PICK k, qq : k = Len(q) /\ qq = q \o q
  OBVIOUS
<1>3. k \in Nat /\ DOMAIN q = 1..k /\ DOMAIN qq = 1..2 * k /\ Len(qq) = 2 * k
  <2>1. k \in Nat
    BY <1>2, LenProperties
  <2> QED BY <1>1, <1>2, <2>1, LenProperties
<1>4. \A n \in 1..2 * k : qq[n] = IF n <= k THEN q[n] ELSE q[n - k]
  BY <1>1, <1>2, <1>3
<1>5. ASSUME NEW n \in 1..2 * k PROVE \E j \in 1..k : qq[n] = q[j]
  <2>1. CASE n <= k
    BY <1>3, <1>4, <2>1
  <2>2. CASE ~(n <= k)
    <3>1. n - k \in 1..k
      BY <1>3, <2>2
    <3> QED BY <1>4, <2>2, <3>1
  <2> QED BY <2>1, <2>2
<1>6. \A j \in 1..k : j \in 1..2 * k /\ qq[j] = q[j]
  BY <1>3, <1>4
<1>7. Elems(qq) = Elems(q)
  BY <1>3, <1>5, <1>6 DEF Elems
<1> QED BY <1>1, <1>2, <1>3, <1>4, <1>7

LEMMA OutstandingIs ==
    /\ Outstanding = Elems(queue) \cup loose \cup spawned
    /\ Outstanding' = Elems(queue') \cup loose' \cup spawned'
BY DEF Outstanding, Elems

LEMMA OutstandingNodes == TypeInv => \A n \in Outstanding : n \in Nodes
<1> SUFFICES ASSUME TypeInv PROVE \A n \in Outstanding : n \in Nodes
  OBVIOUS
<1>1. queue \in Seq(Nodes) /\ loose \in SUBSET Nodes /\ spawned \in SUBSET Nodes
  BY DEF TypeInv
<1>2. \A x \in DOMAIN queue : queue[x] \in Nodes
  BY <1>1, ElementOfSeq, LenProperties
<1> QED BY <1>1, <1>2 DEF Outstanding

LEMMA NodeIs ==
    ASSUME NEW n \in Nodes
    PROVE  /\ n.kind \in Kinds /\ n.number \in 0..MaxChanges
           /\ n.kind = "own" => n.list \in Lists
           /\ n.kind = "group" => n.member \in Members /\ n.join \in BOOLEAN
           /\ n.kind = "devices" =>
                 \/ n.tag = "update"
                 \/ n.tag \in {"add", "remove"} /\ n.device \in Devices /\ n.list \in Lists
                    /\ n.lid \in {"none", "device", "hash"}
BY DEF Nodes, Kinds, Numbers

LEMMA ListOfIs == ASSUME NEW S PROVE ListOf(S) \in Lists
BY DEF ListOf, Lists

(* A node arrives. *)
LEMMA ArriveResult ==
    ASSUME TypeInv, NEW node \in Nodes, Arrive(node)
    PROVE  /\ queue' \in Seq(Nodes) /\ Len(queue') <= QueueCap /\ loose' \in SUBSET Nodes
           /\ Elems(queue') \cup loose' = Elems(queue) \cup loose \cup {node}
           /\ \/ queue' = Append(queue, node) /\ loose' = loose
              \/ queue' = queue /\ loose' = loose \cup {node}
<1>1. CASE Len(queue) < QueueCap
  <2>1. queue' = Append(queue, node) /\ loose' = loose
    BY <1>1 DEF Arrive
  <2>2. Len(queue) \in Nat
    BY LenProperties DEF TypeInv
  <2> QED BY <1>1, <2>1, <2>2, AppendElems DEF TypeInv, BoundsOK
<1>2. CASE ~(Len(queue) < QueueCap)
  BY <1>2 DEF Arrive, TypeInv
<1> QED BY <1>1, <1>2

-----------------------------------------------------------------------------
(* The server. *)

LEMMA NotifyTypes ==
    ASSUME TypeInv, NEW kind \in Kinds, NEW node \in Nodes, Notify(kind, node),
           devices' \in [Users -> SUBSET Devices], members' \in SUBSET Members,
           past' \in [Users -> SUBSET Lists]
    PROVE  TypeInv'
<1>1. /\ queue' \in Seq(Nodes) /\ Len(queue') <= QueueCap /\ loose' \in SUBSET Nodes
  BY ArriveResult DEF Notify
<1>2. /\ youngest' = [youngest EXCEPT ![kind] = youngest[kind] + 1]
      /\ youngest["devices"] + youngest["own"] + youngest["group"] < MaxChanges
      /\ UNCHANGED <<spawned, cache, group, send, lookup, late, swapped, raced, reconnects>>
  BY DEF Notify, histVars
<1>3. /\ youngest' \in [Kinds -> Nat]
      /\ youngest'["devices"] + youngest'["own"] + youngest'["group"]
           = youngest["devices"] + youngest["own"] + youngest["group"] + 1
  <2>1. youngest \in [Kinds -> Nat] /\ youngest[kind] + 1 \in Nat
    BY DEF TypeInv
  <2>2. youngest' \in [Kinds -> Nat]
    BY <1>2, <2>1
  <2>3. PICK y, z : y = youngest /\ z = youngest'
    OBVIOUS
  <2>4. \A k \in Kinds : z[k] = (IF k = kind THEN y[k] + 1 ELSE y[k]) /\ y[k] \in Nat
    BY <1>2, <2>1, <2>3
  <2>5. z["devices"] + z["own"] + z["group"] = y["devices"] + y["own"] + y["group"] + 1
    <3>1. kind = "devices" \/ kind = "own" \/ kind = "group"
      BY DEF Kinds
    <3> QED BY <2>4, <3>1 DEF Kinds
  <2> QED BY <2>2, <2>3, <2>5
<1>4. youngest'["devices"] + youngest'["own"] + youngest'["group"] <= MaxChanges
  <2>1. /\ youngest["devices"] \in Nat /\ youngest["own"] \in Nat /\ youngest["group"] \in Nat
        /\ MaxChanges \in Nat
    BY DEF TypeInv, BoundsOK, Kinds
  <2> QED BY <1>2, <1>3, <2>1
<1>5. Complete(send)'
  BY <1>2 DEF TypeInv, Complete, Needed
<1> QED BY <1>1, <1>2, <1>3, <1>4, <1>5 DEF TypeInv, BoundsOK

(* The number of a change is within the bound. *)
LEMMA NextNumber ==
    ASSUME TypeInv, NEW kind \in Kinds,
           youngest["devices"] + youngest["own"] + youngest["group"] < MaxChanges
    PROVE  youngest[kind] + 1 \in Numbers /\ youngest[kind] \in Nat
<1>1. /\ youngest["devices"] \in Nat /\ youngest["own"] \in Nat /\ youngest["group"] \in Nat
      /\ MaxChanges \in Nat
  BY DEF TypeInv, BoundsOK, Kinds
<1> QED BY <1>1 DEF Kinds, Numbers

(* What a change at the server does, and the node that tells of it. *)
LEMMA ChangeDevicesIs ==
    ASSUME TypeInv, NEW u \in Users, NEW d \in Devices, ChangeDevices(u, d)
    PROVE  \E kind \in {"devices", "own"}, node \in Nodes, S \in SUBSET Devices :
              /\ devices' = [devices EXCEPT ![u] = S]
              /\ past' = [past EXCEPT ![u] = past[u] \cup {ListOf(S)}]
              /\ members' = members
              /\ Notify(kind, node)
              /\ (kind = "devices" <=> u = Peer) /\ (kind = "own" <=> u = "own")
              /\ node.kind = kind /\ node.number = youngest[kind] + 1 /\ node.list = ListOf(S)
              /\ kind = "devices" => node.tag # "update"
<1> DEFINE S == IF d \in devices[u] THEN devices[u] \ {d} ELSE devices[u] \cup {d}
<1>1. S \in SUBSET Devices
  BY DEF TypeInv
<1>2. /\ devices' = [devices EXCEPT ![u] = S] /\ members' = members
      /\ past' = [past EXCEPT ![u] = past[u] \cup {ListOf(S)}]
  BY DEF ChangeDevices
<1>3. ListOf(S) \in Lists
  BY ListOfIs
<1>4. youngest["devices"] + youngest["own"] + youngest["group"] < MaxChanges
  BY DEF ChangeDevices, Notify
<1>5. CASE u = Peer
  <2>1. PICK lid \in {"none", "device", "hash"}, tag \in {"add", "remove"} :
          Notify("devices", [kind |-> "devices", number |-> youngest["devices"] + 1,
                             device |-> d, tag |-> tag, list |-> ListOf(S), lid |-> lid])
    <3> HIDE DEF S
    <3> QED BY <1>5 DEF ChangeDevices, S
  <2>2. youngest["devices"] + 1 \in Numbers
    BY <1>4, NextNumber DEF Kinds
  <2>3. PICK node : node = [kind |-> "devices", number |-> youngest["devices"] + 1,
                            device |-> d, tag |-> tag, list |-> ListOf(S), lid |-> lid]
    OBVIOUS
  <2> HIDE DEF S
  <2>4. node \in Nodes
    BY <1>3, <2>2, <2>3 DEF Nodes
  <2> QED BY <1>1, <1>2, <1>5, <2>1, <2>3, <2>4 DEF Peer
<1>6. CASE u # Peer
  <2>1. u = "own"
    BY <1>6 DEF Users
  <2>2. Notify("own", [kind |-> "own", number |-> youngest["own"] + 1, list |-> ListOf(S)])
    <3> HIDE DEF S
    <3> QED BY <1>6 DEF ChangeDevices, S
  <2>3. youngest["own"] + 1 \in Numbers
    BY <1>4, NextNumber DEF Kinds
  <2>4. PICK node : node = [kind |-> "own", number |-> youngest["own"] + 1, list |-> ListOf(S)]
    OBVIOUS
  <2> HIDE DEF S
  <2>5. node \in Nodes
    BY <1>3, <2>3, <2>4 DEF Nodes
  <2> QED BY <1>1, <1>2, <2>1, <2>2, <2>4, <2>5 DEF Peer
<1> QED BY <1>5, <1>6

LEMMA OtherChangeIs ==
    ASSUME TypeInv, UpdateDevices \/ \E m \in Members : ChangeMembers(m)
    PROVE  /\ UNCHANGED <<devices, past>>
           /\ \E kind \in {"devices", "group"}, node \in Nodes :
                /\ Notify(kind, node)
                /\ node.kind = kind /\ node.number = youngest[kind] + 1
                /\ kind = "devices" => node.tag = "update" /\ members' = members
                /\ kind = "group" =>
                     /\ members' \in SUBSET Members
                     /\ node.join <=> node.member \in members'
                     /\ \A m \in Members : m # node.member => (m \in members' <=> m \in members)
<1>1. youngest["devices"] + youngest["own"] + youngest["group"] < MaxChanges
  BY DEF UpdateDevices, ChangeMembers, Notify
<1>2. youngest["devices"] + 1 \in Numbers /\ youngest["group"] + 1 \in Numbers
  BY <1>1, NextNumber DEF Kinds
<1>3. CASE UpdateDevices
  <2>1. PICK node : node = [kind |-> "devices", number |-> youngest["devices"] + 1,
                            tag |-> "update"]
    OBVIOUS
  <2>2. node \in Nodes
    BY <1>2, <2>1 DEF Nodes
  <2> QED BY <1>3, <2>1, <2>2 DEF UpdateDevices
<1>4. ASSUME NEW m \in Members, ChangeMembers(m)
      PROVE  /\ UNCHANGED <<devices, past>>
             /\ \E node \in Nodes :
                  /\ Notify("group", node)
                  /\ node.kind = "group" /\ node.number = youngest["group"] + 1
                  /\ members' \in SUBSET Members
                  /\ node.join <=> node.member \in members'
                  /\ \A x \in Members : x # node.member => (x \in members' <=> x \in members)
  <2>1. PICK node : node = [kind |-> "group", number |-> youngest["group"] + 1, member |-> m,
                            join |-> m \notin members]
    OBVIOUS
  <2>2. node \in Nodes
    BY <1>2, <2>1 DEF Nodes
  <2>3. members' = IF m \in members THEN members \ {m} ELSE members \cup {m}
    BY <1>4 DEF ChangeMembers
  <2>4. members' \in SUBSET Members
    BY <2>3 DEF TypeInv
  <2>5. m \in members' <=> m \notin members
    BY <2>3
  <2>6. \A x \in Members : x # m => (x \in members' <=> x \in members)
    BY <2>3
  <2> QED BY <1>4, <2>1, <2>2, <2>4, <2>5, <2>6 DEF ChangeMembers
<1> QED BY <1>3, <1>4

LEMMA ServerTypes == TypeInv /\ ServerStep => TypeInv'
<1> SUFFICES ASSUME TypeInv, ServerStep PROVE TypeInv'
  OBVIOUS
<1>1. ASSUME NEW u \in Users, NEW d \in Devices, ChangeDevices(u, d) PROVE TypeInv'
  <2>1. PICK kind \in {"devices", "own"}, node \in Nodes, S \in SUBSET Devices :
              /\ devices' = [devices EXCEPT ![u] = S]
              /\ past' = [past EXCEPT ![u] = past[u] \cup {ListOf(S)}]
              /\ members' = members
              /\ Notify(kind, node)
    BY <1>1, ChangeDevicesIs
  <2>2. devices' \in [Users -> SUBSET Devices] /\ members' \in SUBSET Members
    BY <2>1 DEF TypeInv
  <2>3. past' \in [Users -> SUBSET Lists]
    BY <2>1, ListOfIs DEF TypeInv
  <2> QED BY <2>1, <2>2, <2>3, NotifyTypes DEF Kinds
<1>2. CASE UpdateDevices \/ \E m \in Members : ChangeMembers(m)
  <2>1. PICK kind \in {"devices", "group"}, node \in Nodes :
                /\ Notify(kind, node)
                /\ kind = "devices" => members' = members
                /\ kind = "group" => members' \in SUBSET Members
    BY <1>2, OtherChangeIs
  <2>2. UNCHANGED <<devices, past>>
    BY <1>2, OtherChangeIs
  <2>3. members' \in SUBSET Members
    BY <2>1 DEF TypeInv
  <2>4. /\ devices' \in [Users -> SUBSET Devices] /\ past' \in [Users -> SUBSET Lists]
    BY <2>2 DEF TypeInv
  <2> QED BY <2>1, <2>3, <2>4, NotifyTypes DEF Kinds
<1> QED BY <1>1, <1>2 DEF ServerStep, Users

-----------------------------------------------------------------------------
(* The handlers. *)

LEMMA EnterTypes == ASSUME TypeInv, NEW node \in loose, Enter(node) PROVE TypeInv'
<1>1. /\ queue' = Append(queue, node) /\ loose' = loose \ {node} /\ Len(queue) < QueueCap
      /\ swapped' = (swapped \/ (node.kind = "group" /\ node.number < youngest["group"]))
      /\ UNCHANGED <<devices, members, past, youngest, spawned, cache, group, send, lookup,
                     late, raced, reconnects>>
  BY DEF Enter, HeldUp, serverVars
<1>2. node \in Nodes /\ Len(queue) \in Nat
  BY LenProperties DEF TypeInv
<1>3. queue' \in Seq(Nodes) /\ Len(queue') <= QueueCap
  BY <1>1, <1>2, AppendElems DEF TypeInv, BoundsOK
<1>4. swapped' \in BOOLEAN
  BY <1>1
<1>5. Complete(send)'
  BY <1>1 DEF TypeInv, Complete, Needed
<1> QED BY <1>1, <1>3, <1>4, <1>5 DEF TypeInv

(* The head of the queue is taken out. *)
LEMMA TakenOut ==
    ASSUME TypeInv, queue # <<>>, queue' = Tail(queue)
    PROVE  /\ Head(queue) \in Nodes /\ queue' \in Seq(Nodes) /\ Len(queue') <= QueueCap
           /\ Elems(queue) = Elems(queue') \cup {Head(queue)}
<1>1. /\ Head(queue) \in Nodes /\ Len(queue) \in Nat \ {0} /\ Tail(queue) \in Seq(Nodes)
      /\ Len(Tail(queue)) = Len(queue) - 1
      /\ Elems(queue) = Elems(Tail(queue)) \cup {Head(queue)}
  BY TailElems DEF TypeInv
<1>2. Len(queue') <= QueueCap
  BY <1>1 DEF TypeInv, BoundsOK
<1> QED BY <1>1, <1>2

LEMMA HandledIs ==
    ASSUME TypeInv, NEW n \in Nodes, Handled(n)
    PROVE  /\ late' \in SUBSET Kinds
           /\ \A k \in Kinds : k # n.kind => (k \in late' <=> k \in late)
           /\ n.kind \notin late' => n.number = youngest[n.kind]
BY NodeIs DEF Handled, TypeInv

(* A node that is handled leaves the queue or its goroutine. *)
LEMMA Taken ==
    ASSUME TypeInv, NEW n, FromLoop(n) \/ OnItsOwn(n), loose' = loose
    PROVE  /\ n \in Nodes /\ queue' \in Seq(Nodes) /\ Len(queue') <= QueueCap
           /\ spawned' \in SUBSET Nodes /\ swapped' \in BOOLEAN
           /\ n \in Outstanding /\ Outstanding = Outstanding' \cup {n}
           /\ n.kind # "group" => swapped' = swapped
<1>1. CASE FromLoop(n)
  <2>1. /\ queue # <<>> /\ n = Head(queue) /\ queue' = Tail(queue)
        /\ spawned' = spawned /\ swapped' = swapped
    BY <1>1 DEF FromLoop
  <2>2. /\ n \in Nodes /\ queue' \in Seq(Nodes) /\ Len(queue') <= QueueCap
        /\ Elems(queue) = Elems(queue') \cup {n}
    BY <2>1, TakenOut
  <2> QED BY <2>1, <2>2, OutstandingIs DEF TypeInv
<1>2. CASE OnItsOwn(n)
  <2>1. /\ n \in spawned /\ spawned' = spawned \ {n} /\ queue' = queue
        /\ swapped' = (swapped \/ (n.kind = "group" /\ n.number < youngest["group"]))
    BY <1>2 DEF OnItsOwn, HeldUp
  <2>2. n \in Outstanding /\ Outstanding = Outstanding' \cup {n}
    BY <2>1, OutstandingIs
  <2>3. swapped' \in BOOLEAN /\ (n.kind # "group" => swapped' = swapped)
    BY <2>1 DEF TypeInv
  <2> QED BY <2>1, <2>2, <2>3 DEF TypeInv
<1> QED BY <1>1, <1>2

LEMMA HandleDevicesIs ==
    ASSUME TypeInv, NEW n, HandleDevices(n)
    PROVE  /\ n \in Nodes /\ n.kind = "devices" /\ (FromLoop(n) \/ OnItsOwn(n))
           /\ ~DevicesLocked /\ Handled(n)
           /\ cache' \in [Addresses -> Lists \cup {None}]
           /\ \A a \in {"ownPN", "ownLID"} : cache'[a] = cache[a]
           /\ cache'["peerPN"] = None \/ (n.tag # "update" /\ cache'["peerPN"] = n.list)
           /\ \/ cache'["peerLID"] \in {None, cache["peerLID"]}
              \/ n.tag # "update" /\ cache'["peerLID"] = n.list
              \/ /\ cache["peerLID"] # None /\ n.device \in Devices
                 /\ cache'["peerLID"] = DeletedInPlace(cache["peerLID"], n.device)
<1>1. n.kind = "devices" /\ (FromLoop(n) \/ OnItsOwn(n)) /\ ~DevicesLocked /\ Handled(n)
  BY DEF HandleDevices
<1>2. n \in Nodes
  BY <1>1, Taken DEF HandleDevices
<1>3. /\ n.tag # "update" => n.list \in Lists /\ n.device \in Devices
      /\ cache \in [Addresses -> Lists \cup {None}]
  BY <1>1, <1>2, NodeIs DEF TypeInv
<1>4. CASE cache["peerPN"] = None
  <2>1. cache' = cache
    BY <1>4 DEF HandleDevices, UpdateLists
  <2> QED BY <1>1, <1>2, <1>3, <1>4, <2>1
<1>5. CASE cache["peerPN"] # None /\ n.tag = "update"
  <2>1. cache' = [cache EXCEPT !["peerPN"] = None]
    BY <1>5 DEF HandleDevices, UpdateLists
  <2>2. /\ cache' \in [Addresses -> Lists \cup {None}] /\ cache'["peerPN"] = None
        /\ \A a \in {"ownPN", "ownLID", "peerLID"} : cache'[a] = cache[a]
    BY <1>3, <2>1 DEF Addresses
  <2> QED BY <1>1, <1>2, <2>2
<1>6. CASE cache["peerPN"] # None /\ n.tag # "update"
  <2> DEFINE old == cache["peerLID"]
  <2>1. \A list : CheckedList(list, n) \in {None, n.list}
    BY DEF CheckedList
  <2>2. LIDList(old, n) \in {None, n.list, old}
        \/ (old # None /\ LIDList(old, n) = DeletedInPlace(old, n.device))
    BY <2>1 DEF LIDList
  <2>3. old \in Lists \cup {None} /\ n.list \in Lists /\ n.device \in Devices
    BY <1>3, <1>6 DEF Addresses
  <2>4. old # None => DeletedInPlace(old, n.device) \in Lists
    <3> SUFFICES ASSUME old \in Lists PROVE DeletedInPlace(old, n.device) \in Lists
      BY <2>3
    <3>1. old[n.device] \in Nat
      BY <2>3 DEF Lists, Entries
    <3>2. \A x \in Nat : x + old[n.device] \in Nat /\ 0 \in Nat
      BY <3>1
    <3> QED BY <2>3, <3>1, <3>2 DEF DeletedInPlace, Lists, Entries
  <2>5. PICK c, d : /\ cache' = [cache EXCEPT !["peerPN"] = c, !["peerLID"] = d]
                    /\ c \in {None, n.list}
                    /\ d \in {None, n.list, old}
                       \/ (old # None /\ d = DeletedInPlace(old, n.device))
    <3>1. cache' = [cache EXCEPT !["peerPN"] = CheckedList(cache["peerPN"], n),
                                 !["peerLID"] = LIDList(old, n)]
      BY <1>3, <1>6 DEF HandleDevices, UpdateLists, Addresses
    <3> QED BY <2>1, <2>2, <3>1
  <2>6. c \in Lists \cup {None} /\ d \in Lists \cup {None}
    BY <2>3, <2>4, <2>5
  <2>7. /\ cache' \in [Addresses -> Lists \cup {None}] /\ cache'["peerPN"] = c
        /\ cache'["peerLID"] = d /\ \A a \in {"ownPN", "ownLID"} : cache'[a] = cache[a]
    BY <1>3, <2>5, <2>6 DEF Addresses
  <2> QED BY <1>1, <1>2, <1>6, <2>3, <2>5, <2>7
<1> QED BY <1>4, <1>5, <1>6

LEMMA HandleDevicesTypes == ASSUME TypeInv, NEW n, HandleDevices(n) PROVE TypeInv'
<1>1. /\ n \in Nodes /\ Handled(n) /\ (FromLoop(n) \/ OnItsOwn(n))
      /\ cache' \in [Addresses -> Lists \cup {None}]
  BY HandleDevicesIs
<1>2. UNCHANGED <<devices, members, past, youngest, loose, group, send, lookup, raced,
                  reconnects>>
  BY DEF HandleDevices, serverVars
<1>3. /\ queue' \in Seq(Nodes) /\ Len(queue') <= QueueCap /\ late' \in SUBSET Kinds
      /\ spawned' \in SUBSET Nodes /\ swapped' \in BOOLEAN
  BY <1>1, <1>2, Taken, HandledIs
<1>4. Complete(send)'
  BY <1>2 DEF TypeInv, Complete, Needed
<1> QED BY <1>1, <1>2, <1>3, <1>4 DEF TypeInv

LEMMA SpawnTypes == TypeInv /\ Spawn => TypeInv'
<1> SUFFICES ASSUME TypeInv, Spawn PROVE TypeInv'
  OBVIOUS
<1>1. /\ queue # <<>> /\ queue' = Tail(queue) /\ spawned' = spawned \cup {Head(queue)}
      /\ UNCHANGED <<devices, members, past, youngest, loose, cache, group, send, lookup,
                     late, swapped, raced, reconnects>>
  BY DEF Spawn, serverVars, histVars
<1>2. Head(queue) \in Nodes /\ queue' \in Seq(Nodes) /\ Len(queue') <= QueueCap
  BY <1>1, TakenOut
<1>3. Complete(send)'
  BY <1>1 DEF TypeInv, Complete, Needed
<1> QED BY <1>1, <1>2, <1>3 DEF TypeInv

LEMMA HandleGroupIs ==
    ASSUME TypeInv, NEW n, HandleGroup(n)
    PROVE  /\ n \in Nodes /\ n.kind = "group" /\ (FromLoop(n) \/ OnItsOwn(n))
           /\ ~GroupLocked /\ Handled(n)
           /\ group' \in (SUBSET Members) \cup {None}
           /\ group = None => group' = None
           /\ group # None => \A m \in Members :
                    m \in group' <=> (IF m = n.member THEN n.join ELSE m \in group)
           /\ raced' = (raced \/ (lookup.step = "store" /\ ~lookup.locked))
<1>1. /\ n.kind = "group" /\ (FromLoop(n) \/ OnItsOwn(n)) /\ ~GroupLocked /\ Handled(n)
      /\ raced' = (raced \/ (lookup.step = "store" /\ ~lookup.locked))
      /\ group' = IF group = None THEN None
                  ELSE IF n.join THEN group \cup {n.member} ELSE group \ {n.member}
  BY DEF HandleGroup, UpdateMembers
<1>2. n \in Nodes
  BY <1>1, Taken DEF HandleGroup
<1>3. n.member \in Members /\ n.join \in BOOLEAN
  BY <1>1, <1>2, NodeIs
<1>4. group' \in (SUBSET Members) \cup {None}
  BY <1>1, <1>3 DEF TypeInv
<1>5. group # None => \A m \in Members :
        m \in group' <=> (IF m = n.member THEN n.join ELSE m \in group)
  BY <1>1, <1>3
<1> QED BY <1>1, <1>2, <1>4, <1>5

LEMMA HandleGroupTypes == ASSUME TypeInv, NEW n, HandleGroup(n) PROVE TypeInv'
<1>1. /\ n \in Nodes /\ Handled(n) /\ (FromLoop(n) \/ OnItsOwn(n))
      /\ group' \in (SUBSET Members) \cup {None}
      /\ raced' = (raced \/ (lookup.step = "store" /\ ~lookup.locked))
  BY HandleGroupIs
<1>2. UNCHANGED <<devices, members, past, youngest, loose, cache, send, lookup, reconnects>>
  BY DEF HandleGroup, serverVars
<1>3. /\ queue' \in Seq(Nodes) /\ Len(queue') <= QueueCap /\ late' \in SUBSET Kinds
      /\ spawned' \in SUBSET Nodes /\ swapped' \in BOOLEAN /\ raced' \in BOOLEAN
  BY <1>1, <1>2, Taken, HandledIs
<1>4. Complete(send)'
  BY <1>2 DEF TypeInv, Complete, Needed
<1> QED BY <1>1, <1>2, <1>3, <1>4 DEF TypeInv

LEMMA HandleOwnIs ==
    ASSUME TypeInv, NEW n, HandleOwn(n)
    PROVE  /\ n \in Nodes /\ n.kind = "own" /\ OnItsOwn(n) /\ ~DevicesLocked /\ Handled(n)
           /\ cache' \in [Addresses -> Lists \cup {None}]
           /\ cache'["ownPN"] \in {None, n.list}
           /\ \A a \in {"peerPN", "peerLID", "ownLID"} : cache'[a] = cache[a]
           /\ UNCHANGED <<devices, members, past, youngest, loose, group, send, lookup,
                          raced, reconnects>>
<1>1. /\ n.kind = "own" /\ OnItsOwn(n) /\ ~DevicesLocked /\ Handled(n)
      /\ UNCHANGED <<devices, members, past, youngest, loose, group, send, lookup,
                     raced, reconnects>>
  BY DEF HandleOwn, serverVars
<1>2. n \in Nodes
  BY <1>1, Taken
<1>3. n.list \in Lists
  BY <1>1, <1>2, NodeIs
<1>4. PICK c \in {None, n.list} : cache' = [cache EXCEPT !["ownPN"] = c]
  BY DEF HandleOwn, TypeInv, Addresses
<1>5. /\ cache' \in [Addresses -> Lists \cup {None}]
      /\ cache'["ownPN"] \in {None, n.list}
      /\ \A a \in {"peerPN", "peerLID", "ownLID"} : cache'[a] = cache[a]
  BY <1>3, <1>4 DEF TypeInv, Addresses
<1> QED BY <1>1, <1>2, <1>5

LEMMA HandleOwnTypes == ASSUME TypeInv, NEW n, HandleOwn(n) PROVE TypeInv'
<1>1. /\ queue' \in Seq(Nodes) /\ Len(queue') <= QueueCap /\ late' \in SUBSET Kinds
      /\ spawned' \in SUBSET Nodes /\ swapped' \in BOOLEAN
  BY HandleOwnIs, HandledIs, Taken
<1>2. Complete(send)'
  BY HandleOwnIs DEF TypeInv, Complete, Needed
<1> QED BY <1>1, <1>2, HandleOwnIs DEF TypeInv

(* Sent again, every node is where it was, and again at the end of the      *)
(* queue or, when that is full, in a goroutine.                             *)
LEMMA ReconnectIs ==
    ASSUME TypeInv, Reconnect
    PROVE  /\ queue' \in Seq(Nodes) /\ Len(queue') <= QueueCap /\ loose' \in SUBSET Nodes
           /\ Elems(queue') = Elems(queue) /\ Outstanding' = Outstanding
           /\ loose \subseteq loose' /\ spawned' = spawned
           /\ queue' = queue \o queue \/ queue' = queue
           /\ queue' = queue \o queue => loose' = loose \/ queue' = queue
<1>1. spawned' = spawned
  BY DEF Reconnect
<1>2. Elems(queue) \subseteq Nodes
  <2>1. \A x \in DOMAIN queue : queue[x] \in Nodes
    BY ElementOfSeq, LenProperties DEF TypeInv
  <2> QED BY <2>1 DEF Elems
<1>3. CASE 2 * Len(queue) <= QueueCap /\ queue' = queue \o queue /\ loose' = loose
  <2>1. queue' \in Seq(Nodes) /\ Len(queue') <= QueueCap /\ Elems(queue') = Elems(queue)
    BY <1>3, TwiceElems DEF TypeInv
  <2> QED BY <1>1, <1>3, <2>1, OutstandingIs DEF TypeInv
<1>4. CASE queue' = queue /\ loose' = loose \cup Elems(queue)
  BY <1>1, <1>2, <1>4, OutstandingIs DEF TypeInv
<1> QED BY <1>3, <1>4 DEF Reconnect, Elems

LEMMA ReconnectTypes == TypeInv /\ Reconnect => TypeInv'
<1> SUFFICES ASSUME TypeInv, Reconnect PROVE TypeInv'
  OBVIOUS
<1>1. /\ reconnects' = reconnects + 1 /\ reconnects < MaxReconnects
      /\ UNCHANGED <<devices, members, past, youngest, spawned, cache, group, send,
                     lookup, late, swapped, raced>>
  BY DEF Reconnect, serverVars, histVars
<1>2. reconnects' \in 0..MaxReconnects
  BY <1>1 DEF TypeInv, BoundsOK
<1>3. Complete(send)'
  BY <1>1 DEF TypeInv, Complete, Needed
<1> QED BY <1>1, <1>2, <1>3, ReconnectIs DEF TypeInv

-----------------------------------------------------------------------------
(* Lookups and messages. *)

LEMMA LookupTypes ==
    TypeInv /\ ((\E locked \in BOOLEAN : LookupAnswer(locked)) \/ LookupStore) => TypeInv'
<1> SUFFICES ASSUME TypeInv, (\E locked \in BOOLEAN : LookupAnswer(locked)) \/ LookupStore
             PROVE  TypeInv'
  OBVIOUS
<1>1. UNCHANGED <<devices, members, past, youngest, queue, loose, spawned, cache, send,
                  late, swapped, raced, reconnects>>
  BY DEF LookupAnswer, LookupStore, serverVars, queueVars, histVars
<1>2. lookup' \in [step : {"idle", "store"}, locked : BOOLEAN, answer : SUBSET Members]
  <2>1. members \in SUBSET Members
        /\ lookup \in [step : {"idle", "store"}, locked : BOOLEAN, answer : SUBSET Members]
    BY DEF TypeInv
  <2>2. NoLookup \in [step : {"idle", "store"}, locked : BOOLEAN, answer : SUBSET Members]
    BY DEF NoLookup
  <2>3. ASSUME NEW locked \in BOOLEAN, LookupAnswer(locked)
        PROVE  lookup' \in [step : {"idle", "store"}, locked : BOOLEAN, answer : SUBSET Members]
    BY <2>1, <2>3 DEF LookupAnswer
  <2> QED BY <2>2, <2>3 DEF LookupStore
<1>3. group' \in (SUBSET Members) \cup {None}
  BY DEF LookupAnswer, LookupStore, TypeInv
<1>4. Complete(send)'
  BY <1>1 DEF TypeInv, Complete, Needed
<1> QED BY <1>1, <1>2, <1>3, <1>4 DEF TypeInv

LEMMA IdleIs == Idle \in Sends /\ Idle.lists = NoLists /\ Idle.step = "idle" /\ Idle.to = "peerPN"
<1>1. NoLists \in [Addresses -> Lists \cup {None}]
  BY DEF NoLists
<1> QED BY <1>1 DEF Idle, Sends, Targets

LEMMA CurrentIs == ASSUME TypeInv, NEW a \in Addresses PROVE Current(a) \in Lists
BY ListOfIs DEF Current

LEMMA SendingTypes ==
    TypeInv /\ ((\E to \in Targets : SendStart(to)) \/ Sending \/ SendFails) => TypeInv'
<1> SUFFICES ASSUME TypeInv, (\E to \in Targets : SendStart(to)) \/ Sending \/ SendFails
             PROVE  TypeInv'
  OBVIOUS
<1>1. UNCHANGED <<devices, members, past, youngest, queue, loose, spawned, lookup,
                  late, swapped, raced, reconnects>>
  BY DEF SendStart, Sending, GetUserDevices, UsyncStore, Upload, Finish, SendFails,
         serverVars, queueVars, histVars
<1>2. send \in Sends /\ cache \in [Addresses -> Lists \cup {None}]
      /\ group \in (SUBSET Members) \cup {None}
  BY DEF TypeInv
<1>3. ASSUME NEW to \in Targets, SendStart(to) PROVE TypeInv'
  <2>1. PICK S \in SUBSET Members :
          send' = [Idle EXCEPT !.step = "devices", !.to = to, !.members = S]
    <3>1. (IF to = "group" THEN group ELSE {}) \in SUBSET Members
      <4>1. to = "group" => group \in SUBSET Members
        BY <1>2, <1>3 DEF SendStart
      <4> QED BY <4>1
    <3> QED BY <1>3, <3>1 DEF SendStart
  <2>2. send' \in Sends /\ send'.step = "devices" /\ UNCHANGED <<cache, group>>
    BY <1>3, <2>1, IdleIs DEF SendStart, Sends
  <2> QED BY <1>1, <2>2 DEF TypeInv, Complete
<1>4. CASE GetUserDevices
  <2>1. PICK lists :
          lists = [a \in Addresses |-> IF a \notin Needed(send) THEN None
                                       ELSE IF cache[a] # None THEN cache[a] ELSE Current(a)]
    OBVIOUS
  <2>2. \E step \in {"upload", "store"} : send' = [send EXCEPT !.step = step, !.lists = lists]
    BY <1>4, <2>1 DEF GetUserDevices
  <2>3. lists \in [Addresses -> Lists \cup {None}]
    BY <1>2, <2>1, CurrentIs
  <2>4. /\ send' \in Sends /\ UNCHANGED <<cache, group>>
        /\ send'.lists = lists /\ send'.to = send.to /\ send'.members = send.members
    BY <1>2, <1>4, <2>2, <2>3 DEF GetUserDevices, Sends
  <2>5. Needed(send') = Needed(send) /\ Needed(send) \subseteq Addresses
    BY <1>2, <2>4 DEF Needed, Addresses, Sends, Targets
  <2>6. \A a \in Needed(send') : lists[a] # None
    <3> TAKE a \in Needed(send')
    <3>1. a \in Addresses /\ Current(a) # None
      BY <2>5, CurrentIs, NoneAssumption
    <3> QED BY <2>1, <2>5, <3>1
  <2> QED BY <1>1, <2>4, <2>6 DEF TypeInv, Complete
<1>5. CASE UsyncStore
  <2>1. /\ cache' \in [Addresses -> Lists \cup {None}] /\ send' \in Sends /\ group' = group
        /\ send.step = "store" /\ send'.lists = send.lists
        /\ send'.to = send.to /\ send'.members = send.members
    BY <1>2, <1>5 DEF UsyncStore, Sends
  <2>2. Needed(send') = Needed(send)
    BY <2>1 DEF Needed
  <2>3. Complete(send)'
    BY <2>1, <2>2 DEF TypeInv, Complete
  <2> QED BY <1>1, <2>1, <2>3 DEF TypeInv
<1>6. CASE Upload
  <2>1. PICK match \in BOOLEAN :
          send' = [Idle EXCEPT !.step = "answer", !.to = send.to, !.match = match]
    BY <1>6 DEF Upload
  <2>2. send' \in Sends /\ send'.step = "answer" /\ UNCHANGED <<cache, group>>
    BY <1>2, <1>6, <2>1, IdleIs DEF Upload, Sends
  <2> QED BY <1>1, <2>2 DEF TypeInv, Complete
<1>7. CASE Finish
  <2>1. /\ send' = Idle /\ group' \in {group, None}
        /\ cache' = cache \/ cache' = [cache EXCEPT ![send.to] = None]
    BY <1>7 DEF Finish
  <2>2. cache' \in [Addresses -> Lists \cup {None}]
    BY <1>2, <2>1
  <2>3. send' \in Sends /\ Complete(send)'
    BY <2>1, IdleIs DEF Complete
  <2>4. group' \in (SUBSET Members) \cup {None}
    BY <1>2, <2>1
  <2> QED BY <1>1, <2>2, <2>3, <2>4 DEF TypeInv
<1>8. CASE SendFails
  BY <1>1, <1>2, <1>8, IdleIs DEF SendFails, TypeInv, Complete
<1> QED BY <1>3, <1>4, <1>5, <1>6, <1>7, <1>8 DEF Sending

-----------------------------------------------------------------------------
(* Device lists: what a notification tells was true, and the one with the   *)
(* youngest number tells what is true now.                                  *)

Told(n)   == IF n.kind = "own" THEN "own" ELSE Peer
HasList(n) == n.kind = "own" \/ (n.kind = "devices" /\ n.tag # "update")

Known(n) ==
    /\ n.number <= youngest[n.kind]
    /\ HasList(n) => n.list \in past[Told(n)]
    /\ (HasList(n) /\ n.number = youngest[n.kind]) => n.list = ListOf(devices[Told(n)])

Was(a, list)  == list \in past[UserOf(a)] \/ (a = "peerLID" /\ Emptied(list))
Were(lists) == \A a \in Addresses : lists[a] = None \/ Was(a, lists[a])

Fresh(k, a) ==
    Drained(k) => /\ cache[a] \in {None, Current(a)}
                  /\ send.step = "store" => send.lists[a] \in {None, Current(a)}

ListInv ==
    /\ \A n \in Outstanding : Known(n)
    /\ \A a \in Addresses : Current(a) \in past[UserOf(a)]
    /\ Were(cache) /\ Were(send.lists)
    /\ Fresh("devices", "peerPN") /\ Fresh("own", "ownPN")

(* No list is stored or becomes true, and no list in use gets older. *)
LEMMA FreshStays ==
    ASSUME NEW k, NEW a, Fresh(k, a),
           \A n \in Outstanding : n.kind = k => n \in Outstanding',
           k \notin late' => k \notin late, UNCHANGED Current(a),
           Drained(k) => /\ cache'[a] \in {None, cache[a], Current(a)}
                         /\ send'.step = "store" =>
                              \/ send'.lists[a] \in {None, cache[a], Current(a)}
                              \/ send.step = "store" /\ send'.lists[a] = send.lists[a]
    PROVE  Fresh(k, a)'
<1>1. Drained(k)' => Drained(k)
  BY DEF Drained
<1> QED BY <1>1 DEF Fresh

(* The same for everything that is said of lists. *)
LEMMA ListsStay ==
    ASSUME ListInv, UNCHANGED <<devices, past, youngest, late, cache>>,
           Outstanding' = Outstanding,
           \A a \in Addresses :
              \/ send'.lists[a] \in {None, cache[a], Current(a)}
              \/ send'.lists[a] = send.lists[a] /\ (send'.step = "store" => send.step = "store")
    PROVE  ListInv'
<1>1. \A n \in Outstanding' : Known(n)'
  BY DEF ListInv, Known
<1>2. Were(cache)' /\ Were(send.lists)' /\ \A a \in Addresses : (Current(a) \in past[UserOf(a)])'
  BY DEF ListInv, Were, Was, Emptied, Current
<1>3. \A a : Current(a)' = Current(a)
  BY DEF Current
<1>4. ASSUME NEW k, NEW a \in Addresses, Fresh(k, a) PROVE Fresh(k, a)'
  BY <1>3, <1>4, FreshStays
<1>5. Fresh("devices", "peerPN")' /\ Fresh("own", "ownPN")'
  BY <1>4 DEF ListInv, Addresses
<1> QED BY <1>1, <1>2, <1>5 DEF ListInv

-----------------------------------------------------------------------------
LEMMA NotifyLists ==
    ASSUME TypeInv, ListInv, NEW kind \in Kinds, NEW node \in Nodes, Notify(kind, node),
           node.kind = kind, node.number = youngest[kind] + 1,
           \A u \in Users : past[u] \subseteq past'[u] /\ ListOf(devices'[u]) \in past'[u],
           \A u \in Users : devices'[u] = devices[u]
                            \/ (kind = "devices" /\ u = Peer) \/ (kind = "own" /\ u = "own"),
           HasList(node) => node.list = ListOf(devices'[Told(node)])
    PROVE  ListInv'
<1>1. /\ youngest' = [youngest EXCEPT ![kind] = youngest[kind] + 1]
      /\ UNCHANGED <<spawned, cache, send, late>>
  BY DEF Notify, histVars
<1>2. Outstanding' = Outstanding \cup {node}
  <2>1. Elems(queue') \cup loose' = Elems(queue) \cup loose \cup {node}
    BY ArriveResult DEF Notify
  <2> QED BY <1>1, <2>1, OutstandingIs
<1>3. /\ \A k \in Kinds : youngest[k] \in Nat
      /\ youngest'[kind] = youngest[kind] + 1
      /\ \A k \in Kinds : k # kind => youngest'[k] = youngest[k]
  BY <1>1 DEF TypeInv
<1>4. ASSUME NEW n \in Outstanding PROVE Known(n)'
  <2>1. n \in Nodes /\ Known(n)
    BY OutstandingNodes DEF ListInv
  <2>2. n.kind \in Kinds /\ n.number \in Nat
    <3>1. n.kind \in Kinds /\ n.number \in 0..MaxChanges
      BY <2>1, NodeIs
    <3> QED BY <3>1 DEF TypeInv, BoundsOK
  <2>3. /\ n.number <= youngest[n.kind] /\ youngest[n.kind] \in Nat /\ youngest[kind] \in Nat
    BY <1>3, <2>1, <2>2 DEF Known
  <2>4. /\ n.number <= youngest'[n.kind]
        /\ n.number = youngest'[n.kind] => n.kind # kind /\ n.number = youngest[n.kind]
    BY <1>3, <2>2, <2>3
  <2>5. Told(n) \in Users
    BY DEF Told, Users
  <2>6. HasList(n) => n.list \in past'[Told(n)]
    BY <2>1, <2>5 DEF Known
  <2>7. ASSUME HasList(n), n.number = youngest'[n.kind]
        PROVE  n.list = ListOf(devices'[Told(n)])
    <3>1. n.kind # kind /\ n.number = youngest[n.kind] /\ n.kind \in {"devices", "own"}
      BY <2>4, <2>7 DEF HasList
    <3>2. devices'[Told(n)] = devices[Told(n)]
      BY <2>5, <3>1 DEF Told, Peer
    <3> QED BY <2>1, <2>7, <3>1, <3>2 DEF Known
  <2> QED BY <2>4, <2>6, <2>7 DEF Known, Told, HasList
<1>5. Known(node)'
  <2>1. node.number <= youngest'[node.kind]
    BY <1>3
  <2>2. Told(node) \in Users
    BY DEF Told, Users
  <2> QED BY <2>1, <2>2 DEF Known, Told, HasList
<1>6. /\ Were(cache)' /\ Were(send.lists)'
      /\ \A a \in Addresses : (Current(a) \in past[UserOf(a)])'
  <2>1. Peer \in Users /\ \A a \in Addresses : UserOf(a) \in Users
    BY DEF UserOf, Users
  <2>2. \A l : \A a \in Addresses : Was(a, l) =>
            l \in past'[UserOf(a)]
            \/ (a = "peerLID" /\ l[Blank] > 0
                 /\ \E had \in past'[Peer] : \A d \in Devices : l[d] <= had[d])
    BY <2>1 DEF Was, Emptied
  <2>3. \A a \in Addresses : (Current(a) \in past[UserOf(a)])'
    BY <2>1 DEF Current
  <2> QED BY <1>1, <2>2, <2>3 DEF ListInv, Were, Was, Emptied
<1>7. ASSUME NEW k \in Kinds, NEW a \in Addresses, Fresh(k, a),
             (k = "devices" /\ UserOf(a) = Peer) \/ (k = "own" /\ UserOf(a) = "own")
      PROVE  Fresh(k, a)'
  <2>1. CASE k = kind
    <3>1. ~Drained(k)'
      BY <1>2, <2>1 DEF Drained
    <3> QED BY <3>1 DEF Fresh
  <2>2. CASE k # kind
    <3>1. UNCHANGED Current(a)
      <4>1. devices'[UserOf(a)] = devices[UserOf(a)]
        BY <1>7, <2>2 DEF Users, Peer
      <4> QED BY <4>1 DEF Current
    <3> QED BY <1>1, <1>2, <1>7, <3>1, FreshStays
  <2> QED BY <2>1, <2>2
<1>8. Fresh("devices", "peerPN")' /\ Fresh("own", "ownPN")'
  <2>1. UserOf("peerPN") = Peer /\ UserOf("ownPN") = "own"
    BY DEF UserOf
  <2> QED BY <1>7, <2>1 DEF ListInv, Addresses, Kinds
<1> QED BY <1>2, <1>4, <1>5, <1>6, <1>8 DEF ListInv

LEMMA ServerLists == TypeInv /\ ListInv /\ ServerStep => ListInv'
<1> SUFFICES ASSUME TypeInv, ListInv, ServerStep PROVE ListInv'
  OBVIOUS
<1>1. \A u \in Users : ListOf(devices[u]) \in past[u]
  <2>1. /\ "peerPN" \in Addresses /\ UserOf("peerPN") = Peer
        /\ "ownPN" \in Addresses /\ UserOf("ownPN") = "own"
    BY DEF UserOf, Addresses
  <2> QED BY <2>1 DEF ListInv, Current, Users
<1>2. ASSUME NEW u \in Users, NEW d \in Devices, ChangeDevices(u, d) PROVE ListInv'
  <2>1. PICK kind \in {"devices", "own"}, node \in Nodes, S \in SUBSET Devices :
              /\ devices' = [devices EXCEPT ![u] = S]
              /\ past' = [past EXCEPT ![u] = past[u] \cup {ListOf(S)}]
              /\ Notify(kind, node)
              /\ (kind = "devices" <=> u = Peer) /\ (kind = "own" <=> u = "own")
              /\ node.kind = kind /\ node.number = youngest[kind] + 1 /\ node.list = ListOf(S)
    BY <1>2, ChangeDevicesIs
  <2>2. /\ devices'[u] = S /\ past'[u] = past[u] \cup {ListOf(S)}
        /\ \A v \in Users : v # u => devices'[v] = devices[v] /\ past'[v] = past[v]
    BY <2>1 DEF TypeInv
  <2>3. \A v \in Users : past[v] \subseteq past'[v] /\ ListOf(devices'[v]) \in past'[v]
    BY <1>1, <2>2
  <2>4. \A v \in Users : devices'[v] = devices[v]
                            \/ (kind = "devices" /\ v = Peer) \/ (kind = "own" /\ v = "own")
    BY <2>1, <2>2 DEF Users
  <2>5. Told(node) = u
    BY <2>1 DEF Told
  <2> QED BY <2>1, <2>2, <2>3, <2>4, <2>5, NotifyLists DEF Kinds
<1>3. CASE UpdateDevices \/ \E m \in Members : ChangeMembers(m)
  <2>1. PICK kind \in {"devices", "group"}, node \in Nodes :
                /\ Notify(kind, node)
                /\ node.kind = kind /\ node.number = youngest[kind] + 1
                /\ kind = "devices" => node.tag = "update"
    BY <1>3, OtherChangeIs
  <2>2. UNCHANGED <<devices, past>>
    BY <1>3, OtherChangeIs
  <2>3. ~HasList(node)
    BY <2>1 DEF HasList
  <2> QED BY <1>1, <2>1, <2>2, <2>3, NotifyLists DEF Kinds
<1> QED BY <1>2, <1>3 DEF ServerStep, Users

-----------------------------------------------------------------------------
(* The steps that handle no list. *)
LEMMA MovingLists ==
    ASSUME TypeInv, ListInv,
           (\E n \in loose : Enter(n)) \/ Spawn \/ Reconnect
             \/ (\E locked \in BOOLEAN : LookupAnswer(locked)) \/ LookupStore
    PROVE  ListInv'
<1>1. UNCHANGED <<devices, past, youngest, late, cache, send>>
  BY DEF Enter, Spawn, Reconnect, LookupAnswer, LookupStore, serverVars, histVars
<1>2. Outstanding' = Outstanding
  <2>1. CASE \E n \in loose : Enter(n)
    <3>1. PICK n \in loose : Enter(n)
      BY <2>1
    <3>2. queue' = Append(queue, n) /\ loose' = loose \ {n} /\ spawned' = spawned
      BY <3>1 DEF Enter
    <3>3. Elems(queue') = Elems(queue) \cup {n}
      BY <3>2, AppendElems DEF TypeInv
    <3> QED BY <3>1, <3>2, <3>3, OutstandingIs
  <2>2. CASE Spawn
    <3>1. /\ queue # <<>> /\ queue' = Tail(queue) /\ loose' = loose
          /\ spawned' = spawned \cup {Head(queue)}
      BY <2>2 DEF Spawn
    <3>2. Elems(queue) = Elems(queue') \cup {Head(queue)}
      BY <3>1, TakenOut
    <3> QED BY <3>1, <3>2, OutstandingIs
  <2>3. CASE Reconnect
    BY <2>3, ReconnectIs
  <2>4. CASE (\E locked \in BOOLEAN : LookupAnswer(locked)) \/ LookupStore
    <3>1. UNCHANGED <<queue, loose, spawned>>
      BY <2>4 DEF LookupAnswer, LookupStore, queueVars
    <3> QED BY <3>1, OutstandingIs
  <2> QED BY <2>1, <2>2, <2>3, <2>4
<1> QED BY <1>1, <1>2, ListsStay

(* A removal in place from a list that was true. *)
LEMMA DeletedWas ==
    ASSUME TypeInv, NEW list \in Lists, Was("peerLID", list), NEW d \in Devices
    PROVE  Was("peerLID", DeletedInPlace(list, d))
<1>1. PICK new : new = DeletedInPlace(list, d)
  OBVIOUS
<1>2. /\ \A x \in Entries : list[x] \in Nat
      /\ d \in Entries /\ Blank \in Entries /\ d # Blank /\ Devices \subseteq Entries
  BY BlankAssumption DEF Lists, Entries
<1>3. /\ new = [list EXCEPT ![d] = 0, ![Blank] = list[Blank] + list[d]]
  BY <1>1, <1>2 DEF DeletedInPlace, Lists
<1>4. /\ new[d] = 0 /\ new[Blank] = list[Blank] + list[d]
      /\ \A x \in Devices : x # d => new[x] = list[x]
  BY <1>2, <1>3, BlankAssumption DEF Lists
<1>5. CASE list[d] = 0
  <2>1. list[Blank] + list[d] = list[Blank]
    BY <1>2, <1>5
  <2>2. new = list
    BY <1>2, <1>3, <1>5, <2>1 DEF Lists
  <2> QED BY <1>1, <2>2
<1>6. CASE list[d] # 0
  <2>1. new[Blank] > 0
    BY <1>2, <1>4, <1>6
  <2>2. PICK had \in past[Peer] : \A x \in Devices : list[x] <= had[x]
    <3>1. CASE list \in past[Peer]
      BY <1>2, <3>1
    <3>2. CASE list \notin past[Peer]
      BY <3>2 DEF Was, Emptied, UserOf
    <3> QED BY <3>1, <3>2
  <2>3. \A x \in Devices : had[x] \in Nat
    <3>1. had \in Lists
      BY DEF TypeInv, Users
    <3> QED BY <1>2, <3>1 DEF Lists
  <2>4. \A x \in Devices : new[x] <= had[x]
    BY <1>2, <1>4, <2>2, <2>3
  <2> QED BY <1>1, <2>1, <2>4 DEF Was, Emptied
<1> QED BY <1>5, <1>6

(* A notification that is handled leaves the lists of other kinds alone. *)
LEMMA HandledLists ==
    ASSUME TypeInv, ListInv, NEW node \in Outstanding, Handled(node),
           UNCHANGED <<devices, past, youngest, send>>,
           Outstanding = Outstanding' \cup {node},
           \A a \in Addresses : \/ cache'[a] \in {None, cache[a]} \/ Was(a, cache'[a])
                                \/ HasList(node) /\ UserOf(a) = Told(node)
                                   /\ cache'[a] = node.list,
           node.kind = "devices" =>
              /\ cache'["peerPN"] = None \/ (HasList(node) /\ cache'["peerPN"] = node.list)
              /\ cache'["ownPN"] = cache["ownPN"],
           node.kind = "own" =>
              /\ cache'["ownPN"] \in {None, node.list}
              /\ cache'["peerPN"] = cache["peerPN"],
           node.kind = "group" => cache' = cache,
           node.kind # "group" => send.step # "store"
    PROVE  ListInv'
<1>1. node \in Nodes /\ Known(node) /\ node.kind \in Kinds
  BY OutstandingNodes, NodeIs DEF ListInv
<1>2. \A n \in Outstanding' : Known(n)'
  BY DEF ListInv, Known
<1>3. \A a \in Addresses : Current(a)' = Current(a) /\ (Current(a) \in past[UserOf(a)])'
  BY DEF Current, ListInv
<1>4. Were(cache)' /\ Were(send.lists)'
  <2>1. \A a \in Addresses : cache'[a] = None \/ Was(a, cache'[a])
    <3> TAKE a \in Addresses
    <3>1. CASE cache'[a] \in {None, cache[a]}
      BY <3>1 DEF ListInv, Were
    <3>2. CASE HasList(node) /\ UserOf(a) = Told(node) /\ cache'[a] = node.list
      BY <1>1, <3>2 DEF Known, Was
    <3> QED BY <3>1, <3>2
  <2> QED BY <2>1 DEF ListInv, Were, Was, Emptied
<1>5. ASSUME NEW k \in Kinds, NEW a \in Addresses, Fresh(k, a), k # node.kind,
             cache'[a] = cache[a]
      PROVE  Fresh(k, a)'
  <2>1. k \notin late' => k \notin late
    BY <1>1, <1>5, HandledIs
  <2>2. \A n \in Outstanding : n.kind = k => n \in Outstanding'
    BY <1>5
  <2> QED BY <1>3, <1>5, <2>1, <2>2, FreshStays
<1>6. ASSUME NEW a \in Addresses, HasList(node) => UserOf(a) = Told(node),
             cache'[a] = None \/ (HasList(node) /\ cache'[a] = node.list),
             send.step # "store"
      PROVE  Fresh(node.kind, a)'
  <2>1. ASSUME node.kind \notin late' PROVE cache'[a] \in {None, Current(a)'}
    <3>1. node.number = youngest[node.kind]
      BY <1>1, <2>1, HandledIs
    <3>2. HasList(node) => node.list = Current(a)
      BY <1>1, <1>6, <3>1 DEF Known, Current
    <3> QED BY <1>3, <1>6, <3>2
  <2> QED BY <1>6, <2>1 DEF Fresh, Drained
<1>7. /\ UserOf("peerPN") = Peer /\ UserOf("ownPN") = "own"
      /\ "peerPN" \in Addresses /\ "ownPN" \in Addresses
      /\ node.kind = "devices" => Told(node) = Peer
      /\ node.kind = "own" => Told(node) = "own" /\ HasList(node)
  BY DEF UserOf, Addresses, Told, HasList
<1>8. Fresh("devices", "peerPN")' /\ Fresh("own", "ownPN")'
  <2>1. CASE node.kind = "devices"
    <3>1. Fresh("devices", "peerPN")'
      <4>1. Fresh(node.kind, "peerPN")'
        BY <1>6, <1>7, <2>1
      <4> QED BY <2>1, <4>1
    <3>2. Fresh("own", "ownPN")'
      BY <1>5, <1>7, <2>1 DEF ListInv, Kinds
    <3> QED BY <3>1, <3>2
  <2>2. CASE node.kind = "own"
    <3>1. Fresh("own", "ownPN")'
      <4>1. Fresh(node.kind, "ownPN")'
        BY <1>6, <1>7, <2>2
      <4> QED BY <2>2, <4>1
    <3>2. Fresh("devices", "peerPN")'
      BY <1>5, <1>7, <2>2 DEF ListInv, Kinds
    <3> QED BY <3>1, <3>2
  <2>3. CASE node.kind = "group"
    BY <1>5, <1>7, <2>3 DEF ListInv, Kinds
  <2> QED BY <1>1, <2>1, <2>2, <2>3 DEF Kinds
<1> QED BY <1>2, <1>3, <1>4, <1>8 DEF ListInv

LEMMA HeadLists ==
    ASSUME TypeInv, ListInv, NEW n, HandleDevices(n) \/ HandleOwn(n) \/ HandleGroup(n)
    PROVE  ListInv'
<1>1. UNCHANGED <<devices, past, youngest, send, loose>>
  BY DEF HandleDevices, HandleOwn, HandleGroup, serverVars
<1>2. CASE HandleDevices(n)
  <2>1. /\ n \in Nodes /\ n.kind = "devices" /\ (FromLoop(n) \/ OnItsOwn(n))
        /\ ~DevicesLocked /\ Handled(n)
        /\ \A a \in {"ownPN", "ownLID"} : cache'[a] = cache[a]
        /\ cache'["peerPN"] = None \/ (n.tag # "update" /\ cache'["peerPN"] = n.list)
        /\ \/ cache'["peerLID"] \in {None, cache["peerLID"]}
           \/ n.tag # "update" /\ cache'["peerLID"] = n.list
           \/ /\ cache["peerLID"] # None /\ n.device \in Devices
              /\ cache'["peerLID"] = DeletedInPlace(cache["peerLID"], n.device)
    BY <1>2, HandleDevicesIs
  <2>2. /\ HasList(n) <=> n.tag # "update"
        /\ Told(n) = Peer /\ UserOf("peerPN") = Peer /\ UserOf("peerLID") = Peer
    BY <2>1 DEF HasList, Told, UserOf
  <2>3. ASSUME cache["peerLID"] # None, n.device \in Devices
        PROVE  Was("peerLID", DeletedInPlace(cache["peerLID"], n.device))
    <3>1. cache["peerLID"] \in Lists /\ Was("peerLID", cache["peerLID"])
      BY <2>3 DEF TypeInv, ListInv, Were, Addresses
    <3> QED BY <2>3, <3>1, DeletedWas
  <2>4. \A a \in Addresses : \/ cache'[a] \in {None, cache[a]} \/ Was(a, cache'[a])
                             \/ HasList(n) /\ UserOf(a) = Told(n) /\ cache'[a] = n.list
    BY <2>1, <2>2, <2>3 DEF Addresses
  <2>5. n \in Outstanding /\ Outstanding = Outstanding' \cup {n}
    BY <1>1, <2>1, Taken
  <2>6. send.step # "store"
    BY <2>1 DEF DevicesLocked
  <2> QED BY <1>1, <2>1, <2>2, <2>4, <2>5, <2>6, HandledLists
<1>3. CASE HandleOwn(n)
  <2>1. /\ n.kind = "own" /\ OnItsOwn(n) /\ ~DevicesLocked /\ Handled(n)
        /\ cache'["ownPN"] \in {None, n.list}
        /\ \A a \in {"peerPN", "peerLID", "ownLID"} : cache'[a] = cache[a]
    BY <1>3, HandleOwnIs
  <2>2. HasList(n) /\ Told(n) = "own" /\ UserOf("ownPN") = "own"
    BY <2>1 DEF HasList, Told, UserOf
  <2>3. \A a \in Addresses : \/ cache'[a] \in {None, cache[a]}
                             \/ HasList(n) /\ UserOf(a) = Told(n) /\ cache'[a] = n.list
    BY <2>1, <2>2 DEF Addresses
  <2>4. n \in Outstanding /\ Outstanding = Outstanding' \cup {n}
    BY <1>1, <2>1, Taken
  <2>5. send.step # "store"
    BY <2>1 DEF DevicesLocked
  <2> QED BY <1>1, <2>1, <2>2, <2>3, <2>4, <2>5, HandledLists
<1>4. CASE HandleGroup(n)
  <2>1. n.kind = "group" /\ (FromLoop(n) \/ OnItsOwn(n)) /\ Handled(n)
    BY <1>4, HandleGroupIs
  <2>2. n \in Outstanding /\ Outstanding = Outstanding' \cup {n}
    BY <1>1, <2>1, Taken
  <2>3. cache' = cache
    BY <1>4 DEF HandleGroup
  <2> QED BY <1>1, <2>1, <2>2, <2>3, HandledLists
<1> QED BY <1>2, <1>3, <1>4

LEMMA SendingLists ==
    ASSUME TypeInv, ListInv, (\E to \in Targets : SendStart(to)) \/ Sending \/ SendFails
    PROVE  ListInv'
<1>1. UNCHANGED <<devices, past, youngest, late, queue, loose, spawned>>
  BY DEF SendStart, Sending, GetUserDevices, UsyncStore, Upload, Finish, SendFails,
         serverVars, queueVars, histVars
<1>2. Outstanding' = Outstanding
  BY <1>1, OutstandingIs
<1>3. send \in Sends
  BY DEF TypeInv
<1>4. CASE cache' = cache /\ \A a \in Addresses : send'.lists[a] = None
  BY <1>1, <1>2, <1>4, ListsStay
<1>5. ASSUME NEW to \in Targets, SendStart(to) PROVE ListInv'
  <2>1. PICK S : send' = [Idle EXCEPT !.step = "devices", !.to = to, !.members = S]
    BY <1>5 DEF SendStart
  <2>2. send'.lists = NoLists
    BY <2>1 DEF Idle
  <2> QED BY <1>4, <1>5, <2>2 DEF SendStart, NoLists
<1>6. CASE GetUserDevices
  <2>1. \A a \in Addresses : send'.lists[a] \in {None, cache[a], Current(a)}
    BY <1>3, <1>6 DEF GetUserDevices, Sends
  <2> QED BY <1>1, <1>2, <1>6, <2>1, ListsStay DEF GetUserDevices
<1>7. CASE UsyncStore
  <2>1. /\ send.step = "store" /\ send'.lists = send.lists /\ send'.step = "upload"
        /\ \A a \in Addresses : cache'[a] \in {send.lists[a], cache[a]}
    BY <1>3, <1>7 DEF UsyncStore, Sends
  <2>2. \A n \in Outstanding' : Known(n)'
    BY <1>1, <1>2 DEF ListInv, Known
  <2>3. Were(cache)' /\ Were(send.lists)'
        /\ \A a \in Addresses : (Current(a) \in past[UserOf(a)])' /\ Current(a)' = Current(a)
    BY <1>1, <2>1 DEF ListInv, Were, Was, Emptied, Current
  <2>4. ASSUME NEW k, NEW a \in Addresses, Fresh(k, a) PROVE Fresh(k, a)'
    <3>1. Drained(k) => cache'[a] \in {None, cache[a], Current(a)}
      BY <2>1, <2>4 DEF Fresh
    <3> QED BY <1>1, <1>2, <2>1, <2>3, <2>4, <3>1, FreshStays
  <2>5. Fresh("devices", "peerPN")' /\ Fresh("own", "ownPN")'
    BY <2>4 DEF ListInv, Addresses
  <2> QED BY <1>2, <2>2, <2>3, <2>5 DEF ListInv
<1>8. CASE Upload
  <2>1. send'.lists = NoLists
    BY <1>8 DEF Upload, Idle
  <2> QED BY <1>4, <1>8, <2>1 DEF Upload, NoLists
<1>9. CASE SendFails
  BY <1>4, <1>9, IdleIs DEF SendFails, NoLists
<1>10. CASE Finish
  <2>1. /\ send' = Idle /\ send'.step = "idle" /\ \A a \in Addresses : send'.lists[a] = None
        /\ cache' = cache \/ cache' = [cache EXCEPT ![send.to] = None]
    BY <1>10, IdleIs DEF Finish, NoLists
  <2>2. \A a \in Addresses : cache'[a] \in {None, cache[a]}
    BY <2>1 DEF TypeInv
  <2>3. \A n \in Outstanding' : Known(n)'
    BY <1>1, <1>2 DEF ListInv, Known
  <2>4. Were(cache)' /\ Were(send.lists)'
        /\ \A a \in Addresses : (Current(a) \in past[UserOf(a)])' /\ Current(a)' = Current(a)
    BY <1>1, <2>1, <2>2 DEF ListInv, Were, Was, Emptied, Current
  <2>5. ASSUME NEW k, NEW a \in Addresses, Fresh(k, a) PROVE Fresh(k, a)'
    BY <1>1, <1>2, <2>1, <2>2, <2>4, <2>5, FreshStays
  <2>6. Fresh("devices", "peerPN")' /\ Fresh("own", "ownPN")'
    BY <2>5 DEF ListInv, Addresses
  <2> QED BY <1>2, <2>3, <2>4, <2>6 DEF ListInv
<1> QED BY <1>5, <1>6, <1>7, <1>8, <1>9, <1>10 DEF Sending

-----------------------------------------------------------------------------
(* The members of the group: a change that is handled last tells what is    *)
(* true.                                                                    *)

Of(n, m) == n.kind = "group" /\ n.member = m

(* The last change of m in q is the one that led to S. *)
Right(q, m, S) ==
    \A x \in DOMAIN q :
        (Of(q[x], m) /\ \A y \in DOMAIN q : y > x => ~Of(q[y], m)) => (q[x].join <=> m \in S)

(* A younger change is already in the queue or will enter it. *)
Doomed == \E n \in loose : n.kind = "group" /\ n.number < youngest["group"]

YoungestRight ==
    \A n \in Outstanding : (n.kind = "group" /\ n.number = youngest["group"]) =>
        (n.join <=> n.member \in members)

LastRight == \A m \in Members : (\A n \in loose : ~Of(n, m)) => Right(queue, m, members)

(* Only members with a change to come are wrong in g. *)
Untouched(g) ==
    \A m \in Members : (\A n \in Outstanding : ~Of(n, m)) => (m \in g <=> m \in members)

Counted ==
    /\ group # None => Untouched(group)
    /\ lookup.step = "store" => Untouched(lookup.answer)

GroupInv == YoungestRight /\ ((~swapped /\ ~Doomed) => LastRight /\ (~raced => Counted))

LEMMA AppendRight ==
    ASSUME NEW q \in Seq(Nodes), NEW n \in Nodes, NEW m, NEW S,
           IF Of(n, m) THEN n.join <=> m \in S ELSE Right(q, m, S)
    PROVE  Right(Append(q, n), m, S)
<1>1. /\ Len(q) \in Nat /\ DOMAIN q = 1..Len(q) /\ DOMAIN Append(q, n) = 1..(Len(q) + 1)
      /\ \A x \in 1..Len(q) : Append(q, n)[x] = q[x]
      /\ Append(q, n)[Len(q) + 1] = n
  OBVIOUS
<1>2. PICK a, k : a = Append(q, n) /\ k = Len(q)
  OBVIOUS
<1>3. ASSUME NEW x \in 1..(k + 1), Of(a[x], m), \A y \in 1..(k + 1) : y > x => ~Of(a[y], m)
      PROVE  a[x].join <=> m \in S
  <2>1. CASE x = k + 1
    <3>1. a[x] = n
      BY <1>1, <1>2, <2>1
    <3> QED BY <1>3, <3>1
  <2>2. CASE x # k + 1
    <3>1. x \in 1..k /\ k + 1 > x /\ k + 1 \in 1..(k + 1)
      BY <1>1, <1>2, <2>2
    <3>2. ~Of(n, m)
      BY <1>1, <1>2, <1>3, <3>1
    <3>3. \A y \in 1..k : y \in 1..(k + 1) /\ a[y] = q[y]
      BY <1>1, <1>2
    <3>4. Of(q[x], m) /\ \A y \in DOMAIN q : y > x => ~Of(q[y], m)
      BY <1>1, <1>2, <1>3, <3>1, <3>3
    <3>5. q[x].join <=> m \in S
      BY <1>1, <1>2, <3>1, <3>2, <3>4 DEF Right
    <3> QED BY <3>1, <3>3, <3>5
  <2> QED BY <2>1, <2>2
<1> QED BY <1>1, <1>2, <1>3 DEF Right

LEMMA TailRight ==
    ASSUME NEW q \in Seq(Nodes), q # <<>>, NEW m, NEW S, Right(q, m, S)
    PROVE  /\ Right(Tail(q), m, S)
           /\ (Of(Head(q), m) /\ \A n \in Elems(Tail(q)) : ~Of(n, m))
                 => (Head(q).join <=> m \in S)
<1>1. /\ Head(q) = q[1] /\ Tail(q) \in Seq(Nodes) /\ Len(q) \in Nat \ {0}
      /\ Len(Tail(q)) = Len(q) - 1
      /\ \A n \in 1..Len(q) - 1 : Tail(q)[n] = q[n + 1]
  BY TailElems
<1>2. PICK t, k : t = Tail(q) /\ k = Len(q)
  OBVIOUS
<1>3. DOMAIN q = 1..k /\ DOMAIN t = 1..k - 1 /\ k \in Nat \ {0}
  BY <1>1, <1>2, LenProperties
<1>4. \A n \in 1..k - 1 : t[n] = q[n + 1]
  BY <1>1, <1>2
<1>5. ASSUME NEW x \in 1..k - 1, Of(t[x], m), \A y \in 1..k - 1 : y > x => ~Of(t[y], m)
      PROVE  t[x].join <=> m \in S
  <2>1. x + 1 \in 1..k /\ t[x] = q[x + 1]
    BY <1>3, <1>4
  <2>2. ASSUME NEW y \in 1..k, y > x + 1 PROVE ~Of(q[y], m)
    <3>1. y - 1 \in 1..k - 1 /\ y - 1 > x /\ (y - 1) + 1 = y
      BY <1>3, <2>2
    <3>2. t[y - 1] = q[y]
      BY <1>4, <3>1
    <3> QED BY <1>5, <3>1, <3>2
  <2> QED BY <1>3, <1>5, <2>1, <2>2 DEF Right
<1>6. ASSUME Of(q[1], m), \A n \in Elems(t) : ~Of(n, m) PROVE q[1].join <=> m \in S
  <2>1. ASSUME NEW y \in 1..k, y > 1 PROVE ~Of(q[y], m)
    <3>1. y - 1 \in 1..k - 1 /\ (y - 1) + 1 = y
      BY <1>3, <2>1
    <3>2. t[y - 1] = q[y] /\ t[y - 1] \in Elems(t)
      BY <1>3, <1>4, <3>1 DEF Elems
    <3> QED BY <1>6, <3>2
  <2>2. 1 \in 1..k
    BY <1>3
  <2> QED BY <1>3, <1>6, <2>1, <2>2 DEF Right
<1>7. Right(t, m, S)
  BY <1>3, <1>5 DEF Right
<1> QED BY <1>1, <1>2, <1>6, <1>7

LEMMA TwiceRight ==
    ASSUME NEW q \in Seq(Nodes), NEW m, NEW S, Right(q, m, S)
    PROVE  Right(q \o q, m, S)
<1>1. PICK qq, k : qq = q \o q /\ k = Len(q)
  OBVIOUS
<1>2. /\ k \in Nat /\ DOMAIN q = 1..k /\ DOMAIN qq = 1..2 * k
      /\ \A n \in 1..2 * k : qq[n] = IF n <= k THEN q[n] ELSE q[n - k]
  <2>1. /\ qq \in Seq(Nodes) /\ Len(qq) = 2 * k /\ k \in Nat
        /\ \A n \in 1..2 * k : qq[n] = IF n <= k THEN q[n] ELSE q[n - k]
    BY <1>1, TwiceElems
  <2> QED BY <1>1, <2>1, LenProperties
<1>3. ASSUME NEW x \in 1..2 * k, Of(qq[x], m), \A y \in 1..2 * k : y > x => ~Of(qq[y], m)
      PROVE  qq[x].join <=> m \in S
  <2>1. CASE x <= k
    <3>1. x \in 1..k /\ x + k \in 1..2 * k /\ x + k > x /\ ~(x + k <= k) /\ (x + k) - k = x
      BY <1>2, <2>1
    <3>2. qq[x] = q[x] /\ qq[x + k] = q[x]
      BY <1>2, <2>1, <3>1
    <3> QED BY <1>3, <3>1, <3>2
  <2>2. CASE ~(x <= k)
    <3>1. x - k \in 1..k /\ qq[x] = q[x - k]
      <4>1. x - k \in 1..k
        BY <1>2, <2>2
      <4> QED BY <1>2, <2>2, <4>1
    <3>2. ASSUME NEW y \in 1..k, y > x - k PROVE ~Of(q[y], m)
      <4>1. y + k \in 1..2 * k /\ y + k > x /\ ~(y + k <= k) /\ (y + k) - k = y
        BY <1>2, <2>2, <3>2
      <4>2. qq[y + k] = q[y]
        BY <1>2, <4>1
      <4> QED BY <1>3, <4>1, <4>2
    <3> QED BY <1>2, <1>3, <3>1, <3>2 DEF Right
  <2> QED BY <2>1, <2>2
<1> QED BY <1>1, <1>2, <1>3 DEF Right

-----------------------------------------------------------------------------
(* The steps that neither make nor handle a change of the group. *)
LEMMA GroupStays ==
    ASSUME GroupInv, UNCHANGED <<members, swapped, raced>>, youngest'["group"] = youngest["group"],
           \A n \in loose : n.kind = "group" => n \in loose',
           \A n : n.kind = "group" => (n \in Outstanding' <=> n \in Outstanding),
           \A m \in Members : Right(queue, m, members) => Right(queue', m, members),
           group' \in {None, group} \/ (lookup.step = "store" /\ group' = lookup.answer),
           lookup'.step = "store" =>
              lookup'.answer = members \/ (lookup.step = "store" /\ lookup'.answer = lookup.answer)
    PROVE  GroupInv'
<1>1. YoungestRight'
  BY DEF GroupInv, YoungestRight
<1>2. Doomed => Doomed'
  BY DEF Doomed
<1>3. ASSUME ~swapped, ~Doomed PROVE LastRight'
  <2> SUFFICES ASSUME NEW m \in Members, \A n \in loose' : ~Of(n, m)
               PROVE  Right(queue', m, members)
    BY DEF LastRight
  <2>1. \A n \in loose : ~Of(n, m)
    BY DEF Of
  <2> QED BY <1>3, <2>1 DEF GroupInv, LastRight
<1>4. ASSUME NEW g, Untouched(g) PROVE \A m \in Members :
        (\A n \in Outstanding' : ~Of(n, m)) => (m \in g <=> m \in members)
  BY <1>4 DEF Untouched, Of
<1>5. ASSUME ~swapped, ~Doomed, ~raced PROVE Counted'
  <2>1. Counted
    BY <1>5 DEF GroupInv
  <2>2. group' # None => \A m \in Members :
          (\A n \in Outstanding' : ~Of(n, m)) => (m \in group' <=> m \in members)
    BY <1>4, <2>1 DEF Counted
  <2>3. lookup'.step = "store" => \A m \in Members :
          (\A n \in Outstanding' : ~Of(n, m)) => (m \in lookup'.answer <=> m \in members)
    BY <1>4, <2>1 DEF Counted
  <2> QED BY <2>2, <2>3 DEF Counted, Untouched
<1> QED BY <1>1, <1>2, <1>3, <1>5 DEF GroupInv

LEMMA NotifyGroupStays ==
    ASSUME TypeInv, GroupInv, NEW kind \in {"devices", "own"}, NEW node \in Nodes,
           Notify(kind, node), node.kind = kind, members' = members
    PROVE  GroupInv'
<1>1. /\ youngest' = [youngest EXCEPT ![kind] = youngest[kind] + 1]
      /\ UNCHANGED <<spawned, group, lookup, swapped, raced>> /\ Arrive(node)
  BY DEF Notify, histVars
<1>2. youngest'["group"] = youngest["group"]
  BY <1>1 DEF TypeInv
<1>3. /\ Elems(queue') \cup loose' = Elems(queue) \cup loose \cup {node}
      /\ \/ queue' = Append(queue, node) /\ loose' = loose
         \/ queue' = queue /\ loose' = loose \cup {node}
  BY <1>1, ArriveResult
<1>4. Outstanding' = Outstanding \cup {node}
  BY <1>1, <1>3, OutstandingIs
<1>5. \A m \in Members : Right(queue, m, members) => Right(queue', m, members)
  <2> SUFFICES ASSUME NEW m \in Members, Right(queue, m, members)
               PROVE  Right(queue', m, members)
    OBVIOUS
  <2>1. CASE queue' = Append(queue, node)
    <3>1. ~Of(node, m)
      BY DEF Of
    <3> QED BY <2>1, <3>1, AppendRight DEF TypeInv
  <2> QED BY <1>3, <2>1
<1>6. \A n : n.kind = "group" => (n \in loose' <=> n \in loose)
  BY <1>3
<1> QED BY <1>1, <1>2, <1>4, <1>5, <1>6, GroupStays

LEMMA NotifyGroup ==
    ASSUME TypeInv, ListInv, GroupInv, NEW node \in Nodes, Notify("group", node),
           node.kind = "group", node.number = youngest["group"] + 1,
           node.join <=> node.member \in members',
           \A m \in Members : m # node.member => (m \in members' <=> m \in members)
    PROVE  GroupInv'
<1>1. /\ youngest' = [youngest EXCEPT !["group"] = youngest["group"] + 1]
      /\ UNCHANGED <<spawned, group, lookup, swapped, raced>> /\ Arrive(node)
  BY DEF Notify, histVars
<1>2. youngest["group"] \in Nat /\ youngest'["group"] = youngest["group"] + 1
  BY <1>1 DEF TypeInv, Kinds
<1>3. /\ Elems(queue') \cup loose' = Elems(queue) \cup loose \cup {node}
      /\ \/ queue' = Append(queue, node) /\ loose' = loose
         \/ queue' = queue /\ loose' = loose \cup {node}
  BY <1>1, ArriveResult
<1>4. Outstanding' = Outstanding \cup {node}
  BY <1>1, <1>3, OutstandingIs
<1>5. \A n \in Outstanding : n.kind = "group" => n.number \in Nat /\ n.number <= youngest["group"]
  <2> SUFFICES ASSUME NEW n \in Outstanding, n.kind = "group"
               PROVE  n.number \in Nat /\ n.number <= youngest["group"]
    OBVIOUS
  <2>1. n \in Nodes
    BY OutstandingNodes
  <2>2. n.number \in 0..MaxChanges
    BY <2>1, NodeIs
  <2> QED BY <2>1, <2>2 DEF ListInv, Known, TypeInv, BoundsOK
<1>6. YoungestRight'
  <2> SUFFICES ASSUME NEW n \in Outstanding', n.kind = "group", n.number = youngest'["group"]
               PROVE  n.join <=> n.member \in members'
    BY DEF YoungestRight
  <2>1. n = node
    BY <1>2, <1>4, <1>5
  <2> QED BY <2>1
<1>7. ASSUME ~swapped', ~Doomed' PROVE LastRight' /\ (~raced' => Counted')
  <2>1. \A n \in loose : n.kind # "group"
    BY <1>2, <1>3, <1>5, <1>7, OutstandingIs DEF Doomed
  <2>2. LastRight /\ (~raced => Counted)
    BY <1>1, <1>7, <2>1 DEF GroupInv, Doomed
  <2>3. ASSUME NEW m \in Members, \A n \in loose' : ~Of(n, m) PROVE Right(queue', m, members')
    <3>1. m # node.member => Right(queue, m, members')
      <4>1. Right(queue, m, members)
        BY <2>1, <2>2 DEF LastRight, Of
      <4> QED BY <4>1 DEF Right
    <3>2. CASE queue' = Append(queue, node)
      <4>1. IF Of(node, m) THEN node.join <=> m \in members' ELSE Right(queue, m, members')
        BY <3>1 DEF Of
      <4> QED BY <3>2, <4>1, AppendRight DEF TypeInv
    <3>3. CASE queue' = queue /\ loose' = loose \cup {node}
      <4>1. m # node.member
        BY <2>3, <3>3 DEF Of
      <4> QED BY <3>1, <3>3, <4>1
    <3> QED BY <1>3, <3>2, <3>3
  <2>4. ASSUME NEW g, Untouched(g) PROVE \A m \in Members :
          (\A n \in Outstanding' : ~Of(n, m)) => (m \in g <=> m \in members')
    <3> SUFFICES ASSUME NEW m \in Members, \A n \in Outstanding' : ~Of(n, m)
                 PROVE  m \in g <=> m \in members'
      OBVIOUS
    <3>1. m # node.member
      BY <1>4 DEF Of
    <3>2. m \in g <=> m \in members
      BY <1>4, <2>4 DEF Untouched
    <3> QED BY <3>1, <3>2
  <2>5. ~raced' => Counted'
    <3> SUFFICES ASSUME ~raced' PROVE Counted'
      OBVIOUS
    <3>1. Counted
      BY <1>1, <2>2
    <3> QED BY <1>1, <2>4, <3>1 DEF Counted, Untouched
  <2> QED BY <2>3, <2>5 DEF LastRight
<1> QED BY <1>6, <1>7 DEF GroupInv

LEMMA ServerGroup == TypeInv /\ ListInv /\ GroupInv /\ ServerStep => GroupInv'
<1> SUFFICES ASSUME TypeInv, ListInv, GroupInv, ServerStep PROVE GroupInv'
  OBVIOUS
<1>1. ASSUME NEW u \in Users, NEW d \in Devices, ChangeDevices(u, d) PROVE GroupInv'
  <2>1. PICK kind \in {"devices", "own"}, node \in Nodes :
            members' = members /\ Notify(kind, node) /\ node.kind = kind
    BY <1>1, ChangeDevicesIs
  <2> QED BY <2>1, NotifyGroupStays
<1>2. CASE UpdateDevices \/ \E m \in Members : ChangeMembers(m)
  <2>1. PICK kind \in {"devices", "group"}, node \in Nodes :
                /\ Notify(kind, node)
                /\ node.kind = kind /\ node.number = youngest[kind] + 1
                /\ kind = "devices" => members' = members
                /\ kind = "group" =>
                     /\ node.join <=> node.member \in members'
                     /\ \A m \in Members : m # node.member => (m \in members' <=> m \in members)
    BY <1>2, OtherChangeIs
  <2> QED BY <2>1, NotifyGroupStays, NotifyGroup
<1> QED BY <1>1, <1>2 DEF ServerStep, Users

LEMMA EnterGroup ==
    ASSUME TypeInv, ListInv, GroupInv, NEW n \in loose, Enter(n) PROVE GroupInv'
<1>1. /\ queue' = Append(queue, n) /\ loose' = loose \ {n}
      /\ swapped' = (swapped \/ (n.kind = "group" /\ n.number < youngest["group"]))
      /\ UNCHANGED <<members, youngest, spawned, group, lookup, raced>>
  BY DEF Enter, HeldUp, serverVars
<1>2. n \in Nodes /\ n \in Outstanding
  BY OutstandingIs, OutstandingNodes
<1>3. Outstanding' = Outstanding
  <2>1. Elems(queue') = Elems(queue) \cup {n}
    BY <1>1, <1>2, AppendElems DEF TypeInv
  <2> QED BY <1>1, <2>1, OutstandingIs
<1>4. CASE n.kind # "group"
  <2>1. \A m \in Members : Right(queue, m, members) => Right(queue', m, members)
    BY <1>1, <1>2, <1>4, AppendRight DEF TypeInv, Of
  <2>2. swapped' = swapped
    BY <1>1, <1>4 DEF TypeInv
  <2> QED BY <1>1, <1>3, <1>4, <2>1, <2>2, GroupStays
<1>5. CASE n.kind = "group"
  <2>1. n.number \in Nat /\ youngest["group"] \in Nat /\ n.number <= youngest["group"]
    <3>1. n.number \in 0..MaxChanges
      BY <1>2, NodeIs
    <3> QED BY <1>2, <1>5, <3>1 DEF ListInv, Known, TypeInv, BoundsOK, Kinds
  <2>2. YoungestRight'
    BY <1>1, <1>3 DEF GroupInv, YoungestRight
  <2>3. ASSUME ~swapped', ~Doomed' PROVE LastRight' /\ (~raced' => Counted')
    <3>1. n.number = youngest["group"] /\ ~swapped
      <4>1. ~(n.number < youngest["group"]) /\ ~swapped
        BY <1>1, <1>5, <2>3
      <4> QED BY <2>1, <4>1
    <3>2. n.join <=> n.member \in members
      BY <1>2, <1>5, <3>1 DEF GroupInv, YoungestRight
    <3>3. ~Doomed
      BY <1>1, <2>1, <2>3, <3>1 DEF Doomed
    <3>4. LastRight /\ (~raced => Counted)
      BY <3>1, <3>3 DEF GroupInv
    <3>5. ASSUME NEW m \in Members, \A x \in loose' : ~Of(x, m) PROVE Right(queue', m, members')
      <4>1. IF Of(n, m) THEN n.join <=> m \in members ELSE Right(queue, m, members)
        <5>1. CASE Of(n, m)
          BY <3>2, <5>1 DEF Of
        <5>2. CASE ~Of(n, m)
          BY <1>1, <3>4, <3>5, <5>2 DEF LastRight
        <5> QED BY <5>1, <5>2
      <4> QED BY <1>1, <1>2, <4>1, AppendRight DEF TypeInv
    <3>6. ~raced' => Counted'
      BY <1>1, <1>3, <3>4 DEF Counted, Untouched
    <3> QED BY <3>5, <3>6 DEF LastRight
  <2> QED BY <2>2, <2>3 DEF GroupInv
<1> QED BY <1>4, <1>5

LEMMA HandleGroupGroup ==
    ASSUME TypeInv, ListInv, GroupInv, NEW n, HandleGroup(n) PROVE GroupInv'
<1>1. /\ n \in Nodes /\ n.kind = "group" /\ (FromLoop(n) \/ OnItsOwn(n)) /\ ~GroupLocked
      /\ group = None => group' = None
      /\ group # None => \A m \in Members :
                    m \in group' <=> (IF m = n.member THEN n.join ELSE m \in group)
      /\ raced' = (raced \/ (lookup.step = "store" /\ ~lookup.locked))
  BY HandleGroupIs
<1>2. UNCHANGED <<members, youngest, loose, lookup>>
  BY DEF HandleGroup, serverVars
<1>3. n \in Outstanding /\ Outstanding = Outstanding' \cup {n}
  BY <1>1, <1>2, Taken
<1>4. YoungestRight' /\ (Doomed' <=> Doomed)
  BY <1>2, <1>3 DEF GroupInv, YoungestRight, Doomed
(* Handled in order, the last change of a member tells what is true. *)
<1>5. ASSUME ~swapped', ~Doomed
      PROVE  /\ ~swapped
             /\ \A m \in Members : (\A x \in loose : ~Of(x, m)) =>
                   /\ Right(queue', m, members)
                   /\ (Of(n, m) /\ \A x \in Outstanding' : ~Of(x, m)) =>
                         (n.join <=> m \in members)
  <2>1. CASE FromLoop(n)
    <3>1. /\ queue # <<>> /\ n = Head(queue) /\ queue' = Tail(queue) /\ swapped' = swapped
      BY <2>1 DEF FromLoop
    <3>2. LastRight
      BY <1>5, <3>1 DEF GroupInv
    <3>3. Elems(Tail(queue)) \subseteq Outstanding'
      BY <3>1, OutstandingIs
    <3>4. ASSUME NEW m \in Members, \A x \in loose : ~Of(x, m)
          PROVE  /\ Right(queue', m, members)
                 /\ (Of(n, m) /\ \A x \in Elems(Tail(queue)) : ~Of(x, m)) =>
                       (n.join <=> m \in members)
      <4>1. Right(queue, m, members)
        BY <3>2, <3>4 DEF LastRight
      <4> QED BY <3>1, <4>1, TailRight DEF TypeInv
    <3> QED BY <1>5, <3>1, <3>3, <3>4
  <2>2. CASE OnItsOwn(n)
    <3>1. /\ queue' = queue
          /\ swapped' = (swapped \/ (n.kind = "group" /\ n.number < youngest["group"]))
      BY <2>2 DEF OnItsOwn, HeldUp
    <3>2. ~swapped /\ ~(n.number < youngest["group"])
      BY <1>1, <1>5, <3>1
    <3>3. n.number = youngest["group"]
      <4>1. n.number \in 0..MaxChanges /\ MaxChanges \in Nat
        BY <1>1, NodeIs DEF TypeInv, BoundsOK
      <4>2. n.number <= youngest["group"] /\ youngest["group"] \in Nat
        BY <1>1, <1>3 DEF ListInv, Known, TypeInv, Kinds
      <4> QED BY <3>2, <4>1, <4>2
    <3>4. n.join <=> n.member \in members
      BY <1>1, <1>3, <3>3 DEF GroupInv, YoungestRight
    <3>5. LastRight
      BY <1>5, <3>2 DEF GroupInv
    <3> QED BY <3>1, <3>2, <3>4, <3>5 DEF LastRight, Of
  <2> QED BY <1>1, <2>1, <2>2
<1>6. ASSUME ~swapped', ~Doomed PROVE LastRight' /\ (~raced' => Counted')
  <2>1. LastRight /\ (~raced => Counted)
    BY <1>5, <1>6 DEF GroupInv
  <2>2. LastRight'
    BY <1>2, <1>5, <1>6 DEF LastRight
  <2>3. ASSUME ~raced' PROVE Counted'
    <3>1. ~raced /\ lookup.step # "store"
      BY <1>1, <2>3 DEF GroupLocked
    <3>2. ASSUME group' # None, NEW m \in Members, \A x \in Outstanding' : ~Of(x, m)
          PROVE  m \in group' <=> m \in members
      <4>1. group # None /\ Untouched(group)
        BY <1>1, <2>1, <3>1, <3>2 DEF Counted
      <4>2. m \in group' <=> (IF m = n.member THEN n.join ELSE m \in group)
        BY <1>1, <4>1
      <4>3. CASE m = n.member
        <5>1. Of(n, m)
          BY <1>1, <4>3 DEF Of
        <5>2. \A x \in loose : ~Of(x, m)
          BY <1>2, <3>2, OutstandingIs
        <5> QED BY <1>5, <1>6, <3>2, <4>2, <4>3, <5>1, <5>2
      <4>4. CASE m # n.member
        <5>1. \A x \in Outstanding : ~Of(x, m)
          BY <1>3, <3>2, <4>4 DEF Of
        <5> QED BY <4>1, <4>2, <4>4, <5>1 DEF Untouched
      <4> QED BY <4>3, <4>4
    <3> QED BY <1>2, <3>1, <3>2 DEF Counted, Untouched
  <2> QED BY <2>2, <2>3
<1> QED BY <1>4, <1>6 DEF GroupInv

LEMMA OtherGroup ==
    ASSUME TypeInv, ListInv, GroupInv,
           (\E n : HandleDevices(n) \/ HandleOwn(n)) \/ Spawn \/ Reconnect \/ LookupStore
             \/ (\E locked \in BOOLEAN : LookupAnswer(locked))
             \/ (\E to \in Targets : SendStart(to)) \/ Sending \/ SendFails
    PROVE  GroupInv'
<1>1. UNCHANGED <<members, youngest, raced>>
  BY DEF HandleDevices, Spawn, HandleOwn, Reconnect, LookupAnswer, LookupStore, SendStart,
         Sending, GetUserDevices, UsyncStore, Upload, Finish, SendFails,
         serverVars, queueVars, histVars
<1>2. ASSUME NEW n, HandleDevices(n) \/ HandleOwn(n) PROVE GroupInv'
  <2>1. n.kind # "group" /\ (FromLoop(n) \/ OnItsOwn(n))
    BY <1>2, HandleDevicesIs, HandleOwnIs
  <2>2. UNCHANGED <<loose, group, lookup>>
    BY <1>2 DEF HandleDevices, HandleOwn
  <2>3. Outstanding = Outstanding' \cup {n} /\ swapped' = swapped
    BY <2>1, <2>2, Taken
  <2>4. \A x : x.kind = "group" => (x \in Outstanding' <=> x \in Outstanding)
    BY <2>1, <2>3
  <2>5. \A m \in Members : Right(queue, m, members) => Right(queue', m, members)
    <3>1. CASE queue # <<>> /\ queue' = Tail(queue)
      BY <3>1, TailRight DEF TypeInv
    <3>2. CASE queue' = queue
      BY <3>2 DEF Right
    <3> QED BY <2>1, <3>1, <3>2 DEF FromLoop, OnItsOwn
  <2> QED BY <1>1, <2>2, <2>3, <2>4, <2>5, GroupStays
<1>3. CASE Spawn
  <2>1. /\ queue # <<>> /\ queue' = Tail(queue) /\ spawned' = spawned \cup {Head(queue)}
        /\ UNCHANGED <<loose, group, lookup, swapped>>
    BY <1>3 DEF Spawn, histVars
  <2>2. Elems(queue) = Elems(queue') \cup {Head(queue)}
    BY <2>1, TakenOut
  <2>3. Outstanding' = Outstanding
    BY <2>1, <2>2, OutstandingIs
  <2>4. \A m \in Members : Right(queue, m, members) => Right(queue', m, members)
    BY <2>1, TailRight DEF TypeInv
  <2> QED BY <1>1, <2>1, <2>3, <2>4, GroupStays
<1>4. CASE Reconnect
  <2>1. UNCHANGED <<group, lookup, swapped>>
    BY <1>4 DEF Reconnect, histVars
  <2>2. /\ Outstanding' = Outstanding /\ loose \subseteq loose'
        /\ queue' = queue \o queue \/ queue' = queue
    BY <1>4, ReconnectIs
  <2>3. \A m \in Members : Right(queue, m, members) => Right(queue', m, members)
    <3>1. CASE queue' = queue \o queue
      BY <3>1, TwiceRight DEF TypeInv
    <3>2. CASE queue' = queue
      BY <3>2 DEF Right
    <3> QED BY <2>2, <3>1, <3>2
  <2> QED BY <1>1, <2>1, <2>2, <2>3, GroupStays
<1>5. CASE \E locked \in BOOLEAN : LookupAnswer(locked)
  <2>1. PICK locked \in BOOLEAN :
            lookup' = [step |-> "store", locked |-> locked, answer |-> members]
    BY <1>5 DEF LookupAnswer
  <2>2. UNCHANGED <<queue, loose, spawned, group, swapped>>
    BY <1>5 DEF LookupAnswer, queueVars, histVars
  <2>3. Outstanding' = Outstanding
    BY <2>2, OutstandingIs
  <2> QED BY <1>1, <2>1, <2>2, <2>3, GroupStays
<1>6. CASE LookupStore
  <2>1. /\ lookup.step = "store" /\ group' = lookup.answer /\ lookup'.step = "idle"
        /\ UNCHANGED <<queue, loose, spawned, swapped>>
    BY <1>6 DEF LookupStore, NoLookup, queueVars, histVars
  <2>2. Outstanding' = Outstanding
    BY <2>1, OutstandingIs
  <2> QED BY <1>1, <2>1, <2>2, GroupStays
<1>7. CASE (\E to \in Targets : SendStart(to)) \/ Sending \/ SendFails
  <2>1. group' \in {None, group} /\ UNCHANGED <<queue, loose, spawned, lookup, swapped>>
    BY <1>7 DEF SendStart, Sending, GetUserDevices, UsyncStore, Upload, Finish, SendFails,
                queueVars, histVars
  <2>2. Outstanding' = Outstanding
    BY <2>1, OutstandingIs
  <2> QED BY <1>1, <2>1, <2>2, GroupStays
<1> QED BY <1>2, <1>3, <1>4, <1>5, <1>6, <1>7

-----------------------------------------------------------------------------
(* The inductive invariant. *)
IInv == TypeInv /\ ListInv /\ GroupInv

LEMMA InitIInv == Init => IInv
<1> SUFFICES ASSUME Init PROVE IInv
  OBVIOUS
<1>1. ListOf({}) \in Lists /\ NoLists \in [Addresses -> Lists \cup {None}]
  BY ListOfIs DEF NoLists
<1>2. TypeInv
  <2>1. BoundsOK
    BY BoundsAssumption DEF BoundsOK
  <2>2. /\ devices \in [Users -> SUBSET Devices] /\ members \in SUBSET Members
        /\ past \in [Users -> SUBSET Lists]
    BY <1>1 DEF Init, Users, Members, Empty
  <2>3. /\ youngest \in [Kinds -> Nat]
        /\ youngest["devices"] + youngest["own"] + youngest["group"] <= MaxChanges
    <3>1. youngest = [k \in Kinds |-> 0]
      BY DEF Init
    <3>2. youngest["devices"] = 0 /\ youngest["own"] = 0 /\ youngest["group"] = 0
      BY <3>1 DEF Kinds
    <3>3. youngest["devices"] + youngest["own"] + youngest["group"] <= MaxChanges
      BY <2>1, <3>2 DEF BoundsOK
    <3> QED BY <3>1, <3>3
  <2>4. queue \in Seq(Nodes) /\ Len(queue) <= QueueCap
    BY <2>1 DEF Init, BoundsOK
  <2>5. loose \in SUBSET Nodes /\ spawned \in SUBSET Nodes
    BY DEF Init
  <2>6. /\ cache \in [Addresses -> Lists \cup {None}] /\ group \in (SUBSET Members) \cup {None}
        /\ send \in Sends
    BY <1>1, IdleIs DEF Init
  <2>7. lookup \in [step : {"idle", "store"}, locked : BOOLEAN, answer : SUBSET Members]
    BY DEF Init, NoLookup
  <2>8. late \in SUBSET Kinds /\ swapped \in BOOLEAN /\ raced \in BOOLEAN
    BY DEF Init
  <2>9. reconnects \in 0..MaxReconnects
    BY <2>1 DEF Init, BoundsOK
  <2>10. Complete(send)
    BY IdleIs DEF Init, Complete
  <2> QED BY <2>1, <2>2, <2>3, <2>4, <2>5, <2>6, <2>7, <2>8, <2>9, <2>10 DEF TypeInv
<1>3. Outstanding = {}
  BY DEF Outstanding, Init
<1>4. /\ cache = NoLists /\ send.lists = NoLists /\ send.step \notin {"store", "upload"}
      /\ \A a \in Addresses : NoLists[a] = None
  BY IdleIs DEF Init, NoLists
<1>5. ListInv
  <2>1. \A a \in Addresses : Current(a) \in past[UserOf(a)]
    BY DEF Init, Current, UserOf, Empty
  <2>2. "peerPN" \in Addresses /\ "ownPN" \in Addresses
    BY DEF Addresses
  <2>3. Were(cache) /\ Were(send.lists)
    BY <1>4 DEF Were
  <2>4. Fresh("devices", "peerPN") /\ Fresh("own", "ownPN")
    BY <1>4, <2>2 DEF Fresh
  <2> QED BY <1>3, <1>4, <2>1, <2>3, <2>4 DEF ListInv
<1>6. GroupInv
  <2>1. queue = <<>> /\ loose = {} /\ group = None /\ lookup.step = "idle"
    BY DEF Init, NoLookup
  <2>2. LastRight
    BY <2>1 DEF LastRight, Right
  <2> QED BY <1>3, <2>1, <2>2 DEF GroupInv, YoungestRight, Counted
<1> QED BY <1>2, <1>5, <1>6 DEF IInv

LEMMA UnchangedIInv == IInv /\ UNCHANGED vars => IInv'
<1> SUFFICES ASSUME IInv, UNCHANGED vars PROVE IInv'
  OBVIOUS
<1>1. UNCHANGED <<devices, members, past, youngest, queue, loose, spawned, cache, group,
                  send, lookup, late, swapped, raced, reconnects>>
  BY DEF vars
<1>2. TypeInv'
  BY <1>1 DEF IInv, TypeInv, Complete, Needed
<1>3. Outstanding' = Outstanding
  BY <1>1 DEF Outstanding
<1>4. ListInv'
  BY <1>1, <1>3 DEF IInv, ListInv, Known, Told, HasList, Current, Were, Was, Emptied, Fresh, Drained
<1>5. GroupInv'
  BY <1>1, <1>3 DEF IInv, GroupInv, YoungestRight, LastRight, Right, Doomed, Counted, Untouched
<1> QED BY <1>2, <1>4, <1>5 DEF IInv

LEMMA StepIInv == IInv /\ [Next]_vars => IInv'
<1> SUFFICES ASSUME IInv, [Next]_vars PROVE IInv'
  OBVIOUS
<1>1. TypeInv /\ ListInv /\ GroupInv
  BY DEF IInv
<1>2. CASE ServerStep
  BY <1>1, <1>2, ServerTypes, ServerLists, ServerGroup DEF IInv
<1>3. ASSUME NEW n \in loose, Enter(n) PROVE IInv'
  BY <1>1, <1>3, EnterTypes, MovingLists, EnterGroup DEF IInv
<1>4. ASSUME NEW n, HandleDevices(n) PROVE IInv'
  BY <1>1, <1>4, HandleDevicesTypes, HeadLists, OtherGroup DEF IInv
<1>5. CASE Spawn
  BY <1>1, <1>5, SpawnTypes, MovingLists, OtherGroup DEF IInv
<1>6. ASSUME NEW n, HandleGroup(n) PROVE IInv'
  BY <1>1, <1>6, HandleGroupTypes, HeadLists, HandleGroupGroup DEF IInv
<1>7. ASSUME NEW n, HandleOwn(n) PROVE IInv'
  BY <1>1, <1>7, HandleOwnTypes, HeadLists, OtherGroup DEF IInv
<1>8. CASE Reconnect
  BY <1>1, <1>8, ReconnectTypes, MovingLists, OtherGroup DEF IInv
<1>9. CASE (\E locked \in BOOLEAN : LookupAnswer(locked)) \/ LookupStore
  BY <1>1, <1>9, LookupTypes, MovingLists, OtherGroup DEF IInv
<1>10. CASE (\E to \in Targets : SendStart(to)) \/ Sending \/ SendFails
  BY <1>1, <1>10, SendingTypes, SendingLists, OtherGroup DEF IInv
<1>11. CASE UNCHANGED vars
  BY <1>11, UnchangedIInv
<1> QED BY <1>2, <1>3, <1>4, <1>5, <1>6, <1>7, <1>8, <1>9, <1>10, <1>11 DEF Next, Handle

LEMMA Invariant == Spec => []IInv
BY InitIInv, StepIInv, PTL DEF Spec

-----------------------------------------------------------------------------
(* Every variable keeps its type, for any devices, members, length of the   *)
(* queue and bounds: the queue never outgrows its capacity (handleFrame's   *)
(* goroutines wait), no notification has a number that the server has not   *)
(* reached, and no message goes out without the list of a user it needs.    *)
THEOREM TypeCorrect == Spec => []TypeOK
<1>1. IInv => TypeOK
  <2> SUFFICES ASSUME IInv PROVE TypeOK
    OBVIOUS
  <2>1. TypeInv
    BY DEF IInv
  <2>2. youngest \in [Kinds -> Numbers]
    <3>1. /\ youngest \in [Kinds -> Nat] /\ MaxChanges \in Nat
          /\ youngest["devices"] + youngest["own"] + youngest["group"] <= MaxChanges
      BY <2>1 DEF TypeInv, BoundsOK
    <3>2. youngest["devices"] \in Nat /\ youngest["own"] \in Nat /\ youngest["group"] \in Nat
      BY <3>1 DEF Kinds
    <3>3. \A k \in Kinds : youngest[k] \in Numbers
      BY <3>1, <3>2 DEF Kinds, Numbers
    <3> QED BY <3>1, <3>3
  <2>3. \A u \in {Peer, "own"} : past[u] \subseteq Lists
    BY <2>1 DEF TypeInv, Users
  <2> QED BY <2>1, <2>2, <2>3 DEF TypeInv, TypeOK, Users, Sends, Complete
<1> QED BY <1>1, Invariant, PTL

(* Whatever order full queues, handlers left behind and reconnections bring *)
(* about, a cached device list is one that the server had, because what     *)
(* handleDeviceNotification stores is confirmed by the hash; a list of a    *)
(* LID from which a device was removed without a hash has empty addresses   *)
(* on it, but no device that the user did not have.                         *)
THEOREM CachedListsWereTrue == Spec => []CachedWasTrue
<1>1. IInv => CachedWasTrue
  BY DEF IInv, ListInv, Were, Was, CachedWasTrue
<1> QED BY <1>1, Invariant, PTL

(* Once the last change of the peer's devices has been handled last, the    *)
(* list cached for its phone number is the server's, though answers         *)
(* overtake notifications and notifications come twice.                     *)
THEOREM PeerListIsRight == Spec => []PeerListIsCurrent
<1>1. IInv => PeerListIsCurrent
  BY DEF IInv, ListInv, Fresh, PeerListIsCurrent
<1> QED BY <1>1, Invariant, PTL

(* The same of the own devices, whose notifications are handled by          *)
(* goroutines in any order.                                                 *)
THEOREM OwnListIsRight == Spec => []OwnListIsCurrent
<1>1. IInv => OwnListIsCurrent
  BY DEF IInv, ListInv, Fresh, OwnListIsCurrent
<1> QED BY <1>1, Invariant, PTL

(* The cached members of the group are the server's when all changes were   *)
(* handled in order, none held up in a goroutine while a younger one was    *)
(* made, unless GetGroupInfo stored an answer older than a change.          *)
THEOREM GroupIsRight == Spec => []GroupIsCurrent
<1>1. IInv => GroupIsCurrent
  <2> SUFFICES ASSUME IInv, Drained("group"), ~swapped, ~raced, group # None
               PROVE  group = members
    BY DEF GroupIsCurrent
  <2>1. \A n \in Outstanding : n.kind # "group"
    BY DEF Drained
  <2>2. ~Doomed
    BY <2>1, OutstandingIs DEF Doomed
  <2>3. Untouched(group)
    BY <2>2 DEF IInv, GroupInv, Counted
  <2>4. \A m \in Members : m \in group <=> m \in members
    BY <2>1, <2>3 DEF Untouched, Of
  <2>5. group \in SUBSET Members /\ members \in SUBSET Members
    BY DEF IInv, TypeInv
  <2> QED BY <2>4, <2>5
<1> QED BY <1>1, Invariant, PTL

-----------------------------------------------------------------------------
(* The map of phone numbers and LIDs.                                       *)
Found(rows, wrong) ==
    \A l \in LIDs, p \in PNs : <<l, p>> \in rows =>
        /\ p \notin wrong /\ (filled \/ lidOf[p] # Absent) => lidOf[p] = l
        /\ l \notin wrong /\ (filled \/ pnOf[l] # Absent) => pnOf[l] = p

Agree(rows, wrong) ==
    \A l \in LIDs, p \in PNs :
        lidOf[p] = l /\ pnOf[l] = p /\ l \notin wrong /\ p \notin wrong
        => <<l, p>> \in rows

Coherent(rows, wrong) == Found(rows, wrong) /\ Agree(rows, wrong)

MapInv ==
    /\ MapTypeOK
    /\ Coherent(table, spoiled \cup wrote)
    /\ writing => Coherent(work, spoiled)
    /\ ~writing => wrote = {} /\ todo = <<>>

-----------------------------------------------------------------------------
(* What Scan leaves in the caches, for rows of a table with unique keys.    *)
LEMMA ScanResult ==
    ASSUME MapTypeOK, NEW rows \in SUBSET table, Scan(rows)
    PROVE  /\ lidOf' \in [PNs -> LIDs \cup {Absent, NoRow}]
           /\ pnOf' \in [LIDs -> PNs \cup {Absent, NoRow}]
           /\ \A l \in LIDs, p \in PNs : <<l, p>> \in rows => lidOf'[p] = l /\ pnOf'[l] = p
           /\ \A p \in PNs : (\A l \in LIDs : <<l, p>> \notin rows) => lidOf'[p] = lidOf[p]
           /\ \A l \in LIDs : (\A p \in PNs : <<l, p>> \notin rows) => pnOf'[l] = pnOf[l]
           /\ spoiled' \in SUBSET (PNs \cup LIDs)
           /\ \A p \in PNs : p \notin spoiled' =>
                p \notin spoiled \/ \E l \in LIDs : <<l, p>> \in rows
           /\ \A l \in LIDs : l \notin spoiled' =>
                l \notin spoiled \/ \E p \in PNs : <<l, p>> \in rows
<1> DEFINE lids(p) == CHOOSE r \in rows : r[2] = p
           pns(l)  == CHOOSE r \in rows : r[1] = l
<1>1. \A r \in rows : r = <<r[1], r[2]>> /\ r[1] \in LIDs /\ r[2] \in PNs
  BY DEF MapTypeOK, Mappings
<1>2. \A r \in rows, q \in rows : r[1] = q[1] \/ r[2] = q[2] => r = q
  BY DEF MapTypeOK, Unique
<1>3. \A p \in PNs : lidOf'[p] = IF \E r \in rows : r[2] = p THEN lids(p)[1] ELSE lidOf[p]
  BY DEF Scan
<1>4. \A l \in LIDs : pnOf'[l] = IF \E r \in rows : r[1] = l THEN pns(l)[2] ELSE pnOf[l]
  BY DEF Scan
<1>5. \A r \in rows : lids(r[2]) = r /\ pns(r[1]) = r
  BY <1>2
<1> HIDE DEF lids, pns
<1>6. \A l \in LIDs, p \in PNs : <<l, p>> \in rows => lidOf'[p] = l /\ pnOf'[l] = p
  BY <1>3, <1>4, <1>5
<1>7. \A p \in PNs : (\A l \in LIDs : <<l, p>> \notin rows) => lidOf'[p] = lidOf[p]
  BY <1>1, <1>3
<1>8. \A l \in LIDs : (\A p \in PNs : <<l, p>> \notin rows) => pnOf'[l] = pnOf[l]
  BY <1>1, <1>4
<1>9. lidOf' \in [PNs -> LIDs \cup {Absent, NoRow}]
  <2>1. lidOf' = [p \in PNs |-> lidOf'[p]]
    BY DEF Scan
  <2>2. \A p \in PNs : lidOf'[p] \in LIDs \cup {Absent, NoRow}
    BY <1>6, <1>7 DEF MapTypeOK
  <2> QED BY <2>1, <2>2
<1>10. pnOf' \in [LIDs -> PNs \cup {Absent, NoRow}]
  <2>1. pnOf' = [l \in LIDs |-> pnOf'[l]]
    BY DEF Scan
  <2>2. \A l \in LIDs : pnOf'[l] \in PNs \cup {Absent, NoRow}
    BY <1>6, <1>8 DEF MapTypeOK
  <2> QED BY <2>1, <2>2
<1>11. \A x : x \in spoiled /\ x \notin spoiled' => \E r \in rows : x = r[1] \/ x = r[2]
  BY DEF Scan
<1>12. /\ \A p \in PNs : p \notin spoiled' =>
             p \notin spoiled \/ \E l \in LIDs : <<l, p>> \in rows
       /\ \A l \in LIDs : l \notin spoiled' =>
             l \notin spoiled \/ \E p \in PNs : <<l, p>> \in rows
  BY <1>1, <1>11, UsersAssumption
<1>13. spoiled' \in SUBSET (PNs \cup LIDs)
  BY DEF Scan, MapTypeOK
<1> QED BY <1>6, <1>7, <1>8, <1>9, <1>10, <1>12, <1>13

(* Scanning rows of the table keeps the caches coherent with it; they may   *)
(* only be declared filled when all rows were scanned.                      *)
LEMMA ScanCoherent ==
    ASSUME MapTypeOK, Coherent(table, spoiled), NEW rows \in SUBSET table, Scan(rows),
           table' = table, filled' => filled \/ rows = table
    PROVE  Coherent(table, spoiled)'
<1> USE DEF Coherent
<1>1. Found(table, spoiled)'
  <2> SUFFICES ASSUME NEW l \in LIDs, NEW p \in PNs, <<l, p>> \in table
               PROVE  /\ p \notin spoiled' /\ (filled' \/ lidOf'[p] # Absent) => lidOf'[p] = l
                      /\ l \notin spoiled' /\ (filled' \/ pnOf'[l] # Absent) => pnOf'[l] = p
    BY DEF Found
  <2>1. \A k \in LIDs : <<k, p>> \in rows => k = l
    BY DEF MapTypeOK, Unique
  <2>2. \A q \in PNs : <<l, q>> \in rows => q = p
    BY DEF MapTypeOK, Unique
  <2>3. CASE <<l, p>> \in rows
    BY <2>3, ScanResult
  <2>4. CASE <<l, p>> \notin rows
    <3>a. \A k \in LIDs : <<k, p>> \notin rows
      BY <2>1, <2>4
    <3>b. \A q \in PNs : <<l, q>> \notin rows
      BY <2>2, <2>4
    <3>1. lidOf'[p] = lidOf[p] /\ pnOf'[l] = pnOf[l]
      BY <3>a, <3>b, ScanResult
    <3>2. (p \notin spoiled' => p \notin spoiled) /\ (l \notin spoiled' => l \notin spoiled)
      <4>1. p \notin spoiled' => p \notin spoiled \/ \E k \in LIDs : <<k, p>> \in rows
        BY ScanResult
      <4>2. l \notin spoiled' => l \notin spoiled \/ \E q \in PNs : <<l, q>> \in rows
        BY ScanResult
      <4> QED BY <4>1, <4>2, <3>a, <3>b
    <3>3. filled' => filled
      BY <2>4
    <3> QED BY <3>1, <3>2, <3>3 DEF Found
  <2> QED BY <2>3, <2>4
<1>2. Agree(table, spoiled)'
  <2> SUFFICES ASSUME NEW l \in LIDs, NEW p \in PNs, lidOf'[p] = l, pnOf'[l] = p,
                      l \notin spoiled', p \notin spoiled'
               PROVE  <<l, p>> \in table
    BY DEF Agree
  <2>1. CASE \E k \in LIDs : <<k, p>> \in rows
    BY <2>1, ScanResult
  <2>2. CASE \E q \in PNs : <<l, q>> \in rows
    BY <2>2, ScanResult
  <2>3. CASE (\A k \in LIDs : <<k, p>> \notin rows) /\ (\A q \in PNs : <<l, q>> \notin rows)
    <3>1. lidOf[p] = l /\ pnOf[l] = p
      BY <2>3, ScanResult
    <3>2. l \notin spoiled /\ p \notin spoiled
      BY <2>3, ScanResult
    <3> QED BY <3>1, <3>2 DEF Agree
  <2> QED BY <2>1, <2>2, <2>3
<1> QED BY <1>1, <1>2

-----------------------------------------------------------------------------
LEMMA InitMapInv == MapInit => MapInv
<1> SUFFICES ASSUME MapInit PROVE MapInv
  OBVIOUS
<1>1. MapTypeOK
  <2>1. Unique(table) /\ Unique(work)
    BY DEF MapInit, Unique
  <2>2. <<>> \in Seq(Mappings)
    OBVIOUS
  <2> QED BY <2>1, <2>2 DEF MapInit, MapTypeOK
<1>2. Coherent(table, spoiled \cup wrote)
  BY UsersAssumption DEF MapInit, Coherent, Found, Agree
<1> QED BY <1>1, <1>2 DEF MapInit, MapInv

(* A step with the lock free that reads the table, and may fill the caches. *)
LEMMA LookupStep == MapInv /\ Lookup => MapInv'
<1> SUFFICES ASSUME MapInv, Lookup PROVE MapInv'
  OBVIOUS
<1>1. MapTypeOK /\ ~writing /\ wrote = {} /\ todo = <<>> /\ Coherent(table, spoiled)
  <2>1. ~writing
    BY DEF Lookup, Unlocked, Miss, Query, QueryFails, MissMany, QueryMany, FillCache
  <2>2. wrote = {} /\ todo = <<>> /\ Coherent(table, spoiled \cup wrote)
    BY <2>1 DEF MapInv
  <2>3. spoiled \cup wrote = spoiled
    BY <2>2
  <2> QED BY <2>1, <2>2, <2>3 DEF MapInv
<1>2. table' = table /\ UNCHANGED putVars
  BY DEF Lookup, Miss, Query, QueryFails, MissMany, QueryMany, FillCache
<1>3. CASE UNCHANGED <<lidOf, pnOf, filled, spoiled>>
  <2>1. missed' \in SUBSET (PNs \cup LIDs) /\ missedMany' \in SUBSET SUBSET PNs
    BY <1>1 DEF Lookup, Miss, Query, QueryFails, MissMany, QueryMany, FillCache, MapTypeOK, lookupVars
  <2> QED BY <1>1, <1>2, <1>3, <2>1 DEF MapInv, MapTypeOK, Coherent, Found, Agree, putVars
<1>4. ASSUME NEW rows \in SUBSET table, Scan(rows), filled' => filled \/ rows = table,
             filled' \in BOOLEAN, missed' \in SUBSET missed, missedMany' \in SUBSET missedMany
      PROVE  MapInv'
  <2>1. Coherent(table, spoiled)'
    BY <1>1, <1>2, <1>4, ScanCoherent
  <2>2. MapTypeOK'
    BY <1>1, <1>2, <1>4, ScanResult DEF MapTypeOK, putVars
  <2>3. wrote' = {} /\ ~writing' /\ todo' = <<>>
    BY <1>1, <1>2 DEF putVars
  <2>4. (spoiled \cup wrote)' = spoiled'
    BY <2>3
  <2>5. Coherent(table, spoiled \cup wrote)'
    BY <2>1, <2>4 DEF Coherent, Found, Agree
  <2> QED BY <2>2, <2>3, <2>5 DEF MapInv
<1>5. ASSUME NEW key \in PNs \cup LIDs, Miss(key) \/ QueryFails(key)
      PROVE  MapInv'
  BY <1>3, <1>5 DEF Miss, QueryFails, cacheVars
<1>6. ASSUME NEW pns \in SUBSET PNs, MissMany(pns)
      PROVE  MapInv'
  BY <1>3, <1>6 DEF MissMany, cacheVars
<1>7. ASSUME NEW key \in PNs \cup LIDs, Query(key)
      PROVE  MapInv'
  <2>1. CASE Scan(RowsOf({key}))
    <3>1. RowsOf({key}) \in SUBSET table
      BY DEF RowsOf
    <3> QED BY <1>4, <1>1, <1>7, <2>1, <3>1 DEF Query, MapTypeOK
  <2>2. CASE RowsOf({key}) = {} /\ ~Scan(RowsOf({key}))
    <3>1. \A l \in LIDs, p \in PNs : <<l, p>> \in table => l # key /\ p # key
      BY <2>2 DEF RowsOf
    <3>2. /\ lidOf' = [p \in PNs |-> IF p = key THEN NoRow ELSE lidOf[p]]
          /\ pnOf' = [l \in LIDs |-> IF l = key THEN NoRow ELSE pnOf[l]]
          /\ spoiled' = spoiled \ {key}
          /\ missed' = missed \ {key}
          /\ UNCHANGED <<table, filled, missedMany, putVars>>
      BY <1>7, <2>2 DEF Query
    <3>3. MapTypeOK'
      BY <1>1, <3>2 DEF MapTypeOK, putVars
    <3>4. Found(table, spoiled)'
      BY <1>1, <3>1, <3>2 DEF Coherent, Found
    <3>5. Agree(table, spoiled)'
      BY <1>1, <3>1, <3>2, UsersAssumption DEF Coherent, Agree
    <3>6. wrote' = {} /\ ~writing' /\ todo' = <<>>
      BY <1>1, <1>2 DEF putVars
    <3>7. (spoiled \cup wrote)' = spoiled'
      BY <3>6
    <3>8. Coherent(table, spoiled \cup wrote)'
      BY <3>4, <3>5, <3>7 DEF Coherent, Found, Agree
    <3> QED BY <3>3, <3>6, <3>8 DEF MapInv
  <2> QED BY <1>7, <2>1, <2>2 DEF Query
<1>8. ASSUME NEW pns \in SUBSET PNs, QueryMany(pns)
      PROVE  MapInv'
  <2> PICK rows \in SUBSET RowsOf(pns) : Scan(rows)
    BY <1>8 DEF QueryMany
  <2>1. rows \in SUBSET table
    BY DEF RowsOf
  <2> QED BY <1>1, <1>4, <1>8, <2>1 DEF QueryMany, MapTypeOK
<1>9. CASE FillCache
  <2> PICK rows \in SUBSET table :
         /\ Scan(rows)
         /\ \/ rows = table /\ filled' = TRUE
            \/ filled' = FALSE
    BY <1>9 DEF FillCache
  <2> QED BY <1>1, <1>4, <1>9 DEF FillCache, lookupVars
<1> QED BY <1>5, <1>6, <1>7, <1>8, <1>9 DEF Lookup

-----------------------------------------------------------------------------
(* A row written by a transaction: the rows stay unique, the two entries    *)
(* are right, and an entry that was right for another row still is.         *)
LEMMA StoredUnique ==
    ASSUME NEW rows \in SUBSET Mappings, Unique(rows), NEW l \in LIDs, NEW p \in PNs
    PROVE  Stored(rows, l, p) \in SUBSET Mappings /\ Unique(Stored(rows, l, p))
BY DEF Stored, Unique, Mappings

LEMMA RowCoherent ==
    ASSUME MapTypeOK, NEW l \in LIDs, NEW p \in PNs, CacheRow(l, p), filled' = filled,
           spoiled' = spoiled \ {l, p}, work' = Stored(work, l, p), Coherent(work, spoiled)
    PROVE  Coherent(work, spoiled)'
<1>1. /\ lidOf' = [lidOf EXCEPT ![p] = l]
      /\ pnOf' = [pnOf EXCEPT ![l] = p]
  BY DEF CacheRow
<1>2. /\ lidOf'[p] = l /\ \A q \in PNs \ {p} : lidOf'[q] = lidOf[q]
      /\ pnOf'[l] = p /\ \A k \in LIDs \ {l} : pnOf'[k] = pnOf[k]
  BY <1>1 DEF MapTypeOK
<1>3. \A k \in LIDs, q \in PNs :
        <<k, q>> \in work' <=>
          (k = l /\ q = p) \/ (<<k, q>> \in work /\ k # l /\ q # p)
  BY DEF Stored
<1>4. \A k \in LIDs, q \in PNs : k # l /\ q # p =>
        /\ (k \in spoiled' <=> k \in spoiled)
        /\ (q \in spoiled' <=> q \in spoiled)
  BY UsersAssumption
<1>5. \A k \in LIDs, q \in PNs : lidOf'[q] = k /\ pnOf'[k] = q =>
        (k = l /\ q = p) \/ (k # l /\ q # p)
  BY <1>2
<1> QED BY <1>2, <1>3, <1>4, <1>5 DEF Coherent, Found, Agree

(* The rows from before the transaction do not change: what it writes are   *)
(* entries that count as wrong for them.                                    *)
LEMMA OldRowsCoherent ==
    ASSUME MapTypeOK, NEW l \in LIDs, NEW p \in PNs, CacheRow(l, p), filled' = filled,
           spoiled' = spoiled \ {l, p}, wrote' = wrote \cup {l, p}, table' = table,
           Coherent(table, spoiled \cup wrote)
    PROVE  Coherent(table, spoiled \cup wrote)'
<1>1. /\ lidOf' = [lidOf EXCEPT ![p] = l]
      /\ pnOf' = [pnOf EXCEPT ![l] = p]
  BY DEF CacheRow
<1>2. /\ \A q \in PNs \ {p} : lidOf'[q] = lidOf[q]
      /\ \A k \in LIDs \ {l} : pnOf'[k] = pnOf[k]
  BY <1>1 DEF MapTypeOK
<1>3. (spoiled \cup wrote)' = (spoiled \cup wrote) \cup {l, p}
  OBVIOUS
<1> QED BY <1>2, <1>3 DEF Coherent, Found, Agree

-----------------------------------------------------------------------------
LEMMA PutStep ==
    ASSUME MapInv, NEW batch \in Batches, Put(batch)
    PROVE  MapInv'
<1>1. batch \in Seq(Mappings)
  BY MapBoundsAssumption DEF Batches
<1>2. /\ ~writing /\ writing' = TRUE /\ todo' = batch /\ work' = table /\ wrote' = {}
      /\ UNCHANGED <<table, lidOf, pnOf, filled, missed, missedMany, spoiled>>
  BY DEF Put, Unlocked, cacheVars, lookupVars
<1>3. MapTypeOK'
  BY <1>1, <1>2 DEF MapInv, MapTypeOK
<1>4. spoiled \cup wrote = spoiled /\ (spoiled \cup wrote)' = spoiled
  BY <1>2 DEF MapInv
<1>5. Coherent(table, spoiled)
  BY <1>4 DEF MapInv
<1>6. Coherent(work, spoiled)' /\ Coherent(table, spoiled \cup wrote)'
  BY <1>2, <1>4, <1>5 DEF Coherent, Found, Agree
<1> QED BY <1>2, <1>3, <1>6 DEF MapInv

LEMMA PutRowStep == MapInv /\ PutRow => MapInv'
<1> SUFFICES ASSUME MapInv, PutRow PROVE MapInv'
  OBVIOUS
<1>1. todo \in Seq(Mappings) /\ todo # <<>> /\ MapTypeOK /\ writing
  BY DEF PutRow, MapInv, MapTypeOK
<1>2. Head(todo) \in Mappings /\ Tail(todo) \in Seq(Mappings)
  BY <1>1
<1>3. PICK l \in LIDs, p \in PNs : l = Head(todo)[1] /\ p = Head(todo)[2]
  BY <1>2 DEF Mappings
<1>4. /\ work' = Stored(work, l, p)
      /\ CacheRow(l, p)
      /\ wrote' = wrote \cup {l, p}
      /\ spoiled' = spoiled \ {l, p}
      /\ todo' = Tail(todo)
      /\ UNCHANGED <<table, filled, missed, missedMany, writing>>
  BY <1>3 DEF PutRow, lookupVars
<1>5. work' \in SUBSET Mappings /\ Unique(work')
  BY <1>1, <1>3, <1>4, StoredUnique DEF MapTypeOK
<1>6. /\ lidOf' \in [PNs -> LIDs \cup {Absent, NoRow}]
      /\ pnOf' \in [LIDs -> PNs \cup {Absent, NoRow}]
  BY <1>1, <1>3, <1>4 DEF CacheRow, MapTypeOK
<1>7. MapTypeOK'
  BY <1>1, <1>2, <1>3, <1>4, <1>5, <1>6 DEF MapTypeOK
<1>8. Coherent(table, spoiled \cup wrote)'
  BY <1>1, <1>3, <1>4, OldRowsCoherent DEF MapInv
<1>9. Coherent(work, spoiled)'
  BY <1>1, <1>3, <1>4, RowCoherent DEF MapInv
<1> QED BY <1>1, <1>4, <1>7, <1>8, <1>9 DEF MapInv

LEMMA CommitStep == MapInv /\ Commit => MapInv'
<1> SUFFICES ASSUME MapInv, Commit PROVE MapInv'
  OBVIOUS
<1>1. /\ writing /\ todo = <<>> /\ table' = work
      /\ writing' = FALSE /\ work' = {} /\ wrote' = {}
      /\ UNCHANGED <<lidOf, pnOf, filled, missed, missedMany, todo, spoiled>>
  BY DEF Commit, cacheVars, lookupVars
<1>2. Unique({}) /\ (spoiled \cup wrote)' = spoiled
  BY <1>1 DEF Unique
<1>3. MapTypeOK'
  <2>1. Unique(table') /\ Unique(work')
    BY <1>1, <1>2 DEF MapInv, MapTypeOK
  <2>2. writing' \in BOOLEAN
    BY <1>1
  <2> QED BY <1>1, <2>1, <2>2 DEF MapInv, MapTypeOK
<1>4. Coherent(table, spoiled \cup wrote)'
  BY <1>1, <1>2 DEF MapInv, Coherent, Found, Agree
<1> QED BY <1>1, <1>3, <1>4 DEF MapInv

LEMMA RollbackStep == MapInv /\ Rollback => MapInv'
<1> SUFFICES ASSUME MapInv, Rollback PROVE MapInv'
  OBVIOUS
<1>1. /\ writing /\ writing' = FALSE /\ todo' = <<>> /\ work' = {} /\ wrote' = {}
      /\ spoiled' = spoiled \cup wrote
      /\ UNCHANGED <<table, lidOf, pnOf, filled, missed, missedMany>>
  BY DEF Rollback, cacheVars, lookupVars
<1>2. Unique({}) /\ (spoiled \cup wrote)' = spoiled \cup wrote
  BY <1>1 DEF Unique
<1>3. MapTypeOK'
  <2>1. Unique(table') /\ Unique(work')
    BY <1>1, <1>2 DEF MapInv, MapTypeOK
  <2>2. writing' \in BOOLEAN
    BY <1>1
  <2> QED BY <1>1, <2>1, <2>2 DEF MapInv, MapTypeOK
<1>4. Coherent(table, spoiled \cup wrote)'
  BY <1>1, <1>2 DEF MapInv, Coherent, Found, Agree
<1> QED BY <1>1, <1>3, <1>4 DEF MapInv

LEMMA RestartStep == MapInv /\ Restart => MapInv'
<1> SUFFICES ASSUME MapInv, Restart PROVE MapInv'
  OBVIOUS
<1>1. /\ lidOf' = [p \in PNs |-> Absent] /\ pnOf' = [l \in LIDs |-> Absent]
      /\ ~filled' /\ missed' = {} /\ missedMany' = {}
      /\ todo' = <<>> /\ ~writing' /\ work' = {} /\ wrote' = {} /\ spoiled' = {}
      /\ table' = table /\ filled' \in BOOLEAN /\ writing' \in BOOLEAN
  BY DEF Restart
<1>2. Unique({}) /\ (spoiled \cup wrote)' = {}
  BY <1>1 DEF Unique
<1>3. MapTypeOK'
  BY <1>1, <1>2 DEF MapInv, MapTypeOK, Unique
<1>4. Coherent(table, spoiled \cup wrote)'
  BY <1>1, <1>2, UsersAssumption DEF Coherent, Found, Agree
<1> QED BY <1>1, <1>3, <1>4 DEF MapInv

LEMMA StepMapInv == MapInv /\ [MapNext]_mapVars => MapInv'
<1> SUFFICES ASSUME MapInv, [MapNext]_mapVars PROVE MapInv'
  OBVIOUS
<1>1. CASE Lookup
  BY <1>1, LookupStep
<1>2. CASE \E batch \in Batches : Put(batch)
  BY <1>2, PutStep
<1>3. CASE PutRow
  BY <1>3, PutRowStep
<1>4. CASE Commit
  BY <1>4, CommitStep
<1>5. CASE Rollback
  BY <1>5, RollbackStep
<1>6. CASE Restart
  BY <1>6, RestartStep
<1>7. CASE UNCHANGED mapVars
  BY <1>7 DEF mapVars, cacheVars, lookupVars, putVars, MapInv, MapTypeOK, Unique, Coherent, Found, Agree
<1> QED BY <1>1, <1>2, <1>3, <1>4, <1>5, <1>6, <1>7 DEF MapNext

LEMMA MapInvariant == MapSpec => []MapInv
BY InitMapInv, StepMapInv, PTL DEF MapSpec

(* What the holder of the lock reads is coherent with the caches.           *)
LEMMA ViewCoherent == MapInv => MapTypeOK /\ Coherent(View, spoiled)
<1> SUFFICES ASSUME MapInv PROVE MapTypeOK /\ Coherent(View, spoiled)
  OBVIOUS
<1>1. CASE writing
  BY <1>1 DEF MapInv, View
<1>2. CASE ~writing
  <2>1. spoiled \cup wrote = spoiled
    BY <1>2 DEF MapInv
  <2> QED BY <1>2, <2>1 DEF MapInv, View
<1> QED BY <1>1, <1>2

-----------------------------------------------------------------------------
(* The table keeps at most one number for a LID and one LID for a number,   *)
(* and every variable its type, whatever is put, looked up or rolled back   *)
(* (deleteExistingLIDMappingQuery and putLIDMappingQuery together).         *)
THEOREM MapTypeCorrect == MapSpec => []MapTypeOK
BY MapInvariant, PTL DEF MapInv

(* For any numbers, LIDs, batches, lookups and failures, a stored mapping   *)
(* is found through the caches in both directions, unless the last put of   *)
(* that very key was rolled back (CachedLIDMap, all operations).            *)
THEOREM MappingsAreFound == MapSpec => []StoredIsFound
<1>1. MapInv => StoredIsFound
  <2> SUFFICES ASSUME MapInv, NEW r \in View
               PROVE  /\ r[2] \notin spoiled /\ (filled \/ lidOf[r[2]] # Absent) => lidOf[r[2]] = r[1]
                      /\ r[1] \notin spoiled /\ (filled \/ pnOf[r[1]] # Absent) => pnOf[r[1]] = r[2]
    BY DEF StoredIsFound
  <2>1. r = <<r[1], r[2]>> /\ r[1] \in LIDs /\ r[2] \in PNs
    BY ViewCoherent DEF MapTypeOK, View, Mappings
  <2> QED BY <2>1, ViewCoherent DEF Coherent, Found
<1> QED BY <1>1, MapInvariant, PTL

(* A pair that both caches give is a row of the table, with the same        *)
(* exception (what PutLIDMapping would have to compare to skip safely).     *)
THEOREM AgreeingIsStored == MapSpec => []AgreementIsStored
<1>1. MapInv => AgreementIsStored
  BY ViewCoherent DEF AgreementIsStored, Coherent, Agree
<1> QED BY <1>1, MapInvariant, PTL

=============================================================================
