----------------------------- MODULE Recipients -----------------------------
(***************************************************************************)
(* Who a message is encrypted for: the cache of the device lists of a      *)
(* user, of the own device list and of the members of a group, which       *)
(* notifications keep up to date, lookups fill and sent messages check.    *)
(*                                                                         *)
(* A user has two addresses, a phone number and a LID, and a device list   *)
(* is cached under each.  The server's devices are those of a set; a       *)
(* cached list may hold a device twice, or an empty address in the place   *)
(* of one, and its hash tells that.  The primary device is on every list   *)
(* and left out.                                                           *)
(*                                                                         *)
(* The server's notifications and the answers to lookups come down one     *)
(* websocket, but answers are delivered at once and notifications wait in  *)
(* cli.handlerQueue: an answer overtakes the notifications sent before it. *)
(* handlerQueueLoop runs a handler in a goroutine and waits for it, but not *)
(* for more than five minutes, and not when its connection has ended, when  *)
(* the loop of the next connection takes nodes beside it.                   *)
(***************************************************************************)
EXTENDS Integers, Sequences, FiniteSets

CONSTANTS
    Devices,     \* companion devices, of the peer or of the user itself
    Others,      \* members of the group whose devices are not followed
    Blank,       \* the empty address, on a list
    None,        \* nothing is cached
    QueueCap,    \* capacity of cli.handlerQueue
    MaxChanges,  \* bound: changes made at the server
    MaxReconnects \* bound: connections lost

Entries == Devices \cup {Blank}
Lists   == [Entries -> Nat]
ASSUME BlankAssumption == Blank \notin Devices
ASSUME NoneAssumption  == None \notin Lists
ASSUME BoundsAssumption == /\ QueueCap \in Nat /\ MaxChanges \in Nat
                           /\ MaxReconnects \in Nat

Peer    == "peer"
Members == {Peer} \cup Others
ASSUME MembersAssumption == Peer \notin Others

(* The keys of userDevicesCache. *)
Addresses == {"peerPN", "peerLID", "ownPN", "ownLID"}
UserOf(a) == IF a \in {"peerPN", "peerLID"} THEN Peer ELSE "own"

Kinds == {"devices", "own", "group"}

VARIABLES
    devices,  \* devices[u]: the devices of u at the server
    members,  \* the members of the group at the server
    past,     \* history: the device lists that each user ever had
    youngest, \* youngest[k]: the number of changes of kind k so far
    queue,    \* notifications sent and not handled, in order
    loose,    \* notifications in goroutines that wait to enter the queue
    spawned,  \* notifications that the queue's loop does not wait for
    cache,    \* cli.userDevicesCache
    group,    \* the members in cli.groupCache, or None
    send,     \* the SendMessage that holds messageSendLock
    lookup,   \* the lookup of the group's members; bound: one at a time
    late,     \* history: kinds whose last change to be handled was not the youngest
    swapped,  \* history: a group change was held up while a younger one was made
    raced,    \* history: one was handled while GetGroupInfo had its answer
    reconnects \* number of connections lost

serverVars == <<devices, members, past, youngest>>
queueVars  == <<queue, loose, spawned>>
histVars   == <<late, swapped, raced>>
vars == <<devices, members, past, youngest, queue, loose, spawned, cache, group,
          send, lookup, late, swapped, raced, reconnects>>

Outstanding == {queue[n] : n \in DOMAIN queue} \cup loose \cup spawned

ListOf(S) == [d \in Entries |-> IF d \in S THEN 1 ELSE 0]
Empty     == ListOf({})
Current(a) == ListOf(devices[UserOf(a)])

-----------------------------------------------------------------------------
(* The server. *)

(* A node reaches the client: it enters the queue, or a goroutine that will *)
(* put it in when there is room.                                            *)
Arrive(node) ==
    IF Len(queue) < QueueCap
    THEN queue' = Append(queue, node) /\ UNCHANGED loose
    ELSE loose' = loose \cup {node} /\ UNCHANGED queue

Notify(kind, node) ==
    /\ youngest["devices"] + youngest["own"] + youngest["group"] < MaxChanges
    /\ youngest' = [youngest EXCEPT ![kind] = @ + 1]
    /\ Arrive(node)
    /\ UNCHANGED <<spawned, cache, group, send, lookup, histVars, reconnects>>

(* A device of u is linked or unlinked.  Of the peer the server tells the   *)
(* change and the new hash, without the LIDs, with the device's LID only or  *)
(* with the hash of the LIDs too; of the user itself it tells the whole list. *)
ChangeDevices(u, d) ==
    LET S == IF d \in devices[u] THEN devices[u] \ {d} ELSE devices[u] \cup {d}
    IN  /\ devices' = [devices EXCEPT ![u] = S]
        /\ past' = [past EXCEPT ![u] = @ \cup {ListOf(S)}]
        /\ UNCHANGED members
        /\ IF u = Peer
           THEN \E lid \in {"none", "device", "hash"} :
                  Notify("devices", [kind |-> "devices", number |-> youngest["devices"] + 1, device |-> d,
                                     tag |-> IF d \in S THEN "add" ELSE "remove",
                                     list |-> ListOf(S), lid |-> lid])
           ELSE Notify("own", [kind |-> "own", number |-> youngest["own"] + 1, list |-> ListOf(S)])

(* A change of the peer's list that the server does not describe. *)
UpdateDevices ==
    /\ UNCHANGED <<devices, members, past>>
    /\ Notify("devices", [kind |-> "devices", number |-> youngest["devices"] + 1, tag |-> "update"])

ChangeMembers(m) ==
    /\ members' = IF m \in members THEN members \ {m} ELSE members \cup {m}
    /\ UNCHANGED <<devices, past>>
    /\ Notify("group", [kind |-> "group", number |-> youngest["group"] + 1, member |-> m,
                        join |-> m \notin members])

HeldUp(node) ==
    swapped' = (swapped \/ (node.kind = "group" /\ node.number < youngest["group"]))

(* A goroutine of handleFrame finds room. *)
Enter(node) ==
    /\ node \in loose /\ Len(queue) < QueueCap
    /\ loose' = loose \ {node}
    /\ queue' = Append(queue, node)
    /\ HeldUp(node)
    /\ UNCHANGED <<serverVars, spawned, cache, group, send, lookup, late, raced, reconnects>>

-----------------------------------------------------------------------------
(* The handlers of notifications, in handlerQueueLoop.  userDevicesCacheLock *)
(* and groupCacheLock are held by the lookups that wait for an answer.       *)

DevicesLocked == send.step = "store"
GroupLocked   == lookup.step # "idle" /\ lookup.locked

Handled(node) ==
    late' = IF node.number = youngest[node.kind] THEN late \ {node.kind}
            ELSE late \cup {node.kind}

Changed(list, node) ==
    [list EXCEPT ![node.device] = IF node.tag = "add" THEN @ + 1 ELSE 0]

(* MUTANT: the new list is kept whatever its hash. *)
UncheckedList(list, node) == Changed(list, node)

(* The list after the change, if its hash is the one the server gave. *)
CheckedList(list, node) ==
    IF Changed(list, node) = node.list THEN Changed(list, node) ELSE None

(* slices.DeleteFunc moves the other devices up and empties the end of the  *)
(* array, which the cached list still covers.                               *)
DeletedInPlace(list, d) == [list EXCEPT ![d] = 0, ![Blank] = @ + list[d]]

(* The list of the LID: without its hash the change is not stored, but a    *)
(* removal has reached the cached list.                                     *)
LIDList(list, node) ==
    CASE node.lid = "hash" -> CheckedList(IF list = None THEN Empty ELSE list, node)
      [] node.lid = "device" /\ node.tag = "remove" /\ list # None ->
            DeletedInPlace(list, node.device)
      [] OTHER -> list

(* A node is handled while the loop waits, or in a goroutine on its own. *)
FromLoop(node) ==
    /\ queue # <<>> /\ node = Head(queue)
    /\ queue' = Tail(queue) /\ UNCHANGED <<spawned, swapped>>
OnItsOwn(node) ==
    /\ node \in spawned
    /\ spawned' = spawned \ {node} /\ HeldUp(node) /\ UNCHANGED queue

(* The loop goes on without waiting for the handler: of an account_sync     *)
(* node it only starts a goroutine, of another one five minutes have        *)
(* passed, or the loop of the next connection takes the next node.          *)
Spawn ==
    /\ queue # <<>>
    /\ spawned' = spawned \cup {Head(queue)}
    /\ queue' = Tail(queue)
    /\ UNCHANGED <<serverVars, loose, cache, group, send, lookup, histVars, reconnects>>

UpdateLists(node) ==
    cache' = IF cache["peerPN"] = None THEN cache
             ELSE IF node.tag = "update" THEN [cache EXCEPT !["peerPN"] = None]
             ELSE [cache EXCEPT !["peerPN"] = CheckedList(@, node),
                                !["peerLID"] = LIDList(@, node)]

(* MUTANT: handleDeviceNotification takes no lock. *)
HandleDevicesUnlocked(n) ==
    /\ n.kind = "devices" /\ (FromLoop(n) \/ OnItsOwn(n))
    /\ UpdateLists(n) /\ Handled(n)
    /\ UNCHANGED <<serverVars, loose, group, send, lookup, raced, reconnects>>

(* handleDeviceNotification: nothing happens, to the LID list either, when  *)
(* the list of the phone number is not cached.                              *)
HandleDevices(n) ==
    /\ n.kind = "devices" /\ (FromLoop(n) \/ OnItsOwn(n))
    /\ ~DevicesLocked
    /\ UpdateLists(n) /\ Handled(n)
    /\ UNCHANGED <<serverVars, loose, group, send, lookup, raced, reconnects>>

(* MUTANT: handleOwnDevicesNotification takes no lock. *)
HandleOwnUnlocked(n) ==
    /\ n.kind = "own" /\ OnItsOwn(n)
    /\ cache' = [cache EXCEPT !["ownPN"] = IF @ = None THEN None ELSE n.list]
    /\ Handled(n)
    /\ UNCHANGED <<serverVars, loose, group, send, lookup, raced, reconnects>>

(* handleOwnDevicesNotification: the whole list, of the phone number only. *)
HandleOwn(n) ==
    /\ n.kind = "own" /\ OnItsOwn(n) /\ ~DevicesLocked
    /\ cache' = [cache EXCEPT !["ownPN"] = IF @ = None THEN None ELSE n.list]
    /\ Handled(n)
    /\ UNCHANGED <<serverVars, loose, group, send, lookup, raced, reconnects>>

UpdateMembers(node) ==
    /\ group' = IF group = None THEN None
                ELSE IF node.join THEN group \cup {node.member} ELSE group \ {node.member}
    /\ raced' = (raced \/ (lookup.step = "store" /\ ~lookup.locked))

(* MUTANT: updateGroupParticipantCache takes no lock. *)
HandleGroupUnlocked(n) ==
    /\ n.kind = "group" /\ (FromLoop(n) \/ OnItsOwn(n))
    /\ UpdateMembers(n) /\ Handled(n)
    /\ UNCHANGED <<serverVars, loose, cache, send, lookup, reconnects>>

(* updateGroupParticipantCache: no hash is given, the change is applied. *)
HandleGroup(n) ==
    /\ n.kind = "group" /\ (FromLoop(n) \/ OnItsOwn(n))
    /\ ~GroupLocked
    /\ UpdateMembers(n) /\ Handled(n)
    /\ UNCHANGED <<serverVars, loose, cache, send, lookup, reconnects>>

(* The connection is lost and made again: the server sends what was not     *)
(* acknowledged once more, behind what the queue still holds, or into       *)
(* goroutines that wait for room.                                           *)
Reconnect ==
    /\ reconnects < MaxReconnects /\ queue # <<>>
    /\ reconnects' = reconnects + 1
    \* bound: there is room for all of them or for none
    /\ \/ 2 * Len(queue) <= QueueCap /\ queue' = queue \o queue /\ UNCHANGED loose
       \/ Len(queue) = QueueCap /\ UNCHANGED queue
          /\ loose' = loose \cup {queue[n] : n \in DOMAIN queue}
    /\ UNCHANGED <<serverVars, spawned, cache, group, send, lookup, histVars>>

-----------------------------------------------------------------------------
(* Looking up the members of the group: getCachedGroupData (locked, when    *)
(* they are not cached) keeps groupCacheLock until it has the answer,       *)
(* GetGroupInfo (not locked) takes it to store the answer.  Until the       *)
(* answer a request changes nothing but when the handlers run, and a failed *)
(* one nothing at all: a lookup begins with its answer.                     *)

NoLookup == [step |-> "idle", locked |-> FALSE, answer |-> {}]

LookupAnswer(locked) ==
    /\ lookup.step = "idle"
    /\ locked => group = None
    /\ lookup' = [step |-> "store", locked |-> locked, answer |-> members]
    /\ UNCHANGED <<serverVars, queueVars, cache, group, send, histVars, reconnects>>

(* cacheGroupInfo *)
LookupStore ==
    /\ lookup.step = "store"
    /\ group' = lookup.answer
    /\ lookup' = NoLookup
    /\ UNCHANGED <<serverVars, queueVars, cache, send, histVars, reconnects>>

-----------------------------------------------------------------------------
(* SendMessage, from the choice of the recipients to the server's answer.   *)

Targets == {"peerPN", "peerLID", "group"}
NoLists == [a \in Addresses |-> None]
Idle == [step |-> "idle", to |-> "peerPN", members |-> {}, lists |-> NoLists, match |-> TRUE]

(* The users whose devices get the message. *)
Needed(s) ==
    CASE s.to = "peerPN"  -> {"peerPN", "ownPN"}
      [] s.to = "peerLID" -> {"peerLID", "ownLID"}
      [] s.to = "group"   -> {a \in {"peerLID", "ownLID"} : a = "peerLID" => Peer \in s.members}

(* The members of a group are read before messageSendLock is taken. *)
SendStart(to) ==
    /\ send.step = "idle"
    /\ to = "group" => group # None /\ ~GroupLocked
    /\ send' = [Idle EXCEPT !.step = "devices", !.to = to,
                            !.members = IF to = "group" THEN group ELSE {}]
    /\ UNCHANGED <<serverVars, queueVars, cache, group, lookup, histVars, reconnects>>

(* MUTANT: users that are not cached are left out. *)
GetUserDevicesCached ==
    /\ send.step = "devices"
    /\ send' = [send EXCEPT !.step = "upload",
                            !.lists = [a \in Addresses |-> IF a \in Needed(send) THEN cache[a] ELSE None]]
    /\ UNCHANGED <<serverVars, queueVars, cache, group, lookup, histVars, reconnects>>

(* GetUserDevices takes the cached lists, asks for the others, and keeps    *)
(* userDevicesCacheLock until it has stored the answer.                     *)
GetUserDevices ==
    /\ send.step = "devices"
    /\ send' = [send EXCEPT
                  !.step = IF \A a \in Needed(send) : cache[a] # None THEN "upload" ELSE "store",
                  !.lists = [a \in Addresses |->
                               IF a \notin Needed(send) THEN None
                               ELSE IF cache[a] # None THEN cache[a] ELSE Current(a)]]
    /\ UNCHANGED <<serverVars, queueVars, cache, group, lookup, histVars, reconnects>>

UsyncStore ==
    /\ send.step = "store"
    /\ cache' = [a \in Addresses |-> IF a \in Needed(send) THEN send.lists[a] ELSE cache[a]]
    /\ send' = [send EXCEPT !.step = "upload"]
    /\ UNCHANGED <<serverVars, queueVars, group, lookup, histVars, reconnects>>

(* The server compares the hash of the devices (a group message carries it, *)
(* and the acknowledgement of every message does) with its own lists.       *)
Upload ==
    /\ send.step = "upload"
    /\ send' = [Idle EXCEPT !.step = "answer", !.to = send.to,
                            !.match = /\ \A a \in Needed(send) : send.lists[a] = Current(a)
                                      /\ send.to = "group" => send.members = members]
    /\ UNCHANGED <<serverVars, queueVars, cache, group, lookup, histVars, reconnects>>

(* MUTANT: a different hash is only logged. *)
FinishLogs ==
    /\ send.step = "answer"
    /\ send' = Idle
    /\ UNCHANGED <<serverVars, queueVars, cache, group, lookup, histVars, reconnects>>

(* When it differs, the list that the message was addressed to is dropped:  *)
(* the members of the group, or the devices of the peer.                    *)
Finish ==
    /\ send.step = "answer"
    /\ send' = Idle
    /\ IF send.to = "group"
       THEN /\ ~GroupLocked \/ send.match
            /\ group' = IF send.match THEN group ELSE None
            /\ UNCHANGED cache
       ELSE /\ cache' = IF send.match THEN cache ELSE [cache EXCEPT ![send.to] = None]
            /\ UNCHANGED group
    /\ UNCHANGED <<serverVars, queueVars, lookup, histVars, reconnects>>

(* A request fails or times out. *)
SendFails ==
    /\ send.step \in {"devices", "upload", "answer"}
    /\ send' = Idle
    /\ UNCHANGED <<serverVars, queueVars, cache, group, lookup, histVars, reconnects>>

-----------------------------------------------------------------------------
Init ==
    /\ devices = [u \in {Peer, "own"} |-> {}]
    /\ members = {Peer}
    /\ past = [u \in {Peer, "own"} |-> {Empty}]
    /\ youngest = [k \in Kinds |-> 0]
    /\ queue = <<>> /\ loose = {} /\ spawned = {}
    /\ cache = NoLists /\ group = None
    /\ send = Idle
    /\ lookup = NoLookup
    /\ late = {} /\ swapped = FALSE /\ raced = FALSE
    /\ reconnects = 0

ServerStep ==
    \/ \E u \in {Peer, "own"}, d \in Devices : ChangeDevices(u, d)
    \/ UpdateDevices
    \/ \E m \in Members : ChangeMembers(m)

Handle(n) == HandleDevices(n) \/ HandleOwn(n) \/ HandleGroup(n)
Sending == GetUserDevices \/ UsyncStore \/ Upload \/ Finish

Next ==
    \/ ServerStep
    \/ \E n \in loose : Enter(n)
    \/ \E n \in Outstanding : Handle(n)
    \/ Spawn
    \/ Reconnect
    \/ \E locked \in BOOLEAN : LookupAnswer(locked)
    \/ LookupStore
    \/ \E to \in Targets : SendStart(to)
    \/ Sending \/ SendFails

Spec == Init /\ [][Next]_vars

(* The application keeps sending messages to the peer's LID, and again and  *)
(* again one is answered.  Notifications may wait for ever.                 *)
Answered == send.to = "peerLID" /\ Finish
FairSpec == Spec /\ []<><<Answered>>_vars

-----------------------------------------------------------------------------
(* Properties. *)

Numbers == 0..MaxChanges
Nodes ==
    [kind : {"devices"}, number : Numbers, device : Devices, tag : {"add", "remove"},
     list : Lists, lid : {"none", "device", "hash"}]
    \cup [kind : {"devices"}, number : Numbers, tag : {"update"}]
    \cup [kind : {"own"}, number : Numbers, list : Lists]
    \cup [kind : {"group"}, number : Numbers, member : Members, join : BOOLEAN]

(* Every variable keeps its type, and a message goes to a list of devices of *)
(* every user who needs it.                                                  *)
TypeOK ==
    /\ devices \in [{Peer, "own"} -> SUBSET Devices] /\ members \subseteq Members
    /\ \A u \in {Peer, "own"} : past[u] \subseteq Lists
    /\ youngest \in [Kinds -> Numbers]
    /\ queue \in Seq(Nodes) /\ Len(queue) <= QueueCap
    /\ loose \subseteq Nodes /\ spawned \subseteq Nodes
    /\ cache \in [Addresses -> Lists \cup {None}]
    /\ group \in (SUBSET Members) \cup {None}
    /\ send \in [step : {"idle", "devices", "store", "upload", "answer"},
                  to : Targets, members : SUBSET Members,
                  lists : [Addresses -> Lists \cup {None}], match : BOOLEAN]
    /\ send.step \in {"store", "upload"} => \A a \in Needed(send) : send.lists[a] # None
    /\ lookup \in [step : {"idle", "store"}, locked : BOOLEAN,
                    answer : SUBSET Members]
    /\ late \subseteq Kinds /\ swapped \in BOOLEAN /\ raced \in BOOLEAN
    /\ reconnects \in 0..MaxReconnects

Drained(k)  == k \notin late /\ \A n \in Outstanding : n.kind # k

(* Once the last change of the peer's devices has been handled last, a list *)
(* cached for its phone number is the server's, though the answer to a      *)
(* lookup overtakes notifications, which are then applied to a list that    *)
(* has them already, and though notifications come twice: the hash drops a  *)
(* list that went wrong, and the lock keeps out those that a lookup did not *)
(* count in.                                                                *)
PeerListIsCurrent ==
    Drained("devices") => cache["peerPN"] \in {None, Current("peerPN")}

(* The same of the own devices, whose notifications are handled by          *)
(* goroutines in any order: the last one that ran must be the youngest.     *)
OwnListIsCurrent ==
    Drained("own") => cache["ownPN"] \in {None, Current("ownPN")}

(* Whatever order full queues, reconnections and handlers left behind bring *)
(* about, a cached list is one that the server had: nothing is stored that  *)
(* the hash does not confirm.  The one change without a hash is a removal   *)
(* from the list of the LID, which leaves empty addresses on it and still   *)
(* no device that the user did not have.                                    *)
Emptied(list) ==
    list[Blank] > 0 /\ \E had \in past[Peer] : \A d \in Devices : list[d] <= had[d]
CachedWasTrue ==
    \A a \in Addresses : cache[a] # None =>
        cache[a] \in past[UserOf(a)] \/ (a = "peerLID" /\ Emptied(cache[a]))

(* The members of a group are the server's when its changes were handled in *)
(* order (none waited in a goroutine while a younger one was made), unless  *)
(* GetGroupInfo stored an answer older than a change.                       *)
GroupIsCurrent ==
    (Drained("group") /\ ~swapped /\ ~raced) => group \in {None, members}

(* Where notifications do not help (the list of a LID is not updated while  *)
(* that of the number is not cached, nor by a notification without LIDs),   *)
(* messages do: a stale list of a LID ends.                                 *)
StaleLIDListEnds ==
    (cache["peerLID"] \notin {None, Current("peerLID")})
        ~> (cache["peerLID"] \in {None, Current("peerLID")})
=============================================================================
