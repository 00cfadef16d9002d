------------------------------ MODULE AppState ------------------------------
(***************************************************************************)
(* One app state collection of a whatsmeow client: the replica of a log of *)
(* patches that the server keeps, checked with a homomorphic hash.         *)
(*                                                                         *)
(* A patch sets or removes entries, named by their index MAC.  Each set    *)
(* has a value MAC of its own, and the hash of a state is the sum of the   *)
(* value MACs of its entries: here the number of times that each value MAC *)
(* is counted, which is what decides whether two hashes are equal.  The    *)
(* snapshot MAC of a patch binds the hash that its author computed to the  *)
(* version; the server cannot compute it and does not check it.            *)
(*                                                                         *)
(* fetchAppState holds appStateSyncLock from its first read of the         *)
(* database to its last write, so it is one process, "fetch", whoever      *)
(* calls it.  sendAppState takes no lock before it resynchronises: each    *)
(* sender is a process too.  Every statement on the database is a step.    *)
(***************************************************************************)
EXTENDS Integers, Sequences, FiniteSets

CONSTANTS
    Indexes,     \* index MACs
    Shapes,      \* bound: the patches that are made, [Indexes -> Operations]
    Keys,        \* app state sync keys, by their timestamps
    FirstKeys,   \* the keys that were shared at pairing
    Senders,     \* bound: calls of sendAppState
    MaxVersion,  \* bound: length of the server's log
    MaxFaults    \* bound: crashes and failing statements

Operations == {"none", "SET", "REMOVE"}
Versions   == 1..MaxVersion

ASSUME ShapesAssumption == Shapes \subseteq [Indexes -> Operations]
ASSUME KeysAssumption   == Keys \subseteq Nat /\ IsFiniteSet(Keys) /\ FirstKeys \subseteq Keys
ASSUME BoundsAssumption == MaxVersion \in Nat /\ MaxFaults \in Nat
ASSUME SendersAssumption == "fetch" \notin Senders

VARIABLES
    log,       \* the server's patches
    row,       \* the row of whatsmeow_app_state_version
    macs,      \* the rows of whatsmeow_app_state_mutation_macs
    settings,  \* settings[i]: the version whose value of i is in the stores
    keys,      \* the keys in whatsmeow_app_state_sync_keys
    requests,  \* the keys in cli.appStateKeyRequests
    asking,    \* the keys that requestMissingAppStateKeys would find missing
    asked,     \* the keys that the phone was asked for and has not answered
    shared,    \* handleAppStateSyncKeyShare before its fetch: "no" or its mode
    notified,  \* a server_sync notification waits for its fetch
    work,      \* work[p]: what process p is doing
    clean,     \* history: no fault since the last full sync, and none of two
               \* processes changed the tables under the other
    skipped,   \* history: mutations that were counted did not reach the stores
    faults     \* number of faults so far

keyVars == <<keys, requests, asking, asked, shared>>
dbVars  == <<row, macs, settings>>
vars == <<log, row, macs, settings, keys, requests, asking, asked, shared,
          notified, work, clean, skipped, faults>>

Procs == {"fetch"} \cup Senders

(* A hash: how often each value MAC is counted.  The value that version v   *)
(* gives to index i has a MAC of its own.                                   *)
Zero  == [v \in Versions |-> [i \in Indexes |-> 0]]
NoRow == [version |-> 0, hash |-> Zero]

NoNews == [i \in Indexes |-> 0]
NoOps  == [i \in Indexes |-> "none"]

(* A process: where it is, whether it starts from (then: has got) a         *)
(* snapshot, skips synced collections, may ask for more and may try again,  *)
(* its HashState, the                                                       *)
(* patches it has received and not stored, the values it has decoded and    *)
(* not given to the stores, and the patch it uploads.                       *)
Resting == [step |-> "idle", full |-> FALSE, onlyNew |-> FALSE, more |-> FALSE,
            again |-> FALSE, state |-> NoRow, list |-> <<>>, news |-> NoNews,
            ops |-> NoOps, mac |-> Zero, sound |-> FALSE]

Steps == {"idle", "read", "ask", "decode", "version", "delete", "insert",
          "encode", "upload", "resync", "done"}

-----------------------------------------------------------------------------
(* The states that the patches describe. *)

(* The last version of the log l up to v that touches i. *)
Touching(l, v, i) == {w \in 1..v : l[w].ops[i] # "none"}
Newest(S) == CHOOSE w \in S : \A x \in S : x <= w

(* The entries after version v: the version that set each index, or 0. *)
Contents(l, v) ==
    [i \in Indexes |->
        LET T == Touching(l, v, i)
        IN  IF T = {} \/ l[Newest(T)].ops[i] = "REMOVE" THEN 0 ELSE Newest(T)]

HashOf(entries) ==
    [v \in Versions |-> [i \in Indexes |-> IF entries[i] = v THEN 1 ELSE 0]]

TrueHash(l, v) == HashOf(Contents(l, v))

(* updateHash: add the values that are set, subtract the ones they replace. *)
Updated(hash, ops, v, previous) ==
    [w \in Versions |-> [i \in Indexes |->
        hash[w][i] + (IF w = v /\ ops[i] = "SET" THEN 1 ELSE 0)
                   - (IF ops[i] # "none" /\ previous[i] = w THEN 1 ELSE 0)]]

(* GetAppStateMutationMAC: the row with the largest version, 0 if none. *)
Lookup ==
    [i \in Indexes |->
        LET R == {r \in macs : r.index = i}
        IN  IF R = {} THEN 0
            ELSE (CHOOSE r \in R : \A q \in R : q.version <= r.version).value]

-----------------------------------------------------------------------------
(* Processes and the history of their overlap. *)

(* The processes that have a HashState to apply patches to: the tables must *)
(* not change under them.                                                   *)
Holds(p) ==
    \/ work[p].step \in {"decode", "version", "delete", "insert"}
    \/ p = "fetch" /\ work[p].step \in {"read", "ask"}
Alone == \A p, q \in Procs : Holds(p) /\ Holds(q) => p = q

(* Process p becomes w; two that apply patches at once are remembered. *)
Becomes(p, w) ==
    /\ work' = [work EXCEPT ![p] = w]
    /\ clean' = (clean /\ Alone')

Fault == faults < MaxFaults /\ faults' = faults + 1

(* The call of p is over, with an error or without. *)
Over(p) == IF p = "fetch" THEN Resting ELSE [Resting EXCEPT !.step = "done"]
Ends(p) == Becomes(p, Over(p))

-----------------------------------------------------------------------------
(* The server and the phone. *)

(* Another device uploads a patch; the server notifies this one. *)
Publish(ops, k) ==
    /\ Len(log) < MaxVersion
    /\ LET l == Append(log, [ops |-> ops, key |-> k, mac |-> Zero, sound |-> TRUE])
       IN  log' = [l EXCEPT ![Len(l)].mac = TrueHash(l, Len(l))]
    /\ notified' = TRUE
    /\ UNCHANGED <<dbVars, keyVars, work, clean, skipped, faults>>

(* MUTANT: a share is never taken for an answer. *)
KeyShareOnlyNew(k) ==
    /\ shared = "no" /\ k \notin keys
    /\ \/ keys' = keys \cup {k} /\ asking' = asking \ {k} /\ UNCHANGED faults
       \/ Fault /\ UNCHANGED <<keys, asking>>
    /\ shared' = "only new"
    /\ asked' = asked \ {k}
    /\ UNCHANGED <<log, dbVars, requests, notified, work, clean, skipped>>

(* A message with a key, asked for or not, and what its handler does before *)
(* the fetch: the collection is fetched again only if the key was asked for *)
(* or nothing was ever fetched.  A key that cannot be stored is dropped,    *)
(* and its entry in appStateKeyRequests stays.                              *)
KeyShare(k) ==
    /\ shared = "no" /\ k \notin keys
    /\ \/ keys' = keys \cup {k} /\ asking' = asking \ {k} /\ UNCHANGED faults
       \/ Fault /\ UNCHANGED <<keys, asking>>
    /\ shared' = IF k \in requests THEN "fetch" ELSE "only new"
    /\ asked' = asked \ {k}
    /\ UNCHANGED <<log, dbVars, requests, notified, work, clean, skipped>>

(* requestMissingAppStateKeys, in a goroutine of its own: keys that it asked *)
(* for in the last 24 hours, as the clock has it, are left out; the others   *)
(* are noted as asked for before the message is sent, which may fail.        *)
RequestMissing ==
    /\ asking # {}
    /\ \E recent \in SUBSET (asking \cap requests) :
         asked' \in {asked \cup (asking \ recent), asked}
    /\ requests' = requests \cup asking
    /\ asking' = {}
    /\ UNCHANGED <<log, dbVars, keys, shared, notified, work, clean,
                   skipped, faults>>

-----------------------------------------------------------------------------
(* fetchAppState. *)

(* MUTANT: the MACs outlive the version they belong to. *)
LockKeepsMACs(full) ==
    /\ work["fetch"].step = "idle"
    /\ row' = IF full THEN NoRow ELSE row
    /\ UNCHANGED <<log, macs, settings, keys, requests, asking, asked, faults>>

(* Takes the lock.  A full sync deletes the version, and with it, by the    *)
(* foreign key, the MACs.                                                   *)
Lock(full) ==
    /\ work["fetch"].step = "idle"
    /\ row' = IF full THEN NoRow ELSE row
    /\ macs' = IF full THEN {} ELSE macs
    /\ UNCHANGED <<log, settings, keys, requests, asking, asked, faults>>

Fetching(full, onlyNew) ==
    [Resting EXCEPT !.step = "read", !.full = full, !.onlyNew = onlyNew]

FetchOnNotification ==
    /\ notified
    /\ Lock(FALSE) /\ Becomes("fetch", Fetching(FALSE, FALSE))
    /\ notified' = FALSE
    /\ UNCHANGED <<shared, skipped>>

FetchOnKeyShare ==
    /\ shared # "no"
    /\ LET onlyNew == shared = "only new"
       IN  Lock(FALSE) /\ Becomes("fetch", Fetching(FALSE, onlyNew))
    /\ shared' = "no"
    /\ UNCHANGED <<notified, skipped>>

(* FetchAppState with fullSync, called by the application: it starts from   *)
(* nothing, and gives every entry to the stores again.                      *)
FetchFully ==
    /\ Lock(TRUE)
    /\ work' = [work EXCEPT !["fetch"] = Fetching(TRUE, FALSE)]
    /\ clean' = Alone'
    /\ skipped' = FALSE
    /\ UNCHANGED <<shared, notified>>

(* The end of sendAppState: the fetch is this sender's. *)
FetchAfterSend(s) ==
    /\ work[s].step = "resync"
    /\ Lock(FALSE)
    /\ work' = [work EXCEPT ![s] = Over(s), !["fetch"] = Fetching(FALSE, FALSE)]
    /\ clean' = (clean /\ Alone')
    /\ UNCHANGED <<shared, notified, skipped>>

FetchRead ==
    LET w == work["fetch"]
    IN  /\ w.step = "read"
        /\ IF row.version > 0 /\ w.onlyNew
           THEN Ends("fetch")
           ELSE Becomes("fetch", [Resting EXCEPT !.step = "ask", !.state = row,
                                                 !.again = w.full \/ row.version = 0])
        /\ UNCHANGED <<log, dbVars, keyVars, notified, skipped, faults>>

(* The versions from a to b, as patches. *)
Patches(a, b) == [n \in 1..(b - a + 1) |-> [snapshot |-> FALSE, version |-> a + n - 1]]

(* fetchAppStatePatches: the server answers with as many patches as it      *)
(* likes, after a snapshot (the field again) if one is wanted and exists.   *)
FetchReply ==
    LET w == work["fetch"]
    IN  /\ w.step = "ask"
        /\ \E last \in w.state.version..Len(log) :
             LET more == last < Len(log)
                 Answer(list) == [w EXCEPT !.step = "decode", !.list = list,
                                           !.more = more, !.again = FALSE,
                                           !.full = w.again /\ w.state.version = 0
                                                    /\ list # <<>> /\ Head(list).snapshot]
             IN  \/ /\ ~w.again \/ Len(log) = 0
                    /\ more => last > w.state.version
                    /\ Becomes("fetch", Answer(Patches(w.state.version + 1, last)))
                 \/ /\ w.again
                    /\ \E snap \in 1..last :
                         Becomes("fetch", Answer(<<[snapshot |-> TRUE, version |-> snap]>>
                                                 \o Patches(snap + 1, last)))
        /\ UNCHANGED <<log, dbVars, keyVars, notified, skipped, faults>>

FetchFails ==
    /\ work["fetch"].step = "ask"
    /\ Ends("fetch")
    /\ UNCHANGED <<log, dbVars, keyVars, notified, skipped, faults>>

-----------------------------------------------------------------------------
(* applyAppStatePatches, called by fetchAppState and by sendAppState. *)

(* The snapshot MAC that came with it. *)
Expected(item) ==
    IF item.snapshot THEN TrueHash(log, item.version) ELSE log[item.version].mac

(* The hash after the first item of the list of w. *)
NextHash(w) ==
    LET v == Head(w.list).version
        snapshot == HashOf(Contents(log, v))
    IN  IF Head(w.list).snapshot
        THEN [x \in Versions |-> [i \in Indexes |-> w.state.hash[x][i] + snapshot[x][i]]]
        ELSE Updated(w.state.hash, log[v].ops, v, Lookup)

(* MUTANT: the version is counted on, not taken from the item. *)
NextStateCounted(w) ==
    [version |-> w.state.version + Len(w.list), hash |-> NextHash(w)]

(* The HashState after it. *)
NextState(w) == [version |-> Head(w.list).version, hash |-> NextHash(w)]

(* The values an item sets, and the indexes it removes. *)
Sets(item) ==
    IF item.snapshot THEN Contents(log, item.version)
    ELSE [i \in Indexes |-> IF log[item.version].ops[i] = "SET" THEN item.version ELSE 0]

Removes(item) ==
    IF item.snapshot THEN {}
    ELSE {i \in Indexes : log[item.version].ops[i] = "REMOVE"}

Needs(item) == log[item.version].key

(* MUTANT: the snapshot MAC is not compared. *)
VerifiesAnything(w) == TRUE

(* validateSnapshotMAC *)
Verifies(w) == NextState(w).hash = Expected(Head(w.list))

(* DecodePatches, up to the first statement that stores the item. *)
Decode(p) ==
    LET w == work[p]
    IN  /\ w.step = "decode" /\ w.list # <<>>
        /\ Needs(Head(w.list)) \in keys /\ Verifies(w)
        /\ Becomes(p, [w EXCEPT !.step = "version", !.state = NextState(w)])
        /\ UNCHANGED <<log, dbVars, keyVars, notified, skipped, faults>>

(* It returns an error instead: nothing that was decoded is passed on. *)
DecodeFails(p) ==
    LET w == work[p]
    IN  /\ w.step = "decode" /\ w.list # <<>>
        /\ \/ /\ Needs(Head(w.list)) \notin keys
              /\ asking' = asking \cup ({Needs(w.list[n]) : n \in DOMAIN w.list} \ keys)
           \/ /\ Needs(Head(w.list)) \in keys /\ ~Verifies(w)
              /\ UNCHANGED asking
        /\ Ends(p)
        /\ skipped' = (skipped \/ w.news # NoNews)
        /\ UNCHANGED <<log, dbVars, keys, requests, asked, shared, notified, faults>>

(* storeMACs: three statements, whose errors are only logged.  A statement  *)
(* with nothing to do is not run.                                           *)
PutVersion(p) ==
    LET w == work[p]
    IN  /\ w.step = "version"
        /\ \/ row' = w.state /\ UNCHANGED <<faults, clean>>
           \/ UNCHANGED row /\ Fault /\ clean' = FALSE
        /\ work' = [work EXCEPT ![p].step =
                      IF Removes(Head(w.list)) = {} THEN "insert" ELSE "delete"]
        /\ UNCHANGED <<log, macs, settings, keyVars, notified, skipped>>

DeleteMACs(p) ==
    LET w == work[p]
    IN  /\ w.step = "delete"
        /\ \/ /\ macs' = {r \in macs : r.index \notin Removes(Head(w.list))}
              /\ UNCHANGED <<faults, clean>>
           \/ UNCHANGED macs /\ Fault /\ clean' = FALSE
        /\ work' = [work EXCEPT ![p].step = "insert"]
        /\ UNCHANGED <<log, row, settings, keyVars, notified, skipped>>

Added(w) ==
    LET item == Head(w.list)
    IN  {[version |-> w.state.version, index |-> i, value |-> Sets(item)[i]] :
            i \in {j \in Indexes : Sets(item)[j] # 0}}

(* The tables refuse a second row for a version and an index, and rows of a *)
(* collection without a version: then nothing is inserted.                  *)
Refused(rows) ==
    \/ row = NoRow
    \/ \E r \in rows, q \in macs : r.version = q.version /\ r.index = q.index

(* MUTANT: DecodePatches forgets the mutations of the items before. *)
NewsOfLast(w) == Sets(Head(w.list))

(* The mutations so far, the later ones over the earlier ones. *)
News(w) == [i \in Indexes |-> LET new == Sets(Head(w.list))[i]
                              IN  IF new # 0 THEN new ELSE w.news[i]]

InsertMACs(p) ==
    LET w == work[p]
    IN  /\ w.step = "insert"
        /\ \/ /\ macs' = IF Refused(Added(w)) THEN macs ELSE macs \cup Added(w)
              /\ UNCHANGED <<faults, clean>>
           \/ Added(w) # {} /\ UNCHANGED macs /\ Fault /\ clean' = FALSE
        /\ work' = [work EXCEPT ![p].step = "decode", ![p].list = Tail(@),
                                ![p].news = News(w)]
        /\ UNCHANGED <<log, row, settings, keyVars, notified, skipped>>

(* The whole list is decoded: dispatchAppState gives every SET to the       *)
(* stores, and only logs those that it cannot store.  A fetch asks for more *)
(* or ends, a sender tries again.                                           *)
Dispatch(p) ==
    LET w == work[p]
        rest == [w EXCEPT !.list = <<>>, !.news = NoNews, !.full = FALSE]
        new  == {i \in Indexes : w.news[i] # 0}
    IN  /\ w.step = "decode" /\ w.list = <<>>
        /\ \E lost \in SUBSET new :
             /\ settings' = [i \in Indexes |-> IF i \in new \ lost THEN w.news[i]
                                              ELSE settings[i]]
             /\ \/ lost = {} /\ UNCHANGED <<skipped, faults>>
                \/ lost # {} /\ Fault /\ skipped' = TRUE
        /\ IF p = "fetch"
           THEN IF w.more THEN Becomes(p, [rest EXCEPT !.step = "ask"]) ELSE Ends(p)
           ELSE Becomes(p, [Resting EXCEPT !.step = "read", !.ops = w.ops])
        /\ UNCHANGED <<log, row, macs, keyVars, notified>>

(* The contacts of a first snapshot go into the store together, before the  *)
(* rest: when that fails the fetch is given up, with its patches stored.    *)
DispatchAborts ==
    /\ work["fetch"].step = "decode" /\ work["fetch"].list = <<>>
    /\ work["fetch"].full
    /\ Fault
    /\ Ends("fetch")
    /\ skipped' = TRUE
    /\ UNCHANGED <<log, dbVars, keyVars, notified>>

-----------------------------------------------------------------------------
(* sendAppState. *)

SendStart(s, ops) ==
    /\ work[s].step = "idle"
    /\ \A i \in Indexes : ops[i] # "REMOVE"
    /\ Len(log) < MaxVersion    \* the bound on the log
    /\ Becomes(s, [Resting EXCEPT !.step = "read", !.ops = ops, !.again = TRUE])
    /\ UNCHANGED <<log, dbVars, keyVars, notified, skipped, faults>>

SendRead(s) ==
    /\ work[s].step = "read" /\ keys # {}
    /\ Becomes(s, [work[s] EXCEPT !.step = "encode", !.state = row])
    /\ UNCHANGED <<log, dbVars, keyVars, notified, skipped, faults>>

Storing(p) == work[p].step \in {"version", "delete", "insert"}

(* History: the version read before and the MACs read now belong together,  *)
(* or the version is no longer the server's last, so that the server will   *)
(* refuse the patch.  What is left out: another process has stored the      *)
(* version that was read but not yet all of its MACs, or a full sync has    *)
(* deleted it since.                                                        *)
Consistent(state) ==
    /\ clean
    /\ \/ row.version > state.version
       \/ row = state /\ \A p \in Procs : ~Storing(p)

(* MUTANT: the values that are replaced are not subtracted. *)
EncodeAdds(s) ==
    LET w == work[s]
        v == w.state.version + 1
    IN  /\ w.step = "encode"
        /\ IF v > MaxVersion
           THEN Ends(s)
           ELSE Becomes(s, [w EXCEPT !.step = "upload", !.sound = Consistent(w.state),
                              !.mac = Updated(w.state.hash, w.ops, v, NoNews)])
        /\ UNCHANGED <<log, dbVars, keyVars, notified, skipped, faults>>

(* EncodePatch: the hash it signs comes from the MACs as they are now. *)
Encode(s) ==
    LET w == work[s]
        v == w.state.version + 1
    IN  /\ w.step = "encode"
        /\ IF v > MaxVersion
           THEN Ends(s)    \* the bound on the log
           ELSE Becomes(s, [w EXCEPT !.step = "upload", !.sound = Consistent(w.state),
                              !.mac = Updated(w.state.hash, w.ops, v, Lookup)])
        /\ UNCHANGED <<log, dbVars, keyVars, notified, skipped, faults>>

(* The server takes a patch made for its latest version. *)
Accepted(s) ==
    LET w == work[s]
    IN  /\ w.step = "upload" /\ w.state.version = Len(log)
        /\ log' = Append(log, [ops |-> w.ops, key |-> Newest(keys),
                               mac |-> w.mac, sound |-> w.sound])
        /\ \/ Becomes(s, [Resting EXCEPT !.step = "resync"])
           \/ Ends(s)     \* the answer is lost
        /\ UNCHANGED <<dbVars, keyVars, notified, skipped, faults>>

(* It answers 409 with the patches that were missed: these are applied to   *)
(* the HashState read before, with no lock held, and once only.  It may not *)
(* be the one in the database any more.                                     *)
Conflict(s) ==
    LET w == work[s]
    IN  /\ w.step = "upload" /\ w.state.version < Len(log)
        /\ IF w.again
           THEN /\ work' = [work EXCEPT ![s] =
                              [Resting EXCEPT !.step = "decode", !.ops = w.ops,
                                !.state = w.state,
                                !.list = Patches(w.state.version + 1, Len(log))]]
                /\ clean' = (clean /\ Alone' /\ w.state = row)
           ELSE Ends(s)
        /\ UNCHANGED <<log, dbVars, keyVars, notified, skipped, faults>>

(* There is no key, or the request fails. *)
SendFails(s) ==
    /\ \/ work[s].step = "read" /\ keys = {}
       \/ work[s].step = "upload"
    /\ Ends(s)
    /\ UNCHANGED <<log, dbVars, keyVars, notified, skipped, faults>>

-----------------------------------------------------------------------------
(* The process ends and starts again: the database is all that is left. *)
Crash ==
    /\ Fault
    /\ work' = [p \in Procs |-> IF p = "fetch" \/ work[p].step = "idle" THEN Resting ELSE Over(p)]
    /\ requests' = {} /\ asking' = {} /\ shared' = "no"
    /\ notified' \in {notified, FALSE}
    /\ clean' = FALSE
    /\ UNCHANGED <<log, dbVars, keys, asked, skipped>>

Init ==
    /\ log = <<>> /\ row = NoRow /\ macs = {}
    /\ settings = NoNews
    /\ keys = FirstKeys
    /\ requests = {} /\ asking = {} /\ asked = {}
    /\ shared = "no" /\ notified = FALSE
    /\ work = [p \in Procs |-> Resting]
    /\ clean = TRUE /\ skipped = FALSE
    /\ faults = 0

Fetch == FetchOnNotification \/ FetchOnKeyShare \/ FetchFully
FetchStep == FetchRead \/ FetchReply \/ FetchFails
Apply(p) ==
    Decode(p) \/ DecodeFails(p) \/ PutVersion(p) \/ DeleteMACs(p) \/ InsertMACs(p) \/ Dispatch(p)
Send(s) ==
    \/ \E ops \in Shapes : SendStart(s, ops)
    \/ SendRead(s) \/ Encode(s) \/ Accepted(s) \/ Conflict(s) \/ SendFails(s)
    \/ FetchAfterSend(s)

Next ==
    \/ \E ops \in Shapes, k \in Keys : Publish(ops, k)
    \/ \E k \in Keys : KeyShare(k)
    \/ RequestMissing
    \/ Fetch \/ FetchStep
    \/ DispatchAborts
    \/ \E p \in Procs : Apply(p)
    \/ \E s \in Senders : Send(s)
    \/ Crash

Spec == Init /\ [][Next]_vars

(* Goroutines run on, requests are answered or fail, and the phone answers  *)
(* the request for a key that has reached it; nothing makes anybody upload, *)
(* send or crash.  A goroutine that waits for appStateSyncLock gets it      *)
(* however often others take it: a sync.Mutex hands itself to a waiter of   *)
(* more than a millisecond.                                                 *)
FairSpec ==
    /\ Spec
    /\ WF_vars(FetchStep) /\ WF_vars(Apply("fetch"))
    /\ SF_vars(FetchOnKeyShare) /\ WF_vars(RequestMissing)
    /\ \A k \in Keys : WF_vars(k \in asked /\ KeyShare(k))

-----------------------------------------------------------------------------
(* Properties. *)

Hashes == [Versions -> [Indexes -> Int]]
Items  == [snapshot : BOOLEAN, version : Versions]
Works  == [step : Steps, full : BOOLEAN, onlyNew : BOOLEAN, more : BOOLEAN,
           again : BOOLEAN, state : [version : 0..MaxVersion, hash : Hashes],
           list : Seq(Items), news : [Indexes -> 0..MaxVersion],
           ops : Shapes \cup {NoOps}, mac : Hashes, sound : BOOLEAN]

(* Every variable keeps its type; the MACs in the table have a version. *)
TypeOK ==
    /\ log \in Seq([ops : Shapes \cup {NoOps}, key : Keys, mac : Hashes, sound : BOOLEAN])
    /\ Len(log) <= MaxVersion
    /\ row \in [version : 0..MaxVersion, hash : Hashes]
    /\ macs \subseteq [version : Versions, index : Indexes, value : Versions]
    /\ settings \in [Indexes -> 0..MaxVersion]
    /\ keys \subseteq Keys /\ requests \subseteq Keys
    /\ asking \subseteq Keys /\ asked \subseteq Keys
    /\ shared \in {"no", "fetch", "only new"} /\ notified \in BOOLEAN
    /\ work \in [Procs -> Works]
    /\ clean \in BOOLEAN /\ skipped \in BOOLEAN
    /\ faults \in 0..MaxFaults

(* The hash in the database is the hash of the server's entries at the      *)
(* version next to it, whatever statement fails, crashes or overlaps, as    *)
(* long as every patch in the log carries the right snapshot MAC:           *)
(* DecodePatches stores no state whose MAC it has not compared.             *)
HashIsServers ==
    (\A v \in DOMAIN log : log[v].mac = TrueHash(log, v)) =>
        row.hash = TrueHash(log, row.version)

(* Between two patches the MACs are those of the entries at the stored      *)
(* version, from any clean start: a collection never synced, or a full      *)
(* sync, which repairs what a fault left behind, or two processes that      *)
(* applied patches at once.                                                 *)
MACsMatchVersion ==
    (clean /\ \A p \in Procs : ~Storing(p)) => Lookup = Contents(log, row.version)

(* A patch that this client uploads carries the hash that the other devices *)
(* will compute, though sendAppState reads the version and the MACs in two  *)
(* statements, beside fetches that store newer ones and devices that upload *)
(* in between: a mix of an older version and newer MACs is never accepted.  *)
(* A mix of MACs that are incomplete for the version read is, and Consistent *)
(* leaves it out: this code does not exclude it.                            *)
UploadsAreValid ==
    \A v \in DOMAIN log : log[v].sound => log[v].mac = TrueHash(log, v)

(* The stores (muted, pinned, contacts...) have the value of every entry at *)
(* the stored version when nobody is applying patches: every SET that was   *)
(* counted into the hash was also given to the stores, and what was not is  *)
(* repaired by a full sync.                                                 *)
Applied ==
    \A i \in Indexes : LET v == Contents(log, row.version)[i]
                        IN  v # 0 => settings[i] = v
NothingIsLost ==
    (clean /\ \A p \in Procs : ~Storing(p) /\ work[p].step # "decode") => Applied

(* The same where no fetch failed with a part of its patches stored, and no *)
(* store refused a value.                                                   *)
NothingElseIsLost == skipped \/ NothingIsLost

(* When a fetch lacked a key and the request for it has reached the phone,  *)
(* some fetch that also looks at synced collections begins with the key in  *)
(* the store: the share of a key that was asked for fetches every           *)
(* collection.  Not so if the process restarts, or the key is lost on its   *)
(* way into the store.                                                      *)
KeyResumesSync ==
    \A k \in Keys :
        (k \in asked /\ k \in requests /\ k \notin keys)
            ~> \/ k \in keys /\ work["fetch"].step = "read" /\ ~work["fetch"].onlyNew
               \/ k \notin requests
               \/ k \notin asked /\ k \notin keys
=============================================================================
