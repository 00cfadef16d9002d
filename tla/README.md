# TLA+ models of HA_Whatsmeow

This directory verifies the core of the WhatsApp add-on for Home Assistant: the
vendored whatsmeow client (`whatsapp_addon/app/whatsmeow`, called W below) and
the Go service around it (`whatsapp_addon/app/cmd/addon/main.go`). The models are
written from that source; every definition of a module is tied to the lines it
stands for in `PROJECT.json` ("map").

Contents: 1 the system, 2 the modules, 3 the runs and the properties, 4 bounds
and fairness, 5 the proofs, 6 disagreements found, 7 abstractions, 8 what is not
modelled, 9 what is left of the plan.

## 1. The system

The add-on holds one whatsmeow `Client`. A loop in `main.go` (every few seconds)
connects it when it is not connected, asks for a QR channel when the device is
not paired, and otherwise serves HTTP requests that call the client. The client
is a set of goroutines around shared state, most of it behind its own mutex.

| Component (files in W) | State it keeps | Operations | Module |
|---|---|---|---|
| **Connection** (`client.go`, `connectionevents.go`, `keepalive.go`, `handshake.go`, `socket/`) | `socket`, `socketLock`, `expectedDisconnect`, `isLoggedIn`, `Store.ID`, `handlerQueue` | Connect, Disconnect, onDisconnect, autoReconnect, keepalive, node handlers | Connection, Link |
| **Requests** (`request.go`, the waiting part of `send.go`) | `responseWaiters` and one channel per request | sendIQ, SendMessage, receiveResponse, retryFrame, clearResponseWaiters | ResponseWaiters |
| **QR channel** (`qrchan.go`, `pair.go`, event dispatch of `client.go`, add-on loop) | the channel, `closed`, `stopQRs`, `eventHandlers`, `eventHandlersLock` | GetQRChannel, emitQRs, handleEvent, dispatchEvent, RemoveEventHandler | QRChannel |
| **LID-PN map** (`store/sqlstore/lidmap.go`) | a table and two caches | get, get many, put, put many, fill | LIDMap |
| **Prekeys** (`prekeys.go`, `store/sqlstore/store.go`, `retry.go`) | `whatsmeow_pre_keys`, `lastPreKeyUpload` | GetOrGen, mark, GenOne, remove, count | PreKeys |
| **Incoming** (decryption and event buffer, `message.go`, `store/signal.go`) | sessions, buffered plaintexts | decrypt, buffer, acknowledge | Incoming |
| **App state** (`appstate.go`, `appstate/`) | version, hash and MACs of a collection, keys, key requests, the settings | fetch, decode, store, dispatch, send patch, ask for keys, share keys | AppState |
| **Recipients** (`user.go`, `group.go`, `notification.go`, the choice of devices in `send.go`) | `userDevicesCache`, `groupCache`, `handlerQueue` with its overflow | device lookups, device and group notifications, the check of a message's participant hash | Recipients |
| **Sessions** and **retries** (`send.go`, `retry.go`, `store/sessioncache.go`, `store/sqlstore/store.go`) | `whatsmeow_sessions`, `migratedPNSessionsCache`, the ring of recent messages | encrypt, decrypt, migrate, answer a retry receipt, identity change | Sessions |
| Frame and noise transport (`socket/`) | frame buffer, two counters | SendFrame, receive | opening and closing in Connection |
| Device store, media, encoding, cryptography, HTTP service, integration | see `PROJECT.json` | | |

How they interact: the reader of a connection hands answers to the waiters at
once and all other nodes to `handlerQueue`; the handlers of the queue change
Incoming, App state, Recipients, Sessions and Prekeys, and dispatch the events
that QRChannel's handler and the add-on listen to. `SendMessage` takes its
recipients from Recipients, its addresses from LIDMap, its keys from Sessions and
waits in Requests. The end of a connection clears the waiters, raises an event
and brings about the next connection.

What makes it hard:

- **Goroutines in every order.** Each connection brings a reader, a keepalive
  loop, a handler loop and, at its end, an `onDisconnect`; reconnects, requests
  and event dispatches run beside them. Old ones outlive their connection.
- **Locks that are dropped half way** - a waiter is looked up and used after the
  unlock, a cache is missed under one lock and filled under another, the prekey
  table is open to everybody while an upload waits for the server.
- **Failure half way**: dials, handshakes, transactions, uploads whose answer is
  lost, a process that ends between two steps.
- **Blocking sends** on bounded channels in handlers that hold a lock.
- **Read, change, write back.** A session, an app state and a device list are read,
  used for a request to the server and written back, with nothing to keep others
  from the row in between.
- **Answers overtake notifications**, because only the latter wait in a queue.
- **Timeouts** that race the answer, the reconnect or the scan they wait for.

What makes each component correct, in the words the properties use: the
connection leaks no live websocket and comes back by itself; a request is never
left waiting for a connection that is gone; one pairing gives one result to its
reader; the LID caches never hide what is stored; a prekey given away is kept
until it is used and is given to one person; what is acknowledged was handled; the
stored app state is the server's; a message goes to the devices that its
recipient has; no message key is used twice. The whole list of what is hard here,
line by line, is `PROJECT.json` ("hazards").

## 2. The modules

Every component has its module, an `MC...` module for TLC with nothing but the
symmetry sets and the sets of model values, a `.cfg` per run, and where something
is proved a `...Proofs` module that extends it.

**Connection.** A websocket, with its FrameSocket and NoiseSocket, is an element of
`Sockets`; `cur` is `cli.socket`, `dialing` the one `Connect` is building while it holds
`socketLock` (`lock`, `phase`). `open[s]` is "fs.conn is not nil", `running[s]`
"OnDisconnect is registered and the noise socket is not destroyed". Goroutines that
differ in nothing are counted by where they are (`auto`; `relogin` for those that pair
or that answer a 515), the ones of a connection are functions of its socket (`notify`,
`keepalive`, `looping`, `handling`). `UnlockedDisconnect`, `ExpectDisconnect`, `Spawned`
and `Failed` are the pieces that several handlers share. The server is external:
`Answers` says which nodes it may send in each state of a session.

**ResponseWaiters.** A connection is a number. A request goes through `Steps`, the
places between which another goroutine can change something it uses: registered,
socket read, frame written, waiting, told of a disconnection, connected again,
registered again. The reader's lookup (`Receive`) and its send (`Deliver`) are two
actions, as the unlock of `receiveResponse` lies between them.

**QRChannel.** A channel is the number of items it holds and the number of results it
was ever sent (`results`, a history). `dispatch` are the events on their way through the
handlers, several of which may hold `eventHandlersLock` for reading at once, while
registering and removing a handler wait for all of them; `emitter` the goroutines that
`handleEvent` starts, one step per channel operation, flag or lock. A panic in a handler
is caught by `dispatchEvent` and loses the rest of the dispatch; one in an emitter ends
the process (`crashed`).

**LIDMap.** `table` holds the committed rows, `work` what the transaction of a put
sees; `lidOf` and `pnOf` are the caches, where a key is absent, cached as a miss
(`Empty`) or cached with a value. A lookup that misses waits (`missed`,
`missedMany`) between its two locks; a put writes row by row (`PutRow`) and ends in
`Commit` or `Rollback`. `wrote` and `spoiled` are history: the keys whose cache
entries were written by a transaction that was rolled back.

**PreKeys.** `key[id]` is the pair stored under an id, numbered as made; `uploaded`
the marked ids. An upload under its lock is `step`: keys generated, keys stored by
the server. `asks` are the two callers that decided to upload and wait for the lock.
The key of a retry receipt is stored and marked before the receipt is made, and the
receipt may then fail: `ReceiptKey`, `ReceiptSent` and `ReceiptFails`, with
`receipts` for the keys in between. What the server and its users do
(`ServerStores`, `ServerGives`) is external. `reached`, `receiptOwn`, `twice` and
`unmarked` are history.

**Incoming.** Goroutines that handle nodes (`Handlers`) go through the children of
a message stanza; `at`, `stanza` and `part` are their places in `decryptMessages`.
`spent` are the ciphertexts whose message key is used up, which the session store
remembers and which makes a second decryption fail with an old counter; `buffer` is
`whatsmeow_event_buffer`. `Decrypt` is the transaction of both; without the buffer
the session is read in `Lookup` and stored in `Decrypt`, and another goroutine may
come in between. `buffering` is the option `EnableDecryptedEventBuffer`, which this
add-on leaves off. The server delivers on each connection what was not
acknowledged; a goroutine that takes too long outlives its connection, so two may
have the same stanza (`shared`). Synchronous and asynchronous acknowledgements
differ in who sends them, not in what may come after what: both follow the
handlers and both may be lost. A handler of the event accepts it, refuses it or
panics (`HandlerPanics`), which `dispatchEvent` recovers from and takes for success.
`accepted`, `twice`, `given`, `dropped`, `passed`, `uncleared` and `shared` are history;
`passed` are the ciphertexts that were passed over for an old counter.

**Link** is the abstract specification of a connection: `stage` (down, dialing,
greeting, up) and the set of `live` websockets. It says what the rest of the
program may count on - an attempt starts only when nothing is up or on its way, at
most one websocket is open, a failed attempt leaves none. Connection implements it
(`ImplementsLink`) under the mapping `LinkStage`, `LinkLive`: the stage is read off
`phase` and `cur`, the live sockets are the open ones.

**AppState.** `log` is the server's list of patches; `row` is the row of
`whatsmeow_app_state_version`, `macs` the table of value MACs, `settings` what the
stores were told. A hash is the number of times each value MAC is counted, so two
hashes are equal exactly when the LTHash sums are (up to collisions), and one that
went wrong shows. `work["fetch"]` is whoever holds `appStateSyncLock`; each
`sendAppState` is a process of its own, as it reads before it takes the lock.
Version, removed MACs and added MACs are three statements (`PutVersion`,
`DeleteMACs`, `InsertMACs`), each of which may fail alone: the error is only logged
and the fetch goes on, as in the code. A key that is missing is noted in `requests`,
for a day, before the request is sent; `asked` are the keys whose request has
reached the phone, as the sending may fail, and so may the storing of a key that is
shared. The stores may refuse a setting, and a failed `PutAllContactNames` ends the
dispatch (`Dispatch`, `DispatchAborts`). `clean` and `skipped` are history: nothing
failed and nothing overlapped since the last full sync; something that was stored
with its version did not reach the settings. `sound` is history of each patch:
`Consistent` when it was encoded.

**Recipients.** The server's device lists and group members change; each change
notifies through `queue`, or through a goroutine (`loose`) when the queue is full.
Notifications about the own devices start a goroutine each, and the loop of the
queue leaves a handler behind after five minutes, as does a connection that is lost:
both are in `spawned`, and run in any order. `cache` is `userDevicesCache` by
address - the phone number and the LID of a user have an entry each - and a list may
hold a device twice, as `append` can make it, or an empty address (`Blank`), as
`slices.DeleteFunc` leaves it in a list that is not stored again. `send` is the
SendMessage that holds the lock; its answer carries the server's participant hash,
and a mismatch drops the lists. `lookup` is a GetGroupInfo, with or without
`groupCacheLock`. `late`, `swapped`, `raced` and `past` are history.

**Sessions.** One device of one contact. `rows` are its sessions under the phone number
and the LID; a session is the bundle it was made from and the number of messages
encrypted with it. The contact's device is named by either, and `Addressed` chooses: a
LID is kept, a phone number becomes the LID once that is known, and when the lookup of
it fails a message is not sent while the others go on. `work` has the sender (between
its batch read and its batch write lies a request to the server), the decryption, and a
goroutine per retry receipt. `Migrate` is the transaction of MigratePNToLID, `migrated`
the cache that is marked before it. The contact is modelled after this client's own
`sendRetryReceipt`: it reads a ciphertext or asks for it again, with keys from the
second receipt on. `used`, `reused`, `clean` and `moved` are history.

The modules meet where one's action is another's environment: `Connect`,
`RemoteClose` and `OnDisconnect` of ResponseWaiters are Connection's `Installed`,
`RemoteClose` and `OnDisconnect` without the details of how a connection is made;
QRChannel's `link` is Connection's `cur` for an unpaired device; the `Reconnect` of
Recipients and the redelivery of Incoming are a `Lost` and an `Established` of
Link; Recipients' `send` ends where Sessions' begins; the receiving side of a
session is Incoming's, its sending side Sessions'.

## 3. The runs and the properties

| Run | Instance | What it shows |
|---|---|---|
| `connection` | 3 sockets, 1 fault, queue of 1 | types; `OneLiveSocket`, `RecoveryPending`; `ImplementsLink`; `EventuallyConnected`, `SocketGoroutinesEnd` under fairness |
| `waiters` | 1 query, 1 message, 2 connections, 1 stream error | types; `WaitersAreEmpty`, `NobodyForgotten`; `QueriesEnd` under fairness |
| `qr` | 2 channels, 2 events at a time, 1 scan or the add-on's shutdown | types; `OneResult`, `StoppedIsEnding`, `BufferedIsCounted`; `ReadingEnds` under fairness |
| `lid_map` | 2 numbers, 2 LIDs, batches of 2, 2 lookups waiting | types; `StoredIsFound`, `AgreementIsStored` |
| `prekeys` | batches of 2, first batch 3, ids 1 to 3, 4 pairs | types; `UploadedHasLeft`, `TwiceIsUnmarked`, `GivenIsKept` |
| `incoming` | 2 goroutines, 1 group stanza with 2 ciphertexts, any number of restarts | types; `AckedIsHandled`, `HandledOnce` |
| `app_state` | 2 entries, 2 shapes of patches, a key that is missing, 1 sender, 2 versions, 1 fault | types; `HashIsServers`, `MACsMatchVersion`, `UploadsAreValid`, `NothingElseIsLost`; `KeyResumesSync` under fairness |
| `recipients` | 1 device of the peer and of the user, queue of 1, 2 changes, 1 reconnect | types; `PeerListIsCurrent`, `OwnListIsCurrent`, `CachedWasTrue`, `GroupIsCurrent`; `StaleLIDListEnds` under fairness |
| `sessions` | 2 messages, 5 bundles, 4 messages per session, 4 receipts, 3 faults | types; `KeysUsedOnce`, `FewRetries` |
| `handlers_return`, `giving_up_is_safe`, `no_key_twice` | the first with the numbers of the code and two scans, the others small | each a promise of the code or its docs that a behaviour breaks: section 6 |

What the properties say:

- `TypeOK` of Connection has, beside the types, what the holder of `socketLock` does:
  the lock is free exactly when nobody is connecting, and a websocket is on its way
  exactly during a handshake. A failed attempt that keeps its websocket breaks it.
- `OneLiveSocket`: every open websocket is `cli.socket` or the one being built,
  and never both at once. A leaked one would keep receiving beside the new one.
- `RecoveryPending`: a paired client that lost its connection has a goroutine on
  the way that will reconnect, unless the error was returned to a caller
  (`quiet`), the disconnect was expected, or the socket was dead on arrival.
- `EventuallyConnected`: once faults end, a paired client is connected for good;
  the four sources of reconnects do not tear down each other's connection.
- `SocketGoroutinesEnd`: the two loops of a closed connection end.
- `ImplementsLink`: every step of the connection code is a step of Link or leaves what
  Link sees alone.
- `WaitersAreEmpty`: a registered channel is open and empty, so no reader blocks
  on one and nobody sends to a closed one through the table.
- `NobodyForgotten`: a waiting request's frame went to the connection that is
  current, and that connection or its `onDisconnect` is still there to clear it.
- `QueriesEnd`: every query ends, answered or not.
- `OneResult`: at most one final item per channel, whoever ends the pairing.
- `StoppedIsEnding`: when `stopQRs` is closed somebody closes the channel, also
  when a second event panics on closing it again.
- `BufferedIsCounted`: a channel that nobody reads, whose handler stays registered while
  others are made, holds at most the codes of every connection, the scans and its
  result, though several emitters and handlers fill it. In the run it does fill, and
  handlers wait with the lock held. `HandlersReturn`, that none waits so for a reader that
  is not there, is what the code promises and breaks (section 6).
- `ReadingEnds`: once an event that ends the pairing is dispatched to the channel
  that is read, or a code was shown, the add-on's range loop ends.
- `StoredIsFound`: an entry of a cache for a stored mapping is right, in either
  direction, and after `FillCache` it exists; the exception is exactly the keys
  whose last entry came from a transaction that was rolled back.
- `AgreementIsStored`: a pair that both caches give is a row of the table. One
  cache alone is not enough: `(l,p)`, `(l,q)` leaves `p` cached with `l`, and the
  put that would restore `(l,p)` is then skipped (lidmap.go:209).
- `UploadedHasLeft`: `MarkPreKeysAsUploaded`, which marks every smaller id after
  a wait, never marks a key made for an upload that was not in it, and would then never
  be. Keys of retry receipts are excepted: they are marked when they are made, whether
  the receipt leaves or not.
- `TwiceIsUnmarked`: a key is uploaded twice only when the end of an upload was
  lost - never because two uploads meet.
- `GivenIsKept`: ids are given out again (largest stored id plus one), yet a key
  that the server or one person has is still the one under its id.
- `AckedIsHandled`: with the event buffer a ciphertext of an acknowledged stanza was
  accepted by the event handlers or given up on, although the process may end and
  the database fail anywhere. Two exceptions are things the code takes for accepted: an
  event whose handler panicked, and a refused one that the phone gave back (`dropped`).
  The third needs two goroutines with the stanza at a time, one of which looked into the
  buffer before the other committed: it finds an old counter, passes over the
  ciphertext, and acknowledges what the other may yet fail.
- `HandledOnce`: an event is accepted again only when its plaintext could not be
  cleared after the first time, or two goroutines had its stanza at a time.
- `HashIsServers`: whatever statement fails and whoever overlaps, the stored hash is
  that of the server's entries at the stored version, provided that the patches of
  the log carry true snapshot MACs. Nothing is stored that was not compared.
- `UploadsAreValid`: the patches of this client do, although the version and the MACs
  they are computed from are read in two statements without the lock, beside fetches
  and other uploads: MACs newer than the version go into a patch that the server then
  refuses. What `Consistent` leaves out is what the code does get wrong: a state
  that a failed statement left behind; a version read between a fetch's `PutVersion` and
  its MACs and encoded before they are there; and a version that a full sync has
  deleted since it was read. Such a patch is accepted and nobody can verify it.
- `MACsMatchVersion`: between two patches the value MACs are those of the entries, from
  any full sync on until something fails or overlaps. This is what the next patch
  is computed from.
- `NothingElseIsLost`: a setting is lost only by a fetch that fails after it stored a
  part of what it received (appstate.go:100), or that its store refuses (302) or
  `PutAllContactNames` fails on (114): all of them `skipped`. What was stored with its
  version is not passed on then, and is not fetched again.
- `KeyResumesSync`: a fetch that lacked a key, and whose request has reached the phone,
  is made up for: the share of the key starts another, which looks at every collection,
  unless the process restarts or the key cannot be stored.
- `PeerListIsCurrent`: when the youngest notification of the peer's devices was
  handled last, the cached list is right, although answers to lookups overtake
  notifications that are then applied a second time, and although they are sent
  again after a reconnect. The hash in each notification is what saves it.
- `OwnListIsCurrent`: the same of the own devices, whose notifications bring the whole
  list, with a hash of that list only, and are handled by goroutines in any order.
- `CachedWasTrue`: in whatever order, no list is cached that the server never had, but for
  the one change that no hash confirms: a removal in place from the list of the LID,
  which leaves empty addresses and otherwise only devices that the user had.
- `GroupIsCurrent`: the cached members are right unless the overflow of the queue put
  two changes in the wrong order or a lookup stored an answer older than a change.
- `StaleLIDListEnds`: a list under a LID that a notification did not reach, or left empty
  addresses on, is found out by the participant hash of the messages sent to it.
- `KeysUsedOnce`: as long as no two processes have the session at once, no message key
  encrypts twice, wherever a process ends, a transaction fails, a migration moves
  the row or a retry makes a new session.
- `FewRetries`: with the same condition the contact reads every message at first
  sight, and at the second retry at most if it was installed again meanwhile.

Each property has a mutant: an operator next to the definition it replaces, with
a bug such code could have (a dropped guard, an error path that keeps the lock, a
batch marked too far). The property fails on it.

`CHECK_DEADLOCK FALSE` is set where the system may really stop: a connected
client with nothing to do, requests that have all ended, an add-on that was told
to stop. LIDMap, PreKeys and Incoming always have a step (a restart) and are checked
for deadlock.

## 4. Bounds and fairness

*Bounds.* Each is a constant named in its module. What is proved (section 5) does
not depend on them.

- *Connection*: three sockets are one that is current, one being built and one whose
  goroutines still run; a socket is used again after its goroutines have ended, so
  runs are not limited to three connections. One fault, counted as any loss,
  refusal or manual disconnect, is followed by any number of fault-free steps,
  which is what liveness needs. That a keepalive meets a connection made after its own
  died and reconnected (keepalive.go:48) takes two faults, which only the theorems reach.
- *ResponseWaiters*: two connections and one stream error give a request its
  interruption, its retry and a second interruption.
- *QRChannel*: `Codes = 1` with `Buffer = 2`: one code and one scan fill a channel that
  nobody reads, so handlers and emitters do block in the run; one turn is a scan
  without multidevice or the shutdown of the add-on. `handlers_return` has the code's six
  codes and buffer of eight, and two turns.
- *LIDMap*: two numbers and two LIDs have every conflict that the keys of the table know.
- *PreKeys*: three ids with four pairs force ids to run out, to be used again and to be
  uploaded twice. The counts keep the order `Low < Wanted < Initial` of 5, 50 and 812.
- *Incoming*: stanzas share nothing, so one with two ciphertexts is enough; two goroutines
  are one and the late one it meets.
- *AppState*: two entries and two versions let a patch set one, replace or remove it; the
  key is not there at first, so every fetch may lack it; one fault is one failed
  statement or restart, after which a full sync must repair everything.
- *Recipients*: two changes are what can be swapped, and with a queue of one they are:
  the second goes to a goroutine, and so do the repetitions of a reconnect. One
  companion device is enough for a list that is empty, right, doubled or stale.
- *Sessions*: five bundles and sessions at once, four messages with each; a ring of one
  message makes the second push the first out; the four receipts of the code; three
  faults are, for instance, a contact that is installed again, a failed migration and a
  restart. `CONSTRAINT StillClean` stops TLC behind the first overlap of two processes:
  both properties say nothing of what follows, `clean` never comes back, and
  nineteen states in twenty are behind one. `no_key_twice` is the run that goes on there,
  and the theorems have no such limit.

*Fairness.* Go schedules every runnable goroutine and its timers fire, so an action
of a goroutine that stays enabled is taken: weak fairness. In Connection one
condition on all that progress together is enough. The server never has to answer,
close or send anything, except that Connection lets it close the stream of a
session it ended itself and lets a handshake end. QRChannel: the reader, some
dispatch and some emitter run on; nobody has to connect, scan or cancel. AppState:
requests are answered or fail, and the phone answers a request that reached it. Who
waits for `appStateSyncLock` gets it however often others take it (strong fairness of
`FetchOnKeyShare`): a Go mutex hands itself to a waiter of more than a millisecond.
Recipients assumes something of the application instead: it keeps sending to
the peer's LID, and again and again such a message is answered (`[]<><<Answered>>_vars`).
Otherwise acquiring a lock is assumed weakly fair only: where that is not enough for a
property the property is not claimed.

## 5. The proofs

TLAPS proves, for every value of the constants that meets the named assumptions:

| Module | Theorems | Assumptions |
|---|---|---|
| ConnectionProofs | `TypeCorrect`, `OneLive`, `Recovery`, `LinkImplemented` | the nil socket is no socket, options are Boolean, bounds natural |
| ResponseWaitersProofs | `TypeCorrect`, `NeverBlocks`, `NoLostWakeup` | queries and messages are different ids, bounds natural |
| QRChannelProofs | `TypeCorrect`, `OneResultSent`, `StoppedEnds`, `ChannelsFillSlowly` | the buffer holds something, bounds natural |
| DirectoryProofs | of Recipients `TypeCorrect`, `CachedListsWereTrue`, `PeerListIsRight`, `OwnListIsRight`, `GroupIsRight`; of LIDMap `MapTypeCorrect`, `MappingsAreFound`, `AgreeingIsStored` | bounds natural, an empty address is no device and no list is no list of devices; numbers and LIDs differ, the two cache markers are neither |
| PreKeysProofs | `TypeCorrect`, `MarksAreTrue`, `NoneTwice`, `KeysAreKept` | batches are positive, limits natural |
| IncomingProofs | `TypeCorrect`, `NothingIsLost`, `AtMostOnce` | there is a stanza, group stanzas are stanzas |
| AppStateProofs | `TypeCorrect`, `StoredHashIsServers`, `MACsAreEntries`, `UploadsAreRight`, `SettingsAreKept` | the keys are finitely many, by their timestamps |
| SessionsProofs | `TypeCorrect`, `OneKeyOneMessage`, `TwoRetriesAtMost` | the ring has a slot, bounds natural |

Each has the same shape: an inductive invariant `IInv`, one lemma per action or
group of actions, `Init => IInv` and `IInv /\ [Next]_vars => IInv'`, and the temporal
step. Every `IInv` was an invariant of a TLC run before it was proved.

- *Connection.* `OneLiveSocket` alone is not inductive: `Disconnect` and
  `onDisconnect` clear `cur` only because nobody connects meanwhile. `IInv` adds
  `LockConsistent` (what the holder of the lock is doing, and that `cur` is nil
  then) and `NotifiedIsClosed`. `RecoveryPending` is then inductive relative to
  `IInv`: the lemmas `RecoveryKept` and `RecoveryExcused` name the two ways a step
  keeps it - some goroutine is still on its way, or the loss became expected.
  `LinkImplemented` needs the same invariant: a step that opens a socket is a step of
  Link only because `LockConsistent` says that nothing else is open.
- *QRChannel.* The flag `closed` is a token. `HeldOnlyClosed` says that a goroutine
  between its swap and its close, or a result, is only there when the flag is set;
  `OneHolder` that there is one such goroutine per channel, handler or emitter;
  `OwedIsUnsent` that the one that has not sent the result finds none sent. The
  lemmas `NobodyTakes` and `EmitterTakes` are the two ways these are kept.
  `ChannelsFillSlowly` is a matter of counting (`Counted`). Each connection brings
  codes once, and each arrival of them starts one emitter per channel that listens
  (`StartsCounted`); what a channel holds is at most what its emitters took from
  their lists, an item for each scan that has reached it, and its result
  (`ItemsCounted`). With the numbers of the code a channel left unread by a failed
  Connect holds at most `6 + 1 + 1`, its room, after one connection and one scan; the
  next scan exceeds it, and `handlers_return` is that behaviour.
- *ResponseWaiters.* `IInv` adds `LinkOk` (a connection that is current is alive or
  has its `onDisconnect` pending), `RequestOk` (what each step of a request knows of
  its channel and its attempt) and `DeliveryOk` (a channel in a reader's hand is
  not in the table). `NobodyForgotten` holds because a request registers before
  it reads the socket, in that order.
- *Recipients.* `ListInv`: every list in a notification that waits was true once, and
  the youngest notification of its kind tells what is true now, wherever it waits; so
  the cache has the list of now as soon as the ones about it are handled (`Fresh`). An
  answer to `GetUserDevices` that waits to be stored is held to the same standard:
  handlers cannot run beside it because it keeps the lock. `GroupInv`: a change of the
  group that is loose and the youngest tells the truth (`LooseRight`); the last change
  of a member in the queue tells the truth unless one is loose still (`LastRight`); a
  member without a change to come is right in the cached list and in an answer that
  waits (`Untouched`). The last two fail once a change is overtaken, so they are said of
  states in which none was, nor will be (`Doomed`).
- *LIDMap*, in the same module, so its names have the prefix Map where Recipients has
  them too. `Coherent(rows, keys)` says that each cache agrees with the rows outside
  the spoiled keys and that a complete cache lacks nothing. It is kept for the
  table and, while a put runs, for its transaction with the keys it has written
  counted as spoiled in case it is rolled back; `Unique` for both makes one row's
  entries not disturb another's.
- *PreKeys.* `RowsOk` (a pair is under one id, numbers are below `made`), `ReachedOk`
  (what left is recorded), `BatchOk` (between request and mark, every pending row up to
  the last id of the batch is of the batch: new keys get larger ids, and keys of retry
  receipts are marked from the start, so they are not pending) and `PendingOk` (a
  pending row that left the device belongs to the running upload or was recorded as
  lost). `BatchOk` is why a mark by "id <= last" is right although the table changed.
- *Incoming.* `Spending` ties the used keys to the rows of the buffer, which is what the
  transaction is for: a goroutine alone with its stanza never finds an old counter
  between its lookup and its decryption. `Progress` says that such a goroutine has
  only done children behind it, and `Once` that what was accepted is cleared, about
  to be cleared, or recorded as lost. `Sharing` makes all of them local to a goroutine.
  Of a stanza that several goroutines have had, `NothingIsLost` still says that each
  ciphertext was handled or passed over; `AtMostOnce` says nothing of it.
- *AppState.* A state, in the row or in a process's hands, is judged against the log
  (`RowOK`, `WorkOK`): if all snapshot MACs up to its version are true, its hash is the
  true one. The judgement survives the growth of the log (`TrueStays`, `WorkStays`),
  since contents at a version depend on the patches up to it only (`TrueHashStable`). A
  verified patch passes it on (`VerifiedIsTrue`) by the comparison of the MAC alone,
  which is why neither the order of the three statements nor the reads outside the lock
  matter to it. That the newest of a finite set exists is proved by well-founded subset
  ordering (`NewestIsIn`). The other three hold while `clean`: since the last full sync
  nothing failed and one process at most was active at a time, the leader. `SInv` says
  what it knows at each step: its list is made of items that follow one another and the
  state (`Shaped`); between the three statements the row, the table of MACs and the
  settings are judged by what the item in its hands has written and has yet to write
  (`LeaderOK`, `Kept`). A sender that read a version and encodes without the lock relies
  on none of it: `MacOK` says that a patch encoded from consistent tables has the right
  hash while its version is the last of the log, and that is the only time at which the
  server takes it. When nobody is active the tables are those of the version in the row
  (`AtRest`).
- *Sessions.* `InOrder`: while no two processes had the session at once, every spent key
  (`used`, or in the hands of a transmitter) of the session in the row is counted by
  it, and by the record that the one active process holds. `BundlesWait` says that a
  bundle waiting in a receipt or a retry has no other holder and no session yet, so
  the session made of it starts with no key spent. The condition `clean` is
  necessary: `no_key_twice` is the counterexample without it.
  `TwoRetriesAtMost` needs `RetryInv`, inductive beside it. `OneCopy`: a message is in
  one place at a time - in `SendMessage`, as one ciphertext on its way, as one receipt,
  or in one answer. `KeysApart`: a ciphertext on its way has a key the contact has not
  used, and no other has it. `Held`: a contact that was not installed again has the keys
  of every session in use, so it never asks. `Answered`: after its second request, which
  brings its own keys, only an answer is left whose session is made from keys that it
  holds, at every step of that answer (`Fit`).

Only model-checked: everything temporal but `ImplementsLink` (fairness is out of the
proof system's reach), and the violations. Every invariant of a passing run is stated
by a theorem.

## 6. Where the code and its promises disagree

1. `handlers_return` - a channel left unread by a Connect that failed still gets its
   codes and scans; six codes, a scan and the codes of the next turn fill it, and the
   next event blocks in its handler for ever with the handlers' lock held. "All
   registered event handlers will receive all events" (client.go:682) is no longer true
   of any handler.
2. `giving_up_is_safe` - `SendMessage` closes its channel when it gives up, which
   a reader may just have taken out of the table: a send on a closed channel.
3. `no_key_twice` - a retry receipt is answered without `messageSendLock`, beside a
   `SendMessage` to the same contact: both encrypt with the same message key.

Also met, and visible in the models without a promise that they break:

- *Connection*: `isLoggedIn` is not cleared by a lost connection (only by
  connectionevents.go:162 and the like), so `IsLoggedIn()` is true on one that has not
  logged in yet; a websocket that dies between the last handshake frame and the
  registration of `OnDisconnect` (noisesocket.go:48) is installed as current and dead,
  with no event and no reconnect until somebody calls Connect again (`DeadOnArrival`, an
  excuse that `RecoveryPending` names); an `expectedDisconnect` that is set while a
  reconnect is already locking is cleared by it.
- *Requests*: the end of an old connection interrupts requests already written to
  the new one (request.go:45), which are then sent twice; the second wait of a
  message has no timeout.
- *QR channel*: a connection that ends without an event before a code was shown leaves
  the add-on reading for ever (main.go:444); an emitter that is about to send a code when
  an event closes the channel panics (qrchan.go:87), and nothing recovers from it.
- *Prekeys*: a table whose largest id reached the limit makes no new batch; the key of a
  retry receipt that cannot be made or sent (retry.go:432, 447) stays marked as
  uploaded and is never given to anybody.
- *Incoming*: `handlePlaceholderResendResponse` takes the result of `dispatchEvent`, true
  for a handler that failed, as success (message.go:780), so a message that the phone
  gave back is acknowledged although its handler failed (`ResendDropped`); a handler that
  panics counts as one that succeeded (client.go:866), so the plaintext is cleared and
  the stanza acknowledged; an
  acknowledgement may be sent while a handler of the same stanza still runs, when a
  second goroutine finds the old counter (client.go:79 says they are sent after all
  handlers have returned); without the event buffer, as in this add-on, a process
  that ends between decryption and handling loses the message.
- *App state*: what a fetch stored before it failed never reaches the settings; the
  patches of a conflict are applied with no lock held, to a state read before; a
  failed MAC statement is noticed at the next patch only; a patch encoded between a
  fetch's version and its MACs is accepted with a hash that nobody can verify
  (appstate.go:399); a key whose request could not be sent is not asked for again for a
  day (349), and a key that the phone shares after the fetch missed it and before it is
  noted as requested does not bring the fetch back.
- *Recipients*: a list of a LID is not updated while that of its phone number is not
  cached (notification.go:109), and the own list under the LID is not dropped by a
  mismatch (send.go:457); a removal that comes with the device's LID and no LID hash is
  made in place on the list in the cache (notification.go:138), which keeps its length
  and gets empty addresses; GetGroupInfo may store an answer older than a change
  (group.go:618); messages to a group never drop the lists of its members' devices,
  as a TODO in the code says; the members of a cached group are changed in place while
  other goroutines read them.
- *Sessions*: an identity change notified for a LID deletes nothing, as sessions of a
  LID are stored under a name with a suffix (types/jid.go:115); the migration is
  remembered before it is committed, so that one that failed is not tried again before
  the next start; a session left under the phone number overwrites the one of the LID at
  the migration after a restart.

## 7. Abstractions

Contents of nodes, keys and messages are model values; handlers that touch no modelled
state are left out. In Connection and ResponseWaiters the context of answers and
receipts is never cancelled, as the add-on's `BackgroundEventCtx` is not; whether an
error of `Connect` is one to retry is a choice of the model. In QRChannel a writer
waiting for the `RWMutex` does not hold back readers that come later (Go's does, which
removes behaviours), and a successful pairing stores the device and dispatches its event
in one step. In LIDMap a put's batch is what is left after the filter and the removal of
repeated rows. In PreKeys the two counts that decide an upload are read in one step, and
`GetOrGenPreKeys`, which holds `preKeyLock`, is one step: the only operation that does
not take that lock, the removal of a used key, commutes with it. Incoming leaves out the
expiry of buffer rows after 14 days, the count of retries and what a message does
besides its event (sender keys, secrets, history sync); a message that is sent again is
a stanza of its own.

AppState has one collection; the patch MAC and the value MACs are checked with the
snapshot MAC, external blobs come with their patch, and a patch names an entry
once. The server's refusals other than a conflict are failed requests.

Recipients follows the devices of one peer and of the user; the primary device is on
every list and left out. One SendMessage and one GetGroupInfo run at a time (the first
by its lock, the second by a bound). A lookup is answered with what the server has then.

Sessions leaves out sessions that the contact starts, identity trust, archived
states, and the encryptions before the lock (peer messages, the inline bot of
send.go:283). A decryption reads the record and writes it back with the same
sending count. The contact sends at most `PeerTries` receipts per message, four in
the code, with keys from the second on, so the branches for ten answers and for a
session recreated after an hour without keys are not reached.

Histories are read by no guard of the code's steps.

## 8. Not modelled

Generated code (protocol buffers, token tables: about 92,000 of the 116,000 lines of the
implementation), encodings, cryptography and the Signal library are pure functions
here or external; no property of the modules is about them. That is why the map
covers a small share of all lines, and about a quarter of the files of the
components that are modelled: the rest of those files builds or takes apart nodes.

Media transfers are HTTP with one cached connection under one lock. The Python
integration and the service scripts keep no state. Users, newsletters, presence,
privacy and push mostly turn nodes into events. Logout, the CAT refresh of Messenger
accounts, pairing by phone number and `SendFBMessage` are not called by this add-on.
The assembly of frames and the counters of the noise socket, and the loop that takes
history syncs out of its queue, are sequential but for one writer each; the three
hazards they have are listed without a property. `PROJECT.json` has each component
with its reason.

## 9. What is left of the plan

1. **Transport** - FrameSocket's assembly of frames against a reference function, and
   NoiseSocket's counters beside a write that fails.
2. **HistorySync** - the loop that starts and stops itself, and its queue of 32.
