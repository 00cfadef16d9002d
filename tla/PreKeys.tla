------------------------------ MODULE PreKeys -------------------------------
(***************************************************************************)
(* One-time prekeys: the table whatsmeow_pre_keys, their upload to the     *)
(* server, the key that a retry receipt carries, and their removal when a  *)
(* message that used one is decrypted.                                     *)
(*                                                                         *)
(* A key has an id, which the table gives out again once the key with the  *)
(* largest id is gone, and a key pair, which is a number here that counts  *)
(* the pairs made.  uploadPreKeys runs under uploadPreKeysLock, but waits  *)
(* for the server with the table open to everybody else.                   *)
(***************************************************************************)
EXTENDS Integers, FiniteSets

CONSTANTS
    Wanted,    \* WantedPreKeyCount
    Initial,   \* keys in the first upload of a device
    Low,       \* MinPreKeyCount
    IdLimit,   \* the table only takes ids below this
    MaxKeys    \* bound: key pairs made

ASSUME CountsAssumption ==
    /\ Wanted \in Nat \ {0} /\ Initial \in Nat \ {0} /\ Low \in Nat
    /\ IdLimit \in Nat /\ MaxKeys \in Nat

VARIABLES
    key,       \* key[id]: the key pair stored under id, or None
    uploaded,  \* ids whose row says uploaded
    made,      \* number of key pairs made
    asks,      \* what each caller of uploadPreKeys that waits for the lock wants
    step,      \* how far the upload that holds the lock is
    batch,     \* the keys <<id, pair>> it got from GetOrGenPreKeys
    last,      \* the id of the last of them
    recent,    \* lastPreKeyUpload is less than ten minutes ago
    onServer,  \* keys the server has to give out
    receipts,  \* keys <<id, pair>> made for retry receipts that are not sent yet
    held,      \* keys somebody got, from the server or in a retry receipt
    receiptOwn,\* history: pairs made for a retry receipt
    reached,   \* history: pairs that left this device
    twice,     \* history: pairs the server stored more than once
    unmarked   \* history: pairs the server stored and the table does not know of

tableVars   == <<key, uploaded, made>>
uploadVars  == <<step, batch, last, recent>>
receiptVars == <<receipts, receiptOwn>>
historyVars == <<reached, twice, unmarked>>
vars == <<tableVars, asks, uploadVars, onServer, receiptVars, held, historyVars>>

None == 0
Ids  == 1..(IdLimit - 1)
Keys == 1..MaxKeys

(* handleConnectSuccess in its goroutine, and handleEncryptNotification. *)
Askers == {"login", "notification"}
Asks   == {"no", "normal", "initial"}

TypeOK ==
    /\ key \in [Ids -> Keys \cup {None}]
    /\ uploaded \in SUBSET Ids
    /\ \A id \in uploaded : key[id] # None
    /\ made \in 0..MaxKeys
    /\ asks \in [Askers -> Asks]
    /\ step \in {"idle", "ready", "stored"}
    /\ batch \in SUBSET (Ids \X Keys)
    /\ last \in Ids \cup {0}
    /\ recent \in BOOLEAN
    /\ onServer \in SUBSET (Ids \X Keys)
    /\ receipts \in SUBSET (Ids \X Keys)
    /\ held \in SUBSET (Ids \X Keys)
    /\ receiptOwn \in SUBSET Keys
    /\ reached \in SUBSET Keys /\ twice \in SUBSET Keys /\ unmarked \in SUBSET Keys

-----------------------------------------------------------------------------
(* The table. *)

Stored  == {id \in Ids : key[id] # None}
Pending == Stored \ uploaded
Pairs(ks) == {k[2] : k \in ks}

Largest(ids, m) == m \in ids /\ \A id \in ids : id <= m

(* getNextPreKeyID *)
IsNext(id) == IF Stored = {} THEN id = 1 ELSE Largest(Stored, id - 1)

(* getUnuploadedPreKeysQuery: the pending rows in the order of their ids,   *)
(* no more than count of them.                                              *)
Selected(ids, count) ==
    \/ ids = Pending /\ Cardinality(ids) <= count
    \/ /\ ids \in SUBSET Pending /\ Cardinality(ids) = count
       /\ \A id \in ids, other \in Pending \ ids : id < other

(* genOnePreKey, n times from id on. *)
Insert(id, n) ==
    /\ id + n <= IdLimit /\ made + n <= MaxKeys
    /\ made' = made + n
    /\ key' = [i \in Ids |-> IF i \in id..(id + n - 1) THEN made + 1 + (i - id) ELSE key[i]]

-----------------------------------------------------------------------------
(* uploadPreKeys *)

(* The number of keys on the server, or in the table, is found to be low.   *)
(* The notification only knows of the server.                               *)
Ask(a) ==
    /\ asks[a] = "no"
    /\ \/ Cardinality(onServer) < Low
       \/ a = "login" /\ Cardinality(uploaded) < Low
    /\ asks' = [asks EXCEPT ![a] =
         IF a = "login" /\ onServer = {} /\ uploaded = {} THEN "initial" ELSE "normal"]
    /\ UNCHANGED <<tableVars, uploadVars, onServer, receiptVars, held, historyVars>>

Granted(a) == asks[a] # "no" /\ step = "idle" /\ asks' = [asks EXCEPT ![a] = "no"]

(* Another upload has just ended, and the server has enough. *)
Cancelled(a) ==
    /\ Granted(a)
    /\ recent /\ Cardinality(onServer) >= Wanted
    /\ UNCHANGED <<tableVars, uploadVars, onServer, receiptVars, held, historyVars>>

(* GetOrGenPreKeys.  The server's answer to the count may be missing, which *)
(* counts as none, so the guard of Cancelled is not negated.                *)
Generate(a) ==
    /\ Granted(a)
    /\ \E ids \in SUBSET Ids, next \in 1..IdLimit :
         LET count   == IF asks[a] = "initial" THEN Initial ELSE Wanted
             missing == count - Cardinality(ids)
         IN  /\ Selected(ids, count)
             /\ IsNext(next)
             /\ Insert(next, missing)
             /\ batch' = {k \in Ids \X Keys : k[1] \in ids \cup next..(next + missing - 1)
                                              /\ k[2] = key'[k[1]]}
             /\ IF missing > 0 THEN last' = next + missing - 1
                               ELSE last' \in Ids /\ Largest(ids, last')
    /\ step' = "ready"
    /\ UNCHANGED <<uploaded, recent, onServer, receiptVars, held, historyVars>>

(* The table refuses a key, which it does once the ids have run out, or     *)
(* fails: the ones stored before stay, and are not uploaded now.            *)
GenerateFails(a) ==
    /\ Granted(a)
    /\ \E ids \in SUBSET Ids, next \in 1..IdLimit :
         LET count == IF asks[a] = "initial" THEN Initial ELSE Wanted
         IN  /\ Selected(ids, count)
             /\ IsNext(next)
             /\ \E n \in 0..(count - Cardinality(ids)) : n < count /\ Insert(next, n)
    /\ UNCHANGED <<uploaded, uploadVars, onServer, receiptVars, held, historyVars>>

(* The request is lost before the server stores the keys. *)
RequestLost ==
    /\ step = "ready" /\ step' = "idle"
    /\ batch' = {} /\ last' = 0
    /\ UNCHANGED <<tableVars, asks, recent, onServer, receiptVars, held, historyVars>>

ServerStores ==
    /\ step = "ready" /\ step' = "stored"
    /\ onServer' = onServer \cup batch
    /\ reached' = reached \cup Pairs(batch)
    /\ twice' = twice \cup (Pairs(batch) \cap reached)
    /\ UNCHANGED <<tableVars, asks, batch, last, recent, receiptVars, held, unmarked>>

(* The server's answer is lost, or the table cannot be written. *)
NotMarked ==
    /\ step = "stored" /\ step' = "idle"
    /\ batch' = {} /\ last' = 0
    /\ unmarked' = unmarked \cup Pairs(batch)
    /\ UNCHANGED <<tableVars, asks, recent, onServer, receiptVars, held, reached, twice>>

(* MUTANT: every row is marked. *)
MarkPreKeysAsUploadedAll(upTo) == uploaded' = Stored

(* MUTANT: the last row is left out. *)
MarkPreKeysAsUploadedBelow(upTo) == uploaded' = uploaded \cup {id \in Stored : id < upTo}

MarkPreKeysAsUploaded(upTo) == uploaded' = uploaded \cup {id \in Stored : id <= upTo}

Mark ==
    /\ step = "stored" /\ step' = "idle"
    /\ MarkPreKeysAsUploaded(last)
    /\ batch' = {} /\ last' = 0
    /\ recent' = TRUE
    /\ UNCHANGED <<key, made, asks, onServer, receiptVars, held, historyVars>>

TenMinutesPass ==
    /\ recent /\ recent' = FALSE
    /\ UNCHANGED <<tableVars, asks, step, batch, last, onServer, receiptVars, held, historyVars>>

-----------------------------------------------------------------------------
(* sendRetryReceipt: GenOnePreKey stores the key, marked, before there is a *)
(* receipt to send it in.                                                   *)
ReceiptKey ==
    /\ \E id \in Ids :
         /\ IsNext(id) /\ Insert(id, 1)
         /\ uploaded' = uploaded \cup {id}
         /\ receipts' = receipts \cup {<<id, made + 1>>}
    /\ receiptOwn' = receiptOwn \cup {made + 1}
    /\ UNCHANGED <<asks, uploadVars, onServer, held, historyVars>>

ReceiptSent ==
    /\ \E k \in receipts :
         /\ receipts' = receipts \ {k}
         /\ held' = held \cup {k}
         /\ reached' = reached \cup {k[2]}
    /\ UNCHANGED <<tableVars, asks, uploadVars, onServer, receiptOwn, twice, unmarked>>

(* The account cannot be marshalled, or sendNode fails: the row stays, and  *)
(* stays marked.                                                            *)
ReceiptFails ==
    /\ \E k \in receipts : receipts' = receipts \ {k}
    /\ UNCHANGED <<tableVars, asks, uploadVars, onServer, receiptOwn, held, historyVars>>

(* The server gives a key to somebody, once. *)
ServerGives ==
    /\ \E k \in onServer :
         /\ onServer' = onServer \ {k}
         /\ held' = held \cup {k}
    /\ UNCHANGED <<tableVars, asks, uploadVars, receiptVars, historyVars>>

(* MUTANT: the smaller ids are removed too. *)
RemovePreKeyBelow(id) ==
    /\ key' = [i \in Ids |-> IF i <= id THEN None ELSE key[i]]
    /\ uploaded' = {i \in uploaded : i > id}

(* MUTANT: the mark outlives the row. *)
RemovePreKeyMarked(id) == key' = [key EXCEPT ![id] = None] /\ uploaded' = uploaded

RemovePreKey(id) ==
    /\ key' = [key EXCEPT ![id] = None]
    /\ uploaded' = uploaded \ {id}

(* A message made with a key arrives.  It is decrypted with the key stored  *)
(* under that id, and if that works the row is removed.  A pair that the    *)
(* server stored twice may be in two hands.                                 *)
Use ==
    /\ \E k \in held :
         /\ IF key[k[1]] = k[2] THEN RemovePreKey(k[1]) ELSE UNCHANGED <<key, uploaded>>
         /\ \/ held' = held \ {k}
            \/ k[2] \in twice /\ held' = held
    /\ UNCHANGED <<made, asks, uploadVars, onServer, receiptVars, historyVars>>

(* The process ends, at any point, and starts again. *)
Restart ==
    /\ asks' = [a \in Askers |-> "no"]
    /\ step' = "idle" /\ batch' = {} /\ last' = 0 /\ recent' = FALSE
    /\ unmarked' = IF step = "stored" THEN unmarked \cup Pairs(batch) ELSE unmarked
    /\ receipts' = {}
    /\ UNCHANGED <<tableVars, onServer, held, receiptOwn, reached, twice>>

-----------------------------------------------------------------------------
Init ==
    /\ key = [id \in Ids |-> None] /\ uploaded = {} /\ made = 0
    /\ asks = [a \in Askers |-> "no"]
    /\ step = "idle" /\ batch = {} /\ last = 0 /\ recent = FALSE
    /\ onServer = {} /\ receipts = {} /\ held = {} /\ receiptOwn = {}
    /\ reached = {} /\ twice = {} /\ unmarked = {}

Upload(a) == Ask(a) \/ Cancelled(a) \/ Generate(a) \/ GenerateFails(a)

Next ==
    \/ \E a \in Askers : Upload(a)
    \/ RequestLost \/ ServerStores \/ NotMarked \/ Mark \/ TenMinutesPass
    \/ ReceiptKey \/ ReceiptSent \/ ReceiptFails
    \/ ServerGives \/ Use
    \/ Restart

Spec == Init /\ [][Next]_vars

-----------------------------------------------------------------------------
(* A row that says uploaded has left this device, unless it was made for a  *)
(* retry receipt, whose row is marked before the receipt is sent and keeps  *)
(* its mark when that fails: MarkPreKeysAsUploaded marks every smaller id,  *)
(* and none of them is of a key that was not in the batch, whatever         *)
(* GenOnePreKey, removals and failed uploads did to the table since.  A key *)
(* made for an upload and marked too early would never be uploaded.         *)
UploadedHasLeft == \A id \in uploaded : key[id] \in reached \cup receiptOwn

(* A key is uploaded twice, and so given to two people, only if the end of  *)
(* its upload was lost: never because two uploads run at once, or because a *)
(* batch goes beyond the pending rows.                                      *)
TwiceIsUnmarked == twice \subseteq unmarked

(* A key that the server or somebody has, and that nobody else got, is      *)
(* there to decrypt with, under its id: that id is not given to another key *)
(* before.                                                                  *)
GivenIsKept ==
    \A k \in onServer \cup held : k[2] \notin twice => key[k[1]] = k[2]

=============================================================================
