------------------------------ MODULE Sessions ------------------------------
(***************************************************************************)
(* The Signal session with one device of a contact, as the client keeps it *)
(* in whatsmeow_sessions, and what messages, their retries and incoming    *)
(* messages do to it.                                                      *)
(*                                                                         *)
(* A session is known by the prekey bundle it was made from and counts the *)
(* messages that were encrypted with it: each count gives one message key, *)
(* which the contact accepts once.  The row of the session is kept under   *)
(* the phone number of the contact, and moved to its LID once that is      *)
(* known.  Everybody reads the row, changes the record in memory and       *)
(* writes it back: the sender that holds messageSendLock (through the      *)
(* cache of WithCachedSessions, with a request to the server in between),  *)
(* the goroutine of each retry receipt, and the decryption of a message.   *)
(*                                                                         *)
(* The contact behaves as this client does in sendRetryReceipt.            *)
(***************************************************************************)
EXTENDS Integers, FiniteSets, Sequences

CONSTANTS
    Messages,    \* bound: the messages sent, each once
    MaxId,       \* bound: bundles and sessions in use at once
    MaxSent,     \* bound: messages encrypted with one session
    PeerTries,   \* receipts the contact sends for one message (4 in the code)
    RecentSize,  \* length of cli.recentMessagesList
    MaxFaults    \* bound: crashes, failing transactions, reinstallations

ASSUME BoundsAssumption ==
    /\ MaxId \in Nat /\ MaxSent \in Nat /\ PeerTries \in Nat
    /\ RecentSize \in Nat \ {0} /\ MaxFaults \in Nat
ASSUME MessagesAssumption == Messages \cap {"send", "receive"} = {}

Ids == 1..MaxId
Addresses == {"PN", "LID"}
None == [id |-> 0, sent |-> 0]
Session == [id : 0..MaxId, sent : 0..MaxSent]

(* A retry receipt, if there is one, and the bundle in its keys or 0. *)
NoReceipt == [sent |-> FALSE, keys |-> 0]

VARIABLES
    rows,      \* whatsmeow_sessions: the session under each address
    mapped,    \* the LID of the contact is known
    migrated,  \* the contact is in migratedPNSessionsCache
    recent,    \* the ring of recent messages, the oldest first
    started,   \* the messages that SendMessage was called for
    work,      \* work[p]: what process p is doing
    net,       \* ciphertexts on their way to the contact
    receipt,   \* receipt[m]: the retry receipt for m on its way back
    changed,   \* an identity change is on its way
    valid,     \* the bundles and sessions the contact holds the keys of
    seen,      \* the message keys the contact has used
    read,      \* the messages the contact has read
    tries,     \* the receipts the contact has sent for a message
    used,      \* history: the message keys of the ciphertexts transmitted
    reused,    \* history: a message key was used for two ciphertexts
    clean,     \* history: no two processes had the session at once
    moved,     \* history: the contact was installed again
    faults     \* number of faults so far

store == <<rows, mapped, migrated>>
peer  == <<net, receipt, changed, valid, seen, read, tries, moved>>
hist  == <<used, reused>>
vars == <<rows, mapped, migrated, recent, started, work, net, receipt, changed, valid, seen,
          read, tries, used, reused, clean, moved, faults>>

(* The sender, the decryption in handlerQueueLoop, and for each message the *)
(* goroutine that answers a retry receipt for it.                           *)
Procs == {"send", "receive"} \cup Messages
Resting == [step |-> "idle", msg |-> "", to |-> "PN", bundle |-> 0, session |-> None]

(* A process has the session from its read of the row, or from the          *)
(* transaction that moves it, to its write.                                 *)
Active(p) == work[p].step \in {"migrate", "bundle", "load", "session", "store"}
Alone     == \A p, q \in Procs : Active(p) /\ Active(q) => p = q

Becomes(p, w) ==
    /\ work' = [work EXCEPT ![p] = w]
    /\ clean' = (clean /\ Alone')

Fault == faults < MaxFaults /\ faults' = faults + 1

(* What p was doing is given up: an error is returned or logged. *)
GivesUp(p) == Becomes(p, Resting)

(* The bound on bundles: the ones that nobody can use any more go round. *)
InUse ==
    {rows[a].id : a \in Addresses} \cup {work[p].bundle : p \in Procs}
    \cup {work[p].session.id : p \in Procs} \cup {c.id : c \in net}
    \cup {receipt[m].keys : m \in Messages}

IsNew(id) == id \in Ids \ InUse /\ \A other \in Ids \ InUse : id <= other

(* The contact makes a bundle: its keys are there, its counts start anew. *)
Offers(id) ==
    /\ valid' = valid \cup {id}
    /\ seen' = {k \in seen : k[1] # id}
    /\ used' = {k \in used : k[1] # id}

-----------------------------------------------------------------------------
(* What all processes do with the row. *)

(* A retry with a bundle makes a session of it before it reads the row. *)
AtRow(w) == IF w.bundle # 0 THEN "bundle" ELSE "load"

(* The address is chosen.  For a device that is named by its phone number  *)
(* it is the LID once that is known, and the first one to see this since   *)
(* the process started moves the session.  A LID stays what it is, and     *)
(* moves nothing.  When the lookup fails, a message is not sent; a retry   *)
(* and a decryption go on with the phone number.                           *)
Addressed(p, w) ==
    \/ /\ w.to = "PN" /\ mapped
       /\ Becomes(p, [w EXCEPT !.to = "LID",
                               !.step = IF migrated THEN AtRow(w) ELSE "migrate"])
       /\ migrated' = TRUE
    \/ /\ w.to = "PN" /\ mapped => p # "send"
       /\ Becomes(p, [w EXCEPT !.step = AtRow(w)])
       /\ UNCHANGED migrated
    \/ /\ w.to = "PN" /\ p = "send"
       /\ GivesUp(p)
       /\ UNCHANGED migrated

(* MUTANT: the rows of the phone number are not deleted. *)
MigrateCopies(p) ==
    /\ work[p].step = "migrate"
    /\ \/ /\ rows' = [rows EXCEPT !["LID"] = IF rows["PN"] # None THEN rows["PN"] ELSE @]
          /\ UNCHANGED faults
       \/ Fault /\ UNCHANGED rows
    /\ Becomes(p, [work[p] EXCEPT !.step = AtRow(work[p])])
    /\ UNCHANGED <<mapped, migrated, recent, started, peer, hist>>

(* MigratePNToLID, one transaction, whose failure is only logged. *)
Migrate(p) ==
    /\ work[p].step = "migrate"
    /\ \/ /\ rows' = [PN |-> None, LID |-> IF rows["PN"] # None THEN rows["PN"] ELSE rows["LID"]]
          /\ UNCHANGED faults
       \/ Fault /\ UNCHANGED rows
    /\ Becomes(p, [work[p] EXCEPT !.step = AtRow(work[p])])
    /\ UNCHANGED <<mapped, migrated, recent, started, peer, hist>>

(* The row is read.  Without a session, a sender asks for a bundle, a retry *)
(* fails, and a message cannot be decrypted.                                *)
Load(p) ==
    LET w == work[p]
        s == rows[w.to]
    IN  /\ w.step = "load"
        /\ IF s # None
           THEN Becomes(p, [w EXCEPT !.step = "store", !.session = s])
           ELSE IF p = "send" THEN Becomes(p, [w EXCEPT !.step = "session"])
           ELSE GivesUp(p)
        /\ UNCHANGED <<store, recent, started, peer, hist, faults>>

(* The record in memory after the encryption, or after the decryption,      *)
(* which leaves the sending chain as it is.                                 *)
Advanced(p) ==
    IF p = "receive" THEN work[p].session ELSE [work[p].session EXCEPT !.sent = @ + 1]

(* The record is written, by PutCachedSessions or by StoreSession, before   *)
(* the ciphertext is used for anything.                                     *)
Store(p) ==
    LET w == work[p]
    IN  /\ w.step = "store"
        /\ \/ /\ p # "receive" => w.session.sent < MaxSent
              /\ rows' = [rows EXCEPT ![w.to] = Advanced(p)]
              /\ IF p = "receive" THEN Becomes(p, Resting)
                 ELSE Becomes(p, [w EXCEPT !.step = "transmit", !.session.sent = @ + 1])
              /\ UNCHANGED faults
           \/ Fault /\ GivesUp(p) /\ UNCHANGED rows
        /\ UNCHANGED <<mapped, migrated, recent, started, peer, hist>>

(* sendNode *)
Transmit(p) ==
    LET w == work[p]
        key == <<w.session.id, w.session.sent>>
    IN  /\ w.step = "transmit"
        /\ net' = net \cup {[msg |-> w.msg, id |-> w.session.id, count |-> w.session.sent]}
        /\ used' = used \cup {key}
        /\ reused' = (reused \/ key \in used)
        /\ Becomes(p, Resting)
        /\ UNCHANGED <<store, recent, started, receipt, changed, valid, seen, read, tries,
                       moved, faults>>

TransmitFails(p) ==
    /\ work[p].step = "transmit"
    /\ GivesUp(p)
    /\ UNCHANGED <<store, recent, started, peer, hist, faults>>

-----------------------------------------------------------------------------
(* SendMessage, with messageSendLock held. *)

(* MUTANT: no slot of the ring is used again. *)
RememberedAll(m) == Append(recent, m)

(* addRecentMessage *)
Remembered(m) == Append(IF Len(recent) = RecentSize THEN Tail(recent) ELSE recent, m)

(* The message is remembered, and encryptMessageForDevices begins. *)
SendStart(m) ==
    /\ work["send"].step = "idle" /\ m \notin started
    /\ started' = started \cup {m}
    /\ recent' = Remembered(m)
    /\ \E a \in Addresses : Addressed("send", [Resting EXCEPT !.msg = m, !.to = a])
    /\ UNCHANGED <<rows, mapped, peer, hist, faults>>

(* fetchPreKeysNoError: the new session goes to the cache only.  Without a  *)
(* bundle the device is left out.                                           *)
SendFetch ==
    /\ work["send"].step = "session"
    /\ \/ \E id \in Ids :
            /\ IsNew(id) /\ Offers(id)
            /\ Becomes("send", [work["send"] EXCEPT !.step = "store",
                                                    !.session = [id |-> id, sent |-> 0]])
       \/ GivesUp("send") /\ UNCHANGED <<valid, seen, used>>
    /\ UNCHANGED <<store, recent, started, net, receipt, changed, read, tries, reused,
                   moved, faults>>

-----------------------------------------------------------------------------
(* handleRetryReceipt, in a goroutine. *)

Forget(m) == receipt' = [receipt EXCEPT ![m] = NoReceipt]

(* The message must be among the recent ones.  Without keys in the receipt  *)
(* shouldRecreateSession asks whether there is a session, under the address *)
(* of the receipt.  (From the second receipt on there are keys.)            *)
RetryStart(m) ==
    /\ receipt[m] # NoReceipt /\ work[m].step = "idle"
    /\ IF \A n \in DOMAIN recent : recent[n] # m
       THEN UNCHANGED <<work, clean>>
       ELSE \E a \in Addresses :
              Becomes(m, [Resting EXCEPT !.msg = m, !.to = a, !.bundle = receipt[m].keys,
                               !.step = IF receipt[m].keys = 0 /\ rows[a] = None
                                        THEN "fetch" ELSE "address"])
    /\ Forget(m)
    /\ UNCHANGED <<store, recent, started, net, changed, valid, seen, read, tries, moved,
                   hist, faults>>

(* fetchPreKeys *)
RetryFetch(m) ==
    /\ work[m].step = "fetch"
    /\ \/ \E id \in Ids :
            /\ IsNew(id) /\ Offers(id)
            /\ Becomes(m, [work[m] EXCEPT !.step = "address", !.bundle = id])
       \/ GivesUp(m) /\ UNCHANGED <<valid, seen, used>>
    /\ UNCHANGED <<store, recent, started, net, receipt, changed, read, tries, reused,
                   moved, faults>>

RetryAddress(m) ==
    /\ work[m].step = "address"
    /\ Addressed(m, work[m])
    /\ UNCHANGED <<rows, mapped, recent, started, peer, hist, faults>>

(* MUTANT: the bundle is only used when there is no session. *)
ProcessBundleIfNone(m) ==
    /\ work[m].step = "bundle"
    /\ rows' = IF rows[work[m].to] = None
               THEN [rows EXCEPT ![work[m].to] = [id |-> work[m].bundle, sent |-> 0]]
               ELSE rows
    /\ Becomes(m, [work[m] EXCEPT !.step = "load", !.bundle = 0])
    /\ UNCHANGED <<mapped, migrated, recent, started, peer, hist, faults>>

(* ProcessBundle stores the new session; the encryption then loads it. *)
ProcessBundle(m) ==
    /\ work[m].step = "bundle"
    /\ rows' = [rows EXCEPT ![work[m].to] = [id |-> work[m].bundle, sent |-> 0]]
    /\ Becomes(m, [work[m] EXCEPT !.step = "load", !.bundle = 0])
    /\ UNCHANGED <<mapped, migrated, recent, started, peer, hist, faults>>

-----------------------------------------------------------------------------
(* Incoming messages and notifications. *)

(* decryptMessages: a message of the contact in a session that it has. *)
ReceiveStart ==
    /\ work["receive"].step = "idle"
    /\ \E a \in Addresses : rows[a].id \in valid
    /\ \E a \in Addresses : Addressed("receive", [Resting EXCEPT !.to = a])
    /\ UNCHANGED <<rows, mapped, recent, started, peer, hist, faults>>

(* The LID of the contact comes to be known. *)
Learn ==
    /\ ~mapped /\ mapped' = TRUE
    /\ UNCHANGED <<rows, migrated, recent, started, work, peer, hist, clean, faults>>

(* handleEncryptNotification, in a goroutine, deletes the sessions of the   *)
(* name in the notification.  Those of a LID have the suffix _1 in the      *)
(* table, which this name lacks: they stay.                                 *)
IdentityChange(from) ==
    /\ changed /\ changed' = FALSE
    /\ rows' = IF from = "PN" THEN [rows EXCEPT !["PN"] = None] ELSE rows
    /\ UNCHANGED <<mapped, migrated, recent, started, work, net, receipt, valid, seen, read,
                   tries, moved, hist, clean, faults>>

(* The process ends and starts again with what is in the database. *)
Crash ==
    /\ Fault
    /\ work' = [p \in Procs |-> Resting]
    /\ migrated' = FALSE /\ recent' = <<>>
    /\ receipt' = [m \in Messages |-> NoReceipt]
    /\ changed' \in {changed, FALSE}
    /\ UNCHANGED <<rows, mapped, started, net, valid, seen, read, tries, moved, hist, clean>>

-----------------------------------------------------------------------------
(* The contact. *)

Readable(c) == c.id \in valid /\ <<c.id, c.count>> \notin seen

PeerReads(c) ==
    /\ c \in net /\ Readable(c)
    /\ net' = net \ {c}
    /\ seen' = seen \cup {<<c.id, c.count>>}
    /\ read' = read \cup {c.msg}
    /\ UNCHANGED <<store, recent, started, work, receipt, changed, valid, tries, moved, hist,
                   clean, faults>>

(* sendRetryReceipt: the keys of a new bundle go with the second one and    *)
(* the later ones, and may go with the first.                               *)
PeerAsks(c) ==
    /\ c \in net /\ ~Readable(c)
    /\ net' = net \ {c}
    /\ IF c.msg \in read \/ tries[c.msg] = PeerTries
       THEN UNCHANGED <<receipt, tries, valid, seen, used>>
       ELSE /\ tries' = [tries EXCEPT ![c.msg] = @ + 1]
            /\ \/ /\ tries[c.msg] = 0
                  /\ receipt' = [receipt EXCEPT ![c.msg] = [sent |-> TRUE, keys |-> 0]]
                  /\ UNCHANGED <<valid, seen, used>>
               \/ \E id \in Ids :
                    /\ IsNew(id) /\ Offers(id)
                    /\ receipt' = [receipt EXCEPT ![c.msg] = [sent |-> TRUE, keys |-> id]]
    /\ UNCHANGED <<store, recent, started, work, changed, read, moved, reused, clean,
                   faults>>

(* The contact is installed again and has none of its keys. *)
Reinstall ==
    /\ ~moved /\ Fault
    /\ moved' = TRUE /\ changed' = TRUE
    /\ valid' = {}
    /\ UNCHANGED <<store, recent, started, work, net, receipt, seen, read, tries, hist, clean>>

-----------------------------------------------------------------------------
Init ==
    /\ rows = [a \in Addresses |-> None]
    /\ mapped \in BOOLEAN /\ migrated = FALSE
    /\ recent = <<>> /\ started = {}
    /\ work = [p \in Procs |-> Resting]
    /\ net = {} /\ receipt = [m \in Messages |-> NoReceipt] /\ changed = FALSE
    /\ valid = {} /\ seen = {} /\ read = {} /\ tries = [m \in Messages |-> 0]
    /\ used = {} /\ reused = FALSE /\ clean = TRUE /\ moved = FALSE
    /\ faults = 0

Step(p) == Migrate(p) \/ Load(p) \/ Store(p) \/ Transmit(p) \/ TransmitFails(p)
Retry(m) == RetryStart(m) \/ RetryFetch(m) \/ RetryAddress(m) \/ ProcessBundle(m)

Next ==
    \/ \E m \in Messages : SendStart(m)
    \/ SendFetch
    \/ \E m \in Messages : Retry(m)
    \/ ReceiveStart
    \/ \E p \in Procs : Step(p)
    \/ Learn
    \/ \E a \in Addresses : IdentityChange(a)
    \/ Crash
    \/ \E c \in net : PeerReads(c) \/ PeerAsks(c)
    \/ Reinstall

Spec == Init /\ [][Next]_vars

-----------------------------------------------------------------------------
(* Properties. *)

Keys == Ids \X (1..MaxSent)

(* Every variable keeps its type. *)
TypeOK ==
    /\ rows \in [Addresses -> Session]
    /\ mapped \in BOOLEAN /\ migrated \in BOOLEAN
    /\ recent \in Seq(Messages) /\ Len(recent) <= RecentSize /\ started \subseteq Messages
    /\ work \in [Procs -> [step : {"idle", "address", "fetch", "migrate", "bundle", "load",
                                   "session", "store", "transmit"},
                           msg : Messages \cup {""}, to : Addresses, bundle : 0..MaxId,
                           session : Session]]
    /\ net \subseteq [msg : Messages, id : Ids, count : 1..MaxSent]
    /\ receipt \in [Messages -> [sent : BOOLEAN, keys : 0..MaxId]]
    /\ changed \in BOOLEAN /\ valid \subseteq Ids /\ seen \subseteq Keys
    /\ read \subseteq Messages /\ tries \in [Messages -> 0..PeerTries]
    /\ used \subseteq Keys /\ reused \in BOOLEAN
    /\ clean \in BOOLEAN /\ moved \in BOOLEAN
    /\ faults \in 0..MaxFaults

(* As long as no two processes have the session at once, no message key is  *)
(* used for two ciphertexts: whatever crashes or fails in between, the row  *)
(* was written before the ciphertext went out, and the migration leaves one *)
(* copy only.                                                               *)
KeysUsedOnce == clean => ~reused

(* The same without the condition: the comment on messageSendLock in        *)
(* SendMessage says that the lock keeps apart two messages to one user.     *)
NoKeyTwice == ~reused

(* As long as no two processes have the session at once, the contact can    *)
(* read every message at first sight unless it was installed again; then    *)
(* the keys in its second receipt bring about a session that it can read.   *)
FewRetries ==
    clean => \A m \in Messages : tries[m] <= IF moved THEN 2 ELSE 0
=============================================================================
