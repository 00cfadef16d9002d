------------------------------ MODULE Incoming ------------------------------
(***************************************************************************)
(* Incoming messages: decryptMessages and the event buffer.                *)
(*                                                                         *)
(* The server keeps a stanza until it is acknowledged and delivers what it *)
(* keeps again on every connection.  Decrypting a ciphertext uses up its   *)
(* key, so a second decryption finds an old counter.  The event buffer     *)
(* keeps the plaintext from the decryption, with which it shares a         *)
(* transaction, until an event handler has accepted it.                    *)
(*                                                                         *)
(* A stanza to a group has two ciphertexts, one for this device with the   *)
(* key of the other.  A message that could not be decrypted is sent again  *)
(* in a stanza of its own.  Handlers of several connections run side by    *)
(* side.                                                                   *)
(***************************************************************************)
EXTENDS Naturals

CONSTANTS
    Stanzas,    \* message stanzas
    Groups,     \* those to a group
    Handlers    \* goroutines that handle nodes

ASSUME StanzasAssumption == Stanzas # {} /\ Groups \subseteq Stanzas

VARIABLES
    buffering, \* cli.EnableDecryptedEventBuffer
    server,    \* stanzas the server keeps: those not acknowledged
    inbox,     \* stanzas in cli.handlerQueue
    at,        \* where each goroutine is
    stanza,    \* the stanza it handles
    part,      \* and the ciphertext of it
    spent,     \* ciphertexts whose key is used up
    buffer,    \* whatsmeow_event_buffer
    accepted,  \* history: ciphertexts whose event the handlers accepted
    twice,     \* history: those accepted more than once
    given,     \* history: ciphertexts given up on, as no readable message
    dropped,   \* history: those whose events were not accepted and passed for done
    passed,    \* history: those passed over for an old counter in a transaction
    uncleared, \* history: accepted ones whose plaintext stayed in the buffer
    shared     \* history: stanzas that two goroutines handled at a time

workVars    == <<at, stanza, part>>
storeVars   == <<spent, buffer>>
historyVars == <<accepted, twice, given, dropped, passed, uncleared, shared>>
vars == <<buffering, server, inbox, workVars, storeVars, historyVars>>

Ciphertexts == Stanzas \X (1..2)

(* The enc children of a stanza. *)
Parts(s) == IF s \in Groups THEN 1..2 ELSE {1}

Steps == {"idle", "lookup", "decrypt", "dispatch", "clear", "receipt"}

TypeOK ==
    /\ buffering \in BOOLEAN
    /\ server \in SUBSET Stanzas
    /\ inbox \in SUBSET Stanzas
    /\ at \in [Handlers -> Steps]
    /\ stanza \in [Handlers -> Stanzas]
    /\ \A h \in Handlers : part[h] \in Parts(stanza[h])
    /\ part \in [Handlers -> 1..2]
    /\ spent \in SUBSET Ciphertexts
    /\ buffer \in [Ciphertexts -> {"none", "plaintext", "cleared"}]
    /\ accepted \in SUBSET Ciphertexts /\ twice \in SUBSET Ciphertexts
    /\ given \in SUBSET Ciphertexts /\ dropped \in SUBSET Ciphertexts
    /\ passed \in SUBSET Ciphertexts /\ uncleared \in SUBSET Ciphertexts
    /\ shared \in SUBSET Stanzas

-----------------------------------------------------------------------------
Busy == {h \in Handlers : at[h] # "idle"}

Cipher(h) == <<stanza[h], part[h]>>

Goto(h, step) == at' = [at EXCEPT ![h] = step] /\ UNCHANGED <<stanza, part>>

Nothing == CHOOSE s \in Stanzas : TRUE

(* The goroutine ends, and its variables with it. *)
Return(h) ==
    /\ at' = [at EXCEPT ![h] = "idle"]
    /\ stanza' = [stanza EXCEPT ![h] = Nothing]
    /\ part' = [part EXCEPT ![h] = 1]

(* MUTANT: one child too many. *)
NextPartBeyond(h) ==
    IF part[h] \in Parts(stanza[h])
    THEN /\ at' = [at EXCEPT ![h] = "lookup"]
         /\ part' = [part EXCEPT ![h] = @ + 1]
         /\ UNCHANGED stanza
    ELSE Goto(h, "receipt")

(* The loop over the children goes on, or ends. *)
NextPart(h) ==
    IF part[h] + 1 \in Parts(stanza[h])
    THEN /\ at' = [at EXCEPT ![h] = "lookup"]
         /\ part' = [part EXCEPT ![h] = @ + 1]
         /\ UNCHANGED stanza
    ELSE Goto(h, "receipt")

Accept(c) ==
    /\ accepted' = accepted \cup {c}
    /\ twice' = IF c \in accepted THEN twice \cup {c} ELSE twice

-----------------------------------------------------------------------------
(* handlerQueueLoop, of the current connection or of one before it: a       *)
(* handler that takes long outlives its connection.                         *)
Take(h) ==
    /\ at[h] = "idle"
    /\ \E s \in inbox :
         /\ inbox' = inbox \ {s}
         /\ stanza' = [stanza EXCEPT ![h] = s]
         /\ shared' = IF \E o \in Busy : stanza[o] = s THEN shared \cup {s} ELSE shared
    /\ part' = [part EXCEPT ![h] = 1]
    /\ at' = [at EXCEPT ![h] = "lookup"]
    /\ UNCHANGED <<buffering, server, storeVars, accepted, twice, given, dropped, passed, uncleared>>

(* bufferedDecrypt up to the transaction: GetBufferedEvent.  Without the    *)
(* buffer there is no transaction, and this is where the session is read:   *)
(* an old counter is ignored.                                               *)
Lookup(h) ==
    /\ at[h] = "lookup"
    /\ \/ ~buffering /\ Cipher(h) \in spent /\ NextPart(h)
       \/ ~buffering /\ Cipher(h) \notin spent /\ Goto(h, "decrypt")
       \/ buffering /\ buffer[Cipher(h)] = "none" /\ Goto(h, "decrypt")
       \/ buffering /\ buffer[Cipher(h)] = "plaintext" /\ Goto(h, "dispatch")
       \/ buffering /\ buffer[Cipher(h)] = "cleared" /\ NextPart(h)
    /\ UNCHANGED <<buffering, server, inbox, storeVars, historyVars>>

(* A session that was read before another goroutine used the key.           *)
MaySpend(c) == buffering => c \notin spent

(* MUTANT: the plaintext is stored after the transaction, or not at all. *)
DecryptUnbuffered(h) ==
    /\ at[h] = "decrypt" /\ MaySpend(Cipher(h))
    /\ spent' = spent \cup {Cipher(h)}
    /\ UNCHANGED buffer
    /\ Goto(h, "dispatch")
    /\ UNCHANGED <<buffering, server, inbox, historyVars>>

(* DoDecryptionTxn: the key is used up and the plaintext stored together.   *)
(* Without the buffer only the session is stored.                           *)
Decrypt(h) ==
    /\ at[h] = "decrypt" /\ MaySpend(Cipher(h))
    /\ spent' = spent \cup {Cipher(h)}
    /\ buffer' = IF buffering THEN [buffer EXCEPT ![Cipher(h)] = "plaintext"] ELSE buffer
    /\ Goto(h, "dispatch")
    /\ UNCHANGED <<buffering, server, inbox, historyVars>>

(* ErrOldCounter in the transaction: another goroutine was faster since     *)
(* this one looked into the buffer.  The message is left to it, whether it  *)
(* will be accepted there or not.                                           *)
OldCounter(h) ==
    /\ at[h] = "decrypt" /\ ~MaySpend(Cipher(h))
    /\ passed' = passed \cup {Cipher(h)}
    /\ NextPart(h)
    /\ UNCHANGED <<buffering, server, inbox, storeVars,
                   accepted, twice, given, dropped, uncleared, shared>>

(* No session or key, a failing database, a plaintext with bad padding: the *)
(* sender is asked for the message again, the server to forget this stanza, *)
(* which may be lost, and the handlers are told.                            *)
Undecryptable(h) ==
    /\ at[h] \in {"lookup", "decrypt", "dispatch"}
    /\ server' \in {server, server \ {stanza[h]}}
    /\ given' = given \cup {<<stanza[h], p>> : p \in {q \in Parts(stanza[h]) : q >= part[h]}}
    /\ Return(h)
    /\ UNCHANGED <<buffering, inbox, storeVars, accepted, twice, dropped, passed, uncleared, shared>>

(* A child of a type nobody knows, a plaintext that is no message or of an  *)
(* unknown version: it is passed over.  In versions other than 2 it is      *)
(* taken out of the buffer.                                                 *)
Ignored(h) ==
    /\ at[h] \in {"lookup", "dispatch"}
    /\ given' = given \cup {Cipher(h)}
    /\ \/ NextPart(h)
       \/ at[h] = "dispatch" /\ buffering /\ Goto(h, "clear")
    /\ UNCHANGED <<buffering, server, inbox, storeVars, accepted, twice, dropped, passed, uncleared, shared>>

(* handleDecryptedMessage, and the handlers accept the event. *)
Dispatch(h) ==
    /\ at[h] = "dispatch"
    /\ Accept(Cipher(h))
    /\ IF buffering THEN Goto(h, "clear") ELSE NextPart(h)
    /\ UNCHANGED <<buffering, server, inbox, storeVars, given, dropped, passed, uncleared, shared>>

(* A handler fails, or the context of the goroutine is cancelled: the stanza *)
(* is not acknowledged.                                                      *)
HandlerFails(h) ==
    /\ at[h] \in {"lookup", "decrypt", "dispatch"}
    /\ Return(h)
    /\ UNCHANGED <<buffering, server, inbox, storeVars, historyVars>>

(* handlePlaceholderResendResponse takes dispatchEvent's result the wrong   *)
(* way round: when the handler of a message the phone gave back fails, it   *)
(* is the response whose result counts.                                     *)
ResendDropped(h) ==
    /\ at[h] = "dispatch"
    /\ dropped' = dropped \cup {Cipher(h)}
    /\ IF buffering THEN Goto(h, "clear") ELSE NextPart(h)
    /\ UNCHANGED <<buffering, server, inbox, storeVars, accepted, twice, given, passed, uncleared, shared>>

(* dispatchEvent recovers the panic of a handler and returns as it would    *)
(* after the last of them: the event counts as handled.                     *)
HandlerPanics(h) ==
    /\ at[h] = "dispatch"
    /\ dropped' = dropped \cup {Cipher(h)}
    /\ IF buffering THEN Goto(h, "clear") ELSE NextPart(h)
    /\ UNCHANGED <<buffering, server, inbox, storeVars,
                   accepted, twice, given, passed, uncleared, shared>>

(* MUTANT: the plaintext is left in the buffer. *)
ClearForgotten(h) ==
    /\ at[h] = "clear"
    /\ UNCHANGED <<buffer, uncleared>>
    /\ NextPart(h)
    /\ UNCHANGED <<buffering, server, inbox, spent, accepted, twice, given, dropped, passed, shared>>

(* ClearBufferedEventPlaintext; its error is only logged. *)
Clear(h) ==
    /\ at[h] = "clear"
    /\ \/ buffer' = [buffer EXCEPT ![Cipher(h)] = "cleared"] /\ UNCHANGED uncleared
       \/ uncleared' = uncleared \cup {Cipher(h)} /\ UNCHANGED buffer
    /\ NextPart(h)
    /\ UNCHANGED <<buffering, server, inbox, spent, accepted, twice, given, dropped, passed, shared>>

(* sendMessageReceipt, or a nack, in the goroutine of the handler or in one *)
(* of its own.  It may be lost.                                             *)
Receipt(h) ==
    /\ at[h] = "receipt"
    /\ server' \in {server, server \ {stanza[h]}}
    /\ Return(h)
    /\ UNCHANGED <<buffering, inbox, storeVars, historyVars>>

-----------------------------------------------------------------------------
(* A new connection: what the server keeps comes again. *)
Redeliver ==
    /\ inbox' = inbox \cup server
    /\ UNCHANGED <<buffering, server, workVars, storeVars, historyVars>>

(* The process ends, at any point, and starts again. *)
Restart ==
    /\ inbox' = {}
    /\ at' = [h \in Handlers |-> "idle"]
    /\ stanza' = [h \in Handlers |-> Nothing] /\ part' = [h \in Handlers |-> 1]
    /\ uncleared' = uncleared \cup {Cipher(h) : h \in {o \in Handlers : at[o] = "clear"}}
    /\ UNCHANGED <<buffering, server, storeVars, accepted, twice, given, dropped, passed, shared>>

-----------------------------------------------------------------------------
Init ==
    /\ buffering \in BOOLEAN
    /\ server = Stanzas
    /\ inbox = Stanzas
    /\ at = [h \in Handlers |-> "idle"]
    /\ stanza = [h \in Handlers |-> Nothing] /\ part = [h \in Handlers |-> 1]
    /\ spent = {} /\ buffer = [c \in Ciphertexts |-> "none"]
    /\ accepted = {} /\ twice = {} /\ given = {} /\ dropped = {} /\ passed = {}
    /\ uncleared = {} /\ shared = {}

HandlerStep(h) ==
    \/ Take(h) \/ Lookup(h) \/ Decrypt(h) \/ OldCounter(h) \/ Undecryptable(h)
    \/ Ignored(h) \/ Dispatch(h) \/ HandlerFails(h) \/ HandlerPanics(h)
    \/ ResendDropped(h) \/ Clear(h) \/ Receipt(h)

Next == Redeliver \/ Restart \/ \E h \in Handlers : HandlerStep(h)

Spec == Init /\ [][Next]_vars

-----------------------------------------------------------------------------
(* With the event buffer no message is lost, whenever the process ends,     *)
(* whatever fails and however many goroutines handle a stanza at a time     *)
(* (bufferedDecrypt), but in three ways that the code has: it gives up on   *)
(* what it cannot read; it takes the event for handled after the panic of a *)
(* handler, or after a refused event that the phone gave back; and, of two  *)
(* goroutines on one stanza, the one that finds the key used up since it    *)
(* looked into the buffer leaves the message to the other, which may yet    *)
(* fail when the stanza is acknowledged already.                            *)
AckedIsHandled ==
    buffering =>
      \A s \in Stanzas : \A p \in Parts(s) :
        s \notin server => \/ <<s, p>> \in accepted \cup given \cup dropped
                           \/ s \in shared /\ <<s, p>> \in passed

(* An event is accepted a second time (bufferedDecrypt, decryptMessages)    *)
(* only when its plaintext stayed in the buffer because the process ended,  *)
(* or the database failed, just before it was cleared, or when two          *)
(* goroutines handled the stanza at a time.                                 *)
HandledOnce ==
    \A c \in twice : c[1] \in shared \/ (buffering /\ c \in uncleared)

=============================================================================
