--------------------------- MODULE IncomingProofs ---------------------------
(* Proofs about Incoming: nothing that was acknowledged is lost, nothing is *)
(* handled twice, for any stanzas and any goroutines.                       *)
EXTENDS Incoming, TLAPS

Done == accepted \cup given \cup dropped \cup {c \in passed : c[1] \in shared}

(* Two goroutines with one stanza were noticed. *)
Sharing ==
    \A h, o \in Handlers :
        h # o /\ at[h] # "idle" /\ at[o] # "idle" /\ stanza[h] = stanza[o]
            => stanza[h] \in shared

(* A key is used up by the decryption that stores the plaintext.            *)
Spending ==
    /\ accepted \subseteq spent
    /\ \A h \in Handlers : at[h] \in {"dispatch", "clear"} => Cipher(h) \in spent
    /\ \A h \in Handlers : at[h] = "decrypt" => stanza[h] \in shared \/ Cipher(h) \notin spent
    /\ buffering => \A c \in Ciphertexts : c \in spent <=> buffer[c] # "none"

(* With the buffer, what a goroutine has behind it is done.                 *)
Progress ==
    buffering =>
        /\ \A c \in Ciphertexts : buffer[c] = "cleared" => c \in Done
        /\ \A h \in Handlers : at[h] = "clear" => Cipher(h) \in Done
        /\ \A h \in Handlers : at[h] # "idle" =>
              \A p \in Parts(stanza[h]) : p < part[h] => <<stanza[h], p>> \in Done
        /\ \A h \in Handlers : at[h] = "receipt" =>
              \A p \in Parts(stanza[h]) : <<stanza[h], p>> \in Done

(* What was accepted is out of the buffer, or is about to be.               *)
Once ==
    /\ buffering => \A c \in accepted :
          \/ c[1] \in shared
          \/ c \in uncleared
          \/ buffer[c] = "cleared"
          \/ \E h \in Handlers : at[h] = "clear" /\ Cipher(h) = c
    /\ \A h \in Handlers : at[h] = "dispatch" /\ Cipher(h) \in accepted =>
          stanza[h] \in shared \/ (buffering /\ Cipher(h) \in uncleared)

IInv ==
    /\ TypeOK /\ Sharing /\ Spending /\ Progress /\ Once
    /\ AckedIsHandled /\ HandledOnce

-----------------------------------------------------------------------------
(* NextPart without its IF: on to the next child, or to the receipt.        *)
LEMMA NextPartGoes ==
    ASSUME TypeOK, NEW h \in Handlers, NextPart(h)
    PROVE  /\ stanza' = stanza
           /\ \/ /\ part[h] + 1 \in Parts(stanza[h])
                 /\ at' = [at EXCEPT ![h] = "lookup"]
                 /\ part' = [part EXCEPT ![h] = part[h] + 1]
              \/ /\ part[h] + 1 \notin Parts(stanza[h])
                 /\ at' = [at EXCEPT ![h] = "receipt"]
                 /\ part' = part
BY DEF NextPart, Goto

(* The children before the next one, and before the end.                    *)
LEMMA PartsBefore ==
    ASSUME NEW s \in Stanzas, NEW n \in Parts(s)
    PROVE  /\ n \in 1..2
           /\ \A p \in Parts(s) : p \in 1..2
           /\ 1 \in Parts(s) /\ \A p \in Parts(s) : ~(p < 1)
           /\ \A p \in Parts(s) : p < n + 1 => p < n \/ p = n
           /\ n + 1 \notin Parts(s) => \A p \in Parts(s) : p < n \/ p = n
BY DEF Parts

LEMMA NothingIsStanza == Nothing \in Stanzas
BY StanzasAssumption DEF Nothing

(* A step of a goroutine keeps the types of its own variables.              *)
LEMMA WorkTypes ==
    ASSUME TypeOK, NEW h \in Handlers, NEW step \in Steps,
           NextPart(h) \/ Goto(h, step) \/ Return(h)
    PROVE  /\ at' \in [Handlers -> Steps]
           /\ stanza' \in [Handlers -> Stanzas]
           /\ \A o \in Handlers : part'[o] \in Parts(stanza'[o])
           /\ part' \in [Handlers -> 1..2]
<1>1. CASE NextPart(h)
    <2>1. stanza' = stanza BY <1>1, NextPartGoes
    <2>2. CASE part[h] + 1 \in Parts(stanza[h])
        <3>1. part[h] + 1 \in 1..2 BY <2>2 DEF Parts
        <3> QED BY <1>1, <2>1, <2>2, <3>1, NextPartGoes DEF TypeOK, Steps
    <2>3. CASE part[h] + 1 \notin Parts(stanza[h])
        BY <1>1, <2>1, <2>3, NextPartGoes DEF TypeOK, Steps
    <2> QED BY <2>2, <2>3
<1>2. CASE Goto(h, step) BY <1>2 DEF Goto, TypeOK
<1>3. CASE Return(h)
    <2>1. 1 \in Parts(Nothing) BY DEF Parts
    <2> QED BY <1>3, <2>1, NothingIsStanza DEF Return, TypeOK, Steps
<1> QED BY <1>1, <1>2, <1>3

LEMMA CipherType ==
    ASSUME TypeOK, NEW h \in Handlers
    PROVE  Cipher(h) \in Ciphertexts /\ stanza[h] \in Stanzas /\ part[h] \in Parts(stanza[h])
BY DEF TypeOK, Cipher, Ciphertexts

LEMMA TypeInit == Init => TypeOK
<1> SUFFICES ASSUME Init PROVE TypeOK OBVIOUS
<1>1. Nothing \in Stanzas /\ 1 \in Parts(Nothing) BY NothingIsStanza DEF Parts
<1> QED BY <1>1 DEF Init, TypeOK, Steps, Parts

LEMMA TypeStep == TypeOK /\ [Next]_vars => TypeOK'
<1> SUFFICES ASSUME TypeOK, [Next]_vars PROVE TypeOK' OBVIOUS
<1> USE DEF TypeOK
<1>0. CASE UNCHANGED vars BY <1>0 DEF vars, workVars, storeVars, historyVars
<1>1. CASE Redeliver BY <1>1 DEF Redeliver, workVars, storeVars, historyVars
<1>2. CASE Restart
    <2>1. 1 \in Parts(Nothing) BY DEF Parts
    <2>2. \A h \in Handlers : Cipher(h) \in Ciphertexts BY CipherType
    <2> QED BY <1>2, <2>1, <2>2, NothingIsStanza DEF Restart, storeVars, Steps
<1>3. ASSUME NEW h \in Handlers, HandlerStep(h) PROVE TypeOK'
    <2> DEFINE c == Cipher(h)
    <2>0. c \in Ciphertexts /\ stanza[h] \in Stanzas BY CipherType
    <2> HIDE DEF c
    <2>1. CASE Take(h)
        <3>1. PICK s \in inbox : stanza' = [stanza EXCEPT ![h] = s] BY <2>1 DEF Take
        <3>2. s \in Stanzas /\ 1 \in Parts(s) BY DEF Parts
        <3>3. shared' \in SUBSET Stanzas BY <2>1 DEF Take
        <3>4. inbox' \in SUBSET Stanzas BY <2>1 DEF Take
        <3> QED BY <2>1, <3>1, <3>2, <3>3, <3>4 DEF Take, storeVars, Steps
    <2>2. CASE ~Take(h)
        <3>1. \E step \in Steps : NextPart(h) \/ Goto(h, step) \/ Return(h)
            BY <1>3, <2>2 DEF HandlerStep, Lookup, Decrypt, OldCounter, Undecryptable, Ignored,
                Dispatch, HandlerFails, HandlerPanics, ResendDropped, Clear, Receipt, Steps
        <3>2. /\ at' \in [Handlers -> Steps]
              /\ stanza' \in [Handlers -> Stanzas]
              /\ \A o \in Handlers : part'[o] \in Parts(stanza'[o])
              /\ part' \in [Handlers -> 1..2]
            BY <3>1, WorkTypes
        <3>3. buffering' \in BOOLEAN /\ server' \in SUBSET Stanzas /\ inbox' \in SUBSET Stanzas /\ shared' \in SUBSET Stanzas
            BY <1>3, <2>2 DEF HandlerStep, Lookup, Decrypt, OldCounter, Undecryptable, Ignored,
                Dispatch, HandlerFails, HandlerPanics, ResendDropped, Clear, Receipt, storeVars, historyVars
        <3>4. spent' \in SUBSET Ciphertexts /\ buffer' \in [Ciphertexts -> {"none", "plaintext", "cleared"}]
            BY <1>3, <2>0, <2>2 DEF HandlerStep, Lookup, Decrypt, OldCounter, Undecryptable, Ignored,
                Dispatch, HandlerFails, HandlerPanics, ResendDropped, Clear, Receipt, storeVars, historyVars, c
        <3>5. {<<stanza[h], p>> : p \in {q \in Parts(stanza[h]) : q >= part[h]}} \subseteq Ciphertexts
            <4>1. \A q \in Parts(stanza[h]) : q \in 1..2 BY DEF Parts
            <4> QED BY <2>0, <4>1 DEF Ciphertexts
        <3>6. /\ accepted' \in SUBSET Ciphertexts /\ twice' \in SUBSET Ciphertexts
              /\ given' \in SUBSET Ciphertexts /\ dropped' \in SUBSET Ciphertexts
              /\ passed' \in SUBSET Ciphertexts
              /\ uncleared' \in SUBSET Ciphertexts
            BY <1>3, <2>0, <2>2, <3>5 DEF HandlerStep, Lookup, Decrypt, OldCounter, Undecryptable, Ignored,
                Dispatch, HandlerFails, HandlerPanics, ResendDropped, Clear, Receipt, Accept, historyVars, c
        <3> QED BY <3>2, <3>3, <3>4, <3>6
    <2> QED BY <2>1, <2>2
<1> QED BY <1>0, <1>1, <1>2, <1>3 DEF Next

(* Every variable keeps its type: a goroutine is always at a child that its *)
(* stanza has, whatever other goroutines, failures and restarts do.         *)
THEOREM TypeCorrect == Spec => []TypeOK
BY TypeInit, TypeStep, PTL DEF Spec

-----------------------------------------------------------------------------
(* What a step of one goroutine does to the variables of all.               *)
LEMMA OwnStep ==
    ASSUME TypeOK, NEW h \in Handlers, HandlerStep(h), ~Take(h)
    PROVE  /\ at[h] # "idle"
           /\ \A o \in Handlers \ {h} : at'[o] = at[o] /\ stanza'[o] = stanza[o] /\ part'[o] = part[o]
           /\ at'[h] # "idle" => stanza'[h] = stanza[h]
           /\ shared' = shared
<1>1. \/ stanza' = stanza
      \/ at' = [at EXCEPT ![h] = "idle"] /\ stanza' = [stanza EXCEPT ![h] = Nothing]
    BY NextPartGoes DEF HandlerStep, Lookup, Decrypt, OldCounter, Undecryptable, Ignored,
        Dispatch, HandlerFails, HandlerPanics, ResendDropped, Clear, Receipt, Goto, Return
<1>2. /\ \E step \in Steps : at' = [at EXCEPT ![h] = step]
      /\ \E n \in 1..2 : part' = [part EXCEPT ![h] = n]
    <2>1. \E step \in Steps : NextPart(h) \/ Goto(h, step) \/ Return(h)
        BY DEF HandlerStep, Lookup, Decrypt, OldCounter, Undecryptable, Ignored,
            Dispatch, HandlerFails, HandlerPanics, ResendDropped, Clear, Receipt, Steps
    <2>2. PICK step \in Steps : NextPart(h) \/ Goto(h, step) \/ Return(h) BY <2>1
    <2>3. CASE NextPart(h)
        <3>1. part[h] + 1 \in Parts(stanza[h]) => part[h] + 1 \in 1..2 BY DEF Parts
        <3>2. part = [part EXCEPT ![h] = part[h]] /\ part[h] \in 1..2 BY DEF TypeOK
        <3> QED BY <2>3, <3>1, <3>2, NextPartGoes DEF Steps
    <2>4. CASE Goto(h, step)
        <3>1. part = [part EXCEPT ![h] = part[h]] /\ part[h] \in 1..2 BY DEF TypeOK
        <3> QED BY <2>4, <3>1 DEF Goto
    <2>5. CASE Return(h) BY <2>5 DEF Return, Steps
    <2> QED BY <2>2, <2>3, <2>4, <2>5
<1>3. at[h] # "idle" /\ shared' = shared
    BY DEF HandlerStep, Lookup, Decrypt, OldCounter, Undecryptable, Ignored,
        Dispatch, HandlerFails, HandlerPanics, ResendDropped, Clear, Receipt, historyVars
<1> QED BY <1>1, <1>2, <1>3 DEF TypeOK

LEMMA SharingStep == TypeOK /\ Sharing /\ [Next]_vars => Sharing'
<1> SUFFICES ASSUME TypeOK, Sharing, [Next]_vars PROVE Sharing' OBVIOUS
<1>0. CASE UNCHANGED vars BY <1>0 DEF vars, workVars, historyVars, Sharing
<1>1. CASE Redeliver BY <1>1 DEF Redeliver, workVars, historyVars, Sharing
<1>2. CASE Restart BY <1>2 DEF Restart, Sharing
<1>3. ASSUME NEW h \in Handlers, HandlerStep(h) PROVE Sharing'
    <2>1. CASE Take(h)
        <3>1. PICK s \in inbox : /\ stanza' = [stanza EXCEPT ![h] = s]
                                 /\ shared' = IF \E o \in Busy : stanza[o] = s THEN shared \cup {s} ELSE shared
            BY <2>1 DEF Take
        <3>2. at' = [at EXCEPT ![h] = "lookup"] BY <2>1 DEF Take
        <3>3. (\E o \in Busy : stanza[o] = s) => s \in shared' BY <3>1
        <3>4. shared \subseteq shared' BY <3>1
        <3> QED BY <3>1, <3>2, <3>3, <3>4 DEF Sharing, Busy, TypeOK
    <2>2. CASE ~Take(h) BY <1>3, <2>2, OwnStep DEF Sharing
    <2> QED BY <2>1, <2>2
<1> QED BY <1>0, <1>1, <1>2, <1>3 DEF Next

(* Goroutines that share no stanza share no ciphertext.                     *)
LEMMA OtherCipher ==
    ASSUME TypeOK, Sharing, NEW h \in Handlers, NEW o \in Handlers, h # o,
           at[h] # "idle", at[o] # "idle", stanza[h] \notin shared
    PROVE  stanza[o] # stanza[h] /\ Cipher(o) # Cipher(h)
BY DEF Sharing, Cipher

LEMMA SpendingStep ==
    TypeOK /\ Sharing /\ Spending /\ [Next]_vars => Spending'
<1> SUFFICES ASSUME TypeOK, Sharing, Spending, [Next]_vars PROVE Spending' OBVIOUS
<1>0. CASE UNCHANGED vars
    BY <1>0 DEF vars, workVars, storeVars, historyVars, Spending, Cipher
<1>1. CASE Redeliver
    BY <1>1 DEF Redeliver, workVars, storeVars, historyVars, Spending, Cipher
<1>2. CASE Restart
    BY <1>2 DEF Restart, storeVars, Spending
<1>3. ASSUME NEW h \in Handlers, HandlerStep(h) PROVE Spending'
    <2>1. CASE Take(h)
        <3>1. at' = [at EXCEPT ![h] = "lookup"] /\ UNCHANGED <<buffering, spent, buffer, accepted>>
            BY <2>1 DEF Take, storeVars
        <3>2. \A o \in Handlers \ {h} : at'[o] = at[o] /\ Cipher(o)' = Cipher(o) /\ stanza'[o] = stanza[o]
            BY <2>1 DEF Take, Cipher, TypeOK
        <3>3. at'[h] = "lookup" BY <3>1 DEF TypeOK
        <3>4. shared \subseteq shared' BY <2>1 DEF Take
        <3> QED BY <3>1, <3>2, <3>3, <3>4 DEF Spending
    <2>2. CASE ~Take(h)
        <3> DEFINE c == Cipher(h)
        <3>1. /\ at[h] # "idle"
              /\ \A o \in Handlers \ {h} : at'[o] = at[o] /\ stanza'[o] = stanza[o] /\ Cipher(o)' = Cipher(o)
              /\ shared' = shared
            BY <1>3, <2>2, OwnStep DEF Cipher
        <3>2. c \in Ciphertexts BY CipherType
        <3>3. \A o \in Handlers \ {h} : at[o] # "idle" => stanza[o] \in shared \/ Cipher(o) # c
            BY <3>1, OtherCipher
        <3>4. CASE Lookup(h)
            <4>1. UNCHANGED <<buffering, spent, buffer, accepted>> BY <3>4 DEF Lookup, storeVars, historyVars
            <4>2. \/ at'[h] \in {"lookup", "receipt"}
                  \/ at'[h] = "decrypt" /\ c \notin spent /\ Cipher(h)' = c
                  \/ at'[h] = "dispatch" /\ c \in spent /\ Cipher(h)' = c
                <5>1. CASE NextPart(h) BY <5>1, NextPartGoes DEF TypeOK
                <5>2. CASE ~NextPart(h) BY <3>2, <3>4, <5>2 DEF Lookup, Goto, Spending, TypeOK, Cipher
                <5> QED BY <5>1, <5>2
            <4>3. accepted' \subseteq spent' /\ (buffering' => \A d \in Ciphertexts : d \in spent' <=> buffer'[d] # "none")
                BY <4>1 DEF Spending
            <4> QED BY <3>1, <4>1, <4>2, <4>3 DEF Spending
        <3>5. CASE Decrypt(h)
            <4>1. spent' = spent \cup {c} /\ at'[h] = "dispatch" /\ Cipher(h)' = c /\ accepted' = accepted /\ buffering' = buffering
                BY <3>5 DEF Decrypt, Goto, TypeOK, Cipher, historyVars
            <4>2. buffering => buffer' = [buffer EXCEPT ![c] = "plaintext"] BY <3>5 DEF Decrypt
            <4>3. buffering' => \A d \in Ciphertexts : d \in spent' <=> buffer'[d] # "none"
                BY <3>2, <4>1, <4>2 DEF Spending, TypeOK
            <4> QED BY <3>1, <3>3, <4>1, <4>3 DEF Spending
        <3>6. CASE Dispatch(h)
            <4>1. UNCHANGED <<buffering, spent, buffer>> BY <3>6 DEF Dispatch, storeVars
            <4>2. accepted' \subseteq spent' BY <3>6, <4>1 DEF Dispatch, Accept, Spending
            <4>3. at'[h] \in {"lookup", "receipt", "clear"} BY <3>6, NextPartGoes DEF Dispatch, Goto, TypeOK
            <4>4. at'[h] = "clear" => Cipher(h)' = c /\ c \in spent
                BY <3>6, NextPartGoes DEF Dispatch, Goto, TypeOK, Cipher, Spending
            <4> QED BY <3>1, <4>1, <4>2, <4>3, <4>4 DEF Spending
        <3>7. CASE Clear(h)
            <4>1. at'[h] \in {"lookup", "receipt"} BY <3>7, NextPartGoes DEF Clear, TypeOK
            <4>2. UNCHANGED <<buffering, spent, accepted>> BY <3>7 DEF Clear
            <4>3. buffering' => \A d \in Ciphertexts : d \in spent' <=> buffer'[d] # "none"
                <5>1. c \in spent \/ ~buffering BY <3>7 DEF Clear, Spending
                <5> QED BY <3>2, <3>7, <4>2, <5>1 DEF Clear, Spending, TypeOK
            <4> QED BY <3>1, <4>1, <4>2, <4>3 DEF Spending
        <3>8. CASE OldCounter(h) \/ Undecryptable(h) \/ Ignored(h) \/ HandlerFails(h) \/ HandlerPanics(h) \/ ResendDropped(h) \/ Receipt(h)
            <4>1. UNCHANGED <<buffering, spent, buffer, accepted>>
                BY <3>8 DEF OldCounter, Undecryptable, Ignored, HandlerFails, HandlerPanics, ResendDropped, Receipt, storeVars, historyVars
            <4>2. at'[h] \in {"idle", "lookup", "receipt", "clear"}
                BY <3>8, NextPartGoes DEF OldCounter, Undecryptable, Ignored, HandlerFails, HandlerPanics, ResendDropped, Receipt,
                    Goto, Return, TypeOK
            <4>3. accepted' \subseteq spent' /\ (buffering' => \A d \in Ciphertexts : d \in spent' <=> buffer'[d] # "none")
                BY <4>1 DEF Spending
            <4>4. at'[h] = "clear" => Cipher(h)' = c /\ c \in spent
                BY <3>8, NextPartGoes DEF OldCounter, Undecryptable, Ignored, HandlerFails, HandlerPanics, ResendDropped, Receipt,
                    Goto, Return, TypeOK, Cipher, Spending
            <4> QED BY <3>1, <4>1, <4>2, <4>3, <4>4 DEF Spending
        <3> QED BY <1>3, <2>2, <3>4, <3>5, <3>6, <3>7, <3>8 DEF HandlerStep
    <2> QED BY <2>1, <2>2
<1> QED BY <1>0, <1>1, <1>2, <1>3 DEF Next

-----------------------------------------------------------------------------
(* Shared stanzas stay shared, and buffering never changes.                 *)
LEMMA SharedGrows ==
    ASSUME [Next]_vars
    PROVE  shared \subseteq shared' /\ buffering' = buffering
<1>1. CASE UNCHANGED vars BY <1>1 DEF vars, historyVars
<1>2. CASE Redeliver \/ Restart BY <1>2 DEF Redeliver, Restart, historyVars
<1>3. ASSUME NEW h \in Handlers, HandlerStep(h) PROVE shared \subseteq shared' /\ buffering' = buffering
    BY <1>3 DEF HandlerStep, Take, Lookup, Decrypt, OldCounter, Undecryptable, Ignored,
        Dispatch, HandlerFails, HandlerPanics, ResendDropped, Clear, Receipt, historyVars
<1> QED BY <1>1, <1>2, <1>3 DEF Next

(* What is done stays done. *)
LEMMA DoneGrows ==
    ASSUME [Next]_vars
    PROVE  Done \subseteq Done'
<1>0. shared \subseteq shared' BY SharedGrows
<1>1. accepted \subseteq accepted' /\ given \subseteq given' /\ dropped \subseteq dropped' /\ passed \subseteq passed'
    <2>1. CASE UNCHANGED vars BY <2>1 DEF vars, historyVars
    <2>2. CASE Redeliver \/ Restart BY <2>2 DEF Redeliver, Restart, historyVars
    <2>3. ASSUME NEW h \in Handlers, HandlerStep(h)
          PROVE accepted \subseteq accepted' /\ given \subseteq given' /\ dropped \subseteq dropped' /\ passed \subseteq passed'
        BY <2>3 DEF HandlerStep, Take, Lookup, Decrypt, OldCounter, Undecryptable, Ignored,
            Dispatch, HandlerFails, HandlerPanics, ResendDropped, Clear, Receipt, Accept, historyVars
    <2> QED BY <2>1, <2>2, <2>3 DEF Next
<1> QED BY <1>0, <1>1 DEF Done

(* How a goroutine moves on: to the next child only when this one is done.  *)
LEMMA Moves ==
    ASSUME TypeOK, Spending, Progress, buffering, NEW h \in Handlers, HandlerStep(h), ~Take(h),
           NEW c, c = Cipher(h)
    PROVE  \/ NextPart(h) /\ c \in Done'
           \/ Return(h)
           \/ Goto(h, "decrypt") \/ Goto(h, "dispatch")
           \/ Goto(h, "clear") /\ c \in Done'
<1>0. c \in Ciphertexts BY CipherType
<1>1. CASE Lookup(h)
    <2>1. buffer[c] = "cleared" => c \in Done' BY <1>0, <1>1 DEF Lookup, historyVars, Done, Progress
    <2> QED BY <1>1, <2>1 DEF Lookup
<1>2. CASE Decrypt(h) BY <1>2 DEF Decrypt
<1>3. CASE OldCounter(h)
    <2>1. c \in spent BY <1>3 DEF OldCounter, MaySpend
    <2>2. stanza[h] \in shared /\ shared' = shared BY <1>3, <2>1 DEF OldCounter, Spending
    <2>3. c[1] = stanza[h] BY DEF Cipher
    <2> QED BY <1>3, <2>2, <2>3 DEF OldCounter, Done
<1>4. CASE Undecryptable(h) BY <1>4 DEF Undecryptable
<1>5. CASE Ignored(h) BY <1>5 DEF Ignored, Done
<1>6. CASE Dispatch(h) BY <1>6 DEF Dispatch, Accept, Done
<1>7. CASE HandlerFails(h) BY <1>7 DEF HandlerFails
<1>8. CASE HandlerPanics(h) \/ ResendDropped(h) BY <1>8 DEF HandlerPanics, ResendDropped, Done
<1>9. CASE Clear(h)
    <2>1. c \in Done BY <1>9 DEF Clear, Progress
    <2> QED BY <1>9, <2>1 DEF Clear, Done
<1>10. CASE Receipt(h) BY <1>10 DEF Receipt
<1> QED BY <1>1, <1>2, <1>3, <1>4, <1>5, <1>6, <1>7, <1>8, <1>9, <1>10 DEF HandlerStep

LEMMA ProgressStep ==
    TypeOK /\ Spending /\ Progress /\ [Next]_vars => Progress'
<1> SUFFICES ASSUME TypeOK, Spending, Progress, [Next]_vars, buffering' PROVE Progress'
    BY DEF Progress
<1>a. buffering /\ \A s \in shared : s \in shared' BY SharedGrows
<1>b. Done \subseteq Done' BY DoneGrows
<1>0. CASE UNCHANGED vars
    BY <1>0, <1>a DEF vars, workVars, storeVars, historyVars, Progress, Cipher, Done
<1>1. CASE Redeliver
    BY <1>1, <1>a DEF Redeliver, workVars, storeVars, historyVars, Progress, Cipher, Done
<1>2. CASE Restart
    BY <1>2, <1>a, <1>b DEF Restart, storeVars, Progress
<1>3. ASSUME NEW h \in Handlers, HandlerStep(h) PROVE Progress'
    <2>1. CASE Take(h)
        <3>1. at'[h] = "lookup" /\ part'[h] = 1 /\ stanza'[h] \in Stanzas
            BY <2>1 DEF Take, TypeOK
        <3>2. \A o \in Handlers \ {h} : at'[o] = at[o] /\ stanza'[o] = stanza[o] /\ part'[o] = part[o]
            BY <2>1 DEF Take, TypeOK
        <3>3. \A p \in Parts(stanza'[h]) : ~(p < part'[h]) BY <3>1 DEF Parts
        <3>4. buffer' = buffer BY <2>1 DEF Take, storeVars
        <3> QED BY <1>a, <1>b, <3>1, <3>2, <3>3, <3>4 DEF Progress, Cipher
    <2>2. CASE ~Take(h)
        <3>0. PICK c : c = Cipher(h) OBVIOUS
        <3>1. /\ at[h] # "idle"
              /\ \A o \in Handlers \ {h} : at'[o] = at[o] /\ stanza'[o] = stanza[o] /\ part'[o] = part[o]
              /\ shared' = shared
            BY <1>3, <2>2, OwnStep
        <3>2. \A d \in Ciphertexts : buffer'[d] = "cleared" => d \in Done'
            <4>1. CASE Clear(h)
                <5>1. c \in Done BY <1>a, <3>0, <4>1 DEF Clear, Progress
                <5>2. c \in Ciphertexts BY <3>0, CipherType
                <5> QED BY <1>a, <1>b, <3>0, <4>1, <5>1, <5>2 DEF Clear, Progress, TypeOK
            <4>2. CASE Decrypt(h)
                <5>1. c \in Ciphertexts BY <3>0, CipherType
                <5> QED BY <1>a, <1>b, <3>0, <4>2, <5>1 DEF Decrypt, Progress, TypeOK
            <4>3. CASE ~Clear(h) /\ ~Decrypt(h)
                <5>1. buffer' = buffer
                    BY <1>3, <2>2, <4>3 DEF HandlerStep, Lookup, OldCounter, Undecryptable, Ignored,
                        Dispatch, HandlerFails, HandlerPanics, ResendDropped, Receipt, storeVars
                <5> QED BY <1>a, <1>b, <5>1 DEF Progress
            <4> QED BY <4>1, <4>2, <4>3
        <3>3. /\ at'[h] = "clear" => <<stanza'[h], part'[h]>> \in Done'
              /\ at'[h] # "idle" =>
                   \A p \in Parts(stanza'[h]) : p < part'[h] => <<stanza'[h], p>> \in Done'
              /\ at'[h] = "receipt" =>
                   \A p \in Parts(stanza'[h]) : <<stanza'[h], p>> \in Done'
            <4>1. /\ stanza[h] \in Stanzas /\ part[h] \in Parts(stanza[h])
                  /\ c = <<stanza[h], part[h]>>
                BY <3>0, CipherType DEF Cipher
            <4>2. \A p \in Parts(stanza[h]) : p < part[h] => <<stanza[h], p>> \in Done'
                BY <1>a, <1>b, <3>1 DEF Progress
            <4>3. CASE NextPart(h) /\ c \in Done'
                <5>1. stanza' = stanza BY <4>3, NextPartGoes
                <5>3. CASE part[h] + 1 \in Parts(stanza[h])
                    <6>1. at'[h] = "lookup" /\ part'[h] = part[h] + 1
                        BY <4>3, <5>3, NextPartGoes DEF TypeOK
                    <6>2. \A p \in Parts(stanza[h]) : p < part[h] + 1 => p < part[h] \/ p = part[h]
                        BY <4>1, PartsBefore
                    <6> QED BY <4>1, <4>2, <4>3, <5>1, <5>3, <6>1, <6>2
                <5>4. CASE part[h] + 1 \notin Parts(stanza[h])
                    <6>1. at'[h] = "receipt" /\ part'[h] = part[h]
                        BY <4>3, <5>4, NextPartGoes DEF TypeOK
                    <6>2. \A p \in Parts(stanza[h]) : p < part[h] \/ p = part[h]
                        BY <4>1, <5>4, PartsBefore
                    <6> QED BY <4>1, <4>2, <4>3, <5>1, <5>4, <6>1, <6>2
                <5> QED BY <5>3, <5>4
            <4>4. CASE Return(h) BY <4>4 DEF Return, TypeOK
            <4>5. CASE Goto(h, "decrypt") \/ Goto(h, "dispatch")
                BY <3>1, <4>2, <4>5 DEF Goto, TypeOK
            <4>6. CASE Goto(h, "clear") /\ c \in Done'
                BY <3>1, <4>1, <4>2, <4>6 DEF Goto, TypeOK
            <4> QED BY <1>3, <1>a, <2>2, <3>0, <4>3, <4>4, <4>5, <4>6, Moves
        <3>4. \A o \in Handlers \ {h} :
              /\ at'[o] = "clear" => <<stanza'[o], part'[o]>> \in Done'
              /\ at'[o] # "idle" =>
                   \A p \in Parts(stanza'[o]) : p < part'[o] => <<stanza'[o], p>> \in Done'
              /\ at'[o] = "receipt" =>
                   \A p \in Parts(stanza'[o]) : <<stanza'[o], p>> \in Done'
            BY <1>a, <1>b, <3>1 DEF Progress, Cipher
        <3> QED BY <3>2, <3>3, <3>4 DEF Progress, Cipher
    <2> QED BY <2>1, <2>2
<1> QED BY <1>0, <1>1, <1>2, <1>3 DEF Next

-----------------------------------------------------------------------------
LEMMA OnceStep ==
    TypeOK /\ Sharing /\ Spending /\ Once /\ [Next]_vars => Once'
<1> SUFFICES ASSUME TypeOK, Sharing, Spending, Once, [Next]_vars PROVE Once' OBVIOUS
<1>a. buffering' = buffering /\ shared \subseteq shared' BY SharedGrows
<1>0. CASE UNCHANGED vars
    BY <1>0 DEF vars, workVars, storeVars, historyVars, Once, Cipher
<1>1. CASE Redeliver
    BY <1>1 DEF Redeliver, workVars, storeVars, historyVars, Once, Cipher
<1>2. CASE Restart
    <2>1. uncleared \subseteq uncleared' /\ \A h \in Handlers : at[h] = "clear" => Cipher(h) \in uncleared'
        BY <1>2 DEF Restart
    <2>2. UNCHANGED <<buffering, buffer, accepted, shared>> /\ \A h \in Handlers : at'[h] = "idle"
        BY <1>2 DEF Restart, storeVars
    <2> QED BY <2>1, <2>2 DEF Once
<1>3. ASSUME NEW h \in Handlers, HandlerStep(h) PROVE Once'
    <2>1. CASE Take(h)
        <3>1. at[h] = "idle" /\ at'[h] = "lookup" /\ UNCHANGED <<buffering, buffer, accepted, uncleared>>
            BY <2>1 DEF Take, storeVars, TypeOK
        <3>2. \A o \in Handlers \ {h} : at'[o] = at[o] /\ Cipher(o)' = Cipher(o) /\ stanza'[o] = stanza[o]
            BY <2>1 DEF Take, Cipher, TypeOK
        <3> QED BY <1>a, <3>1, <3>2 DEF Once
    <2>2. CASE ~Take(h)
        <3>0. PICK c : c = Cipher(h) OBVIOUS
        <3>1. /\ at[h] # "idle"
              /\ \A o \in Handlers \ {h} : at'[o] = at[o] /\ stanza'[o] = stanza[o] /\ Cipher(o)' = Cipher(o)
              /\ shared' = shared
            BY <1>3, <2>2, OwnStep DEF Cipher
        <3>2. c \in Ciphertexts /\ c = <<stanza[h], part[h]>> /\ c[1] = stanza[h]
            BY <3>0, CipherType DEF Cipher
        <3>3. \A o \in Handlers \ {h} : at[o] # "idle" => stanza[o] \in shared \/ Cipher(o) # c
            BY <3>0, <3>1, OtherCipher
        <3>4. CASE Dispatch(h)
            <4>1. UNCHANGED <<buffering, buffer, uncleared>> /\ accepted' = accepted \cup {c}
                BY <3>0, <3>4 DEF Dispatch, Accept, storeVars
            <4>2. at'[h] # "dispatch" /\ (buffering => at'[h] = "clear" /\ Cipher(h)' = c)
                BY <3>0, <3>4, NextPartGoes DEF Dispatch, Goto, TypeOK, Cipher
            <4>3. \A o \in Handlers \ {h} : at'[o] = "dispatch" /\ Cipher(o)' \in accepted' =>
                     stanza'[o] \in shared' \/ (buffering' /\ Cipher(o)' \in uncleared')
                BY <3>1, <3>3, <4>1 DEF Once
            <4>4. ASSUME buffering, NEW d \in accepted'
                  PROVE  \/ d[1] \in shared' \/ d \in uncleared' \/ buffer'[d] = "cleared"
                         \/ \E o \in Handlers : at'[o] = "clear" /\ Cipher(o)' = d
                <5>1. CASE d = c BY <4>2, <4>4, <5>1
                <5>2. CASE d \in accepted /\ d # c
                    BY <3>0, <3>1, <3>4, <4>1, <4>4, <5>2 DEF Once, Dispatch
                <5> QED BY <4>1, <4>4, <5>1, <5>2
            <4> QED BY <1>a, <4>2, <4>3, <4>4 DEF Once
        <3>5. CASE Clear(h)
            <4>1. accepted' = accepted /\ at'[h] # "dispatch" /\ uncleared \subseteq uncleared'
                BY <3>5, NextPartGoes DEF Clear, TypeOK
            <4>2. c \in uncleared' \/ buffer'[c] = "cleared"
                BY <3>0, <3>2, <3>5 DEF Clear, TypeOK
            <4>3. \A d \in Ciphertexts : buffer[d] = "cleared" => buffer'[d] = "cleared"
                BY <3>0, <3>2, <3>5 DEF Clear, TypeOK
            <4>4. ASSUME buffering, NEW d \in accepted
                  PROVE  \/ d[1] \in shared' \/ d \in uncleared' \/ buffer'[d] = "cleared"
                         \/ \E o \in Handlers : at'[o] = "clear" /\ Cipher(o)' = d
                <5>1. d \in Ciphertexts BY DEF TypeOK
                <5>2. CASE \E o \in Handlers : at[o] = "clear" /\ Cipher(o) = d
                    <6>1. PICK o \in Handlers : at[o] = "clear" /\ Cipher(o) = d BY <5>2
                    <6>2. CASE o = h BY <3>0, <4>2, <6>1, <6>2
                    <6>3. CASE o # h BY <3>1, <6>1, <6>3
                    <6> QED BY <6>2, <6>3
                <5> QED BY <3>1, <4>1, <4>3, <4>4, <5>1, <5>2 DEF Once
            <4>5. \A o \in Handlers : at'[o] = "dispatch" /\ Cipher(o)' \in accepted' =>
                     stanza'[o] \in shared' \/ (buffering' /\ Cipher(o)' \in uncleared')
                BY <1>a, <3>1, <4>1 DEF Once
            <4> QED BY <1>a, <4>1, <4>4, <4>5 DEF Once
        <3>6. CASE ~Dispatch(h) /\ ~Clear(h)
            <4>1. accepted' = accepted /\ uncleared' = uncleared
                BY <1>3, <2>2, <3>6 DEF HandlerStep, Lookup, Decrypt, OldCounter, Undecryptable, Ignored,
                    HandlerFails, HandlerPanics, ResendDropped, Receipt, historyVars
            <4>2. at[h] # "clear"
                BY <1>3, <2>2, <3>6 DEF HandlerStep, Lookup, Decrypt, OldCounter, Undecryptable, Ignored,
                    HandlerFails, HandlerPanics, ResendDropped, Receipt
            <4>3. \A d \in accepted : buffering /\ buffer[d] = "cleared" => buffer'[d] = "cleared"
                <5>1. CASE Decrypt(h)
                    <6>1. buffering => c \notin accepted BY <3>0, <5>1 DEF Decrypt, MaySpend, Spending
                    <6> QED BY <3>0, <5>1, <6>1 DEF Decrypt, TypeOK
                <5>2. CASE ~Decrypt(h)
                    BY <1>3, <2>2, <3>6, <5>2 DEF HandlerStep, Lookup, OldCounter, Undecryptable, Ignored,
                        HandlerFails, HandlerPanics, ResendDropped, Receipt, storeVars
                <5> QED BY <5>1, <5>2
            <4>4. at'[h] = "dispatch" => Cipher(h)' = c /\ stanza'[h] = stanza[h] /\ (Lookup(h) \/ Decrypt(h))
                BY <1>3, <2>2, <3>0, <3>6, NextPartGoes DEF HandlerStep, Lookup, Decrypt, OldCounter, Undecryptable,
                    Ignored, HandlerFails, HandlerPanics, ResendDropped, Receipt, Goto, Return, TypeOK, Cipher
            <4>5. at'[h] = "dispatch" /\ c \in accepted =>
                     stanza[h] \in shared \/ (buffering /\ c \in uncleared)
                <5>1. CASE Decrypt(h)
                    BY <3>0, <5>1 DEF Decrypt, Spending
                <5>2. CASE Lookup(h) /\ at'[h] = "dispatch" /\ c \in accepted /\ stanza[h] \notin shared
                    <6>1. buffering /\ buffer[c] = "plaintext"
                        BY <3>0, <5>2, NextPartGoes DEF Lookup, Goto, TypeOK
                    <6>2. ~ \E o \in Handlers : at[o] = "clear" /\ Cipher(o) = c
                        BY <3>1, <3>2, <4>2, <5>2 DEF Sharing, Cipher
                    <6> QED BY <3>2, <5>2, <6>1, <6>2 DEF Once
                <5> QED BY <4>4, <5>1, <5>2
            <4>6. \A o \in Handlers : at'[o] = "dispatch" /\ Cipher(o)' \in accepted' =>
                     stanza'[o] \in shared' \/ (buffering' /\ Cipher(o)' \in uncleared')
                BY <1>a, <3>1, <4>1, <4>4, <4>5 DEF Once
            <4>7. ASSUME buffering, NEW d \in accepted
                  PROVE  \/ d[1] \in shared' \/ d \in uncleared' \/ buffer'[d] = "cleared"
                         \/ \E o \in Handlers : at'[o] = "clear" /\ Cipher(o)' = d
                BY <3>1, <4>1, <4>2, <4>3, <4>7 DEF Once
            <4> QED BY <1>a, <4>1, <4>6, <4>7 DEF Once
        <3> QED BY <3>4, <3>5, <3>6
    <2> QED BY <2>1, <2>2
<1> QED BY <1>0, <1>1, <1>2, <1>3 DEF Next

LEMMA HandledOnceStep ==
    TypeOK /\ Once /\ HandledOnce /\ [Next]_vars => HandledOnce'
<1> SUFFICES ASSUME TypeOK, Once, HandledOnce, [Next]_vars PROVE HandledOnce' OBVIOUS
<1>a. buffering' = buffering /\ shared \subseteq shared' BY SharedGrows
<1>0. CASE UNCHANGED vars BY <1>0 DEF vars, historyVars, HandledOnce
<1>1. CASE Redeliver BY <1>1 DEF Redeliver, historyVars, HandledOnce
<1>2. CASE Restart BY <1>2 DEF Restart, HandledOnce
<1>3. ASSUME NEW h \in Handlers, HandlerStep(h) PROVE HandledOnce'
    <2>1. CASE Dispatch(h)
        <3>1. twice' \subseteq twice \cup {d \in {Cipher(h)} : d \in accepted} /\ uncleared' = uncleared
            BY <2>1 DEF Dispatch, Accept
        <3>2. Cipher(h) \in accepted => Cipher(h)[1] \in shared \/ (buffering /\ Cipher(h) \in uncleared)
            BY <2>1 DEF Dispatch, Once, Cipher
        <3> QED BY <1>a, <3>1, <3>2 DEF HandledOnce
    <2>2. CASE ~Dispatch(h)
        <3>1. twice' = twice /\ uncleared \subseteq uncleared'
            BY <1>3, <2>2 DEF HandlerStep, Take, Lookup, Decrypt, OldCounter, Undecryptable, Ignored,
                HandlerFails, HandlerPanics, ResendDropped, Clear, Receipt, historyVars
        <3> QED BY <1>a, <3>1 DEF HandledOnce
    <2> QED BY <2>1, <2>2
<1> QED BY <1>0, <1>1, <1>2, <1>3 DEF Next

LEMMA AckedIsHandledStep ==
    TypeOK /\ Progress /\ AckedIsHandled /\ [Next]_vars => AckedIsHandled'
<1> SUFFICES ASSUME TypeOK, Progress, AckedIsHandled, [Next]_vars, buffering'
             PROVE  \A s \in Stanzas : \A p \in Parts(s) :
                        s \notin server' => <<s, p>> \in Done'
    BY DEF AckedIsHandled, Done
<1>a. buffering /\ shared \subseteq shared' /\ Done \subseteq Done' BY SharedGrows, DoneGrows
<1>b. \A s \in Stanzas : \A p \in Parts(s) : s \notin server => <<s, p>> \in Done
    BY <1>a DEF AckedIsHandled, Done
<1>1. CASE server' = server BY <1>1, <1>a, <1>b
<1>2. ASSUME NEW h \in Handlers, Undecryptable(h) \/ Receipt(h), NEW p \in Parts(stanza[h])
      PROVE  <<stanza[h], p>> \in Done'
    <2>1. CASE Receipt(h)
        BY <1>2, <1>a, <2>1 DEF Receipt, Progress
    <2>2. CASE Undecryptable(h)
        <3>1. p < part[h] => <<stanza[h], p>> \in Done BY <1>2, <1>a, <2>2 DEF Undecryptable, Progress
        <3>2. p >= part[h] => <<stanza[h], p>> \in given' BY <1>2, <2>2 DEF Undecryptable
        <3>3. p < part[h] \/ p >= part[h]
            <4>1. p \in 1..2 /\ part[h] \in 1..2 BY <1>2 DEF Parts, TypeOK
            <4> QED BY <4>1
        <3> QED BY <1>a, <3>1, <3>2, <3>3 DEF Done
    <2> QED BY <1>2, <2>1, <2>2
<1>3. ASSUME NEW h \in Handlers, Undecryptable(h) \/ Receipt(h)
      PROVE  server' \in {server, server \ {stanza[h]}}
    BY <1>3 DEF Undecryptable, Receipt
<1>4. CASE server' # server
    <2>1. PICK h \in Handlers : Undecryptable(h) \/ Receipt(h)
        BY <1>4 DEF Next, vars, Redeliver, Restart, HandlerStep, Take, Lookup, Decrypt, OldCounter, Ignored,
            Dispatch, HandlerFails, HandlerPanics, ResendDropped, Clear
    <2>2. server \ {stanza[h]} \subseteq server' BY <1>3, <2>1
    <2> QED BY <1>2, <1>a, <1>b, <2>1, <2>2
<1> QED BY <1>1, <1>4

-----------------------------------------------------------------------------
LEMMA InitIInv == Init => IInv
<1> SUFFICES ASSUME Init PROVE IInv OBVIOUS
<1>1. TypeOK BY TypeInit
<1>2. Sharing /\ Spending /\ Once BY DEF Init, Sharing, Spending, Once
<1>3. Progress BY DEF Init, Progress
<1>4. AckedIsHandled /\ HandledOnce BY DEF Init, AckedIsHandled, HandledOnce
<1> QED BY <1>1, <1>2, <1>3, <1>4 DEF IInv

LEMMA NextIInv == IInv /\ [Next]_vars => IInv'
BY TypeStep, SharingStep, SpendingStep, ProgressStep, OnceStep, HandledOnceStep, AckedIsHandledStep DEF IInv

THEOREM Inductive == Spec => []IInv
BY InitIInv, NextIInv, PTL DEF Spec

(* For any stanzas and any number of goroutines, two on the same stanza     *)
(* included: with the event buffer each ciphertext of an acknowledged       *)
(* stanza was accepted, or given up on, or taken for handled after a panic  *)
(* or a dropped response, or left to another goroutine that had its key,    *)
(* wherever the process ended.                                              *)
THEOREM NothingIsLost == Spec => []AckedIsHandled
BY Inductive, PTL DEF IInv

(* For any stanzas and any number of goroutines an event is accepted again  *)
(* only when the end of its handling was lost or its stanza shared.         *)
THEOREM AtMostOnce == Spec => []HandledOnce
BY Inductive, PTL DEF IInv

=============================================================================
