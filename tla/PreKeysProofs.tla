---------------------------- MODULE PreKeysProofs ---------------------------
(***************************************************************************)
(* Proofs about PreKeys for any batch sizes, id limits and numbers of key  *)
(* pairs.                                                                  *)
(*                                                                         *)
(* The inductive invariant says of the rows that each pair has one id and  *)
(* is older than made; of a batch that it has every pending row up to      *)
(* last, and nothing that left this device before, unless its upload ended *)
(* unmarked; of a key that is in two places that it was stored twice; and  *)
(* of a key made for a retry receipt that its row is marked, so that no    *)
(* batch ever has it.                                                      *)
(***************************************************************************)
EXTENDS PreKeys, FiniteSetTheorems, TLAPS

RowsOk ==
    /\ \A i, j \in Ids : key[i] # None /\ key[i] = key[j] => i = j
    /\ \A i \in Ids : key[i] <= made

ReachedOk ==
    /\ \A p \in reached : p <= made
    /\ \A k \in onServer \cup held : k[2] \in reached
    /\ \A k \in onServer \cap held : k[2] \in twice
    /\ twice \subseteq reached

BatchOk ==
    /\ step = "idle" => batch = {}
    /\ \A k \in batch : k[2] <= made /\ k[1] <= last /\ k[2] \notin receiptOwn
    /\ \A k \in batch, i \in Ids : key[i] = k[2] => i = k[1]
    /\ step # "idle" =>
         \A i \in Ids : key[i] # None /\ i \notin uploaded /\ i <= last => <<i, key[i]>> \in batch
    /\ step = "ready" =>
         \A k \in batch : IF k[2] \in reached THEN k[2] \in unmarked ELSE key[k[1]] = k[2]
    /\ step = "stored" => \A k \in batch : k[2] \in reached

(* A pending row that has left this device was in an upload that ended      *)
(* unmarked, or is in the one that is about to be marked.                   *)
PendingOk ==
    \A i \in Ids : key[i] # None /\ i \notin uploaded /\ key[i] \in reached =>
        \/ key[i] \in unmarked
        \/ step = "stored" /\ <<i, key[i]>> \in batch

(* Keys of retry receipts. *)
ReceiptsOk ==
    /\ \A p \in receiptOwn : p <= made
    /\ \A i \in Ids : key[i] \in receiptOwn => i \in uploaded
    /\ \A k \in receipts : /\ k[2] \in receiptOwn \ reached
                          /\ key[k[1]] = k[2]

IInv ==
    /\ TypeOK /\ RowsOk /\ ReachedOk /\ BatchOk /\ PendingOk /\ ReceiptsOk
    /\ UploadedHasLeft /\ TwiceIsUnmarked /\ GivenIsKept

-----------------------------------------------------------------------------
(* The ids from the next one on are free. *)
LEMMA NextIsFree ==
    ASSUME TypeOK, NEW id \in 1..IdLimit, IsNext(id)
    PROVE  \A i \in Ids : i >= id => key[i] = None
BY CountsAssumption DEF IsNext, Largest, Stored, Ids, TypeOK

(* What genOnePreKey leaves in the table, n times. *)
LEMMA InsertResult ==
    ASSUME TypeOK, RowsOk, NEW id \in 1..IdLimit, IsNext(id), NEW n \in Nat, Insert(id, n)
    PROVE  /\ key' \in [Ids -> Keys \cup {None}]
           /\ made' \in 0..MaxKeys /\ made' = made + n
           /\ \A i \in Ids : IF i \in id..(id + n - 1)
                             THEN key[i] = None /\ key'[i] \in (made + 1)..(made + n)
                             ELSE key'[i] = key[i]
           /\ RowsOk'
<1> USE CountsAssumption
<1>1. made \in Nat /\ made' = made + n /\ made + n <= MaxKeys /\ MaxKeys \in Nat
  BY DEF Insert, TypeOK
<1>2. made' \in 0..MaxKeys
  BY <1>1
<1>3. \A i \in Ids : key'[i] = IF i \in id..(id + n - 1) THEN made + 1 + (i - id) ELSE key[i]
  BY DEF Insert
<1>4. \A i \in Ids : i \in Nat /\ (key[i] = None \/ key[i] \in 1..MaxKeys)
  BY DEF Ids, TypeOK, Keys
<1>5. \A i \in id..(id + n - 1) : made + 1 + (i - id) \in (made + 1)..(made + n)
  BY <1>1
<1>6. \A i \in Ids : i \in id..(id + n - 1) => key[i] = None
  BY NextIsFree
<1>7. \A i \in Ids : IF i \in id..(id + n - 1)
                     THEN key[i] = None /\ key'[i] \in (made + 1)..(made + n)
                     ELSE key'[i] = key[i]
  BY <1>3, <1>5, <1>6
<1>8. key' \in [Ids -> Keys \cup {None}]
  <2>1. key' = [i \in Ids |-> key'[i]]
    BY DEF Insert
  <2>2. \A i \in Ids : key'[i] \in Keys \cup {None}
    BY <1>1, <1>4, <1>7 DEF Keys
  <2> QED BY <2>1, <2>2
<1>9. \A i \in Ids : key'[i] <= made'
  <2> SUFFICES ASSUME NEW i \in Ids PROVE key'[i] <= made'
    OBVIOUS
  <2>1. CASE i \in id..(id + n - 1)
    BY <1>1, <1>7, <2>1
  <2>2. CASE i \notin id..(id + n - 1)
    <3>1. key'[i] = key[i] /\ key[i] <= made /\ key[i] \in Int
      BY <1>4, <1>7, <2>2 DEF RowsOk, None
    <3> QED BY <1>1, <3>1
  <2> QED BY <2>1, <2>2
<1>10. \A i, j \in Ids : key'[i] # None /\ key'[i] = key'[j] => i = j
  <2> SUFFICES ASSUME NEW i \in Ids, NEW j \in Ids, key'[i] # None, key'[i] = key'[j]
               PROVE  i = j
    OBVIOUS
  <2>1. CASE i \in id..(id + n - 1) /\ j \in id..(id + n - 1)
    <3>1. made + 1 + (i - id) = made + 1 + (j - id)
      BY <1>3, <2>1
    <3> QED BY <1>1, <1>4, <3>1
  <2>2. CASE i \in id..(id + n - 1) /\ j \notin id..(id + n - 1)
    <3>1. key'[i] > made /\ key'[j] = key[j] /\ key[j] <= made
      BY <1>1, <1>7, <2>2 DEF RowsOk
    <3> QED BY <1>1, <1>4, <3>1
  <2>3. CASE i \notin id..(id + n - 1) /\ j \in id..(id + n - 1)
    <3>1. key'[j] > made /\ key'[i] = key[i] /\ key[i] <= made
      BY <1>1, <1>7, <2>3 DEF RowsOk
    <3> QED BY <1>1, <1>4, <3>1
  <2>4. CASE i \notin id..(id + n - 1) /\ j \notin id..(id + n - 1)
    BY <1>7, <2>4 DEF RowsOk
  <2> QED BY <2>1, <2>2, <2>3, <2>4
<1> QED BY <1>1, <1>2, <1>7, <1>8, <1>9, <1>10 DEF RowsOk

(* How many rows GetOrGenPreKeys takes, and that it takes all of them when  *)
(* it makes new keys.                                                       *)
LEMMA SelectedResult ==
    ASSUME TypeOK, NEW ids \in SUBSET Ids, NEW count \in Nat, Selected(ids, count)
    PROVE  /\ ids \in SUBSET Pending
           /\ count - Cardinality(ids) \in Nat
           /\ count - Cardinality(ids) > 0 => ids = Pending
           /\ \A id \in ids, other \in Pending \ ids : id < other
<1>1. IsFiniteSet(ids)
  <2>1. IdLimit - 1 \in Int
    BY CountsAssumption
  <2>2. IsFiniteSet(Ids)
    BY <2>1, FS_Interval DEF Ids
  <2> QED BY <2>2, FS_Subset
<1>2. Cardinality(ids) \in Nat
  BY <1>1, FS_CardinalityType
<1> QED BY <1>2 DEF Selected

-----------------------------------------------------------------------------
LEMMA InitIInv == Init => IInv
<1> SUFFICES ASSUME Init PROVE IInv
  OBVIOUS
<1> USE CountsAssumption
<1>1. TypeOK
  <2>1. key \in [Ids -> Keys \cup {None}] /\ asks \in [Askers -> Asks]
    BY DEF Init, Asks
  <2>2. made \in 0..MaxKeys
    BY DEF Init
  <2> QED BY <2>1, <2>2 DEF Init, TypeOK
<1>2. RowsOk
  BY DEF Init, RowsOk, None
<1>3. ReachedOk /\ BatchOk /\ ReceiptsOk
  BY DEF Init, ReachedOk, BatchOk, ReceiptsOk, None
<1>4. PendingOk /\ UploadedHasLeft /\ TwiceIsUnmarked /\ GivenIsKept
  BY DEF Init, PendingOk, UploadedHasLeft, TwiceIsUnmarked, GivenIsKept
<1> QED BY <1>1, <1>2, <1>3, <1>4 DEF IInv

(* asks and recent are in no invariant but TypeOK. *)
LEMMA Frame ==
    ASSUME IInv, UNCHANGED <<key, uploaded, made, step, batch, last, onServer, receipts, held,
                             receiptOwn, reached, twice, unmarked>>,
           asks' \in [Askers -> Asks], recent' \in BOOLEAN
    PROVE  IInv'
BY DEF IInv, TypeOK, RowsOk, ReachedOk, BatchOk, PendingOk, ReceiptsOk, UploadedHasLeft,
       TwiceIsUnmarked, GivenIsKept, Stored, Pending

LEMMA AskStep == ASSUME IInv, NEW a \in Askers, Ask(a) \/ Cancelled(a) PROVE IInv'
<1>1. asks' \in [Askers -> Asks]
  BY DEF Ask, Cancelled, Granted, IInv, TypeOK, Asks
<1> QED BY <1>1, Frame DEF Ask, Cancelled, tableVars, uploadVars, receiptVars, historyVars, IInv, TypeOK

LEMMA TimeStep == IInv /\ TenMinutesPass => IInv'
BY Frame DEF TenMinutesPass, tableVars, receiptVars, historyVars, IInv, TypeOK

(* New rows that nobody knows of, with no upload under way. *)
LEMMA InsertKeeps ==
    ASSUME IInv, NEW id \in 1..IdLimit, IsNext(id), NEW n \in Nat, Insert(id, n),
           UNCHANGED <<uploaded, onServer, receipts, held, receiptOwn, reached, twice, unmarked>>,
           step = "idle"
    PROVE  /\ key' \in [Ids -> Keys \cup {None}]
           /\ \A i \in uploaded : key'[i] # None
           /\ made' \in 0..MaxKeys
           /\ RowsOk' /\ ReachedOk' /\ ReceiptsOk'
           /\ UploadedHasLeft' /\ TwiceIsUnmarked' /\ GivenIsKept'
           /\ \A i \in Ids : key'[i] # None /\ i \notin uploaded /\ key'[i] \in reached
                => key'[i] \in unmarked
<1>1. TypeOK /\ RowsOk /\ made \in Nat /\ (\A i \in Ids : key[i] \in Nat)
  BY CountsAssumption DEF IInv, TypeOK, Keys, None
<1>2. /\ key' \in [Ids -> Keys \cup {None}]
      /\ made' \in 0..MaxKeys /\ made' = made + n
      /\ \A i \in Ids : IF i \in id..(id + n - 1)
                        THEN key[i] = None /\ key'[i] \in (made + 1)..(made + n)
                        ELSE key'[i] = key[i]
      /\ RowsOk'
  BY <1>1, InsertResult
<1>3. \A i \in Ids : key[i] # None => key'[i] = key[i]
  BY <1>2
<1>4. \A p \in reached : p \in Nat /\ p <= made
  BY DEF IInv, ReachedOk, TypeOK, Keys
<1>5. \A i \in Ids : key'[i] \in reached => key'[i] = key[i]
  BY <1>1, <1>2, <1>4
<1>6. ReachedOk'
  BY <1>1, <1>2, <1>4 DEF IInv, ReachedOk
<1>7. UploadedHasLeft' /\ (\A i \in uploaded : key'[i] # None)
  BY <1>3 DEF IInv, UploadedHasLeft, TypeOK
<1>8. GivenIsKept'
  <2> SUFFICES ASSUME NEW k \in onServer \cup held, k[2] \notin twice
               PROVE  key'[k[1]] = k[2]
    BY DEF GivenIsKept
  <2>1. key[k[1]] = k[2] /\ k[1] \in Ids /\ k[2] # None
    BY DEF IInv, GivenIsKept, TypeOK, Keys, None
  <2> QED BY <1>3, <2>1
<1>9. \A i \in Ids : key'[i] # None /\ i \notin uploaded /\ key'[i] \in reached
                       => key'[i] \in unmarked
  BY <1>5 DEF IInv, PendingOk
<1>10. ReceiptsOk'
  <2>1. \A q \in receiptOwn : q \in Nat /\ q <= made /\ q <= made'
    <3>1. \A q \in receiptOwn : q \in Nat /\ q <= made
      BY DEF IInv, ReceiptsOk, TypeOK, Keys
    <3> QED BY <1>1, <1>2, <3>1
  <2>2. \A i \in Ids : key'[i] \in receiptOwn => key'[i] = key[i]
    BY <1>1, <1>2, <2>1
  <2>3. \A k \in receipts : k[1] \in Ids /\ k[2] # None /\ key[k[1]] = k[2]
    BY DEF IInv, ReceiptsOk, TypeOK, Keys, None
  <2>4. \A i \in Ids : key'[i] \in receiptOwn => i \in uploaded
    BY <2>2 DEF IInv, ReceiptsOk
  <2>5. \A k \in receipts : key'[k[1]] = k[2]
    BY <1>3, <2>3
  <2> QED BY <2>1, <2>4, <2>5 DEF IInv, ReceiptsOk
<1> QED BY <1>2, <1>6, <1>7, <1>8, <1>9, <1>10 DEF IInv, TwiceIsUnmarked

LEMMA GenerateFailsStep == ASSUME IInv, NEW a \in Askers, GenerateFails(a) PROVE IInv'
<1>1. PICK ids \in SUBSET Ids, id \in 1..IdLimit :
        /\ Selected(ids, IF asks[a] = "initial" THEN Initial ELSE Wanted)
        /\ IsNext(id)
        /\ \E n \in 0..((IF asks[a] = "initial" THEN Initial ELSE Wanted) - Cardinality(ids)) :
             Insert(id, n)
  BY DEF GenerateFails
<1>2. (IF asks[a] = "initial" THEN Initial ELSE Wanted) - Cardinality(ids) \in Nat
  BY <1>1, SelectedResult, CountsAssumption DEF IInv
<1>3. PICK n \in Nat : Insert(id, n)
  BY <1>1, <1>2
<1>4. /\ step = "idle" /\ asks' = [asks EXCEPT ![a] = "no"]
      /\ UNCHANGED <<uploaded, step, batch, last, recent, onServer, receipts, held, receiptOwn,
                     reached, twice, unmarked>>
  BY DEF GenerateFails, Granted, uploadVars, receiptVars, historyVars
<1>5. /\ key' \in [Ids -> Keys \cup {None}]
      /\ \A i \in uploaded : key'[i] # None
      /\ made' \in 0..MaxKeys
      /\ RowsOk' /\ ReachedOk' /\ ReceiptsOk'
      /\ UploadedHasLeft' /\ TwiceIsUnmarked' /\ GivenIsKept'
      /\ \A i \in Ids : key'[i] # None /\ i \notin uploaded /\ key'[i] \in reached
            => key'[i] \in unmarked
  BY <1>1, <1>3, <1>4, InsertKeeps
<1>6. asks' \in [Askers -> Asks]
  BY <1>4 DEF IInv, TypeOK, Asks
<1>7. TypeOK'
  BY <1>4, <1>5, <1>6 DEF IInv, TypeOK
<1>8. BatchOk'
  BY <1>4 DEF IInv, BatchOk
<1>9. PendingOk'
  BY <1>4, <1>5 DEF PendingOk
<1> QED BY <1>5, <1>7, <1>8, <1>9 DEF IInv

LEMMA GenerateStep == ASSUME IInv, NEW a \in Askers, Generate(a) PROVE IInv'
<1> USE CountsAssumption
<1>1. PICK count \in Nat \ {0}, ids \in SUBSET Ids, id \in 1..IdLimit :
        /\ Selected(ids, count) /\ IsNext(id) /\ Insert(id, count - Cardinality(ids))
        /\ batch' = {k \in Ids \X Keys :
                       /\ k[1] \in ids \cup id..(id + (count - Cardinality(ids)) - 1)
                       /\ k[2] = key'[k[1]]}
        /\ IF count - Cardinality(ids) > 0
             THEN last' = id + (count - Cardinality(ids)) - 1
             ELSE last' \in Ids /\ Largest(ids, last')
  BY DEF Generate
<1> DEFINE n == count - Cardinality(ids)
<1>2. /\ n \in Nat /\ ids \in SUBSET Pending /\ (n > 0 => ids = Pending)
      /\ \A i \in ids, other \in Pending \ ids : i < other
  BY <1>1, SelectedResult DEF IInv
<1>3. /\ IsNext(id) /\ Insert(id, n)
      /\ batch' = {k \in Ids \X Keys : k[1] \in ids \cup id..(id + n - 1) /\ k[2] = key'[k[1]]}
      /\ IF n > 0 THEN last' = id + n - 1 ELSE last' \in Ids /\ Largest(ids, last')
  BY <1>1
<1> HIDE DEF n
<1>4. /\ step = "idle" /\ step' = "ready" /\ asks' = [asks EXCEPT ![a] = "no"]
      /\ UNCHANGED <<uploaded, recent, onServer, receipts, held, receiptOwn, reached, twice,
                     unmarked>>
  BY DEF Generate, Granted, receiptVars, historyVars
<1>5. /\ key' \in [Ids -> Keys \cup {None}]
      /\ \A i \in uploaded : key'[i] # None
      /\ made' \in 0..MaxKeys
      /\ RowsOk' /\ ReachedOk' /\ ReceiptsOk'
      /\ UploadedHasLeft' /\ TwiceIsUnmarked' /\ GivenIsKept'
      /\ \A i \in Ids : key'[i] # None /\ i \notin uploaded /\ key'[i] \in reached
            => key'[i] \in unmarked
  BY <1>2, <1>3, <1>4, InsertKeeps
<1>6. \A i \in Ids : IF i \in id..(id + n - 1) THEN key[i] = None ELSE key'[i] = key[i]
  BY <1>2, <1>3, InsertResult DEF IInv
<1>7. id + n <= IdLimit /\ Ids \in SUBSET Int
  BY <1>3 DEF Insert, Ids
<1>8. \A i \in ids : i < id /\ key[i] # None /\ i \notin uploaded /\ i \in Ids
  BY <1>2, <1>3, <1>7, NextIsFree DEF IInv, Pending, Stored
<1>9. last' \in Ids
  <2>1. CASE n > 0
    BY <1>2, <1>3, <1>7, <2>1 DEF Ids
  <2>2. CASE ~(n > 0)
    BY <1>3, <2>2
  <2> QED BY <2>1, <2>2
<1>10. TypeOK'
  <2>1. asks' \in [Askers -> Asks]
    BY <1>4 DEF IInv, TypeOK, Asks
  <2>2. batch' \in SUBSET (Ids \X Keys)
    BY <1>3
  <2> QED BY <1>4, <1>5, <1>9, <2>1, <2>2 DEF IInv, TypeOK
<1>11. \A k \in batch' : /\ k[1] \in Ids /\ key'[k[1]] = k[2] /\ k[2] # None
                         /\ k[1] \in ids \/ k[1] \in id..(id + n - 1)
  BY <1>3 DEF Keys, None
<1>12. BatchOk'
  <2>1. \A k \in batch' : k[2] <= made'
    BY <1>5, <1>11 DEF RowsOk
  <2>2. \A k \in batch' : k[1] <= last'
    <3>1. CASE n > 0
      <4> SUFFICES ASSUME NEW k \in batch' PROVE k[1] <= id + n - 1
        BY <1>3, <3>1
      <4>1. CASE k[1] \in ids
        <5>1. k[1] \in Ids /\ k[1] < id
          BY <1>8, <4>1
        <5>2. k[1] \in Int
          BY <1>7, <5>1
        <5>3. id \in Int /\ n \in Int
          BY <1>2
        <5> QED BY <3>1, <5>1, <5>2, <5>3
      <4>2. CASE k[1] \in id..(id + n - 1)
        BY <4>2
      <4> QED BY <1>11, <4>1, <4>2
    <3>2. CASE ~(n > 0)
      <4>1. id..(id + n - 1) = {}
        BY <1>2, <3>2
      <4> QED BY <1>3, <1>11, <3>2, <4>1 DEF Largest
    <3> QED BY <3>1, <3>2
  <2>3. \A k \in batch', i \in Ids : key'[i] = k[2] => i = k[1]
    BY <1>5, <1>11 DEF RowsOk
  <2>4. \A i \in Ids : key'[i] # None /\ i \notin uploaded' /\ i <= last'
          => <<i, key'[i]>> \in batch'
    <3> SUFFICES ASSUME NEW i \in Ids, key'[i] # None, i \notin uploaded, i <= last'
                 PROVE  i \in ids \cup id..(id + n - 1)
      BY <1>3, <1>4, <1>5
    <3>1. CASE i \in id..(id + n - 1)
      BY <3>1
    <3>2. CASE i \notin id..(id + n - 1)
      <4>1. i \in Pending
        BY <1>6, <3>2 DEF Pending, Stored
      <4>2. CASE n > 0
        BY <1>2, <4>1, <4>2
      <4>3. CASE ~(n > 0)
        <5>1. last' \in ids /\ last' \in Ids
          BY <1>3, <4>3 DEF Largest
        <5> QED BY <1>2, <1>7, <4>1, <5>1
      <4> QED BY <4>2, <4>3
    <3> QED BY <3>1, <3>2
  <2>5. \A k \in batch' : k[2] \in reached' => k[2] \in unmarked'
    <3> SUFFICES ASSUME NEW k \in batch', k[2] \in reached PROVE k[2] \in unmarked
      BY <1>4
    <3>1. k[1] \notin uploaded
      <4>1. CASE k[1] \in ids
        BY <1>8, <4>1
      <4>2. CASE k[1] \in id..(id + n - 1)
        BY <1>6, <1>11, <4>2 DEF IInv, TypeOK
      <4> QED BY <1>11, <4>1, <4>2
    <3> QED BY <1>5, <1>11, <3>1
  <2>6. \A k \in batch' : k[2] \notin receiptOwn
    <3> SUFFICES ASSUME NEW k \in batch' PROVE k[1] \notin uploaded
      BY <1>4, <1>5, <1>11 DEF ReceiptsOk
    <3>1. CASE k[1] \in ids
      BY <1>8, <3>1
    <3>2. CASE k[1] \in id..(id + n - 1)
      BY <1>6, <1>11, <3>2 DEF IInv, TypeOK
    <3> QED BY <1>11, <3>1, <3>2
  <2> QED BY <1>4, <1>11, <2>1, <2>2, <2>3, <2>4, <2>5, <2>6 DEF BatchOk
<1>13. PendingOk'
  BY <1>4, <1>5 DEF PendingOk
<1> QED BY <1>5, <1>10, <1>12, <1>13 DEF IInv

-----------------------------------------------------------------------------
LEMMA RequestLostStep == IInv /\ RequestLost => IInv'
<1> SUFFICES ASSUME IInv, RequestLost PROVE IInv'
  OBVIOUS
<1>1. /\ step = "ready" /\ step' = "idle" /\ batch' = {} /\ last' = 0
      /\ UNCHANGED <<key, uploaded, made, asks, recent, onServer, receipts, held, receiptOwn,
                     reached, twice, unmarked>>
  BY DEF RequestLost, tableVars, receiptVars, historyVars
<1>2. TypeOK' /\ RowsOk' /\ ReachedOk' /\ UploadedHasLeft' /\ TwiceIsUnmarked' /\ GivenIsKept'
  BY <1>1 DEF IInv, TypeOK, RowsOk, ReachedOk, UploadedHasLeft, TwiceIsUnmarked, GivenIsKept
<1>3. BatchOk' /\ PendingOk' /\ ReceiptsOk'
  BY <1>1 DEF IInv, BatchOk, PendingOk, ReceiptsOk
<1> QED BY <1>2, <1>3 DEF IInv

LEMMA ServerStoresStep == IInv /\ ServerStores => IInv'
<1> SUFFICES ASSUME IInv, ServerStores PROVE IInv'
  OBVIOUS
<1>1. /\ step = "ready" /\ step' = "stored"
      /\ onServer' = onServer \cup batch
      /\ reached' = reached \cup Pairs(batch)
      /\ twice' = twice \cup (Pairs(batch) \cap reached)
      /\ UNCHANGED <<key, uploaded, made, asks, batch, last, recent, receipts, held, receiptOwn,
                     unmarked>>
  BY DEF ServerStores, tableVars, receiptVars
<1>2. /\ \A k \in batch : k[2] \in Pairs(batch)
      /\ \A p \in Pairs(batch) : \E k \in batch : p = k[2]
  BY DEF Pairs
<1>3. TypeOK'
  <2>1. Pairs(batch) \in SUBSET Keys
    BY <1>2 DEF IInv, TypeOK
  <2> QED BY <1>1, <2>1 DEF IInv, TypeOK
<1>4. RowsOk'
  BY <1>1 DEF IInv, RowsOk
<1>5. ReachedOk'
  BY <1>1, <1>2 DEF IInv, ReachedOk, BatchOk
<1>6. BatchOk'
  BY <1>1, <1>2 DEF IInv, BatchOk
<1>7. PendingOk'
  <2> SUFFICES ASSUME NEW i \in Ids, key[i] # None, i \notin uploaded, key[i] \in reached'
               PROVE  key[i] \in unmarked \/ <<i, key[i]>> \in batch
    BY <1>1 DEF PendingOk
  <2>1. CASE key[i] \in reached
    BY <1>1, <2>1 DEF IInv, PendingOk
  <2>2. CASE key[i] \in Pairs(batch)
    <3>1. PICK k \in batch : key[i] = k[2]
      BY <1>2, <2>2
    <3>2. i = k[1] /\ k = <<k[1], k[2]>>
      BY <3>1 DEF IInv, BatchOk, TypeOK
    <3> QED BY <3>1, <3>2
  <2> QED BY <1>1, <2>1, <2>2
<1>8. UploadedHasLeft'
  BY <1>1 DEF IInv, UploadedHasLeft
<1>9. TwiceIsUnmarked'
  BY <1>1, <1>2 DEF IInv, TwiceIsUnmarked, BatchOk
<1>10. GivenIsKept'
  <2> SUFFICES ASSUME NEW k \in onServer' \cup held', k[2] \notin twice' PROVE key[k[1]] = k[2]
    BY <1>1 DEF GivenIsKept
  <2>1. CASE k \in onServer \cup held
    BY <1>1, <2>1 DEF IInv, GivenIsKept
  <2>2. CASE k \in batch
    BY <1>1, <1>2, <2>2 DEF IInv, BatchOk
  <2> QED BY <1>1, <2>1, <2>2
<1>11. ReceiptsOk'
  BY <1>1, <1>2 DEF IInv, BatchOk, ReceiptsOk
<1> QED BY <1>3, <1>4, <1>5, <1>6, <1>7, <1>8, <1>9, <1>10, <1>11 DEF IInv

LEMMA NotMarkedStep == IInv /\ NotMarked => IInv'
<1> SUFFICES ASSUME IInv, NotMarked PROVE IInv'
  OBVIOUS
<1>1. /\ step = "stored" /\ step' = "idle" /\ batch' = {} /\ last' = 0
      /\ unmarked' = unmarked \cup Pairs(batch)
      /\ UNCHANGED <<key, uploaded, made, asks, recent, onServer, receipts, held, receiptOwn,
                     reached, twice>>
  BY DEF NotMarked, tableVars, receiptVars
<1>2. /\ \A k \in batch : k[2] \in Pairs(batch)
      /\ Pairs(batch) \in SUBSET Keys
  BY DEF Pairs, IInv, TypeOK
<1>3. TypeOK' /\ RowsOk' /\ ReachedOk' /\ UploadedHasLeft' /\ TwiceIsUnmarked' /\ GivenIsKept'
  BY <1>1, <1>2 DEF IInv, TypeOK, RowsOk, ReachedOk, UploadedHasLeft, TwiceIsUnmarked, GivenIsKept
<1>4. BatchOk' /\ ReceiptsOk'
  BY <1>1 DEF IInv, BatchOk, ReceiptsOk
<1>5. PendingOk'
  <2> SUFFICES ASSUME NEW i \in Ids, key[i] # None, i \notin uploaded, key[i] \in reached
               PROVE  key[i] \in unmarked \cup Pairs(batch)
    BY <1>1 DEF PendingOk
  <2>1. key[i] \in unmarked \/ <<i, key[i]>> \in batch
    BY DEF IInv, PendingOk
  <2> QED BY <1>2, <2>1
<1> QED BY <1>3, <1>4, <1>5 DEF IInv

LEMMA MarkStep == IInv /\ Mark => IInv'
<1> SUFFICES ASSUME IInv, Mark PROVE IInv'
  OBVIOUS
<1>1. /\ step = "stored" /\ step' = "idle" /\ batch' = {} /\ last' = 0 /\ recent' = TRUE
      /\ uploaded' = uploaded \cup {i \in Ids : key[i] # None /\ i <= last}
      /\ UNCHANGED <<key, made, asks, onServer, receipts, held, receiptOwn, reached, twice,
                     unmarked>>
  BY DEF Mark, MarkPreKeysAsUploaded, receiptVars, historyVars, Stored
<1>2. \A k \in batch : k[1] <= last /\ k[2] \in reached
  BY <1>1 DEF IInv, BatchOk
<1>3. TypeOK' /\ RowsOk' /\ ReachedOk' /\ TwiceIsUnmarked' /\ GivenIsKept'
  BY <1>1 DEF IInv, TypeOK, RowsOk, ReachedOk, TwiceIsUnmarked, GivenIsKept
<1>4. BatchOk' /\ ReceiptsOk'
  BY <1>1 DEF IInv, BatchOk, ReceiptsOk
<1>5. UploadedHasLeft'
  <2> SUFFICES ASSUME NEW i \in Ids, i \in uploaded' PROVE key[i] \in reached \cup receiptOwn
    BY <1>1, <1>3 DEF UploadedHasLeft, TypeOK
  <2>1. CASE i \in uploaded
    BY <2>1 DEF IInv, UploadedHasLeft
  <2>2. CASE i \notin uploaded
    <3>1. <<i, key[i]>> \in batch
      BY <1>1, <2>2 DEF IInv, BatchOk
    <3> QED BY <1>2, <3>1
  <2> QED BY <2>1, <2>2
<1>6. PendingOk'
  BY <1>1, <1>2 DEF IInv, PendingOk
<1> QED BY <1>3, <1>4, <1>5, <1>6 DEF IInv

-----------------------------------------------------------------------------
LEMMA ReceiptKeyStep == IInv /\ ReceiptKey => IInv'
<1> SUFFICES ASSUME IInv, ReceiptKey PROVE IInv'
  OBVIOUS
<1> USE CountsAssumption
<1>1. PICK id \in Ids : /\ IsNext(id) /\ Insert(id, 1)
                       /\ uploaded' = uploaded \cup {id}
                       /\ receipts' = receipts \cup {<<id, made + 1>>}
  BY DEF ReceiptKey
<1>2. /\ receiptOwn' = receiptOwn \cup {made + 1}
      /\ UNCHANGED <<asks, step, batch, last, recent, onServer, held, reached, twice, unmarked>>
  BY DEF ReceiptKey, uploadVars, historyVars
<1>3. TypeOK /\ RowsOk /\ made \in Nat /\ id \in 1..IdLimit /\ id \in Int
  BY DEF IInv, TypeOK, Ids
<1>4. /\ key' \in [Ids -> Keys \cup {None}]
      /\ made' \in 0..MaxKeys /\ made' = made + 1
      /\ \A i \in Ids : IF i \in id..(id + 1 - 1)
                        THEN key[i] = None /\ key'[i] \in (made + 1)..(made + 1)
                        ELSE key'[i] = key[i]
      /\ RowsOk'
  BY <1>1, <1>3, InsertResult
<1>5. /\ key[id] = None /\ key'[id] = made + 1
      /\ \A i \in Ids : i # id => key'[i] = key[i]
  BY <1>3, <1>4 DEF Ids
<1>6. made + 1 \in Keys /\ made + 1 # None
  BY <1>3, <1>4 DEF Keys, None
<1>7. /\ made + 1 \notin reached /\ made + 1 \notin receiptOwn
      /\ \A k \in batch : k[2] # made + 1
  <2>1. \A p \in reached \cup receiptOwn : p \in Nat /\ p <= made
    BY DEF IInv, ReachedOk, ReceiptsOk, TypeOK, Keys
  <2>2. \A k \in batch : k[2] \in Nat /\ k[2] <= made
    BY DEF IInv, BatchOk, TypeOK, Keys
  <2> QED BY <1>3, <2>1, <2>2
<1>8. TypeOK'
  <2>1. /\ uploaded' \in SUBSET Ids /\ receipts' \in SUBSET (Ids \X Keys)
        /\ receiptOwn' \in SUBSET Keys
    BY <1>1, <1>2, <1>6 DEF IInv, TypeOK
  <2>2. \A i \in uploaded' : key'[i] # None
    BY <1>1, <1>5, <1>6 DEF IInv, TypeOK
  <2> QED BY <1>2, <1>4, <2>1, <2>2 DEF IInv, TypeOK
<1>9. ReachedOk'
  <2>1. \A p \in reached : p <= made'
    <3>1. \A p \in reached : p \in Nat /\ p <= made
      BY DEF IInv, ReachedOk, TypeOK, Keys
    <3> QED BY <1>3, <1>4, <3>1
  <2> QED BY <1>2, <2>1 DEF IInv, ReachedOk
<1>10. BatchOk'
  <2>1. \A k \in batch : k[2] <= made' /\ k[2] \notin receiptOwn'
    <3>1. \A k \in batch : k[2] \in Nat /\ k[2] <= made /\ k[2] \notin receiptOwn
      BY DEF IInv, BatchOk, TypeOK, Keys
    <3> QED BY <1>2, <1>3, <1>4, <1>7, <3>1
  <2>2. \A k \in batch, i \in Ids : key'[i] = k[2] => i = k[1]
    BY <1>5, <1>7 DEF IInv, BatchOk
  <2>3. step # "idle" =>
          \A i \in Ids : key'[i] # None /\ i \notin uploaded' /\ i <= last
            => <<i, key'[i]>> \in batch
    BY <1>1, <1>5 DEF IInv, BatchOk
  <2>4. step = "ready" => \A k \in batch :
           IF k[2] \in reached THEN k[2] \in unmarked ELSE key'[k[1]] = k[2]
    <3>1. \A k \in batch : k[1] \in Ids /\ k[2] # None
      BY DEF IInv, TypeOK, Keys, None
    <3> QED BY <1>5, <3>1 DEF IInv, BatchOk
  <2> QED BY <1>2, <2>1, <2>2, <2>3, <2>4 DEF IInv, BatchOk
<1>11. PendingOk'
  <2> SUFFICES ASSUME NEW i \in Ids, key'[i] # None, i \notin uploaded', key'[i] \in reached
               PROVE  \/ key'[i] \in unmarked
                      \/ step = "stored" /\ <<i, key'[i]>> \in batch
    BY <1>2 DEF PendingOk
  <2>1. i # id /\ i \notin uploaded /\ key'[i] = key[i]
    BY <1>1, <1>5
  <2> QED BY <2>1 DEF IInv, PendingOk
<1>12. ReceiptsOk'
  <2>1. \A p \in receiptOwn' : p <= made'
    <3>1. \A p \in receiptOwn : p \in Nat /\ p <= made
      BY DEF IInv, ReceiptsOk, TypeOK, Keys
    <3> QED BY <1>2, <1>3, <1>4, <3>1
  <2>2. \A i \in Ids : key'[i] \in receiptOwn' => i \in uploaded'
    <3> SUFFICES ASSUME NEW i \in Ids, key'[i] \in receiptOwn', i # id PROVE i \in uploaded
      BY <1>1
    <3>1. key'[i] = key[i] /\ key[i] # made + 1
      BY <1>3, <1>5 DEF RowsOk, TypeOK, Keys, None
    <3> QED BY <1>2, <3>1 DEF IInv, ReceiptsOk
  <2>3. \A k \in receipts' : k[2] \in receiptOwn' \ reached /\ key'[k[1]] = k[2]
    <3> SUFFICES ASSUME NEW k \in receipts' PROVE k[2] \in receiptOwn' \ reached /\ key'[k[1]] = k[2]
      OBVIOUS
    <3>1. CASE k \in receipts
      <4>1. k[1] \in Ids /\ k[2] # None /\ key[k[1]] = k[2] /\ k[2] \in receiptOwn \ reached
        BY <3>1 DEF IInv, ReceiptsOk, TypeOK, Keys, None
      <4> QED BY <1>2, <1>5, <4>1
    <3>2. CASE k = <<id, made + 1>>
      BY <1>2, <1>5, <1>7, <3>2
    <3> QED BY <1>1, <3>1, <3>2
  <2> QED BY <1>2, <2>1, <2>2, <2>3 DEF ReceiptsOk
<1>13. UploadedHasLeft' /\ TwiceIsUnmarked'
  BY <1>1, <1>2, <1>5 DEF IInv, UploadedHasLeft, TwiceIsUnmarked, TypeOK
<1>14. GivenIsKept'
  <2> SUFFICES ASSUME NEW k \in onServer \cup held, k[2] \notin twice PROVE key'[k[1]] = k[2]
    BY <1>2 DEF GivenIsKept
  <2>1. key[k[1]] = k[2] /\ k[1] \in Ids /\ k[2] # None
    BY DEF IInv, GivenIsKept, TypeOK, Keys, None
  <2> QED BY <1>5, <2>1
<1> QED BY <1>4, <1>8, <1>9, <1>10, <1>11, <1>12, <1>13, <1>14 DEF IInv

LEMMA ReceiptSentStep == IInv /\ ReceiptSent => IInv'
<1> SUFFICES ASSUME IInv, ReceiptSent PROVE IInv'
  OBVIOUS
<1>1. PICK k \in receipts : /\ receipts' = receipts \ {k}
                            /\ held' = held \cup {k}
                            /\ reached' = reached \cup {k[2]}
  BY DEF ReceiptSent
<1>2. UNCHANGED <<key, uploaded, made, asks, step, batch, last, recent, onServer, receiptOwn,
                  twice, unmarked>>
  BY DEF ReceiptSent, tableVars, uploadVars
<1>3. /\ k \in Ids \X Keys /\ k[2] \in receiptOwn /\ k[2] \notin reached
      /\ key[k[1]] = k[2] /\ k[2] <= made /\ k[1] \in uploaded
  BY DEF IInv, TypeOK, ReceiptsOk
<1>4. TypeOK'
  BY <1>1, <1>2, <1>3 DEF IInv, TypeOK
<1>5. k \notin onServer
  BY <1>3 DEF IInv, ReachedOk
<1>6. ReachedOk'
  BY <1>1, <1>2, <1>3, <1>5 DEF IInv, ReachedOk
<1>7. BatchOk'
  BY <1>1, <1>2, <1>3 DEF IInv, BatchOk
<1>8. PendingOk'
  BY <1>1, <1>2, <1>3 DEF IInv, PendingOk, ReceiptsOk
<1>9. ReceiptsOk'
  <2>1. \A j \in receipts' : j[2] # k[2]
    <3> SUFFICES ASSUME NEW j \in receipts, j[2] = k[2] PROVE j = k
      BY <1>1
    <3>1. j \in Ids \X Keys /\ key[j[1]] = j[2] /\ j[2] # None
      BY DEF IInv, TypeOK, ReceiptsOk, Keys, None
    <3>2. j[1] = k[1]
      BY <1>3, <3>1 DEF IInv, RowsOk
    <3> QED BY <1>3, <3>1, <3>2
  <2> QED BY <1>1, <1>2, <2>1 DEF IInv, ReceiptsOk
<1>10. RowsOk' /\ UploadedHasLeft' /\ TwiceIsUnmarked'
  BY <1>1, <1>2 DEF IInv, RowsOk, UploadedHasLeft, TwiceIsUnmarked
<1>11. GivenIsKept'
  BY <1>1, <1>2, <1>3 DEF IInv, GivenIsKept
<1> QED BY <1>4, <1>6, <1>7, <1>8, <1>9, <1>10, <1>11 DEF IInv

LEMMA ReceiptFailsStep == IInv /\ ReceiptFails => IInv'
<1> SUFFICES ASSUME IInv, ReceiptFails PROVE IInv'
  OBVIOUS
<1>1. /\ receipts' \in SUBSET receipts
      /\ UNCHANGED <<key, uploaded, made, asks, step, batch, last, recent, onServer, held,
                     receiptOwn, reached, twice, unmarked>>
  BY DEF ReceiptFails, tableVars, uploadVars, historyVars
<1>2. TypeOK' /\ RowsOk' /\ ReachedOk' /\ BatchOk' /\ PendingOk' /\ ReceiptsOk'
  BY <1>1 DEF IInv, TypeOK, RowsOk, ReachedOk, BatchOk, PendingOk, ReceiptsOk
<1>3. UploadedHasLeft' /\ TwiceIsUnmarked' /\ GivenIsKept'
  BY <1>1 DEF IInv, UploadedHasLeft, TwiceIsUnmarked, GivenIsKept
<1> QED BY <1>2, <1>3 DEF IInv

LEMMA ServerGivesStep == IInv /\ ServerGives => IInv'
<1> SUFFICES ASSUME IInv, ServerGives PROVE IInv'
  OBVIOUS
<1>1. PICK k \in onServer : onServer' = onServer \ {k} /\ held' = held \cup {k}
  BY DEF ServerGives
<1>2. UNCHANGED <<key, uploaded, made, asks, step, batch, last, recent, receipts, receiptOwn,
                  reached, twice, unmarked>>
  BY DEF ServerGives, tableVars, uploadVars, receiptVars, historyVars
<1>3. TypeOK'
  BY <1>1, <1>2 DEF IInv, TypeOK
<1>4. ReachedOk'
  BY <1>1, <1>2 DEF IInv, ReachedOk
<1>5. /\ RowsOk' /\ BatchOk' /\ PendingOk' /\ ReceiptsOk'
      /\ UploadedHasLeft' /\ TwiceIsUnmarked'
  BY <1>2 DEF IInv, RowsOk, BatchOk, PendingOk, ReceiptsOk, UploadedHasLeft, TwiceIsUnmarked
<1>6. GivenIsKept'
  BY <1>1, <1>2 DEF IInv, GivenIsKept
<1> QED BY <1>3, <1>4, <1>5, <1>6 DEF IInv

LEMMA UseStep == IInv /\ Use => IInv'
<1> SUFFICES ASSUME IInv, Use PROVE IInv'
  OBVIOUS
<1>1. PICK k \in held :
        /\ IF key[k[1]] = k[2] THEN RemovePreKey(k[1]) ELSE UNCHANGED <<key, uploaded>>
        /\ \/ held' = held \ {k}
           \/ k[2] \in twice /\ held' = held
  BY DEF Use
<1>2. UNCHANGED <<made, asks, step, batch, last, recent, onServer, receipts, receiptOwn, reached,
                  twice, unmarked>>
  BY DEF Use, uploadVars, receiptVars, historyVars
<1>3. k[1] \in Ids /\ k[2] \in Keys /\ k[2] # None /\ k[2] \in reached /\ k = <<k[1], k[2]>>
  BY DEF IInv, TypeOK, ReachedOk, Keys, None
<1>4. held' \subseteq held
  BY <1>1
<1>5. /\ key' \in [Ids -> Keys \cup {None}]
      /\ uploaded' \in SUBSET uploaded
      /\ \A i \in Ids : \/ key'[i] = key[i] /\ (i \in uploaded' <=> i \in uploaded)
                        \/ /\ i = k[1] /\ key[i] = k[2]
                           /\ key'[i] = None /\ i \notin uploaded'
  <2>1. CASE key[k[1]] = k[2]
    <3>1. key' = [key EXCEPT ![k[1]] = None] /\ uploaded' = uploaded \ {k[1]}
      BY <1>1, <2>1 DEF RemovePreKey
    <3> QED BY <1>3, <2>1, <3>1 DEF IInv, TypeOK
  <2>2. CASE key[k[1]] # k[2]
    BY <1>1, <2>2 DEF IInv, TypeOK
  <2> QED BY <2>1, <2>2
<1>6. TypeOK'
  <2>1. \A i \in uploaded' : key'[i] # None
    BY <1>5 DEF IInv, TypeOK
  <2> QED BY <1>2, <1>4, <1>5, <2>1 DEF IInv, TypeOK
<1>7. RowsOk'
  <2>1. \A i \in Ids : key'[i] <= made
    <3>1. made \in Nat
      BY CountsAssumption DEF IInv, TypeOK
    <3> QED BY <1>5, <3>1 DEF IInv, RowsOk, None
  <2> QED BY <1>2, <1>5, <2>1 DEF IInv, RowsOk
<1>8. ReachedOk'
  BY <1>2, <1>4 DEF IInv, ReachedOk
<1>9. BatchOk'
  <2>1. \A b \in batch : b[2] # None /\ b[1] \in Ids
    BY DEF IInv, TypeOK, Keys, None
  <2>2. \A b \in batch, i \in Ids : key'[i] = b[2] => i = b[1]
    BY <1>5, <2>1 DEF IInv, BatchOk
  <2>3. step # "idle" =>
          \A i \in Ids : key'[i] # None /\ i \notin uploaded' /\ i <= last
            => <<i, key'[i]>> \in batch
    BY <1>5 DEF IInv, BatchOk
  <2>4. step = "ready" => \A b \in batch :
           IF b[2] \in reached THEN b[2] \in unmarked ELSE key'[b[1]] = b[2]
    BY <1>3, <1>5, <2>1 DEF IInv, BatchOk
  <2> QED BY <1>2, <2>2, <2>3, <2>4 DEF IInv, BatchOk
<1>10. PendingOk'
  BY <1>2, <1>5 DEF IInv, PendingOk
<1>11. UploadedHasLeft' /\ TwiceIsUnmarked'
  BY <1>2, <1>5 DEF IInv, UploadedHasLeft, TwiceIsUnmarked, TypeOK
<1>12. GivenIsKept'
  <2> SUFFICES ASSUME NEW j \in onServer \cup held', j[2] \notin twice PROVE key'[j[1]] = j[2]
    BY <1>2 DEF GivenIsKept
  <2>1. j \in onServer \cup held /\ key[j[1]] = j[2] /\ j[1] \in Ids /\ j = <<j[1], j[2]>>
    BY <1>4 DEF IInv, GivenIsKept, TypeOK
  <2>2. ~(j[1] = k[1] /\ key[j[1]] = k[2])
    <3> SUFFICES ASSUME j[1] = k[1], key[j[1]] = k[2] PROVE FALSE
      OBVIOUS
    <3>1. j = k /\ k[2] \notin twice
      BY <1>3, <2>1
    <3>2. j \in onServer
      BY <1>1, <3>1
    <3> QED BY <3>1, <3>2 DEF IInv, ReachedOk
  <2> QED BY <1>5, <2>1, <2>2
<1>13. ReceiptsOk'
  <2>1. \A j \in receipts : j[1] \in Ids /\ j[2] # k[2] /\ key[j[1]] = j[2]
    BY <1>3 DEF IInv, ReceiptsOk, TypeOK
  <2>2. \A j \in receipts : key'[j[1]] = j[2]
    BY <1>5, <2>1
  <2>3. \A i \in Ids : key'[i] \in receiptOwn => i \in uploaded'
    <3>1. None \notin receiptOwn
      BY DEF IInv, TypeOK, Keys, None
    <3> QED BY <1>5, <3>1 DEF IInv, ReceiptsOk
  <2> QED BY <1>2, <2>2, <2>3 DEF IInv, ReceiptsOk
<1> QED BY <1>6, <1>7, <1>8, <1>9, <1>10, <1>11, <1>12, <1>13 DEF IInv

LEMMA RestartStep == IInv /\ Restart => IInv'
<1> SUFFICES ASSUME IInv, Restart PROVE IInv'
  OBVIOUS
<1>1. /\ step' = "idle" /\ batch' = {} /\ last' = 0 /\ recent' = FALSE
      /\ asks' = [a \in Askers |-> "no"]
      /\ unmarked' = IF step = "stored" THEN unmarked \cup Pairs(batch) ELSE unmarked
      /\ receipts' = {}
      /\ UNCHANGED <<key, uploaded, made, onServer, held, receiptOwn, reached, twice>>
  BY DEF Restart, tableVars
<1>2. /\ \A k \in batch : k[2] \in Pairs(batch)
      /\ Pairs(batch) \in SUBSET Keys
  BY DEF Pairs, IInv, TypeOK
<1>3. unmarked' \in SUBSET Keys /\ unmarked \subseteq unmarked'
  BY <1>1, <1>2 DEF IInv, TypeOK
<1>4. TypeOK'
  <2>1. asks' \in [Askers -> Asks]
    BY <1>1 DEF Asks
  <2> QED BY <1>1, <1>3, <2>1 DEF IInv, TypeOK
<1>5. RowsOk' /\ ReachedOk' /\ UploadedHasLeft' /\ TwiceIsUnmarked' /\ GivenIsKept'
  BY <1>1, <1>3 DEF IInv, RowsOk, ReachedOk, UploadedHasLeft, TwiceIsUnmarked, GivenIsKept
<1>6. BatchOk' /\ ReceiptsOk'
  BY <1>1 DEF IInv, BatchOk, ReceiptsOk
<1>7. PendingOk'
  <2> SUFFICES ASSUME NEW i \in Ids, key[i] # None, i \notin uploaded, key[i] \in reached
               PROVE  key[i] \in unmarked'
    BY <1>1 DEF PendingOk
  <2>1. \/ key[i] \in unmarked
        \/ step = "stored" /\ <<i, key[i]>> \in batch
    BY DEF IInv, PendingOk
  <2> QED BY <1>1, <1>2, <2>1
<1> QED BY <1>4, <1>5, <1>6, <1>7 DEF IInv

-----------------------------------------------------------------------------
LEMMA StepIInv == IInv /\ [Next]_vars => IInv'
<1> SUFFICES ASSUME IInv, [Next]_vars PROVE IInv'
  OBVIOUS
<1>1. CASE \E a \in Askers : Upload(a)
  BY <1>1, AskStep, GenerateStep, GenerateFailsStep DEF Upload
<1>2. CASE RequestLost \/ ServerStores \/ NotMarked \/ Mark
  BY <1>2, RequestLostStep, ServerStoresStep, NotMarkedStep, MarkStep
<1>3. CASE TenMinutesPass
  BY <1>3, TimeStep
<1>4. CASE ReceiptKey \/ ReceiptSent \/ ReceiptFails \/ ServerGives \/ Use
  BY <1>4, ReceiptKeyStep, ReceiptSentStep, ReceiptFailsStep, ServerGivesStep, UseStep
<1>5. CASE Restart
  BY <1>5, RestartStep
<1>6. CASE UNCHANGED vars
  BY <1>6, Frame DEF vars, tableVars, uploadVars, receiptVars, historyVars, IInv, TypeOK
<1> QED BY <1>1, <1>2, <1>3, <1>4, <1>5, <1>6 DEF Next

LEMMA Invariant == Spec => []IInv
BY InitIInv, StepIInv, PTL DEF Spec

(* Every variable keeps its type; in particular no row is marked after it   *)
(* was removed (MarkPreKeysAsUploaded, RemovePreKey).                       *)
THEOREM TypeCorrect == Spec => []TypeOK
BY Invariant, PTL DEF IInv

(* For any batch sizes, MarkPreKeysAsUploaded never marks a key that did    *)
(* not leave this device: the only such marked rows are those GenOnePreKey  *)
(* marks itself, for a retry receipt that is not sent yet or was not sent.  *)
THEOREM MarksAreTrue == Spec => []UploadedHasLeft
BY Invariant, PTL DEF IInv

(* uploadPreKeys uploads no key again unless the end of its upload was      *)
(* lost.                                                                    *)
THEOREM NoneTwice == Spec => []TwiceIsUnmarked
BY Invariant, PTL DEF IInv

(* A key that was given to one person only can be used by that person:      *)
(* getNextPreKeyID gives its id to no other key while it is out.            *)
THEOREM KeysAreKept == Spec => []GivenIsKept
BY Invariant, PTL DEF IInv

=============================================================================
