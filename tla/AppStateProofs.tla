--------------------------- MODULE AppStateProofs ---------------------------
(***************************************************************************)
(* Proofs about AppState for any indexes, patches, keys, senders and any   *)
(* number of faults.                                                       *)
(*                                                                         *)
(* What a step leaves behind is judged against the log alone: RowOK says   *)
(* it of the row of the database, WorkOK of one process.  The log and the  *)
(* keys only grow, and both judgements survive that, so each action has to *)
(* answer for the row it writes and the process it moves.                  *)
(*                                                                         *)
(* What holds only from a clean start needs more (SInv).  While the        *)
(* history is clean at most one process has patches to apply, the leader,  *)
(* and the database is judged against where it is: LeaderOK says what the  *)
(* row and the MACs are between its statements, Kept what the stores or    *)
(* the leader's unapplied news hold.  Shaped and MacOK are what each       *)
(* process carries, whatever becomes of the others.                        *)
(***************************************************************************)
EXTENDS AppState, FiniteSetTheorems, SequenceTheorems, WellFoundedInduction, TLAPS

Patch == [ops : Shapes \cup {NoOps}, key : Keys, mac : Hashes, sound : BOOLEAN]
State == [version : 0..MaxVersion, hash : Hashes]

LogOK(l) == l \in Seq(Patch) /\ Len(l) <= MaxVersion

(* Every patch of the log carries the right snapshot MAC. *)
Sound(l) == \A v \in DOMAIN l : l[v].mac = TrueHash(l, v)

Extends(l, m) == Len(l) <= Len(m) /\ \A v \in 1..Len(l) : m[v] = l[v]

(* A HashState of a version that the log has, and with its hash. *)
KnownIn(state, l) == state \in State /\ state.version <= Len(l)
TrueIn(state, l)  == Sound(l) => state.hash = TrueHash(l, state.version)

RowOK(r, l) == KnownIn(r, l) /\ TrueIn(r, l)

WorkOK(w, l, k) ==
    /\ w \in Works
    /\ KnownIn(w.state, l)
    /\ \A n \in 1..Len(w.list) : w.list[n].version <= Len(l)
    /\ w.step \in {"version", "delete", "insert"} =>
         w.list # <<>> /\ w.state.version = Head(w.list).version
    /\ w.step = "version" => TrueIn(w.state, l)
    /\ w.step \in {"encode", "upload"} => k # {}
    /\ w.step = "upload" => w.state.version < MaxVersion

Plain ==
    /\ macs \subseteq [version : Versions, index : Indexes, value : Versions]
    /\ settings \in [Indexes -> 0..MaxVersion]
    /\ keys \subseteq Keys /\ requests \subseteq Keys
    /\ asking \subseteq Keys /\ asked \subseteq Keys
    /\ shared \in {"no", "fetch", "only new"} /\ notified \in BOOLEAN
    /\ clean \in BOOLEAN /\ skipped \in BOOLEAN
    /\ faults \in 0..MaxFaults

IInv ==
    /\ LogOK(log)
    /\ RowOK(row, log)
    /\ work = [p \in Procs |-> work[p]]
    /\ \A p \in Procs : WorkOK(work[p], log, keys)
    /\ Plain

-----------------------------------------------------------------------------
(* The largest member of a finite set of numbers exists. *)
LEMMA NewestIsIn ==
    ASSUME NEW S \in SUBSET Nat, IsFiniteSet(S), S # {}
    PROVE  Newest(S) \in S
<1> DEFINE HasNewest(T) == \E w \in T : \A x \in T : x <= w
           Bad == {T \in FiniteSubsetsOf(S) : T # {} /\ ~HasNewest(T)}
<1>1. SUFFICES HasNewest(S)
  BY DEF Newest
<1>2. SUFFICES Bad = {}
  BY <1>2 DEF FiniteSubsetsOf
<1>3. SUFFICES ASSUME Bad # {} PROVE FALSE
  OBVIOUS
<1>4. PICK T \in Bad : \A U \in Bad : ~ (<<U, T>> \in StrictSubsetOrdering(S))
  <2>1. Bad \subseteq FiniteSubsetsOf(S)
    OBVIOUS
  <2> HIDE DEF Bad
  <2> QED BY <1>3, <2>1, WFMin, FS_StrictSubsetOrderingWellFounded, Zenon
<1>5. PICK x \in T : TRUE
  OBVIOUS
<1>6. T \ {x} \in FiniteSubsetsOf(S) /\ T \in FiniteSubsetsOf(S)
  BY FS_Subset DEF FiniteSubsetsOf
<1>7. <<T \ {x}, T>> \in StrictSubsetOrdering(S)
  BY <1>5, <1>6 DEF StrictSubsetOrdering, FiniteSubsetsOf
<1>8. T \ {x} = {} \/ HasNewest(T \ {x})
  BY <1>4, <1>6, <1>7
<1>9. T \subseteq Nat
  BY <1>6 DEF FiniteSubsetsOf
<1>10. CASE T \ {x} = {}
  BY <1>5, <1>9, <1>10
<1>11. CASE HasNewest(T \ {x})
  <2>1. PICK w \in T \ {x} : \A y \in T \ {x} : y <= w
    BY <1>11
  <2>2. HasNewest(T)
    BY <2>1, <1>5, <1>9
  <2> QED BY <2>2
<1> QED BY <1>8, <1>10, <1>11

(* What is under an index after version v was set at one of 1..v. *)
LEMMA TouchingNewest ==
    ASSUME NEW l, NEW v \in Nat, NEW i, Touching(l, v, i) # {}
    PROVE  Newest(Touching(l, v, i)) \in 1..v
<1>1. Touching(l, v, i) \in SUBSET (1..v)
  BY DEF Touching
<1>2. IsFiniteSet(Touching(l, v, i))
  BY <1>1, FS_Interval, FS_Subset
<1>3. Touching(l, v, i) \in SUBSET Nat
  BY <1>1
<1> QED BY <1>1, <1>2, <1>3, NewestIsIn

LEMMA ContentsType ==
    ASSUME NEW l, NEW v \in 0..MaxVersion
    PROVE  Contents(l, v) \in [Indexes -> 0..v]
<1>1. \A i \in Indexes : Touching(l, v, i) # {} => Newest(Touching(l, v, i)) \in 0..v
  BY TouchingNewest
<1> QED BY <1>1 DEF Contents

LEMMA HashOfType == ASSUME NEW entries PROVE HashOf(entries) \in Hashes
BY DEF HashOf, Hashes

(* The entries at a version do not change when the log grows. *)
LEMMA ContentsStable ==
    ASSUME NEW l, NEW m, Extends(l, m), Len(l) \in Nat, NEW v \in 0..Len(l)
    PROVE  Contents(m, v) = Contents(l, v)
<1>1. \A i : Touching(m, v, i) = Touching(l, v, i)
  BY DEF Touching, Extends
<1>2. \A i : Touching(l, v, i) # {} =>
          m[Newest(Touching(l, v, i))] = l[Newest(Touching(l, v, i))]
  BY TouchingNewest DEF Extends
<1> QED BY <1>1, <1>2 DEF Contents

LEMMA TrueHashStable ==
    ASSUME NEW l, NEW m, Extends(l, m), Len(l) \in Nat, NEW v \in 0..Len(l)
    PROVE  TrueHash(m, v) = TrueHash(l, v)
BY ContentsStable DEF TrueHash

LEMMA ZeroIsTrue == ASSUME NEW l PROVE TrueHash(l, 0) = Zero
<1>1. \A i : Touching(l, 0, i) = {}
  BY DEF Touching
<1>2. Contents(l, 0) = [i \in Indexes |-> 0]
  BY <1>1 DEF Contents
<1> QED BY <1>2 DEF TrueHash, HashOf, Zero, Versions

LEMMA SoundBefore ==
    ASSUME NEW l, NEW m, LogOK(l), LogOK(m), Extends(l, m), Sound(m)
    PROVE  Sound(l)
<1>1. Len(l) \in Nat /\ DOMAIN l = 1..Len(l) /\ Len(m) \in Nat /\ DOMAIN m = 1..Len(m)
  BY DEF LogOK
<1>2. SUFFICES ASSUME NEW v \in DOMAIN l PROVE l[v].mac = TrueHash(l, v)
  BY DEF Sound
<1>3. v \in 0..Len(l) /\ v \in DOMAIN m /\ m[v] = l[v]
  BY <1>1, <1>2 DEF Extends
<1>4. TrueHash(m, v) = TrueHash(l, v)
  BY <1>1, <1>3, TrueHashStable
<1> QED BY <1>3, <1>4 DEF Sound

LEMMA TrueStays ==
    ASSUME NEW l, NEW m, LogOK(l), LogOK(m), Extends(l, m),
           NEW s, KnownIn(s, l), TrueIn(s, l)
    PROVE  KnownIn(s, m) /\ TrueIn(s, m)
<1>1. Len(l) \in Nat /\ Len(m) \in Nat /\ s.version \in 0..Len(l)
  BY DEF LogOK, KnownIn, State
<1>2. KnownIn(s, m)
  BY <1>1 DEF KnownIn, Extends
<1>3. TrueHash(m, s.version) = TrueHash(l, s.version)
  BY <1>1, TrueHashStable
<1> QED BY <1>2, <1>3, SoundBefore DEF TrueIn

LEMMA WorkStays ==
    ASSUME NEW l, NEW m, LogOK(l), LogOK(m), Extends(l, m),
           NEW k, NEW j, k \subseteq j, NEW w, WorkOK(w, l, k)
    PROVE  WorkOK(w, m, j)
<1>1. Len(l) \in Nat /\ Len(m) \in Nat /\ Len(l) <= Len(m)
  BY DEF LogOK, Extends
<1>2. w \in Works /\ w.list \in Seq(Items) /\ w.state \in State
  BY DEF WorkOK, Works, State
<1>3. KnownIn(w.state, m)
  BY <1>1, <1>2 DEF WorkOK, KnownIn, State
<1>4. \A n \in 1..Len(w.list) : w.list[n].version <= Len(m)
  <2> TAKE n \in 1..Len(w.list)
  <2>1. w.list[n] \in Items /\ w.list[n].version <= Len(l)
    BY <1>2, ElementOfSeq DEF WorkOK
  <2> QED BY <1>1, <2>1 DEF Items, Versions
<1>5. w.step = "version" => TrueIn(w.state, m)
  BY TrueStays DEF WorkOK
<1> QED BY <1>2, <1>3, <1>4, <1>5 DEF WorkOK

LEMMA ExtendsItself == ASSUME NEW l, LogOK(l) PROVE Extends(l, l)
BY DEF Extends, LogOK

(* The work of one process is replaced; the log and the keys may grow.      *)
LEMMA Moves ==
    ASSUME IInv, NEW p \in Procs, LogOK(log'), Extends(log, log'), keys \subseteq keys',
           RowOK(row', log'), Plain',
           work' = [work EXCEPT ![p] = work'[p]], WorkOK(work'[p], log', keys')
    PROVE  IInv'
<1>1. \A q \in Procs : WorkOK(work[q], log', keys')
  BY WorkStays DEF IInv
<1>2. work' = [q \in Procs |-> work'[q]] /\ \A q \in Procs : q # p => work'[q] = work[q]
  BY DEF IInv
<1>3. \A q \in Procs : WorkOK(work'[q], log', keys')
  BY <1>1, <1>2
<1> QED BY <1>2, <1>3 DEF IInv

(* A step on the database or in memory, with the log as it is. *)
LEMMA Quiet ==
    ASSUME IInv, NEW p \in Procs, UNCHANGED <<log, keys>>, RowOK(row', log), Plain',
           work' = [work EXCEPT ![p] = work'[p]], WorkOK(work'[p], log, keys)
    PROVE  IInv'
<1>1. LogOK(log') /\ Extends(log, log') /\ keys \subseteq keys'
  BY ExtendsItself DEF IInv
<1> QED BY <1>1, Moves

(* Nobody moves. *)
LEMMA Around ==
    ASSUME IInv, LogOK(log'), Extends(log, log'), keys \subseteq keys',
           UNCHANGED <<row, work>>, Plain'
    PROVE  IInv'
<1>1. \A q \in Procs : WorkOK(work[q], log', keys')
  BY WorkStays DEF IInv
<1>2. RowOK(row', log')
  BY TrueStays DEF IInv, RowOK
<1> QED BY <1>1, <1>2 DEF IInv

LEMMA NoRowOK == ASSUME NEW l, LogOK(l) PROVE RowOK(NoRow, l)
<1>1. Zero \in Hashes /\ Len(l) \in Nat
  BY DEF Zero, Hashes, LogOK
<1> QED BY <1>1, ZeroIsTrue, BoundsAssumption DEF RowOK, KnownIn, TrueIn, NoRow, State

LEMMA RestingWorks == Resting \in Works /\ Resting.list = <<>> /\ Zero \in Hashes
<1>1. Zero \in Hashes /\ NoNews \in [Indexes -> 0..MaxVersion]
  BY BoundsAssumption DEF Zero, Hashes, NoNews
<1> QED BY <1>1, BoundsAssumption, EmptySeq DEF Resting, Works, Steps, NoRow

(* A process that holds nothing, or only the row it has read. *)
LEMMA EmptyWorkOK ==
    ASSUME NEW l, LogOK(l), NEW k, NEW w \in Works, w.list = <<>>, KnownIn(w.state, l),
           w.step \notin {"version", "delete", "insert"},
           w.step \notin {"encode", "upload"}
    PROVE  WorkOK(w, l, k)
BY DEF WorkOK

LEMMA OverOK ==
    ASSUME NEW l, LogOK(l), NEW k, NEW p \in Procs
    PROVE  WorkOK(Over(p), l, k) /\ WorkOK(Resting, l, k)
<1>1. Over(p) \in Works /\ Over(p).list = <<>> /\ Over(p).state = NoRow
      /\ Over(p).step \in {"idle", "done"}
  BY RestingWorks DEF Over, Works, Steps, Resting
<1>2. KnownIn(NoRow, l)
  BY NoRowOK DEF RowOK
<1> QED BY <1>1, <1>2, RestingWorks, EmptyWorkOK DEF Resting

LEMMA FaultCounts == faults \in 0..MaxFaults /\ Fault => faults' \in 0..MaxFaults
BY BoundsAssumption DEF Fault

-----------------------------------------------------------------------------
LEMMA InitIInv == Init => IInv
<1> SUFFICES ASSUME Init PROVE IInv
  OBVIOUS
<1>1. LogOK(log)
  BY BoundsAssumption, EmptySeq DEF Init, LogOK
<1>2. RowOK(row, log)
  BY <1>1, NoRowOK DEF Init
<1>3. \A p \in Procs : work[p] = Resting
  BY DEF Init
<1>4. \A p \in Procs : WorkOK(work[p], log, keys)
  BY <1>1, <1>3, OverOK
<1>5. Plain
  <2>1. settings \in [Indexes -> 0..MaxVersion] /\ faults \in 0..MaxFaults
    BY BoundsAssumption DEF Init, NoNews
  <2>2. keys \subseteq Keys /\ requests \subseteq Keys /\ asking \subseteq Keys
        /\ asked \subseteq Keys
    BY KeysAssumption DEF Init
  <2>3. shared = "no" /\ notified = FALSE /\ clean = TRUE /\ skipped = FALSE /\ macs = {}
    BY DEF Init
  <2> QED BY <2>1, <2>2, <2>3 DEF Plain
<1>6. work = [p \in Procs |-> work[p]]
  BY DEF Init
<1> QED BY <1>1, <1>2, <1>4, <1>5, <1>6 DEF IInv

-----------------------------------------------------------------------------
(* The server and the phone. *)

LEMMA PublishStep == ASSUME IInv, NEW ops \in Shapes, NEW k \in Keys, Publish(ops, k) PROVE IInv'
<1> DEFINE n == Len(log) + 1
           l == Append(log, [ops |-> ops, key |-> k, mac |-> Zero, sound |-> TRUE])
<1>1. log \in Seq(Patch) /\ Len(log) \in Nat /\ Len(log) < MaxVersion
  BY DEF IInv, LogOK, Publish
<1>2. l \in Seq(Patch) /\ Len(l) = n /\ \A v \in 1..Len(log) : l[v] = log[v]
  BY <1>1, RestingWorks DEF Patch
<1>3. TrueHash(l, n) \in Hashes
  BY HashOfType DEF TrueHash
<1>4. log' = [l EXCEPT ![n] = [l[n] EXCEPT !.mac = TrueHash(l, n)]]
  BY <1>1, <1>2 DEF Publish
<1> HIDE DEF l
<1>5. n \in 1..Len(l) /\ [l[n] EXCEPT !.mac = TrueHash(l, n)] \in Patch
  <2>1. n \in 1..Len(l)
    BY <1>1, <1>2
  <2>2. l[n] \in Patch
    BY <1>2, <2>1, ElementOfSeq
  <2> QED BY <1>3, <2>1, <2>2 DEF Patch
<1>6. /\ log' \in Seq(Patch) /\ Len(log') = n
      /\ \A v \in 1..n : v # n => log'[v] = l[v]
  BY <1>2, <1>4, <1>5, ExceptSeq
<1>7. LogOK(log') /\ Extends(log, log')
  BY <1>1, <1>2, <1>6, BoundsAssumption DEF LogOK, Extends
<1>8. Plain'
  BY DEF IInv, Plain, Publish, dbVars, keyVars
<1>9. UNCHANGED <<row, work, keys>>
  BY DEF Publish, dbVars, keyVars
<1> QED BY <1>7, <1>8, <1>9, Around

LEMMA KeyShareStep == ASSUME IInv, NEW k \in Keys, KeyShare(k) PROVE IInv'
<1>1. Plain'
  <2>1. /\ keys' \subseteq Keys /\ requests' \subseteq Keys
        /\ asking' \subseteq Keys /\ asked' \subseteq Keys
    BY DEF IInv, Plain, KeyShare
  <2>2. UNCHANGED <<macs, settings, notified, clean, skipped>>
        /\ shared' \in {"fetch", "only new"} /\ (Fault \/ UNCHANGED faults)
    BY DEF KeyShare, dbVars
  <2>3. faults \in 0..MaxFaults
    BY DEF IInv, Plain
  <2>4. faults' \in 0..MaxFaults
    BY <2>2, <2>3, FaultCounts
  <2> QED BY <2>1, <2>2, <2>4 DEF IInv, Plain
<1>2. UNCHANGED <<log, row, work>> /\ keys \subseteq keys'
  BY DEF KeyShare, dbVars
<1>3. LogOK(log') /\ Extends(log, log')
  BY <1>2, ExtendsItself DEF IInv
<1> QED BY <1>1, <1>2, <1>3, Around

LEMMA RequestStep == IInv /\ RequestMissing => IInv'
<1> SUFFICES ASSUME IInv, RequestMissing PROVE IInv'
  OBVIOUS
<1>1. Plain'
  BY DEF IInv, Plain, RequestMissing, dbVars
<1>2. UNCHANGED <<log, row, work, keys>>
  BY DEF RequestMissing, dbVars
<1>3. LogOK(log') /\ Extends(log, log')
  BY <1>2, ExtendsItself DEF IInv
<1> QED BY <1>1, <1>2, <1>3, Around

LEMMA CrashStep == IInv /\ Crash => IInv'
<1> SUFFICES ASSUME IInv, Crash PROVE IInv'
  OBVIOUS
<1>1. Plain'
  <2>1. Fault /\ faults \in 0..MaxFaults
    BY DEF IInv, Plain, Crash
  <2>2. notified' \in BOOLEAN /\ clean' \in BOOLEAN /\ skipped' \in BOOLEAN
    BY DEF IInv, Plain, Crash
  <2>3. UNCHANGED <<macs, settings, keys, asked>>
        /\ requests' = {} /\ asking' = {} /\ shared' = "no"
    BY DEF Crash, dbVars
  <2> QED BY <2>1, <2>2, <2>3, FaultCounts DEF IInv, Plain
<1>2. UNCHANGED <<log, row, keys>> /\ work' = [p \in Procs |-> work'[p]]
  BY DEF Crash, dbVars
<1>3. \A p \in Procs : work'[p] = Resting \/ work'[p] = Over(p)
  BY DEF Crash
<1>4. \A p \in Procs : WorkOK(work'[p], log, keys)
  BY <1>3, OverOK DEF IInv
<1> QED BY <1>1, <1>2, <1>4 DEF IInv

-----------------------------------------------------------------------------
(* fetchAppState. *)

(* Becomes moves p and keeps the history a Boolean. *)
LEMMA BecomesResult ==
    ASSUME IInv, NEW p \in Procs, NEW w, Becomes(p, w)
    PROVE  work'[p] = w /\ work' = [work EXCEPT ![p] = work'[p]] /\ clean' \in BOOLEAN
<1>1. work'[p] = w /\ work' = [work EXCEPT ![p] = w]
  BY DEF IInv, Becomes
<1>2. clean' \in BOOLEAN
  BY DEF Becomes
<1> QED BY <1>1, <1>2

LEMMA FetchStarts ==
    ASSUME IInv, NEW full \in BOOLEAN, NEW onlyNew \in BOOLEAN
    PROVE  WorkOK(Fetching(full, onlyNew), log, keys)
<1>1. Fetching(full, onlyNew) \in Works /\ Fetching(full, onlyNew).list = <<>>
      /\ Fetching(full, onlyNew).state = NoRow /\ Fetching(full, onlyNew).step = "read"
  BY RestingWorks DEF Fetching, Works, Steps, Resting
<1>2. KnownIn(NoRow, log)
  BY NoRowOK DEF RowOK, IInv
<1> QED BY <1>1, <1>2, EmptyWorkOK DEF IInv

LEMMA LockResult ==
    ASSUME IInv, NEW full \in BOOLEAN, Lock(full)
    PROVE  RowOK(row', log) /\ macs' \subseteq macs
           /\ UNCHANGED <<log, settings, keys, requests, asking, asked, faults>>
<1>1. row' = NoRow \/ row' = row
  BY DEF Lock
<1> QED BY <1>1, NoRowOK DEF Lock, IInv

LEMMA FetchBeginStep == IInv /\ (Fetch \/ \E s \in Senders : FetchAfterSend(s)) => IInv'
<1> SUFFICES ASSUME IInv, Fetch \/ \E s \in Senders : FetchAfterSend(s) PROVE IInv'
  OBVIOUS
<1> USE DEF Procs
<1>1. CASE FetchOnNotification
  <2>1. RowOK(row', log) /\ macs' \subseteq macs
        /\ UNCHANGED <<log, settings, keys, requests, asking, asked, faults>>
    BY <1>1, LockResult DEF FetchOnNotification
  <2>2. WorkOK(Fetching(FALSE, FALSE), log, keys)
    BY FetchStarts
  <2>3. PICK w : w = Fetching(FALSE, FALSE)
    OBVIOUS
  <2>4. Becomes("fetch", w)
    BY <1>1, <2>3 DEF FetchOnNotification
  <2>5. /\ WorkOK(work'["fetch"], log, keys) /\ clean' \in BOOLEAN
        /\ work' = [work EXCEPT !["fetch"] = work'["fetch"]]
    BY <2>2, <2>3, <2>4, BecomesResult
  <2>6. Plain'
    BY <1>1, <2>1, <2>5 DEF FetchOnNotification, IInv, Plain
  <2> QED BY <2>1, <2>5, <2>6, Quiet
<1>2. CASE FetchOnKeyShare
  <2>1. PICK onlyNew \in BOOLEAN : Lock(FALSE) /\ Becomes("fetch", Fetching(FALSE, onlyNew))
    BY <1>2 DEF FetchOnKeyShare
  <2>2. RowOK(row', log) /\ macs' \subseteq macs
        /\ UNCHANGED <<log, settings, keys, requests, asking, asked, faults>>
    BY <2>1, LockResult
  <2>3. WorkOK(Fetching(FALSE, onlyNew), log, keys)
    BY FetchStarts
  <2>4. PICK w : w = Fetching(FALSE, onlyNew)
    OBVIOUS
  <2>5. /\ WorkOK(work'["fetch"], log, keys) /\ clean' \in BOOLEAN
        /\ work' = [work EXCEPT !["fetch"] = work'["fetch"]]
    BY <2>1, <2>3, <2>4, BecomesResult
  <2>6. Plain'
    BY <1>2, <2>2, <2>5 DEF FetchOnKeyShare, IInv, Plain
  <2> QED BY <2>2, <2>5, <2>6, Quiet
<1>3. CASE FetchFully
  <2>1. RowOK(row', log) /\ macs' \subseteq macs
        /\ UNCHANGED <<log, settings, keys, requests, asking, asked, faults>>
    BY <1>3, LockResult DEF FetchFully
  <2>2. WorkOK(Fetching(TRUE, FALSE), log, keys)
    BY FetchStarts
  <2>3. work' = [work EXCEPT !["fetch"] = Fetching(TRUE, FALSE)]
    BY <1>3 DEF FetchFully
  <2>4. WorkOK(work'["fetch"], log, keys) /\ work' = [work EXCEPT !["fetch"] = work'["fetch"]]
    BY <2>2, <2>3 DEF IInv
  <2>5. clean' \in BOOLEAN
    BY <1>3 DEF FetchFully, Alone
  <2>6. Plain'
    BY <1>3, <2>1, <2>5 DEF FetchFully, IInv, Plain
  <2> QED BY <2>1, <2>4, <2>6, Quiet
<1>4. ASSUME NEW s \in Senders, FetchAfterSend(s) PROVE IInv'
  <2>1. RowOK(row', log) /\ macs' \subseteq macs
        /\ UNCHANGED <<log, settings, keys, requests, asking, asked, faults>>
    BY <1>4, LockResult DEF FetchAfterSend
  <2>2. WorkOK(Fetching(FALSE, FALSE), log, keys) /\ WorkOK(Over(s), log, keys)
    BY FetchStarts, OverOK DEF IInv
  <2>3. work' = [work EXCEPT ![s] = Over(s), !["fetch"] = Fetching(FALSE, FALSE)]
    BY <1>4 DEF FetchAfterSend
  <2>4. \A p \in Procs : work'[p] \in {work[p], Over(s), Fetching(FALSE, FALSE)}
    BY <2>3 DEF IInv
  <2>5. \A p \in Procs : WorkOK(work'[p], log, keys)
    BY <2>2, <2>4 DEF IInv
  <2>6. work' = [p \in Procs |-> work'[p]]
    BY <2>3 DEF IInv
  <2>7. Plain'
    BY <1>4, <2>1 DEF FetchAfterSend, IInv, Plain
  <2> QED BY <2>1, <2>5, <2>6, <2>7 DEF IInv
<1> QED BY <1>1, <1>2, <1>3, <1>4 DEF Fetch

LEMMA FetchReadStep == IInv /\ (FetchRead \/ FetchFails) => IInv'
<1> SUFFICES ASSUME IInv, FetchRead \/ FetchFails PROVE IInv'
  OBVIOUS
<1> DEFINE asks == [Resting EXCEPT !.step = "ask", !.state = row,
                           !.again = work["fetch"].full \/ row.version = 0]
<1>1. PICK w : Becomes("fetch", w) /\ (w = Over("fetch") \/ w = asks)
  BY DEF FetchRead, FetchFails, Ends
<1>2. UNCHANGED <<log, row, macs, settings, keys, requests, asking, asked, shared, notified,
                  skipped, faults>>
  BY DEF FetchRead, FetchFails, dbVars, keyVars
<1>3. WorkOK(asks, log, keys)
  <2>1. row \in State /\ KnownIn(row, log)
    BY DEF IInv, RowOK, KnownIn
  <2>2. work["fetch"].full \in BOOLEAN
    BY DEF IInv, WorkOK, Works, Procs
  <2>3. asks \in Works /\ asks.list = <<>> /\ asks.state = row /\ asks.step = "ask"
    BY <2>1, <2>2, RestingWorks DEF Works, Steps, Resting, State
  <2> QED BY <2>1, <2>3, EmptyWorkOK DEF IInv
<1>4. WorkOK(w, log, keys)
  BY <1>1, <1>3, OverOK DEF IInv, Procs
<1>5. /\ WorkOK(work'["fetch"], log, keys) /\ clean' \in BOOLEAN
      /\ work' = [work EXCEPT !["fetch"] = work'["fetch"]]
  BY <1>1, <1>4, BecomesResult DEF Procs
<1>6. Plain' /\ RowOK(row', log)
  BY <1>2, <1>5 DEF IInv, Plain
<1> QED BY <1>2, <1>5, <1>6, Quiet DEF Procs

(* Patches(a, b) are items of the versions from a to b. *)
LEMMA PatchesType ==
    ASSUME NEW a \in Nat \ {0}, NEW b \in 0..MaxVersion, a <= b + 1
    PROVE  /\ Patches(a, b) \in Seq(Items)
           /\ \A n \in 1..Len(Patches(a, b)) : Patches(a, b)[n].version <= b
<1>1. b - a + 1 \in Nat
  BY BoundsAssumption
<1>2. \A n \in 1..(b - a + 1) : [snapshot |-> FALSE, version |-> a + n - 1] \in Items
  BY BoundsAssumption DEF Versions, Items
<1>3. Patches(a, b) \in [1..(b - a + 1) -> Items]
  BY <1>2 DEF Patches
<1>4. Patches(a, b) \in Seq(Items) /\ Len(Patches(a, b)) = b - a + 1
  BY <1>1, <1>3
<1>5. \A n \in 1..(b - a + 1) : Patches(a, b)[n].version = a + n - 1
  BY DEF Patches
<1> QED BY <1>1, <1>4, <1>5 DEF Versions

(* A snapshot and the patches after it. *)
LEMMA SnapshotType ==
    ASSUME NEW snap \in Versions, NEW b \in 0..MaxVersion, snap <= b
    PROVE  LET list == <<[snapshot |-> TRUE, version |-> snap]>> \o Patches(snap + 1, b)
           IN  /\ list \in Seq(Items)
               /\ \A n \in 1..Len(list) : list[n].version <= b
<1> DEFINE first == <<[snapshot |-> TRUE, version |-> snap]>>
           more == Patches(snap + 1, b)
<1>1. first \in Seq(Items) /\ Len(first) = 1 /\ first[1].version = snap
  BY DEF Items
<1>2. more \in Seq(Items) /\ \A n \in 1..Len(more) : more[n].version <= b
  <2>1. snap + 1 \in Nat \ {0} /\ snap + 1 <= b + 1
    BY BoundsAssumption DEF Versions
  <2> QED BY <2>1, PatchesType
<1> HIDE DEF first, more
<1>3. /\ first \o more \in Seq(Items)
      /\ Len(first \o more) = 1 + Len(more) /\ Len(more) \in Nat
      /\ \A n \in 1..1 + Len(more) :
            (first \o more)[n] = IF n <= 1 THEN first[n] ELSE more[n - 1]
  <2>1. Len(more) \in Nat
    BY <1>2, LenProperties
  <2>2. /\ first \o more \in Seq(Items)
        /\ Len(first \o more) = Len(first) + Len(more)
        /\ \A n \in 1..Len(first) + Len(more) :
              (first \o more)[n] = IF n <= Len(first) THEN first[n] ELSE more[n - Len(first)]
    BY <1>1, <1>2, ConcatProperties, Zenon
  <2> QED BY <1>1, <2>1, <2>2
<1>4. \A n \in 1..Len(first \o more) : (first \o more)[n].version <= b
  <2> TAKE n \in 1..Len(first \o more)
  <2>1. CASE n = 1
    BY <2>1, <1>1, <1>3
  <2>2. CASE n # 1
    BY <2>2, <1>2, <1>3
  <2> QED BY <2>1, <2>2
<1> QED BY <1>3, <1>4 DEF first, more

LEMMA FetchReplyStep == IInv /\ FetchReply => IInv'
<1> SUFFICES ASSUME IInv, FetchReply PROVE IInv'
  OBVIOUS
<1> DEFINE w == work["fetch"]
           Answer(list, more) ==
               [w EXCEPT !.step = "decode", !.list = list, !.more = more, !.again = FALSE,
                         !.full = w.again /\ w.state.version = 0
                                  /\ list # <<>> /\ Head(list).snapshot]
<1>1. /\ w \in Works /\ w.state \in State /\ KnownIn(w.state, log)
      /\ Len(log) \in 0..MaxVersion
  <2>1. w \in Works /\ KnownIn(w.state, log) /\ w.state \in State
    BY DEF IInv, WorkOK, Procs, KnownIn
  <2>2. Len(log) \in 0..MaxVersion
    BY BoundsAssumption DEF IInv, LogOK
  <2> QED BY <2>1, <2>2
<1>2. PICK last \in w.state.version..Len(log) :
        \/ Becomes("fetch", Answer(Patches(w.state.version + 1, last), last < Len(log)))
        \/ \E snap \in 1..last :
             Becomes("fetch", Answer(<<[snapshot |-> TRUE, version |-> snap]>>
                                     \o Patches(snap + 1, last), last < Len(log)))
  BY DEF FetchReply
<1>3. /\ last \in 0..MaxVersion /\ last <= Len(log)
      /\ w.state.version + 1 \in Nat \ {0} /\ w.state.version + 1 <= last + 1
  <2>1. w.state.version \in 0..MaxVersion
    BY <1>1 DEF State
  <2> QED BY <2>1, <1>1, BoundsAssumption
<1>4. PICK list : /\ Becomes("fetch", Answer(list, last < Len(log)))
                  /\ list \in Seq(Items) /\ \A n \in 1..Len(list) : list[n].version <= last
  <2>1. CASE Becomes("fetch", Answer(Patches(w.state.version + 1, last), last < Len(log)))
    BY <2>1, <1>3, PatchesType
  <2>2. CASE \E snap \in 1..last :
             Becomes("fetch", Answer(<<[snapshot |-> TRUE, version |-> snap]>>
                                     \o Patches(snap + 1, last), last < Len(log)))
    <3>1. PICK snap \in 1..last :
             Becomes("fetch", Answer(<<[snapshot |-> TRUE, version |-> snap]>>
                                     \o Patches(snap + 1, last), last < Len(log)))
      BY <2>2
    <3>2. snap \in Versions /\ snap <= last
      BY <3>1, <1>3, BoundsAssumption DEF Versions
    <3> QED BY <3>1, <3>2, <1>3, SnapshotType
  <2> QED BY <1>2, <2>1, <2>2
<1>5. PICK a : a = Answer(list, last < Len(log))
  OBVIOUS
<1>6. WorkOK(a, log, keys)
  <2>1. a \in Works /\ a.list = list /\ a.state = w.state /\ a.step = "decode"
    <3>1. w \in Works /\ list \in Seq(Items) /\ (last < Len(log)) \in BOOLEAN
      BY <1>1, <1>4
    <3>2. PICK got \in BOOLEAN :
            got = (w.again /\ w.state.version = 0 /\ list # <<>> /\ Head(list).snapshot)
      OBVIOUS
    <3>3. a = [w EXCEPT !.step = "decode", !.list = list, !.more = last < Len(log),
                        !.again = FALSE, !.full = got]
      BY <1>5, <3>2
    <3> HIDE DEF w
    <3> QED BY <3>1, <3>3 DEF Works, Steps
  <2>2. \A n \in 1..Len(list) : list[n].version <= Len(log)
    <3> TAKE n \in 1..Len(list)
    <3>1. list[n] \in Items /\ list[n].version <= last
      BY <1>4, ElementOfSeq
    <3> QED BY <3>1, <1>1, <1>3 DEF Items, Versions
  <2> QED BY <1>1, <2>1, <2>2 DEF WorkOK
<1>7. /\ WorkOK(work'["fetch"], log, keys) /\ clean' \in BOOLEAN
      /\ work' = [work EXCEPT !["fetch"] = work'["fetch"]]
  BY <1>4, <1>5, <1>6, BecomesResult DEF Procs
<1>8. UNCHANGED <<log, row, macs, settings, keys, requests, asking, asked, shared, notified,
                  skipped, faults>>
  BY DEF FetchReply, dbVars, keyVars
<1>9. Plain' /\ RowOK(row', log)
  BY <1>7, <1>8 DEF IInv, Plain
<1> QED BY <1>7, <1>8, <1>9, Quiet DEF Procs

-----------------------------------------------------------------------------
(* applyAppStatePatches. *)

LEMMA HeadIsItem ==
    ASSUME IInv, NEW p \in Procs, work[p].list # <<>>
    PROVE  /\ Head(work[p].list) \in Items
           /\ Head(work[p].list).version \in 1..Len(log)
           /\ Len(log) \in 0..MaxVersion /\ DOMAIN log = 1..Len(log)
<1>1. work[p].list \in Seq(Items)
      /\ \A n \in 1..Len(work[p].list) : work[p].list[n].version <= Len(log)
  BY DEF IInv, WorkOK, Works
<1>2. Len(work[p].list) \in Nat \ {0} /\ Head(work[p].list) = work[p].list[1]
  BY <1>1, EmptySeq
<1>3. Head(work[p].list) \in Items /\ Head(work[p].list).version <= Len(log)
  BY <1>1, <1>2, ElementOfSeq
<1>4. Len(log) \in 0..MaxVersion /\ DOMAIN log = 1..Len(log)
  BY BoundsAssumption DEF IInv, LogOK
<1> QED BY <1>3, <1>4, BoundsAssumption DEF Items, Versions

LEMMA UpdatedType ==
    ASSUME NEW hash \in Hashes, NEW ops, NEW v, NEW previous
    PROVE  Updated(hash, ops, v, previous) \in Hashes
<1>1. \A w \in Versions, i \in Indexes : hash[w][i] \in Int
  BY DEF Hashes
<1>2. \A w \in Versions, i \in Indexes :
        hash[w][i] + (IF w = v /\ ops[i] = "SET" THEN 1 ELSE 0)
                   - (IF ops[i] # "none" /\ previous[i] = w THEN 1 ELSE 0) \in Int
  BY <1>1
<1> QED BY <1>2 DEF Updated, Hashes

(* What decoding an item makes of the HashState, whatever the MACs are. *)
LEMMA NextStateType ==
    ASSUME IInv, NEW p \in Procs, work[p].list # <<>>
    PROVE  KnownIn(NextState(work[p]), log)
<1> DEFINE w == work[p]
           v == Head(w.list).version
           snapshot == HashOf(Contents(log, v))
           sum == [x \in Versions |-> [i \in Indexes |-> w.state.hash[x][i] + snapshot[x][i]]]
<1>1. v \in 0..MaxVersion /\ v <= Len(log)
  <2>1. v \in 1..Len(log) /\ Len(log) \in 0..MaxVersion
    BY HeadIsItem
  <2> HIDE DEF v
  <2> QED BY <2>1, BoundsAssumption
<1>2. w.state.hash \in Hashes
  BY DEF IInv, WorkOK, KnownIn, State
<1>3. snapshot \in Hashes
  BY HashOfType
<1>4. sum \in Hashes
  <2>1. \A x \in Versions, i \in Indexes : w.state.hash[x][i] + snapshot[x][i] \in Int
    <3> HIDE DEF w, snapshot
    <3> QED BY <1>2, <1>3 DEF Hashes
  <2> QED BY <2>1 DEF Hashes
<1>5. Updated(w.state.hash, log[v].ops, v, Lookup) \in Hashes
  BY <1>2, UpdatedType
<1>6. /\ NextState(w).version = v
      /\ NextState(w).hash \in {sum, Updated(w.state.hash, log[v].ops, v, Lookup)}
      /\ NextState(w) = [version |-> NextState(w).version, hash |-> NextState(w).hash]
  BY DEF NextState, NextHash
<1> QED BY <1>1, <1>4, <1>5, <1>6 DEF KnownIn, State

(* A hash that is compared with the MAC of a sound log is the server's. *)
LEMMA VerifiedIsTrue ==
    ASSUME IInv, NEW p \in Procs, work[p].list # <<>>, Verifies(work[p])
    PROVE  TrueIn(NextState(work[p]), log)
<1> DEFINE item == Head(work[p].list)
<1>1. item.version \in DOMAIN log
  BY HeadIsItem
<1>2. NextState(work[p]).version = item.version
  BY DEF NextState, NextHash
<1>3. NextState(work[p]).hash = Expected(item)
  BY DEF Verifies
<1>4. Sound(log) => Expected(item) = TrueHash(log, item.version)
  BY <1>1 DEF Expected, Sound
<1> QED BY <1>2, <1>3, <1>4 DEF TrueIn

LEMMA DecodeStep == ASSUME IInv, NEW p \in Procs, Decode(p) PROVE IInv'
<1>1. PICK w : w = [work[p] EXCEPT !.step = "version", !.state = NextState(work[p])]
  OBVIOUS
<1>2. work[p].list # <<>> /\ Verifies(work[p]) /\ Becomes(p, w)
  BY <1>1 DEF Decode
<1>3. KnownIn(NextState(work[p]), log) /\ TrueIn(NextState(work[p]), log)
  BY <1>2, NextStateType, VerifiedIsTrue
<1>4. WorkOK(work[p], log, keys)
  BY DEF IInv
<1>5. /\ w \in Works /\ w.list = work[p].list /\ w.step = "version"
      /\ w.state = NextState(work[p])
  BY <1>1, <1>3, <1>4 DEF WorkOK, Works, Steps, KnownIn, State
<1>6. w.state.version = Head(w.list).version
  BY <1>5 DEF NextState, NextHash
<1>7. WorkOK(w, log, keys)
  BY <1>2, <1>3, <1>4, <1>5, <1>6 DEF WorkOK
<1>8. /\ WorkOK(work'[p], log, keys) /\ clean' \in BOOLEAN
      /\ work' = [work EXCEPT ![p] = work'[p]]
  BY <1>2, <1>7, BecomesResult
<1>9. UNCHANGED <<log, row, macs, settings, keys, requests, asking, asked, shared, notified,
                  skipped, faults>>
  BY DEF Decode, dbVars, keyVars
<1>10. Plain' /\ RowOK(row', log)
  BY <1>8, <1>9 DEF IInv, Plain
<1> QED BY <1>8, <1>9, <1>10, Quiet

LEMMA DecodeFailsStep == ASSUME IInv, NEW p \in Procs, DecodeFails(p) PROVE IInv'
<1>1. work[p].list # <<>> /\ Becomes(p, Over(p))
  BY DEF DecodeFails, Ends
<1>2. UNCHANGED <<log, row, macs, settings, keys, requests, asked, shared, notified, faults>>
      /\ skipped' \in BOOLEAN
  BY DEF DecodeFails, dbVars, IInv, Plain
<1>3. asking' \subseteq Keys
  <2>1. \A n \in DOMAIN work[p].list : Needs(work[p].list[n]) \in Keys
    <3> TAKE n \in DOMAIN work[p].list
    <3>1. work[p].list \in Seq(Items) /\ n \in 1..Len(work[p].list)
          /\ work[p].list[n].version <= Len(log)
      BY DEF IInv, WorkOK, Works
    <3>2. work[p].list[n].version \in 1..Len(log) /\ log \in Seq(Patch)
      <4>1. work[p].list[n] \in Items
        BY <3>1, ElementOfSeq
      <4>2. work[p].list[n].version \in Nat \ {0} /\ Len(log) \in Nat
        BY <4>1 DEF Items, Versions, IInv, LogOK
      <4> QED BY <3>1, <4>2 DEF IInv, LogOK
    <3>3. log[work[p].list[n].version] \in Patch
      BY <3>2, ElementOfSeq
    <3> QED BY <3>3 DEF Needs, Patch
  <2>2. \/ asking' = asking \cup ({Needs(work[p].list[n]) : n \in DOMAIN work[p].list} \ keys)
        \/ asking' = asking
    BY DEF DecodeFails
  <2>3. asking \subseteq Keys
    BY DEF IInv, Plain
  <2> QED BY <2>1, <2>2, <2>3
<1>4. WorkOK(Over(p), log, keys)
  BY OverOK DEF IInv
<1>5. PICK w : w = Over(p)
  OBVIOUS
<1>6. /\ WorkOK(work'[p], log, keys) /\ clean' \in BOOLEAN
      /\ work' = [work EXCEPT ![p] = work'[p]]
  BY <1>1, <1>4, <1>5, BecomesResult
<1>7. Plain' /\ RowOK(row', log)
  BY <1>2, <1>3, <1>6 DEF IInv, Plain
<1> QED BY <1>2, <1>6, <1>7, Quiet

(* The process goes on with the list it has. *)
LEMMA OnList ==
    ASSUME IInv, NEW p \in Procs, NEW step \in {"delete", "insert"},
           work[p].step \in {"version", "delete"}
    PROVE  WorkOK([work[p] EXCEPT !.step = step], log, keys)
<1>1. WorkOK(work[p], log, keys)
  BY DEF IInv
<1> DEFINE w == [work[p] EXCEPT !.step = step]
<1>2. w \in Works /\ w.list = work[p].list /\ w.state = work[p].state /\ w.step = step
  BY <1>1 DEF WorkOK, Works, Steps
<1> HIDE DEF w
<1>3. WorkOK(w, log, keys)
  BY <1>1, <1>2 DEF WorkOK
<1> QED BY <1>3 DEF w

LEMMA PutVersionStep == ASSUME IInv, NEW p \in Procs, PutVersion(p) PROVE IInv'
<1>1. PICK step \in {"delete", "insert"} : work' = [work EXCEPT ![p].step = step]
  <2>1. CASE Removes(Head(work[p].list)) = {}
    BY <2>1 DEF PutVersion
  <2>2. CASE Removes(Head(work[p].list)) # {}
    BY <2>2 DEF PutVersion
  <2> QED BY <2>1, <2>2
<1>2. work[p].step = "version" /\ WorkOK(work[p], log, keys)
  BY DEF PutVersion, IInv
<1>3. WorkOK(work'[p], log, keys) /\ work' = [work EXCEPT ![p] = work'[p]]
  BY <1>1, <1>2, OnList DEF IInv
<1>4. RowOK(row', log)
  <2>1. row' = work[p].state \/ row' = row
    BY DEF PutVersion
  <2> QED BY <1>2, <2>1 DEF WorkOK, RowOK, IInv
<1>5. UNCHANGED <<log, macs, settings, keys, requests, asking, asked, shared, notified, skipped>>
  BY DEF PutVersion, keyVars
<1>6. faults' \in 0..MaxFaults /\ clean' \in BOOLEAN
  BY FaultCounts DEF PutVersion, IInv, Plain
<1>7. Plain'
  BY <1>5, <1>6 DEF IInv, Plain
<1> QED BY <1>3, <1>4, <1>5, <1>7, Quiet

LEMMA DeleteMACsStep == ASSUME IInv, NEW p \in Procs, DeleteMACs(p) PROVE IInv'
<1>1. work' = [work EXCEPT ![p].step = "insert"] /\ work[p].step = "delete"
  BY DEF DeleteMACs
<1>2. WorkOK(work'[p], log, keys) /\ work' = [work EXCEPT ![p] = work'[p]]
  BY <1>1, OnList DEF IInv
<1>3. UNCHANGED <<log, row, settings, keys, requests, asking, asked, shared, notified, skipped>>
  BY DEF DeleteMACs, keyVars
<1>4. faults' \in 0..MaxFaults /\ clean' \in BOOLEAN
  BY FaultCounts DEF DeleteMACs, IInv, Plain
<1>5. macs' \subseteq macs
  BY DEF DeleteMACs
<1>6. Plain' /\ RowOK(row', log)
  BY <1>3, <1>4, <1>5 DEF IInv, Plain
<1> QED BY <1>2, <1>3, <1>6, Quiet

LEMMA SetsType ==
    ASSUME IInv, NEW p \in Procs, work[p].list # <<>>
    PROVE  /\ Sets(Head(work[p].list)) \in [Indexes -> 0..MaxVersion]
           /\ News(work[p]) \in [Indexes -> 0..MaxVersion]
<1> DEFINE item == Head(work[p].list)
<1>1. item.version \in 0..MaxVersion /\ MaxVersion \in Nat
  BY HeadIsItem, BoundsAssumption DEF Items, Versions
<1>2. Contents(log, item.version) \in [Indexes -> 0..MaxVersion]
  <2>1. Contents(log, item.version) \in [Indexes -> 0..item.version]
    BY <1>1, ContentsType
  <2> HIDE DEF item
  <2> QED BY <1>1, <2>1
<1>3. Sets(item) \in [Indexes -> 0..MaxVersion]
  BY <1>1, <1>2 DEF Sets
<1>4. work[p].news \in [Indexes -> 0..MaxVersion]
  BY DEF IInv, WorkOK, Works
<1>5. \A i \in Indexes : (IF Sets(item)[i] # 0 THEN Sets(item)[i] ELSE work[p].news[i])
                            \in 0..MaxVersion
  BY <1>3, <1>4
<1> QED BY <1>3, <1>5 DEF News

LEMMA InsertMACsStep == ASSUME IInv, NEW p \in Procs, InsertMACs(p) PROVE IInv'
<1> DEFINE w == [work[p] EXCEPT !.step = "decode", !.list = Tail(work[p].list),
                                !.news = News(work[p])]
<1>1. work[p].step = "insert" /\ WorkOK(work[p], log, keys) /\ work[p].list # <<>>
      /\ work[p].state.version = Head(work[p].list).version
  BY DEF InsertMACs, IInv, WorkOK
<1>2. work' = [work EXCEPT ![p] = w]
  BY DEF InsertMACs
<1>3. /\ Tail(work[p].list) \in Seq(Items)
      /\ \A n \in 1..Len(Tail(work[p].list)) : Tail(work[p].list)[n].version <= Len(log)
  <2>1. work[p].list \in Seq(Items)
    BY <1>1 DEF WorkOK, Works
  <2>2. /\ Tail(work[p].list) \in Seq(Items)
        /\ Len(Tail(work[p].list)) = Len(work[p].list) - 1
        /\ \A n \in 1..Len(Tail(work[p].list)) : Tail(work[p].list)[n] = work[p].list[n + 1]
    BY <1>1, <2>1, HeadTailProperties
  <2>3. \A n \in 1..Len(Tail(work[p].list)) : n + 1 \in 1..Len(work[p].list)
    BY <2>1, <2>2, LenProperties
  <2> QED BY <1>1, <2>2, <2>3 DEF WorkOK
<1>4. News(work[p]) \in [Indexes -> 0..MaxVersion]
      /\ Sets(Head(work[p].list)) \in [Indexes -> 0..MaxVersion]
  BY <1>1, SetsType
<1>5. w \in Works /\ w.list = Tail(work[p].list) /\ w.state = work[p].state /\ w.step = "decode"
  BY <1>1, <1>3, <1>4 DEF WorkOK, Works, Steps
<1> HIDE DEF w
<1>6. WorkOK(w, log, keys)
  BY <1>1, <1>3, <1>5 DEF WorkOK
<1>7. WorkOK(work'[p], log, keys) /\ work' = [work EXCEPT ![p] = work'[p]]
  BY <1>2, <1>6 DEF IInv
<1>8. Added(work[p]) \subseteq [version : Versions, index : Indexes, value : Versions]
  <2>1. work[p].state.version \in Versions
    BY <1>1, HeadIsItem DEF Items
  <2>2. \A i \in Indexes : Sets(Head(work[p].list))[i] # 0 =>
                              Sets(Head(work[p].list))[i] \in Versions
    BY <1>4, BoundsAssumption DEF Versions
  <2> QED BY <2>1, <2>2 DEF Added
<1>9. macs' \subseteq macs \cup Added(work[p])
  BY DEF InsertMACs
<1>10. UNCHANGED <<log, row, settings, keys, requests, asking, asked, shared, notified, skipped>>
  BY DEF InsertMACs, keyVars
<1>11. faults' \in 0..MaxFaults /\ clean' \in BOOLEAN
  BY FaultCounts DEF InsertMACs, IInv, Plain
<1>12. Plain' /\ RowOK(row', log)
  BY <1>8, <1>9, <1>10, <1>11 DEF IInv, Plain
<1> QED BY <1>7, <1>10, <1>12, Quiet

LEMMA DispatchStep == ASSUME IInv, NEW p \in Procs, Dispatch(p) PROVE IInv'
<1> DEFINE asks == [work[p] EXCEPT !.list = <<>>, !.news = NoNews, !.full = FALSE, !.step = "ask"]
           again == [Resting EXCEPT !.step = "read", !.ops = work[p].ops]
<1>1. PICK w : Becomes(p, w) /\ w \in {asks, again, Over(p)}
  BY DEF Dispatch, Ends
<1>2. WorkOK(work[p], log, keys) /\ NoNews \in [Indexes -> 0..MaxVersion]
      /\ <<>> \in Seq(Items)
  BY BoundsAssumption, EmptySeq DEF IInv, NoNews
<1>3. WorkOK(asks, log, keys)
  <2>1. asks \in Works /\ asks.list = <<>> /\ asks.state = work[p].state /\ asks.step = "ask"
    BY <1>2 DEF WorkOK, Works, Steps
  <2> QED BY <1>2, <2>1, EmptyWorkOK DEF WorkOK, IInv
<1>4. WorkOK(again, log, keys)
  <2>1. /\ again \in Works /\ again.list = <<>> /\ again.state = NoRow
        /\ again.step = "read"
    BY <1>2, RestingWorks DEF WorkOK, Works, Steps, Resting
  <2>2. KnownIn(NoRow, log)
    BY NoRowOK DEF RowOK, IInv
  <2> QED BY <2>1, <2>2, EmptyWorkOK DEF IInv
<1>5. WorkOK(w, log, keys)
  BY <1>1, <1>3, <1>4, OverOK DEF IInv
<1>6. /\ WorkOK(work'[p], log, keys) /\ clean' \in BOOLEAN
      /\ work' = [work EXCEPT ![p] = work'[p]]
  BY <1>1, <1>5, BecomesResult
<1>7. UNCHANGED <<log, row, macs, keys, requests, asking, asked, shared, notified>>
  BY DEF Dispatch, keyVars
<1>8. settings' \in [Indexes -> 0..MaxVersion]
  <2>1. work[p].news \in [Indexes -> 0..MaxVersion] /\ settings \in [Indexes -> 0..MaxVersion]
    BY <1>2 DEF WorkOK, Works, IInv, Plain
  <2>2. PICK given : settings' = [i \in Indexes |-> IF i \in given THEN work[p].news[i]
                                                   ELSE settings[i]]
    BY DEF Dispatch
  <2> QED BY <2>1, <2>2
<1>9. skipped' \in BOOLEAN /\ faults' \in 0..MaxFaults
  <2>1. UNCHANGED <<skipped, faults>> \/ (Fault /\ skipped' = TRUE)
    BY DEF Dispatch
  <2>2. skipped \in BOOLEAN /\ faults \in 0..MaxFaults
    BY DEF IInv, Plain
  <2> QED BY <2>1, <2>2, FaultCounts
<1>10. Plain' /\ RowOK(row', log)
  BY <1>6, <1>7, <1>8, <1>9 DEF IInv, Plain
<1> QED BY <1>6, <1>7, <1>10, Quiet

LEMMA DispatchAbortsStep == IInv /\ DispatchAborts => IInv'
<1> SUFFICES ASSUME IInv, DispatchAborts PROVE IInv'
  OBVIOUS
<1>1. /\ Becomes("fetch", Over("fetch")) /\ Fault /\ skipped' = TRUE
      /\ UNCHANGED <<log, row, macs, settings, keys, requests, asking, asked, shared, notified>>
  BY DEF DispatchAborts, Ends, dbVars, keyVars
<1>2. WorkOK(Over("fetch"), log, keys)
  BY OverOK DEF IInv, Procs
<1>3. PICK w : w = Over("fetch")
  OBVIOUS
<1>4. /\ WorkOK(work'["fetch"], log, keys) /\ clean' \in BOOLEAN
      /\ work' = [work EXCEPT !["fetch"] = work'["fetch"]]
  BY <1>1, <1>2, <1>3, BecomesResult DEF Procs
<1>5. faults \in 0..MaxFaults
  BY DEF IInv, Plain
<1>6. faults' \in 0..MaxFaults
  BY <1>1, <1>5, FaultCounts
<1>7. Plain' /\ RowOK(row', log)
  BY <1>1, <1>4, <1>6 DEF IInv, Plain
<1> QED BY <1>1, <1>4, <1>7, Quiet DEF Procs

-----------------------------------------------------------------------------
(* sendAppState. *)

(* A step of a sender that changes nothing but its own work. *)
LEMMA SenderMoves ==
    ASSUME IInv, NEW s \in Senders, NEW w, WorkOK(w, log, keys),
           Becomes(s, w) \/ (work' = [work EXCEPT ![s] = w] /\ clean' \in BOOLEAN),
           UNCHANGED <<log, dbVars, keyVars, notified, skipped, faults>>
    PROVE  IInv'
<1>1. /\ WorkOK(work'[s], log, keys) /\ clean' \in BOOLEAN
      /\ work' = [work EXCEPT ![s] = work'[s]]
  <2>1. CASE Becomes(s, w)
    BY <2>1, BecomesResult DEF Procs
  <2>2. CASE work' = [work EXCEPT ![s] = w] /\ clean' \in BOOLEAN
    BY <2>2 DEF IInv, Procs
  <2> QED BY <2>1, <2>2
<1>2. Plain' /\ RowOK(row', log)
  BY <1>1 DEF IInv, Plain, dbVars, keyVars
<1> QED BY <1>1, <1>2, Quiet DEF Procs, dbVars, keyVars

LEMMA SendStartStep ==
    ASSUME IInv, NEW s \in Senders, NEW ops \in Shapes, SendStart(s, ops) PROVE IInv'
<1>1. PICK w : w = [Resting EXCEPT !.step = "read", !.ops = ops, !.again = TRUE]
  OBVIOUS
<1>2. w \in Works /\ w.list = <<>> /\ w.state = NoRow /\ w.step = "read"
  BY <1>1, RestingWorks DEF Works, Steps, Resting
<1>3. KnownIn(NoRow, log)
  BY NoRowOK DEF RowOK, IInv
<1>4. WorkOK(w, log, keys)
  BY <1>2, <1>3, EmptyWorkOK DEF IInv
<1>5. Becomes(s, w) /\ UNCHANGED <<log, dbVars, keyVars, notified, skipped, faults>>
  BY <1>1 DEF SendStart
<1> QED BY <1>4, <1>5, SenderMoves

LEMMA SendReadStep == ASSUME IInv, NEW s \in Senders, SendRead(s) PROVE IInv'
<1>1. PICK w : w = [work[s] EXCEPT !.step = "encode", !.state = row]
  OBVIOUS
<1>2. keys # {} /\ Becomes(s, w) /\ UNCHANGED <<log, dbVars, keyVars, notified, skipped, faults>>
  BY <1>1 DEF SendRead
<1>3. WorkOK(work[s], log, keys) /\ KnownIn(row, log)
  BY DEF IInv, Procs, RowOK
<1>4. w \in Works /\ w.list = work[s].list /\ w.state = row /\ w.step = "encode"
  BY <1>1, <1>3 DEF WorkOK, Works, Steps, KnownIn, State
<1>5. WorkOK(w, log, keys)
  BY <1>2, <1>3, <1>4 DEF WorkOK
<1> QED BY <1>2, <1>5, SenderMoves

LEMMA EncodeStep == ASSUME IInv, NEW s \in Senders, Encode(s) PROVE IInv'
<1> DEFINE v == work[s].state.version + 1
           mac == Updated(work[s].state.hash, work[s].ops, v, Lookup)
           ok == Consistent(work[s].state)
           up == [work[s] EXCEPT !.step = "upload", !.sound = ok, !.mac = mac]
<1>1. PICK w : Becomes(s, w) /\ (w = Over(s) \/ (w = up /\ v <= MaxVersion))
  <2>1. work[s].state \in State
    BY DEF IInv, WorkOK, KnownIn, Procs
  <2>2. v \in Nat /\ (v <= MaxVersion \/ v > MaxVersion)
    BY <2>1, BoundsAssumption DEF State
  <2>3. CASE v > MaxVersion
    <3> HIDE DEF v
    <3>1. Becomes(s, Over(s))
      BY <2>3 DEF Encode, Ends, v
    <3> QED BY <3>1
  <2>4. CASE v <= MaxVersion
    <3>1. ~ (v > MaxVersion)
      BY <2>2, <2>4, BoundsAssumption
    <3> HIDE DEF v
    <3>2. Becomes(s, up)
      BY <3>1 DEF Encode, v
    <3> QED BY <2>4, <3>2
  <2> QED BY <2>2, <2>3, <2>4
<1>2. /\ work[s].step = "encode"
      /\ UNCHANGED <<log, dbVars, keyVars, notified, skipped, faults>>
  BY DEF Encode
<1>3. WorkOK(work[s], log, keys) /\ work[s].state.hash \in Hashes /\ ok \in BOOLEAN
  BY DEF IInv, Procs, WorkOK, KnownIn, State, Plain, Consistent
<1>4. mac \in Hashes
  BY <1>3, UpdatedType
<1>5. up \in Works /\ up.list = work[s].list /\ up.state = work[s].state /\ up.step = "upload"
  <2> HIDE DEF mac, ok
  <2> QED BY <1>3, <1>4 DEF WorkOK, Works, Steps
<1> HIDE DEF up
<1>6. v <= MaxVersion => WorkOK(up, log, keys)
  BY <1>2, <1>3, <1>5, BoundsAssumption DEF WorkOK, KnownIn, State
<1>7. WorkOK(w, log, keys)
  BY <1>1, <1>6, OverOK DEF IInv, Procs
<1> QED BY <1>1, <1>2, <1>7, SenderMoves

LEMMA AcceptedStep == ASSUME IInv, NEW s \in Senders, Accepted(s) PROVE IInv'
<1> DEFINE w == work[s]
           patch == [ops |-> w.ops, key |-> Newest(keys), mac |-> w.mac, sound |-> w.sound]
           resync == [Resting EXCEPT !.step = "resync"]
<1>1. w.step = "upload" /\ w.state.version = Len(log) /\ log' = Append(log, patch)
  BY DEF Accepted
<1>2. WorkOK(w, log, keys) /\ LogOK(log) /\ keys \subseteq Keys
  BY DEF IInv, Procs, Plain
<1>3. Newest(keys) \in Keys
  <2>1. keys # {} /\ IsFiniteSet(keys) /\ keys \in SUBSET Nat
    BY <1>1, <1>2, KeysAssumption, FS_Subset DEF WorkOK
  <2> QED BY <1>2, <2>1, NewestIsIn
<1>4. patch \in Patch /\ Len(log) < MaxVersion
  BY <1>1, <1>2, <1>3 DEF WorkOK, Works, Patch
<1> HIDE DEF patch
<1>5. LogOK(log') /\ Extends(log, log')
  <2>1. log \in Seq(Patch) /\ Len(log) \in Nat
    BY <1>2 DEF LogOK
  <2>2. /\ log' \in Seq(Patch) /\ Len(log') = Len(log) + 1
        /\ \A n \in 1..Len(log) : log'[n] = log[n]
    BY <1>1, <1>4, <2>1, AppendProperties
  <2> QED BY <1>4, <2>1, <2>2, BoundsAssumption DEF LogOK, Extends
<1>6. PICK x : Becomes(s, x) /\ (x = resync \/ x = Over(s))
  BY DEF Accepted, Ends
<1>7. WorkOK(resync, log', keys)
  <2>1. /\ resync \in Works /\ resync.list = <<>> /\ resync.state = NoRow
        /\ resync.step = "resync"
    BY RestingWorks DEF Works, Steps, Resting
  <2>2. KnownIn(NoRow, log')
    BY <1>5, NoRowOK DEF RowOK
  <2> QED BY <1>5, <2>1, <2>2, EmptyWorkOK
<1>8. WorkOK(x, log', keys)
  BY <1>5, <1>6, <1>7, OverOK DEF Procs
<1>9. /\ WorkOK(work'[s], log', keys) /\ clean' \in BOOLEAN
      /\ work' = [work EXCEPT ![s] = work'[s]]
  BY <1>6, <1>8, BecomesResult DEF Procs
<1>10. UNCHANGED <<row, macs, settings, keys, requests, asking, asked, shared, notified,
                   skipped, faults>>
  BY DEF Accepted, dbVars, keyVars
<1>11. Plain'
  BY <1>9, <1>10 DEF IInv, Plain
<1>12. RowOK(row', log')
  BY <1>5, <1>10, <1>2, TrueStays DEF IInv, RowOK
<1> QED BY <1>5, <1>9, <1>10, <1>11, <1>12, Moves DEF Procs

LEMMA ConflictStep == ASSUME IInv, NEW s \in Senders, Conflict(s) PROVE IInv'
<1> DEFINE v == work[s].state.version
           retry == [Resting EXCEPT !.step = "decode", !.ops = work[s].ops, !.state = work[s].state,
                                    !.list = Patches(v + 1, Len(log))]
<1>1. PICK w : /\ w = Over(s) \/ w = retry
               /\ Becomes(s, w) \/ (work' = [work EXCEPT ![s] = w] /\ clean' \in BOOLEAN)
  <2>1. CASE work[s].again
    <3>1. work' = [work EXCEPT ![s] = retry] /\ clean' \in BOOLEAN
      BY <2>1 DEF Conflict
    <3> QED BY <3>1
  <2>2. CASE ~work[s].again
    BY <2>2 DEF Conflict, Ends
  <2> QED BY <2>1, <2>2
<1>2. UNCHANGED <<log, dbVars, keyVars, notified, skipped, faults>>
  BY DEF Conflict
<1>3. /\ WorkOK(work[s], log, keys) /\ work[s].state \in State /\ v \in 0..MaxVersion
      /\ v < Len(log) /\ Len(log) \in 0..MaxVersion
  <2>1. WorkOK(work[s], log, keys) /\ v < Len(log)
    BY DEF IInv, Procs, Conflict
  <2>2. work[s].state \in State /\ v \in 0..MaxVersion
    BY <2>1 DEF WorkOK, KnownIn, State
  <2>3. Len(log) \in 0..MaxVersion
    BY BoundsAssumption DEF IInv, LogOK
  <2> QED BY <2>1, <2>2, <2>3
<1>4. /\ Patches(v + 1, Len(log)) \in Seq(Items)
      /\ \A n \in 1..Len(Patches(v + 1, Len(log))) :
            Patches(v + 1, Len(log))[n].version <= Len(log)
  <2>1. v + 1 \in Nat \ {0} /\ v + 1 <= Len(log) + 1
    BY <1>3
  <2> QED BY <1>3, <2>1, PatchesType
<1>5. /\ retry \in Works /\ retry.list = Patches(v + 1, Len(log))
      /\ retry.state = work[s].state /\ retry.step = "decode"
  <2>1. work[s].ops \in Shapes \cup {NoOps}
    BY <1>3 DEF WorkOK, Works
  <2> QED BY <1>3, <1>4, <2>1, RestingWorks DEF Works, Steps, Resting, State
<1> HIDE DEF retry
<1>6. WorkOK(retry, log, keys)
  BY <1>3, <1>4, <1>5 DEF WorkOK
<1>7. WorkOK(w, log, keys)
  BY <1>1, <1>6, OverOK DEF IInv, Procs
<1> QED BY <1>1, <1>2, <1>7, SenderMoves

LEMMA SendFailsStep == ASSUME IInv, NEW s \in Senders, SendFails(s) PROVE IInv'
<1>1. PICK w : w = Over(s)
  OBVIOUS
<1>2. Becomes(s, w) /\ UNCHANGED <<log, dbVars, keyVars, notified, skipped, faults>>
  BY <1>1 DEF SendFails, Ends
<1>3. WorkOK(w, log, keys)
  BY <1>1, OverOK DEF IInv, Procs
<1> QED BY <1>2, <1>3, SenderMoves

-----------------------------------------------------------------------------
LEMMA StepIInv == IInv /\ [Next]_vars => IInv'
<1> SUFFICES ASSUME IInv, [Next]_vars PROVE IInv'
  OBVIOUS
<1>1. CASE UNCHANGED vars
  BY <1>1 DEF vars, IInv, Plain
<1>2. ASSUME NEW p \in Procs, Apply(p) PROVE IInv'
  BY <1>2, DecodeStep, DecodeFailsStep, PutVersionStep, DeleteMACsStep, InsertMACsStep,
     DispatchStep DEF Apply
<1>3. ASSUME NEW s \in Senders, Send(s) PROVE IInv'
  BY <1>3, SendStartStep, SendReadStep, EncodeStep, AcceptedStep, ConflictStep,
     SendFailsStep, FetchBeginStep DEF Send
<1>4. CASE FetchStep
  BY <1>4, FetchReadStep, FetchReplyStep DEF FetchStep
<1> QED BY <1>1, <1>2, <1>3, <1>4, PublishStep, KeyShareStep, RequestStep, CrashStep,
           FetchBeginStep, DispatchAbortsStep DEF Next

LEMMA Invariant == Spec => []IInv
BY InitIInv, StepIInv, PTL DEF Spec

(* Every variable keeps its type, whatever is uploaded, shared, sent or     *)
(* fails: in particular the version of a row of MACs is one the log has.    *)
THEOREM TypeCorrect == Spec => []TypeOK
<1>1. IInv => TypeOK
  <2> SUFFICES ASSUME IInv PROVE TypeOK
    OBVIOUS
  <2>1. \A p \in Procs : work[p] \in Works
    BY DEF IInv, WorkOK
  <2>2. work \in [Procs -> Works]
    BY <2>1 DEF IInv
  <2>3. row \in [version : 0..MaxVersion, hash : Hashes]
    BY DEF IInv, RowOK, KnownIn, State
  <2>4. /\ log \in Seq([ops : Shapes \cup {NoOps}, key : Keys, mac : Hashes, sound : BOOLEAN])
        /\ Len(log) <= MaxVersion
    BY DEF IInv, LogOK, Patch
  <2> QED BY <2>2, <2>3, <2>4 DEF IInv, Plain, TypeOK
<1> QED BY <1>1, Invariant, PTL

(* For any indexes, patches, senders and faults: if every patch of the log  *)
(* carries the right snapshot MAC, the stored hash is the server's at the   *)
(* stored version.                                                          *)
THEOREM StoredHashIsServers == Spec => []HashIsServers
<1>1. IInv => HashIsServers
  BY DEF IInv, RowOK, TrueIn, Sound, HashIsServers
<1> QED BY <1>1, Invariant, PTL

-----------------------------------------------------------------------------
(* The MACs and the uploads.  From a clean start one process at a time has  *)
(* a HashState to apply patches to; what its step says about the tables is  *)
(* LeaderOK, for each of the three statements that store a patch, and Kept  *)
(* says what it still owes the stores.  Senders that read, encode or upload *)
(* meanwhile rely on nothing.  Shaped and MacOK hold of every process,      *)
(* clean or not.                                                            *)

(* GetAppStateMutationMAC over the rows m. *)
LatestOf(R) ==
    IF R = {} THEN 0 ELSE (CHOOSE r \in R : \A q \in R : q.version <= r.version).value
Latest(m) == [x \in Indexes |-> LatestOf({r \in m : r.index = x})]

(* The items of a list follow one another, and its first one the state. *)
Shaped(w) ==
    /\ \A n \in 1..Len(w.list) :
          /\ w.list[n].version = w.list[1].version + n - 1
          /\ n > 1 => ~w.list[n].snapshot
    /\ (w.step = "decode" /\ w.list # <<>> /\ ~Head(w.list).snapshot) =>
          Head(w.list).version = w.state.version + 1
    /\ w.step \in {"decode", "version", "delete", "insert"} => ~w.again
    /\ w.step \notin {"decode", "version", "delete", "insert"} => w.news = NoNews

(* A patch that was encoded from consistent tables carries the right hash,  *)
(* unless the server will refuse it.                                        *)
MacOK(w, l) ==
    LET v == w.state.version
    IN  (w.step = "upload" /\ w.sound /\ v = Len(l)) =>
            w.mac = Updated(TrueHash(l, v), w.ops, v + 1, Contents(l, v))

(* The entries before an item, and the same without those it removes. *)
Before(item, l) == IF item.snapshot THEN NoNews ELSE Contents(l, item.version - 1)
Drops(item, l, x) == ~item.snapshot /\ l[item.version].ops[x] = "REMOVE"
Trimmed(item, l) ==
    [x \in Indexes |-> IF Drops(item, l, x) THEN 0 ELSE Before(item, l)[x]]

Follows(item, r) == IF item.snapshot THEN r.version = 0 ELSE item.version = r.version + 1

LeaderOK(w, l, r, m) ==
    /\ r.hash = TrueHash(l, r.version)
    /\ (w.step = "read" /\ w.full) => r.version = 0
    /\ (w.step = "ask" /\ w.again) => r.version = 0
    /\ w.step \in {"ask", "decode", "delete", "insert"} => w.state = r
    /\ (w.step \in {"decode", "version"} /\ w.list # <<>>) => Follows(Head(w.list), r)
    /\ w.step = "version" => w.state.hash = TrueHash(l, w.state.version)
    /\ w.step = "delete" => Latest(m) = Before(Head(w.list), l)
    /\ w.step = "insert" => Latest(m) = Trimmed(Head(w.list), l)
    /\ w.step \in {"delete", "insert"} => \A q \in m : q.version < r.version
    /\ w.step \notin {"delete", "insert"} =>
          Latest(m) = Contents(l, r.version) /\ \A q \in m : q.version <= r.version

(* What an item gives to the stores. *)
Gives(item, l, x) == item.snapshot \/ l[item.version].ops[x] = "SET"

Kept(w, l, r, s) ==
    \A x \in Indexes :
        LET v == Contents(l, r.version)[x]
        IN  \/ v = 0
            \/ w.step \in {"delete", "insert"} /\ Gives(Head(w.list), l, x)
            \/ v = (IF w.news[x] # 0 THEN w.news[x] ELSE s[x])

CleanOK(w, l, r, m, lost, s) == LeaderOK(w, l, r, m) /\ (lost \/ Kept(w, l, r, s))

Leads(p) == \A q \in Procs : Holds(q) => q = p

SInv ==
    /\ \A p \in Procs : Shaped(work[p]) /\ MacOK(work[p], log)
    /\ UploadsAreValid
    /\ clean => \E p \in Procs :
                   Leads(p) /\ CleanOK(work[p], log, row, macs, skipped, settings)

-----------------------------------------------------------------------------
(* Lemmas about entries and MACs. *)

(* What one patch does to the entries. *)
LEMMA ContentsStep ==
    ASSUME NEW l, NEW v \in Nat \ {0}, NEW x \in Indexes
    PROVE  Contents(l, v)[x] = IF l[v].ops[x] = "none" THEN Contents(l, v - 1)[x]
                               ELSE IF l[v].ops[x] = "REMOVE" THEN 0 ELSE v
<1> DEFINE T == Touching(l, v, x)
           U == Touching(l, v - 1, x)
<1>1. T = U \cup (IF l[v].ops[x] = "none" THEN {} ELSE {v}) /\ v \notin U
      /\ U \subseteq 1..(v - 1)
  BY DEF Touching
<1>2. CASE l[v].ops[x] = "none"
  <2>1. T = U
    BY <1>1, <1>2
  <2> QED BY <2>1, <1>2 DEF Contents
<1>3. CASE l[v].ops[x] # "none"
  <2>1. v \in T /\ \A y \in T : y <= v
    BY <1>1, <1>3
  <2>2. \A w \in T : (\A y \in T : y <= w) => w = v
    BY <2>1, <1>1
  <2>3. Newest(T) = v
    <3> HIDE DEF T
    <3> QED BY <2>1, <2>2 DEF Newest
  <2>4. T # {}
    BY <2>1
  <2> HIDE DEF T
  <2> QED BY <2>3, <2>4, <1>3 DEF Contents, T
<1> QED BY <1>2, <1>3

LEMMA NoContents == ASSUME NEW l PROVE Contents(l, 0) = NoNews
<1>1. \A i : Touching(l, 0, i) = {}
  BY DEF Touching
<1> QED BY <1>1 DEF Contents, NoNews

(* updateHash over the right hash and the right MACs gives the right hash. *)
LEMMA HashStep ==
    ASSUME NEW l, NEW v \in Versions, l[v].ops \in [Indexes -> Operations]
    PROVE  Updated(TrueHash(l, v - 1), l[v].ops, v, Contents(l, v - 1)) = TrueHash(l, v)
<1> DEFINE c == Contents(l, v - 1)
           d == Contents(l, v)
           ops == l[v].ops
<1>1. v \in Nat \ {0} /\ v - 1 \in 0..MaxVersion
  BY BoundsAssumption DEF Versions
<1>2. c \in [Indexes -> 0..(v - 1)]
  BY <1>1, ContentsType
<1>3. \A x \in Indexes : d[x] = IF ops[x] = "none" THEN c[x]
                                ELSE IF ops[x] = "REMOVE" THEN 0 ELSE v
  BY <1>1, ContentsStep
<1>4. ASSUME NEW w \in Versions, NEW x \in Indexes
      PROVE  (IF c[x] = w THEN 1 ELSE 0) + (IF w = v /\ ops[x] = "SET" THEN 1 ELSE 0)
                   - (IF ops[x] # "none" /\ c[x] = w THEN 1 ELSE 0)
             = IF d[x] = w THEN 1 ELSE 0
  <2>1. ops[x] \in {"none", "SET", "REMOVE"} /\ c[x] \in 0..(v - 1) /\ w \in Nat \ {0}
    BY <1>2, BoundsAssumption DEF Operations, Versions
  <2>2. d[x] = IF ops[x] = "none" THEN c[x] ELSE IF ops[x] = "REMOVE" THEN 0 ELSE v
    BY <1>3
  <2> HIDE DEF c, d, ops
  <2>3. CASE ops[x] = "none"
    BY <2>1, <2>2, <2>3, <1>1
  <2>4. CASE ops[x] = "REMOVE"
    BY <2>1, <2>2, <2>4, <1>1
  <2>5. CASE ops[x] = "SET"
    BY <2>1, <2>2, <2>5, <1>1
  <2> QED BY <2>1, <2>3, <2>4, <2>5
<1> HIDE DEF c, d, ops
<1>5. Updated(HashOf(c), ops, v, c) = HashOf(d)
  BY <1>4 DEF Updated, HashOf
<1> QED BY <1>5 DEF TrueHash, c, d, ops

LEMMA LatestOfNone == Latest({}) = NoNews
BY DEF Latest, LatestOf, NoNews

LEMMA LatestIsLookup == Latest(macs) = Lookup
BY DEF Latest, LatestOf, Lookup

LEMMA LatestWithout ==
    ASSUME NEW m, NEW S
    PROVE  Latest({r \in m : r.index \notin S})
              = [x \in Indexes |-> IF x \in S THEN 0 ELSE Latest(m)[x]]
<1> DEFINE k == {r \in m : r.index \notin S}
<1>1. \A x \in Indexes : {r \in k : r.index = x}
                            = IF x \in S THEN {} ELSE {r \in m : r.index = x}
  OBVIOUS
<1> HIDE DEF k
<1>2. ASSUME NEW x \in Indexes
      PROVE  Latest(k)[x] = IF x \in S THEN 0 ELSE Latest(m)[x]
  <2>1. Latest(k)[x] = LatestOf({r \in k : r.index = x})
        /\ Latest(m)[x] = LatestOf({r \in m : r.index = x})
    BY DEF Latest
  <2>2. LatestOf({}) = 0
    BY DEF LatestOf
  <2> QED BY <1>1, <2>1, <2>2
<1>3. Latest(k) = [x \in Indexes |-> Latest(k)[x]]
  BY DEF Latest
<1> QED BY <1>2, <1>3 DEF k

(* Rows of a version above all others are the latest of their indexes. *)
RowsOf(S, v) == {[version |-> v, index |-> x, value |-> S[x]] : x \in {y \in Indexes : S[y] # 0}}

LEMMA LatestWith ==
    ASSUME NEW m, NEW v \in Nat, NEW S,
           \A q \in m : q.version \in Nat /\ q.version < v
    PROVE  \A x \in Indexes :
              Latest(m \cup RowsOf(S, v))[x] = IF S[x] # 0 THEN S[x] ELSE Latest(m)[x]
<1> DEFINE rows == RowsOf(S, v)
           k == m \cup rows
           Of(x) == {r \in k : r.index = x}
<1>0. \A r : r \in rows <=> \E x \in Indexes :
             S[x] # 0 /\ r = [version |-> v, index |-> x, value |-> S[x]]
  BY DEF RowsOf
<1> HIDE DEF rows
<1>1. ASSUME NEW x \in Indexes, S[x] # 0 PROVE Latest(k)[x] = S[x]
  <2> DEFINE new == [version |-> v, index |-> x, value |-> S[x]]
  <2>1. new \in Of(x) /\ new.version = v /\ new.value = S[x]
    BY <1>0, <1>1
  <2>2. \A q \in Of(x) : q = new \/ (q.version \in Nat /\ q.version < v)
    BY <1>0
  <2> HIDE DEF new, k
  <2>3. \A q \in Of(x) : q.version <= new.version
    BY <2>1, <2>2
  <2>4. \A r \in Of(x) : (\A q \in Of(x) : q.version <= r.version) => r = new
    BY <2>1, <2>2
  <2>5. (CHOOSE r \in Of(x) : \A q \in Of(x) : q.version <= r.version) = new
    BY <2>1, <2>3, <2>4
  <2> QED BY <2>1, <2>5 DEF Latest, LatestOf
<1>2. ASSUME NEW x \in Indexes, S[x] = 0 PROVE Latest(k)[x] = Latest(m)[x]
  <2>1. Of(x) = {r \in m : r.index = x}
    BY <1>0, <1>2
  <2>2. Latest(k)[x] = LatestOf(Of(x)) /\ Latest(m)[x] = LatestOf({r \in m : r.index = x})
    BY DEF Latest
  <2> QED BY <2>1, <2>2, Zenon
<1> QED BY <1>1, <1>2 DEF rows

-----------------------------------------------------------------------------
(* How the invariant moves on. *)

(* The tables as they are when nobody applies patches. *)
AtRest(l, r, m, lost, s) ==
    /\ r.hash = TrueHash(l, r.version)
    /\ Latest(m) = Contents(l, r.version)
    /\ \A q \in m : q.version <= r.version
    /\ \/ lost
       \/ \A x \in Indexes : LET v == Contents(l, r.version)[x] IN v = 0 \/ v = s[x]

(* A process that holds nothing owes nothing. *)
LEMMA RestIsClean ==
    ASSUME NEW l, NEW r, NEW m, NEW lost, NEW s, AtRest(l, r, m, lost, s),
           NEW w, w.step \in {"idle", "read", "encode", "upload", "resync", "done"},
           w.step = "read" => ~w.full, w.news = NoNews
    PROVE  CleanOK(w, l, r, m, lost, s)
<1>1. LeaderOK(w, l, r, m)
  BY DEF AtRest, LeaderOK
<1>2. \A x \in Indexes : w.news[x] = 0
  BY DEF NoNews
<1>3. lost \/ Kept(w, l, r, s)
  BY <1>2 DEF AtRest, Kept
<1> QED BY <1>1, <1>3 DEF CleanOK

LEMMA CleanIsRest ==
    ASSUME NEW l, NEW r, NEW m, NEW lost, NEW s, NEW w, CleanOK(w, l, r, m, lost, s),
           w.step \notin {"delete", "insert"}, NEW loses, lost => loses,
           loses \/ w.news = NoNews
    PROVE  AtRest(l, r, m, loses, s)
<1>1. w.news = NoNews => \A x \in Indexes : w.news[x] = 0
  BY DEF NoNews
<1>2. loses \/ \A x \in Indexes : LET v == Contents(l, r.version)[x] IN v = 0 \/ v = s[x]
  BY <1>1 DEF CleanOK, Kept
<1> QED BY <1>2 DEF CleanOK, LeaderOK, AtRest

LEMMA OverIsClean ==
    ASSUME NEW l, NEW r, NEW m, NEW lost, NEW s, AtRest(l, r, m, lost, s), NEW p \in Procs
    PROVE  /\ CleanOK(Over(p), l, r, m, lost, s) /\ CleanOK(Resting, l, r, m, lost, s)
           /\ Shaped(Over(p)) /\ MacOK(Over(p), l)
<1>1. /\ Over(p).step \in {"idle", "done"} /\ ~Over(p).full /\ Over(p).news = NoNews
      /\ Over(p).list = <<>>
  BY DEF Over, Resting
<1>2. Resting.step = "idle" /\ ~Resting.full /\ Resting.news = NoNews
  BY DEF Resting
<1>3. Len(<<>>) = 0
  BY EmptySeq
<1> QED BY <1>1, <1>2, <1>3, RestIsClean DEF Shaped, MacOK

(* The log grows. *)
LEMMA MacStays ==
    ASSUME NEW l, NEW m, LogOK(l), Extends(l, m), NEW k, NEW w, WorkOK(w, l, k), MacOK(w, l)
    PROVE  MacOK(w, m)
<1>1. Len(l) \in Nat /\ w.state.version \in 0..Len(l) /\ Len(l) <= Len(m)
  BY DEF LogOK, WorkOK, KnownIn, State, Extends
<1>2. /\ Contents(m, w.state.version) = Contents(l, w.state.version)
      /\ TrueHash(m, w.state.version) = TrueHash(l, w.state.version)
  BY <1>1, ContentsStable, TrueHashStable
<1>3. w.state.version = Len(m) => w.state.version = Len(l)
  BY <1>1
<1> QED BY <1>2, <1>3 DEF MacOK

LEMMA RestStays ==
    ASSUME NEW l, NEW n, LogOK(l), Extends(l, n), NEW r, RowOK(r, l),
           NEW m, NEW lost, NEW s, AtRest(l, r, m, lost, s)
    PROVE  AtRest(n, r, m, lost, s)
<1>1. Len(l) \in Nat /\ r.version \in 0..Len(l)
  BY DEF LogOK, KnownIn, State, RowOK
<1>2. /\ Contents(n, r.version) = Contents(l, r.version)
      /\ TrueHash(n, r.version) = TrueHash(l, r.version)
  BY <1>1, ContentsStable, TrueHashStable
<1> QED BY <1>2 DEF AtRest

LEMMA CleanStays ==
    ASSUME NEW l, NEW n, LogOK(l), Extends(l, n), NEW k, NEW w, WorkOK(w, l, k),
           NEW r, RowOK(r, l), NEW m, NEW lost, NEW s, CleanOK(w, l, r, m, lost, s)
    PROVE  CleanOK(w, n, r, m, lost, s)
<1>1. /\ Len(l) \in Nat /\ Len(l) <= MaxVersion /\ w.state.version \in 0..Len(l)
      /\ r.version \in 0..Len(l)
  BY DEF LogOK, WorkOK, KnownIn, State, RowOK
<1>2. /\ Contents(n, r.version) = Contents(l, r.version)
      /\ TrueHash(n, r.version) = TrueHash(l, r.version)
      /\ TrueHash(n, w.state.version) = TrueHash(l, w.state.version)
  BY <1>1, ContentsStable, TrueHashStable
<1>3. w.step \in {"delete", "insert"} =>
        /\ Before(Head(w.list), n) = Before(Head(w.list), l)
        /\ n[Head(w.list).version] = l[Head(w.list).version]
  <2> SUFFICES ASSUME w.step \in {"delete", "insert"}
               PROVE  /\ Before(Head(w.list), n) = Before(Head(w.list), l)
                      /\ n[Head(w.list).version] = l[Head(w.list).version]
    OBVIOUS
  <2>1. w.list # <<>> /\ w.list \in Seq(Items) /\ w.state.version = Head(w.list).version
    BY DEF WorkOK, Works
  <2>2. Head(w.list) \in Items
    BY <2>1, HeadTailProperties
  <2>3. Head(w.list).version \in 1..Len(l) /\ Head(w.list).version - 1 \in 0..Len(l)
    BY <1>1, <2>1, <2>2, BoundsAssumption DEF Items, Versions
  <2> QED BY <1>1, <2>3, ContentsStable DEF Before, Extends
<1>4. w.step \in {"delete", "insert"} =>
        /\ Trimmed(Head(w.list), n) = Trimmed(Head(w.list), l)
        /\ \A x : Gives(Head(w.list), n, x) = Gives(Head(w.list), l, x)
  BY <1>3 DEF Trimmed, Drops, Gives
<1>5. LeaderOK(w, n, r, m)
  BY <1>2, <1>3, <1>4 DEF CleanOK, LeaderOK
<1>6. Kept(w, l, r, s) => Kept(w, n, r, s)
  BY <1>2, <1>4 DEF Kept
<1> QED BY <1>5, <1>6 DEF CleanOK

(* The one process that applies patches makes a step. *)
LEMMA LeaderMoves ==
    ASSUME IInv, SInv, NEW p \in Procs, Holds(p), Extends(log, log'),
           work' = [work EXCEPT ![p] = work'[p]],
           Shaped(work'[p]), MacOK(work'[p], log'), UploadsAreValid', clean' => clean,
           clean' /\ CleanOK(work[p], log, row, macs, skipped, settings)
             => CleanOK(work'[p], log', row', macs', skipped', settings')
    PROVE  SInv'
<1>1. \A q \in Procs : q # p => work'[q] = work[q]
  BY DEF IInv
<1>2. \A q \in Procs : Shaped(work'[q]) /\ MacOK(work'[q], log')
  <2> TAKE q \in Procs
  <2>1. CASE q # p
    BY <1>1, <2>1, MacStays DEF IInv, SInv
  <2> QED BY <2>1
<1>3. ASSUME clean'
      PROVE  \E q \in Procs : Leads(q)' /\ CleanOK(work[q], log, row, macs, skipped, settings)'
  <2>1. PICK q \in Procs : Leads(q) /\ CleanOK(work[q], log, row, macs, skipped, settings)
    BY <1>3 DEF SInv
  <2>2. q = p
    BY <2>1 DEF Leads
  <2>3. Leads(p)'
    BY <1>1, <2>1, <2>2 DEF Leads, Holds
  <2> QED BY <1>3, <2>1, <2>2, <2>3
<1> QED BY <1>2, <1>3 DEF SInv

(* Process p gets a HashState, as the only one or not, where it had none:   *)
(* the tables were at rest.                                                 *)
LEMMA LeaderStarts ==
    ASSUME IInv, SInv, NEW p \in Procs, ~Holds(p), Holds(p)',
           UNCHANGED <<log, row, macs, settings, skipped>>,
           \A q \in Procs : q # p => (Holds(q) => Holds(q)'),
           \A q \in Procs : Shaped(work'[q]) /\ MacOK(work'[q], log'),
           clean' => clean /\ Alone',
           clean' /\ AtRest(log, row, macs, skipped, settings)
             => CleanOK(work'[p], log, row, macs, skipped, settings)
    PROVE  SInv'
<1>1. UploadsAreValid'
  BY DEF SInv, UploadsAreValid
<1>2. ASSUME clean'
      PROVE  Leads(p)' /\ CleanOK(work[p], log, row, macs, skipped, settings)'
  <2>1. PICK q \in Procs : Leads(q) /\ CleanOK(work[q], log, row, macs, skipped, settings)
    BY <1>2 DEF SInv
  <2>2. Leads(p)'
    BY <1>2 DEF Alone, Leads
  <2>3. ~Holds(q)
    BY <1>2 DEF Alone
  <2>4. work[q].step \notin {"delete", "insert"} /\ work[q].news = NoNews
    BY <2>3 DEF Holds, SInv, Shaped
  <2>5. AtRest(log, row, macs, skipped, settings)
    BY <2>1, <2>4, CleanIsRest
  <2>6. CleanOK(work'[p], log, row, macs, skipped, settings)
    BY <1>2, <2>5
  <2> QED BY <2>2, <2>6
<1> QED BY <1>1, <1>2 DEF SInv

(* A process that applies no patches makes a step beside the one that does. *)
LEMMA Bystander ==
    ASSUME IInv, SInv, NEW p \in Procs, ~Holds(p), Extends(log, log'),
           UNCHANGED <<row, macs, settings, skipped>>,
           work' = [work EXCEPT ![p] = work'[p]], p # "fetch",
           NEW w, work'[p] = w, Shaped(w), MacOK(w, log'),
           w.step \in {"idle", "read", "encode", "upload", "resync", "done"},
           w.step = "read" => ~w.full, w.news = NoNews,
           UploadsAreValid', clean' => clean
    PROVE  SInv'
<1>1. \A q \in Procs : q # p => work'[q] = work[q]
  BY DEF IInv
<1>2. \A q \in Procs : Shaped(work'[q]) /\ MacOK(work'[q], log')
  <2> TAKE q \in Procs
  <2>1. CASE q # p
    BY <1>1, <2>1, MacStays DEF IInv, SInv
  <2> QED BY <2>1
<1>3. ASSUME clean'
      PROVE  \E q \in Procs : Leads(q)' /\ CleanOK(work[q], log, row, macs, skipped, settings)'
  <2>1. PICK q \in Procs : Leads(q) /\ CleanOK(work[q], log, row, macs, skipped, settings)
    BY <1>3 DEF SInv
  <2>2. ~Holds(p)'
    BY DEF Holds
  <2>3. Leads(q)'
    BY <1>1, <2>1, <2>2 DEF Leads, Holds
  <2>4. CASE q # p
    <3>1. CleanOK(work[q], log', row, macs, skipped, settings)
      BY <2>1, CleanStays DEF IInv
    <3> QED BY <1>1, <2>3, <2>4, <3>1
  <2>5. CASE q = p
    <3>1. work[p].step \notin {"delete", "insert"} /\ work[p].news = NoNews
      BY DEF Holds, SInv, Shaped
    <3>2. AtRest(log, row, macs, skipped, settings)
      BY <2>1, <2>5, <3>1, CleanIsRest
    <3>3. AtRest(log', row, macs, skipped, settings)
      BY <3>2, RestStays DEF IInv
    <3>4. CleanOK(w, log', row, macs, skipped, settings)
      BY <3>3, RestIsClean
    <3> QED BY <2>3, <2>5, <3>4
  <2> QED BY <2>4, <2>5
<1> QED BY <1>2, <1>3 DEF SInv

(* It ends. *)
LEMMA BystanderEnds ==
    ASSUME IInv, SInv, NEW s \in Senders, ~Holds(s), Ends(s),
           UNCHANGED <<log, row, macs, settings, skipped>>
    PROVE  SInv'
<1>1. /\ work' = [work EXCEPT ![s] = work'[s]] /\ work'[s] = Over(s) /\ (clean' => clean)
      /\ s \in Procs /\ s # "fetch"
  BY BecomesResult, SendersAssumption DEF Ends, Becomes, IInv, Procs
<1>2. Extends(log, log') /\ UploadsAreValid'
  BY ExtendsItself DEF IInv, SInv, UploadsAreValid
<1>3. PICK w : w = Over(s)
  OBVIOUS
<1>4. w.step \in {"idle", "done"} /\ w.news = NoNews /\ w.list = <<>>
  BY <1>3 DEF Over, Resting
<1>5. Shaped(w) /\ MacOK(w, log')
  BY <1>4, EmptySeq DEF Shaped, MacOK
<1> QED BY <1>1, <1>2, <1>3, <1>4, <1>5, Bystander

(* Nobody moves. *)
LEMMA LeaderWaits ==
    ASSUME IInv, SInv, Extends(log, log'), UploadsAreValid',
           UNCHANGED <<row, macs, settings, skipped, work, clean>>
    PROVE  SInv'
<1>1. \A q \in Procs : Shaped(work'[q]) /\ MacOK(work'[q], log')
  BY MacStays DEF IInv, SInv
<1>2. ASSUME clean'
      PROVE  \E q \in Procs : Leads(q)' /\ CleanOK(work[q], log, row, macs, skipped, settings)'
  <2>1. PICK q \in Procs : Leads(q) /\ CleanOK(work[q], log, row, macs, skipped, settings)
    BY <1>2 DEF SInv
  <2>2. CleanOK(work[q], log', row, macs, skipped, settings)
    BY <2>1, CleanStays DEF IInv
  <2>3. Leads(q)'
    BY <2>1 DEF Leads, Holds
  <2> QED BY <2>2, <2>3
<1> QED BY <1>1, <1>2 DEF SInv

(* The process that applies patches ends without storing anything more. *)
LEMMA LeaderEnds ==
    ASSUME IInv, SInv, NEW p \in Procs, Holds(p), work[p].step \notin {"delete", "insert"},
           UNCHANGED <<log, row, macs, settings>>, Ends(p),
           skipped => skipped', skipped' \/ work[p].news = NoNews
    PROVE  SInv'
<1>1. work' = [work EXCEPT ![p] = work'[p]] /\ work'[p] = Over(p) /\ (clean' => clean)
  BY BecomesResult DEF Ends, Becomes, IInv
<1>2. Extends(log, log') /\ UploadsAreValid'
  BY ExtendsItself DEF IInv, SInv, UploadsAreValid
<1>3. PICK w : w = Over(p)
  OBVIOUS
<1>4. Shaped(w) /\ MacOK(w, log)
  <2>1. /\ Over(p).step \in {"idle", "done"} /\ Over(p).news = NoNews /\ Over(p).list = <<>>
    BY DEF Over, Resting
  <2> QED BY <1>3, <2>1, EmptySeq DEF Shaped, MacOK
<1>5. CleanOK(work[p], log, row, macs, skipped, settings)
        => CleanOK(w, log, row, macs, skipped', settings)
  BY <1>3, CleanIsRest, OverIsClean
<1> QED BY <1>1, <1>2, <1>3, <1>4, <1>5, LeaderMoves

-----------------------------------------------------------------------------
LEMMA InitSInv == Init => SInv
<1> SUFFICES ASSUME Init PROVE SInv
  OBVIOUS
<1>1. \A p \in Procs : work[p] = Resting
  BY DEF Init
<1>2. Shaped(Resting) /\ MacOK(Resting, log)
  BY EmptySeq DEF Shaped, MacOK, Resting
<1>3. UploadsAreValid
  BY EmptySeq DEF Init, UploadsAreValid
<1>4. AtRest(log, row, macs, skipped, settings)
  BY ZeroIsTrue, NoContents, LatestOfNone DEF Init, AtRest, NoRow, NoNews
<1>5. CleanOK(Resting, log, row, macs, skipped, settings)
  BY <1>4, OverIsClean DEF Procs
<1>6. Leads("fetch") /\ "fetch" \in Procs
  BY <1>1 DEF Leads, Holds, Resting, Procs
<1> QED BY <1>1, <1>2, <1>3, <1>5, <1>6 DEF SInv

-----------------------------------------------------------------------------
(* The server and the phone. *)

LEMMA PublishKeeps ==
    ASSUME IInv, IInv', SInv, NEW ops \in Shapes, NEW k \in Keys, Publish(ops, k) PROVE SInv'
<1> DEFINE n == Len(log) + 1
           l == Append(log, [ops |-> ops, key |-> k, mac |-> Zero, sound |-> TRUE])
<1>1. log \in Seq(Patch) /\ Len(log) \in Nat
  BY DEF IInv, LogOK
<1>2. l \in Seq(Patch) /\ Len(l) = n /\ \A v \in 1..Len(log) : l[v] = log[v]
  BY <1>1, RestingWorks, ShapesAssumption DEF Patch
<1>3. log' = [l EXCEPT ![n] = [l[n] EXCEPT !.mac = TrueHash(l, n)]]
  BY <1>1, <1>2 DEF Publish
<1> HIDE DEF l
<1>4. l[n] \in Patch /\ DOMAIN l = 1..n
  BY <1>1, <1>2, ElementOfSeq
<1>5. /\ \A v \in 1..n : log'[v].ops = l[v].ops
      /\ \A v \in 1..Len(log) : log'[v] = log[v]
      /\ log'[n].mac = TrueHash(l, n) /\ DOMAIN log' = 1..n
  BY <1>1, <1>2, <1>3, <1>4 DEF Patch
<1>6. Extends(log, log')
  BY <1>1, <1>2, <1>3, <1>5, LenProperties DEF Extends, IInv, LogOK
<1>7. TrueHash(log', n) = TrueHash(l, n)
  <2>1. \A x \in Indexes : Touching(log', n, x) = Touching(l, n, x)
    BY <1>5 DEF Touching
  <2>2. \A x \in Indexes : Touching(l, n, x) # {} => Newest(Touching(l, n, x)) \in 1..n
    BY <1>1, TouchingNewest
  <2>3. Contents(log', n) = Contents(l, n)
    BY <1>5, <2>1, <2>2 DEF Contents
  <2> QED BY <2>3 DEF TrueHash
<1>8. UploadsAreValid'
  <2> SUFFICES ASSUME NEW v \in 1..n, log'[v].sound PROVE log'[v].mac = TrueHash(log', v)
    BY <1>5 DEF UploadsAreValid
  <2>1. CASE v = n
    BY <2>1, <1>5, <1>7
  <2>2. CASE v \in 1..Len(log)
    BY <2>2, <1>1, <1>5, <1>6, TrueHashStable DEF SInv, UploadsAreValid
  <2> QED BY <1>1, <2>1, <2>2
<1>9. UNCHANGED <<row, macs, settings, skipped, work, clean>>
  BY DEF Publish, dbVars
<1> QED BY <1>6, <1>8, <1>9, LeaderWaits

LEMMA AroundKeeps ==
    ASSUME IInv, SInv, (\E k \in Keys : KeyShare(k)) \/ RequestMissing PROVE SInv'
<1>1. UNCHANGED <<log, row, macs, settings, skipped, work, clean>>
  BY DEF KeyShare, RequestMissing, dbVars
<1>2. Extends(log, log') /\ UploadsAreValid'
  BY <1>1, ExtendsItself DEF IInv, SInv, UploadsAreValid
<1> QED BY <1>1, <1>2, LeaderWaits

LEMMA CrashKeeps == ASSUME IInv, SInv, Crash PROVE SInv'
<1>1. UNCHANGED log /\ clean' = FALSE
  BY DEF Crash
<1>2. \A p \in Procs : work'[p] = Resting \/ work'[p] = Over(p)
  BY DEF Crash
<1>3. Shaped(Resting) /\ MacOK(Resting, log)
  BY EmptySeq DEF Shaped, MacOK, Resting
<1>4. \A p \in Procs : Shaped(Over(p)) /\ MacOK(Over(p), log)
  BY EmptySeq DEF Shaped, MacOK, Resting, Over
<1>5. UploadsAreValid'
  BY <1>1 DEF SInv, UploadsAreValid
<1> QED BY <1>1, <1>2, <1>3, <1>4, <1>5 DEF SInv

-----------------------------------------------------------------------------
(* fetchAppState. *)

LEMMA FetchingIs ==
    ASSUME NEW full \in BOOLEAN, NEW onlyNew, NEW l
    PROVE  LET w == Fetching(full, onlyNew)
           IN  /\ w.step = "read" /\ w.full = full /\ w.news = NoNews
               /\ Shaped(w) /\ MacOK(w, l)
BY EmptySeq DEF Fetching, Resting, Shaped, MacOK

LEMMA FetchBeginKeeps ==
    ASSUME IInv, SInv, FetchOnNotification \/ FetchOnKeyShare
                       \/ \E s \in Senders : FetchAfterSend(s)
    PROVE  SInv'
<1>1. "fetch" \in Procs /\ ~Holds("fetch")
      /\ UNCHANGED <<log, row, macs, settings, skipped>>
  BY DEF Procs, Holds, FetchOnNotification, FetchOnKeyShare, FetchAfterSend, Lock
<1>2. clean' => clean /\ Alone'
  BY DEF FetchOnNotification, FetchOnKeyShare, FetchAfterSend, Becomes
<1>3. PICK onlyNew \in BOOLEAN :
        \/ work' = [work EXCEPT !["fetch"] = Fetching(FALSE, onlyNew)]
        \/ \E s \in Senders :
              /\ work[s].step = "resync"
              /\ work' = [work EXCEPT ![s] = Over(s), !["fetch"] = Fetching(FALSE, onlyNew)]
  BY DEF FetchOnNotification, FetchOnKeyShare, FetchAfterSend, Becomes
<1>4. PICK w : w = Fetching(FALSE, onlyNew)
  OBVIOUS
<1>5. w.step = "read" /\ ~w.full /\ w.news = NoNews /\ Shaped(w) /\ MacOK(w, log)
  BY <1>4, FetchingIs
<1>6. work'["fetch"] = w
      /\ \A q \in Procs : q # "fetch" =>
            work'[q] = work[q] \/ (work[q].step = "resync" /\ work'[q] = Over(q))
  BY <1>1, <1>3, <1>4, SendersAssumption DEF IInv, Procs
<1>7. Holds("fetch")' /\ \A q \in Procs : q # "fetch" => (Holds(q) => Holds(q)')
  BY <1>5, <1>6 DEF Holds
<1>8. \A q \in Procs : Shaped(work'[q]) /\ MacOK(work'[q], log')
  <2>1. \A q \in Procs : Shaped(Over(q)) /\ MacOK(Over(q), log)
    BY EmptySeq DEF Shaped, MacOK, Resting, Over
  <2> QED BY <1>1, <1>5, <1>6, <2>1 DEF SInv
<1>9. AtRest(log, row, macs, skipped, settings)
        => CleanOK(w, log, row, macs, skipped, settings)
  BY <1>5, RestIsClean
<1> QED BY <1>1, <1>2, <1>6, <1>7, <1>8, <1>9, LeaderStarts

LEMMA FetchFullyKeeps == ASSUME IInv, SInv, FetchFully PROVE SInv'
<1>1. PICK w : w = Fetching(TRUE, FALSE)
  OBVIOUS
<1>2. w.step = "read" /\ w.full /\ w.news = NoNews /\ Shaped(w) /\ MacOK(w, log)
  BY <1>1, FetchingIs
<1>3. /\ work'["fetch"] = w /\ "fetch" \in Procs
      /\ \A q \in Procs : q # "fetch" => work'[q] = work[q]
  BY <1>1 DEF IInv, Procs, FetchFully
<1>4. UNCHANGED log /\ row' = NoRow /\ macs' = {}
  BY DEF FetchFully, Lock
<1>5. \A q \in Procs : Shaped(work'[q]) /\ MacOK(work'[q], log')
  BY <1>2, <1>3, <1>4 DEF SInv
<1>6. UploadsAreValid'
  BY <1>4 DEF SInv, UploadsAreValid
<1>7. CleanOK(w, log, NoRow, {}, skipped', settings')
  <2>1. TrueHash(log, 0) = Zero /\ Contents(log, 0) = NoNews /\ Latest({}) = NoNews
    BY ZeroIsTrue, NoContents, LatestOfNone
  <2>2. LeaderOK(w, log, NoRow, {})
    BY <1>2, <2>1 DEF LeaderOK, NoRow
  <2>3. Kept(w, log, NoRow, settings')
    BY <2>1 DEF Kept, NoRow, NoNews
  <2> QED BY <2>2, <2>3 DEF CleanOK
<1>8. ASSUME clean' PROVE Leads("fetch")'
  BY <1>2, <1>3, <1>8 DEF FetchFully, Alone, Holds, Leads
<1> QED BY <1>3, <1>4, <1>5, <1>6, <1>7, <1>8 DEF SInv

LEMMA FetchReadKeeps == ASSUME IInv, SInv, FetchRead \/ FetchFails PROVE SInv'
<1> DEFINE asks == [Resting EXCEPT !.step = "ask", !.state = row,
                           !.again = work["fetch"].full \/ row.version = 0]
<1>1. "fetch" \in Procs /\ Holds("fetch") /\ work["fetch"].step \in {"read", "ask"}
  BY DEF FetchRead, FetchFails, Holds, Procs
<1>2. UNCHANGED <<log, row, macs, settings, skipped>>
  BY DEF FetchRead, FetchFails, dbVars
<1>3. work["fetch"].news = NoNews
  BY <1>1 DEF SInv, Shaped
<1>4. CASE Ends("fetch")
  BY <1>1, <1>2, <1>3, <1>4, LeaderEnds
<1>5. CASE work["fetch"].step = "read" /\ Becomes("fetch", asks)
  <2>1. PICK w : w = asks
    OBVIOUS
  <2>2. /\ w.step = "ask" /\ w.state = row /\ w.list = <<>> /\ w.news = NoNews
        /\ w.again = (work["fetch"].full \/ row.version = 0)
    BY <2>1 DEF Resting
  <2>3. Shaped(w) /\ MacOK(w, log)
    BY <2>2, EmptySeq DEF Shaped, MacOK
  <2>4. CleanOK(work["fetch"], log, row, macs, skipped, settings)
          => CleanOK(w, log, row, macs, skipped, settings)
    BY <2>2, <1>3, <1>5 DEF CleanOK, LeaderOK, Kept
  <2>5. /\ work' = [work EXCEPT !["fetch"] = work'["fetch"]] /\ work'["fetch"] = w
        /\ (clean' => clean)
    BY <1>5, <2>1, <1>1, BecomesResult DEF Becomes, IInv
  <2>6. Extends(log, log') /\ UploadsAreValid'
    BY <1>2, ExtendsItself DEF IInv, SInv, UploadsAreValid
  <2> QED BY <1>1, <1>2, <2>3, <2>4, <2>5, <2>6, LeaderMoves
<1> QED BY <1>4, <1>5 DEF FetchRead, FetchFails

-----------------------------------------------------------------------------
(* The lists that a process receives follow one another. *)
LEMMA PatchesFollow ==
    ASSUME NEW a \in Nat \ {0}, NEW b \in 0..MaxVersion, a <= b + 1
    PROVE  LET list == Patches(a, b)
           IN  /\ list \in Seq(Items)
               /\ \A n \in 1..Len(list) : list[n] = [snapshot |-> FALSE, version |-> a + n - 1]
               /\ \A n \in 1..Len(list) : list[n].version = list[1].version + n - 1
               /\ list # <<>> => Head(list) = [snapshot |-> FALSE, version |-> a]
<1> DEFINE list == Patches(a, b)
<1>1. list \in Seq(Items)
  BY PatchesType
<1>2. b - a + 1 \in Nat /\ DOMAIN list = 1..(b - a + 1)
  BY BoundsAssumption DEF Patches
<1>3. Len(list) = b - a + 1
  BY <1>1, <1>2, LenProperties
<1>4. \A n \in 1..Len(list) : list[n] = [snapshot |-> FALSE, version |-> a + n - 1]
  BY <1>3 DEF Patches
<1> HIDE DEF list
<1>5. \A n \in 1..Len(list) : list[n].version = list[1].version + n - 1
  <2> TAKE n \in 1..Len(list)
  <2>1. 1 \in 1..Len(list) /\ n \in Nat
    BY <1>2, <1>3
  <2>2. /\ list[1] = [snapshot |-> FALSE, version |-> a + 1 - 1]
        /\ list[n] = [snapshot |-> FALSE, version |-> a + n - 1]
    BY <1>4, <2>1
  <2> QED BY <2>1, <2>2
<1>6. list # <<>> => Head(list) = [snapshot |-> FALSE, version |-> a]
  <2> HAVE list # <<>>
  <2>1. Head(list) = list[1] /\ Len(list) \in Nat /\ Len(list) # 0
    BY <1>1, EmptySeq, LenProperties
  <2>2. list[1] = [snapshot |-> FALSE, version |-> a + 1 - 1] /\ a + 1 - 1 = a
    BY <1>4, <2>1
  <2> QED BY <2>1, <2>2
<1> QED BY <1>1, <1>4, <1>5, <1>6 DEF list

LEMMA SnapshotFollows ==
    ASSUME NEW snap \in Versions, NEW b \in 0..MaxVersion, snap <= b
    PROVE  LET list == <<[snapshot |-> TRUE, version |-> snap]>> \o Patches(snap + 1, b)
           IN  /\ \A n \in 1..Len(list) : /\ list[n].version = list[1].version + n - 1
                                          /\ n > 1 => ~list[n].snapshot
               /\ list # <<>> /\ Head(list).snapshot
<1> DEFINE first == <<[snapshot |-> TRUE, version |-> snap]>>
           more == Patches(snap + 1, b)
           list == first \o more
<1>1. first \in Seq(Items) /\ Len(first) = 1 /\ first[1] = [snapshot |-> TRUE, version |-> snap]
  BY DEF Items
<1>2. /\ more \in Seq(Items)
      /\ \A n \in 1..Len(more) : more[n] = [snapshot |-> FALSE, version |-> snap + n]
  <2>1. snap \in Nat /\ snap + 1 \in Nat \ {0} /\ snap + 1 <= b + 1
    BY BoundsAssumption DEF Versions
  <2>2. /\ more \in Seq(Items)
        /\ \A n \in 1..Len(more) : more[n] = [snapshot |-> FALSE, version |-> snap + 1 + n - 1]
    BY <2>1, PatchesFollow
  <2>3. \A n \in 1..Len(more) : snap + 1 + n - 1 = snap + n
    BY <2>1
  <2> HIDE DEF more
  <2> QED BY <2>2, <2>3
<1> HIDE DEF first, more
<1>3. /\ list \in Seq(Items) /\ Len(list) = 1 + Len(more) /\ Len(more) \in Nat
      /\ \A n \in 1..Len(list) : list[n] = IF n <= 1 THEN first[n] ELSE more[n - 1]
  <2>1. Len(more) \in Nat
    BY <1>2, LenProperties
  <2>2. /\ list \in Seq(Items) /\ Len(list) = Len(first) + Len(more)
        /\ \A n \in 1..Len(first) + Len(more) :
              list[n] = IF n <= Len(first) THEN first[n] ELSE more[n - Len(first)]
    BY <1>1, <1>2, ConcatProperties, Zenon
  <2> HIDE DEF list
  <2> QED BY <1>1, <2>1, <2>2
<1> HIDE DEF list
<1>4. list # <<>> /\ Head(list) = list[1] /\ list[1] = [snapshot |-> TRUE, version |-> snap]
  <2>1. 1 \in 1..Len(list) /\ Len(list) # 0
    BY <1>3
  <2>2. list[1] = first[1] /\ list # <<>>
    BY <1>3, <2>1, EmptySeq
  <2> QED BY <1>1, <1>3, <2>2
<1>5. ASSUME NEW n \in 1..Len(list)
      PROVE  list[n].version = snap + n - 1 /\ (n > 1 => ~list[n].snapshot)
  <2>1. snap \in Nat /\ n \in Nat
    BY <1>3, BoundsAssumption DEF Versions
  <2>2. CASE n = 1
    BY <2>1, <2>2, <1>4
  <2>3. CASE n # 1
    <3>1. n - 1 \in 1..Len(more) /\ list[n] = more[n - 1]
      BY <1>3, <2>3
    <3>2. list[n] = [snapshot |-> FALSE, version |-> snap + (n - 1)]
      BY <1>2, <3>1
    <3> QED BY <2>1, <3>2
  <2> QED BY <2>2, <2>3
<1> QED BY <1>4, <1>5 DEF list, first, more

LEMMA FetchReplyKeeps == ASSUME IInv, SInv, FetchReply PROVE SInv'
<1> DEFINE w == work["fetch"]
           Answer(list, more) ==
               [w EXCEPT !.step = "decode", !.list = list, !.more = more, !.again = FALSE,
                         !.full = w.again /\ w.state.version = 0
                                  /\ list # <<>> /\ Head(list).snapshot]
<1>1. "fetch" \in Procs /\ Holds("fetch") /\ w.step = "ask"
      /\ UNCHANGED <<log, row, macs, settings, skipped>>
  BY DEF FetchReply, Holds, Procs, dbVars
<1>2. /\ w \in Works /\ w.state.version \in 0..MaxVersion /\ w.news = NoNews
      /\ Len(log) \in 0..MaxVersion
  <2>1. w \in Works /\ KnownIn(w.state, log)
    BY <1>1 DEF IInv, WorkOK
  <2>2. w.state.version \in 0..MaxVersion
    BY <2>1 DEF KnownIn, State
  <2>3. Len(log) \in 0..MaxVersion
    BY BoundsAssumption DEF IInv, LogOK
  <2>4. w.news = NoNews
    BY <1>1 DEF SInv, Shaped
  <2> QED BY <2>1, <2>2, <2>3, <2>4
<1>3. PICK last \in w.state.version..Len(log) :
        \/ Becomes("fetch", Answer(Patches(w.state.version + 1, last), last < Len(log)))
        \/ /\ w.again
           /\ \E snap \in 1..last :
                Becomes("fetch", Answer(<<[snapshot |-> TRUE, version |-> snap]>>
                                        \o Patches(snap + 1, last), last < Len(log)))
  BY DEF FetchReply
<1>4. /\ last \in 0..MaxVersion /\ last <= Len(log)
      /\ w.state.version + 1 \in Nat \ {0} /\ w.state.version + 1 <= last + 1
  <2>1. last \in w.state.version..Len(log)
    BY <1>3
  <2> HIDE DEF w
  <2> QED BY <2>1, <1>2, BoundsAssumption
<1>5. PICK list :
        /\ Becomes("fetch", Answer(list, last < Len(log)))
        /\ \A n \in 1..Len(list) : /\ list[n].version = list[1].version + n - 1
                                   /\ n > 1 => ~list[n].snapshot
        /\ list # <<>> => \/ ~Head(list).snapshot /\ Head(list).version = w.state.version + 1
                          \/ Head(list).snapshot /\ w.again
  <2>1. CASE Becomes("fetch", Answer(Patches(w.state.version + 1, last), last < Len(log)))
    <3>2. PICK list : list = Patches(w.state.version + 1, last)
      OBVIOUS
    <3>3. /\ \A n \in 1..Len(list) :
                list[n] = [snapshot |-> FALSE, version |-> w.state.version + 1 + n - 1]
          /\ \A n \in 1..Len(list) : list[n].version = list[1].version + n - 1
          /\ list # <<>> => Head(list) = [snapshot |-> FALSE, version |-> w.state.version + 1]
      BY <3>2, <1>4, PatchesFollow
    <3> HIDE DEF w
    <3>4. \A n \in 1..Len(list) : ~list[n].snapshot
      <4> TAKE n \in 1..Len(list)
      <4>1. list[n] = [snapshot |-> FALSE, version |-> w.state.version + 1 + n - 1]
        BY <3>3
      <4> QED BY <4>1
    <3>5. list # <<>> => ~Head(list).snapshot /\ Head(list).version = w.state.version + 1
      BY <3>3
    <3> QED BY <2>1, <3>2, <3>3, <3>4, <3>5
  <2>2. CASE w.again /\ \E snap \in 1..last :
                Becomes("fetch", Answer(<<[snapshot |-> TRUE, version |-> snap]>>
                                        \o Patches(snap + 1, last), last < Len(log)))
    <3>1. PICK snap \in 1..last :
                Becomes("fetch", Answer(<<[snapshot |-> TRUE, version |-> snap]>>
                                        \o Patches(snap + 1, last), last < Len(log)))
      BY <2>2
    <3>2. snap \in Versions /\ snap <= last
      BY <1>4, BoundsAssumption DEF Versions
    <3>3. PICK list : list = <<[snapshot |-> TRUE, version |-> snap]>> \o Patches(snap + 1, last)
      OBVIOUS
    <3>4. /\ \A n \in 1..Len(list) : /\ list[n].version = list[1].version + n - 1
                                     /\ n > 1 => ~list[n].snapshot
          /\ list # <<>> /\ Head(list).snapshot
      BY <3>2, <3>3, <1>4, SnapshotFollows
    <3> HIDE DEF w
    <3> QED BY <3>1, <3>3, <3>4, <2>2
  <2> QED BY <1>3, <2>1, <2>2
<1>6. PICK a : a = Answer(list, last < Len(log))
  OBVIOUS
<1>7. /\ a.step = "decode" /\ a.list = list /\ a.state = w.state /\ a.news = NoNews
      /\ ~a.again
  BY <1>2, <1>6 DEF Works
<1>8. Shaped(a) /\ MacOK(a, log)
  BY <1>5, <1>7 DEF Shaped, MacOK
<1>9. CleanOK(w, log, row, macs, skipped, settings) => CleanOK(a, log, row, macs, skipped, settings)
  <2> SUFFICES ASSUME CleanOK(w, log, row, macs, skipped, settings)
               PROVE  CleanOK(a, log, row, macs, skipped, settings)
    OBVIOUS
  <2>1. w.state = row /\ (w.again => row.version = 0)
    BY <1>1 DEF CleanOK, LeaderOK
  <2>2. list # <<>> => Follows(Head(list), row)
    BY <1>5, <2>1 DEF Follows
  <2> HIDE DEF w
  <2>3. LeaderOK(a, log, row, macs)
    BY <1>1, <1>7, <2>1, <2>2 DEF CleanOK, LeaderOK
  <2>4. Kept(w, log, row, settings) => Kept(a, log, row, settings)
    BY <1>1, <1>2, <1>7 DEF Kept
  <2> QED BY <2>3, <2>4 DEF CleanOK
<1>10. /\ work' = [work EXCEPT !["fetch"] = work'["fetch"]] /\ work'["fetch"] = a
       /\ (clean' => clean)
  BY <1>1, <1>5, <1>6, BecomesResult DEF Becomes, IInv
<1>11. Extends(log, log') /\ UploadsAreValid'
  BY <1>1, ExtendsItself DEF IInv, SInv, UploadsAreValid
<1> QED BY <1>1, <1>8, <1>9, <1>10, <1>11, LeaderMoves

-----------------------------------------------------------------------------
(* applyAppStatePatches. *)

LEMMA DecodeKeeps == ASSUME IInv, SInv, NEW p \in Procs, Decode(p) PROVE SInv'
<1> DEFINE v == Head(work[p].list).version
<1>1. /\ Holds(p) /\ work[p].step = "decode" /\ work[p].list # <<>>
      /\ UNCHANGED <<log, row, macs, settings, skipped>>
  BY DEF Decode, Holds, dbVars
<1>2. PICK w : w = [work[p] EXCEPT !.step = "version", !.state = NextState(work[p])]
  OBVIOUS
<1>3. Becomes(p, w)
  BY <1>2 DEF Decode
<1>4. work[p] \in Works
  BY DEF IInv, WorkOK
<1>5. /\ w.step = "version" /\ w.list = work[p].list /\ w.state = NextState(work[p])
      /\ w.news = work[p].news /\ w.again = work[p].again
  BY <1>2, <1>4 DEF Works
<1>6. Shaped(w) /\ MacOK(w, log)
  BY <1>1, <1>5 DEF SInv, Shaped, MacOK
<1>7. ASSUME CleanOK(work[p], log, row, macs, skipped, settings)
      PROVE  NextState(work[p]).hash = TrueHash(log, NextState(work[p]).version)
  <2>1. /\ work[p].state = row /\ row.hash = TrueHash(log, row.version)
        /\ Latest(macs) = Contents(log, row.version) /\ Follows(Head(work[p].list), row)
    BY <1>1, <1>7 DEF CleanOK, LeaderOK
  <2>2. v \in Versions /\ v \in 1..Len(log) /\ NextState(work[p]).version = v
    BY <1>1, HeadIsItem DEF Items, NextState
  <2>3. CASE Head(work[p].list).snapshot
    <3>1. row.version = 0 /\ row.hash = Zero
      BY <2>1, <2>3, ZeroIsTrue DEF Follows
    <3>2. NextState(work[p]).hash = [x \in Versions |-> [i \in Indexes |->
                            Zero[x][i] + TrueHash(log, v)[x][i]]]
      BY <2>1, <2>3, <3>1 DEF NextState, NextHash, TrueHash
    <3>3. \A x \in Versions, i \in Indexes : Zero[x][i] + TrueHash(log, v)[x][i] = TrueHash(log, v)[x][i]
      BY DEF Zero, TrueHash, HashOf
    <3>4. TrueHash(log, v) = [x \in Versions |-> [i \in Indexes |-> TrueHash(log, v)[x][i]]]
      BY DEF TrueHash, HashOf
    <3> QED BY <2>2, <3>2, <3>3, <3>4
  <2>4. CASE ~Head(work[p].list).snapshot
    <3>1. v = row.version + 1 /\ row.version \in 0..MaxVersion
      BY <2>1, <2>4 DEF Follows, IInv, RowOK, KnownIn, State
    <3>2. row.version = v - 1
      BY <3>1
    <3>3. NextState(work[p]).hash
             = Updated(TrueHash(log, v - 1), log[v].ops, v, Contents(log, v - 1))
      BY <2>1, <2>4, <3>2, LatestIsLookup DEF NextState, NextHash
    <3>4. log[v].ops \in [Indexes -> Operations]
      <4>1. log[v] \in Patch
        BY <2>2, ElementOfSeq DEF IInv, LogOK
      <4> QED BY <4>1, ShapesAssumption DEF Patch, NoOps, Operations
    <3> QED BY <2>2, <3>3, <3>4, HashStep
  <2> QED BY <2>3, <2>4
<1>8. CleanOK(work[p], log, row, macs, skipped, settings)
        => CleanOK(w, log, row, macs, skipped, settings)
  BY <1>1, <1>5, <1>7 DEF CleanOK, LeaderOK, Kept
<1>9. /\ work' = [work EXCEPT ![p] = work'[p]] /\ work'[p] = w /\ (clean' => clean)
  BY <1>3, BecomesResult DEF Becomes, IInv
<1>10. Extends(log, log') /\ UploadsAreValid'
  BY <1>1, ExtendsItself DEF IInv, SInv, UploadsAreValid
<1> QED BY <1>1, <1>6, <1>8, <1>9, <1>10, LeaderMoves

LEMMA DecodeFailsKeeps == ASSUME IInv, SInv, NEW p \in Procs, DecodeFails(p) PROVE SInv'
<1>1. Holds(p) /\ work[p].step = "decode" /\ Ends(p)
      /\ UNCHANGED <<log, row, macs, settings>> /\ skipped' = (skipped \/ work[p].news # NoNews)
  BY DEF DecodeFails, Holds, dbVars
<1> QED BY <1>1, LeaderEnds

-----------------------------------------------------------------------------
(* What is known of the item that is being stored. *)
LEMMA Item ==
    ASSUME IInv, SInv, NEW p \in Procs, Storing(p)
    PROVE  LET item == Head(work[p].list)
           IN  /\ item \in Items /\ item.version \in 1..Len(log) /\ item.version \in Versions
               /\ log[item.version] \in Patch
               /\ work[p].list # <<>> /\ work[p].state.version = item.version
               /\ work[p].state \in State /\ Holds(p)
               /\ Removes(item) = {x \in Indexes : Drops(item, log, x)}
<1>1. work[p].step \in {"version", "delete", "insert"} /\ WorkOK(work[p], log, keys)
  BY DEF Storing, IInv
<1>2. work[p].list # <<>> /\ work[p].state.version = Head(work[p].list).version
      /\ work[p].state \in State
  BY <1>1 DEF WorkOK, KnownIn
<1>3. /\ Head(work[p].list) \in Items /\ Head(work[p].list).version \in 1..Len(log)
      /\ Head(work[p].list).version \in Versions
  BY <1>2, HeadIsItem DEF Items
<1>4. log[Head(work[p].list).version] \in Patch
  BY <1>3, ElementOfSeq DEF IInv, LogOK
<1>5. Removes(Head(work[p].list)) = {x \in Indexes : Drops(Head(work[p].list), log, x)}
  BY DEF Removes, Drops
<1> QED BY <1>1, <1>2, <1>3, <1>4, <1>5 DEF Holds

(* The entries after an item, from those before it. *)
LEMMA AfterItem ==
    ASSUME NEW item \in Items, NEW x \in Indexes,
           log[item.version].ops \in [Indexes -> Operations]
    PROVE  /\ Sets(item)[x] \in Nat
           /\ Contents(log, item.version)[x]
                 = IF Sets(item)[x] # 0 THEN Sets(item)[x] ELSE Trimmed(item, log)[x]
           /\ ~Gives(item, log, x) => Sets(item)[x] = 0
           /\ (Contents(log, item.version)[x] # 0 /\ Gives(item, log, x)) =>
                 Sets(item)[x] = Contents(log, item.version)[x]
<1> DEFINE v == item.version
<1>1. v \in Nat \ {0} /\ v \in 0..MaxVersion
  BY BoundsAssumption DEF Items, Versions
<1>2. Contents(log, v) \in [Indexes -> 0..v]
  <2> HIDE DEF v
  <2> QED BY <1>1, ContentsType
<1>3. CASE item.snapshot
  <2>1. Sets(item) = Contents(log, v) /\ Trimmed(item, log)[x] = 0
    BY <1>3 DEF Sets, Trimmed, Before, NoNews
  <2> HIDE DEF v
  <2> QED BY <1>1, <1>2, <2>1, <1>3 DEF v, Gives
<1>4. CASE ~item.snapshot
  <2>1. /\ Sets(item)[x] = IF log[v].ops[x] = "SET" THEN v ELSE 0
        /\ Trimmed(item, log)[x] = IF log[v].ops[x] = "REMOVE" THEN 0 ELSE Contents(log, v - 1)[x]
        /\ Gives(item, log, x) <=> log[v].ops[x] = "SET"
    BY <1>4 DEF Sets, Trimmed, Drops, Before, Gives
  <2>4. Contents(log, v - 1)[x] \in Nat
    <3>1. v - 1 \in 0..MaxVersion
      BY BoundsAssumption DEF Items, Versions
    <3>2. Contents(log, v - 1) \in [Indexes -> 0..(v - 1)]
      BY <3>1, ContentsType
    <3> HIDE DEF v
    <3> QED BY <3>1, <3>2
  <2>2. Contents(log, v)[x] = IF log[v].ops[x] = "none" THEN Contents(log, v - 1)[x]
                              ELSE IF log[v].ops[x] = "REMOVE" THEN 0 ELSE v
    <3> HIDE DEF v
    <3> QED BY <1>1, ContentsStep
  <2>3. log[v].ops[x] \in {"none", "SET", "REMOVE"}
    BY DEF Operations
  <2>5. PICK after, before, ops, sets :
          /\ after = Contents(log, v)[x] /\ before = Contents(log, v - 1)[x]
          /\ ops = log[v].ops[x] /\ sets = Sets(item)[x]
    OBVIOUS
  <2>6. CASE ops = "SET"
    BY <1>1, <2>1, <2>2, <2>4, <2>5, <2>6
  <2>7. CASE ops = "REMOVE"
    BY <1>1, <2>1, <2>2, <2>4, <2>5, <2>7
  <2>8. CASE ops = "none"
    BY <1>1, <2>1, <2>2, <2>4, <2>5, <2>8
  <2> QED BY <2>3, <2>5, <2>6, <2>7, <2>8
<1> QED BY <1>3, <1>4

LEMMA MACVersions == ASSUME IInv, NEW q \in macs PROVE q.version \in Nat
<1>1. q.version \in Versions
  BY DEF IInv, Plain
<1> QED BY <1>1, BoundsAssumption DEF Versions

LEMMA PatchOps == ASSUME NEW patch \in Patch PROVE patch.ops \in [Indexes -> Operations]
BY ShapesAssumption DEF Patch, NoOps, Operations

LEMMA PutVersionKeeps == ASSUME IInv, SInv, NEW p \in Procs, PutVersion(p) PROVE SInv'
<1> DEFINE item == Head(work[p].list)
<1>1. work[p].step = "version" /\ Storing(p) /\ UNCHANGED <<log, macs, settings, skipped>>
  BY DEF PutVersion, Storing
<1>2. PICK step : /\ work' = [work EXCEPT ![p].step = step]
                  /\ step = IF Removes(item) = {} THEN "insert" ELSE "delete"
  BY DEF PutVersion
<1>3. PICK w : w = [work[p] EXCEPT !.step = step]
  OBVIOUS
<1>4. /\ work[p] \in Works /\ work'[p] = w /\ work' = [work EXCEPT ![p] = work'[p]]
  BY <1>2, <1>3 DEF IInv, WorkOK
<1>5. /\ w.step = step /\ w.list = work[p].list /\ w.state = work[p].state
      /\ w.news = work[p].news /\ w.again = work[p].again
  BY <1>3, <1>4 DEF Works
<1>6. step \in {"delete", "insert"}
  BY <1>2
<1>7. Shaped(w) /\ MacOK(w, log)
  BY <1>1, <1>5, <1>6 DEF SInv, Shaped, MacOK
<1>8. clean' => clean /\ row' = work[p].state
  BY DEF PutVersion
<1>9. ASSUME CleanOK(work[p], log, row, macs, skipped, settings)
      PROVE  CleanOK(w, log, work[p].state, macs, skipped, settings)
  <2> DEFINE r == work[p].state
  <2>1. /\ item \in Items /\ item.version \in Versions /\ r.version = item.version
        /\ Removes(item) = {x \in Indexes : Drops(item, log, x)} /\ work[p].list # <<>>
        /\ log[item.version].ops \in [Indexes -> Operations] /\ Holds(p)
    BY <1>1, Item, PatchOps
  <2>2. /\ Follows(item, row) /\ Latest(macs) = Contents(log, row.version)
        /\ \A q \in macs : q.version <= row.version
        /\ r.hash = TrueHash(log, r.version)
    BY <1>1, <1>9, <2>1 DEF CleanOK, LeaderOK
  <2>3. /\ row.version \in Nat /\ item.version \in Nat \ {0} /\ row.version < item.version
        /\ ~item.snapshot => row.version = item.version - 1
        /\ item.snapshot => row.version = 0
    <3>1. row.version \in Nat /\ item.version \in Nat \ {0}
      BY <2>1, BoundsAssumption DEF IInv, RowOK, KnownIn, State, Versions
    <3> HIDE DEF item
    <3> QED BY <3>1, <2>2 DEF Follows
  <2>4. Latest(macs) = Before(item, log)
    BY <2>2, <2>3, NoContents DEF Before
  <2>5. \A q \in macs : q.version < r.version
    <3>1. \A q \in macs : q.version \in Nat
      BY MACVersions
    <3> HIDE DEF item
    <3> QED BY <3>1, <2>1, <2>2, <2>3
  <2>6. step = "insert" => Latest(macs) = Trimmed(item, log)
    <3> SUFFICES ASSUME step = "insert" PROVE Latest(macs) = Trimmed(item, log)
      OBVIOUS
    <3>1. \A x \in Indexes : ~Drops(item, log, x)
      BY <1>2, <2>1
    <3>2. Trimmed(item, log) = [x \in Indexes |-> Before(item, log)[x]]
      BY <3>1 DEF Trimmed
    <3>3. Latest(macs) = [x \in Indexes |-> Latest(macs)[x]]
      BY DEF Latest
    <3> QED BY <2>4, <3>2, <3>3
  <2>7. LeaderOK(w, log, r, macs)
    BY <1>5, <1>6, <2>2, <2>4, <2>5, <2>6 DEF LeaderOK
  <2>8. ASSUME Kept(work[p], log, row, settings) PROVE Kept(w, log, r, settings)
    <3> SUFFICES ASSUME NEW x \in Indexes, Contents(log, r.version)[x] # 0,
                        ~Gives(item, log, x)
                 PROVE  Contents(log, r.version)[x]
                           = IF w.news[x] # 0 THEN w.news[x] ELSE settings[x]
      BY <1>5, <1>6 DEF Kept
    <3>1. Contents(log, r.version)[x] = Trimmed(item, log)[x]
      BY <2>1, AfterItem
    <3>2. Contents(log, r.version)[x] = Contents(log, row.version)[x]
      BY <3>1, <2>2, <2>4 DEF Trimmed
    <3>3. Contents(log, row.version)[x]
             = IF work[p].news[x] # 0 THEN work[p].news[x] ELSE settings[x]
      BY <1>1, <2>8, <3>2 DEF Kept
    <3> QED BY <1>5, <3>2, <3>3
  <2> QED BY <1>9, <2>7, <2>8 DEF CleanOK
<1>10. Extends(log, log') /\ UploadsAreValid' /\ Holds(p)
  BY <1>1, ExtendsItself, Item DEF IInv, SInv, UploadsAreValid
<1> QED BY <1>1, <1>4, <1>7, <1>8, <1>9, <1>10, LeaderMoves

LEMMA DeleteMACsKeeps == ASSUME IInv, SInv, NEW p \in Procs, DeleteMACs(p) PROVE SInv'
<1> DEFINE item == Head(work[p].list)
           kept == {r \in macs : r.index \notin Removes(item)}
<1>1. /\ work[p].step = "delete" /\ Storing(p) /\ UNCHANGED <<log, row, settings, skipped>>
      /\ work' = [work EXCEPT ![p].step = "insert"]
  BY DEF DeleteMACs, Storing
<1>2. PICK w : w = [work[p] EXCEPT !.step = "insert"]
  OBVIOUS
<1>3. /\ work[p] \in Works /\ work'[p] = w /\ work' = [work EXCEPT ![p] = work'[p]]
  BY <1>1, <1>2 DEF IInv, WorkOK
<1>4. /\ w.step = "insert" /\ w.list = work[p].list /\ w.state = work[p].state
      /\ w.news = work[p].news /\ w.again = work[p].again
  BY <1>2, <1>3 DEF Works
<1>5. Shaped(w) /\ MacOK(w, log)
  BY <1>1, <1>4 DEF SInv, Shaped, MacOK
<1>6. clean' => clean /\ macs' = kept
  BY DEF DeleteMACs
<1>7. ASSUME CleanOK(work[p], log, row, macs, skipped, settings)
      PROVE  CleanOK(w, log, row, kept, skipped, settings)
  <2>1. /\ Latest(macs) = Before(item, log) /\ \A q \in macs : q.version < row.version
    BY <1>1, <1>7 DEF CleanOK, LeaderOK
  <2>2. Removes(item) = {x \in Indexes : Drops(item, log, x)}
    BY <1>1, Item
  <2>3. Latest(kept) = Trimmed(item, log)
    <3>1. Latest(kept) = [x \in Indexes |-> IF x \in Removes(item) THEN 0 ELSE Latest(macs)[x]]
      BY LatestWithout
    <3>2. \A x \in Indexes : x \in Removes(item) <=> Drops(item, log, x)
      BY <2>2
    <3> HIDE DEF kept
    <3> QED BY <2>1, <3>1, <3>2 DEF Trimmed
  <2>4. LeaderOK(w, log, row, kept)
    BY <1>1, <1>4, <1>7, <2>1, <2>3 DEF CleanOK, LeaderOK
  <2>5. Kept(work[p], log, row, settings) => Kept(w, log, row, settings)
    BY <1>1, <1>4 DEF Kept
  <2> QED BY <1>7, <2>4, <2>5 DEF CleanOK
<1>8. Extends(log, log') /\ UploadsAreValid' /\ Holds(p)
  BY <1>1, ExtendsItself, Item DEF IInv, SInv, UploadsAreValid
<1> QED BY <1>1, <1>3, <1>5, <1>6, <1>7, <1>8, LeaderMoves

LEMMA InsertMACsKeeps == ASSUME IInv, SInv, NEW p \in Procs, InsertMACs(p) PROVE SInv'
<1> DEFINE item == Head(work[p].list)
           rows == Added(work[p])
<1>1. /\ work[p].step = "insert" /\ Storing(p) /\ UNCHANGED <<log, row, settings, skipped>>
      /\ work' = [work EXCEPT ![p].step = "decode", ![p].list = Tail(@),
                              ![p].news = News(work[p])]
  BY DEF InsertMACs, Storing
<1>2. PICK w : w = [work[p] EXCEPT !.step = "decode", !.list = Tail(work[p].list),
                                   !.news = News(work[p])]
  OBVIOUS
<1>3. /\ work[p] \in Works /\ work'[p] = w /\ work' = [work EXCEPT ![p] = work'[p]]
  BY <1>1, <1>2 DEF IInv, WorkOK
<1>4. /\ w.step = "decode" /\ w.list = Tail(work[p].list) /\ w.state = work[p].state
      /\ w.news = News(work[p]) /\ ~w.again
  <2>1. w.again = work[p].again /\ ~work[p].again
    BY <1>1, <1>2, <1>3 DEF Works, SInv, Shaped
  <2> QED BY <1>2, <1>3, <2>1 DEF Works
<1>5. /\ item \in Items /\ item.version \in Versions
      /\ work[p].list # <<>> /\ work[p].state.version = item.version
      /\ log[item.version].ops \in [Indexes -> Operations] /\ Holds(p)
  BY <1>1, Item, PatchOps
<1>6. /\ work[p].list \in Seq(Items)
      /\ Tail(work[p].list) \in Seq(Items)
      /\ Len(Tail(work[p].list)) = Len(work[p].list) - 1
      /\ \A n \in 1..Len(Tail(work[p].list)) : Tail(work[p].list)[n] = work[p].list[n + 1]
      /\ item = work[p].list[1]
  <2>1. work[p].list \in Seq(Items)
    BY <1>3 DEF Works
  <2> QED BY <1>5, <2>1, HeadTailProperties
<1>7. /\ \A n \in 1..Len(w.list) : /\ w.list[n].version = item.version + n
                                   /\ ~w.list[n].snapshot
      /\ \A n \in 1..Len(w.list) : w.list[n].version = w.list[1].version + n - 1
      /\ w.list # <<>> => ~Head(w.list).snapshot /\ Head(w.list).version = item.version + 1
  <2>1. Len(work[p].list) \in Nat /\ Len(w.list) \in Nat
    BY <1>4, <1>6, LenProperties
  <2>2. item.version \in Nat
    BY <1>5, BoundsAssumption DEF Versions
  <2>3. ASSUME NEW n \in 1..Len(w.list)
        PROVE  w.list[n].version = item.version + n /\ ~w.list[n].snapshot
    <3>1. n + 1 \in 1..Len(work[p].list) /\ n + 1 > 1 /\ n \in Nat
      BY <1>4, <1>6, <2>1
    <3>2. w.list[n] = work[p].list[n + 1]
      BY <1>4, <1>6
    <3>3. /\ work[p].list[n + 1].version = work[p].list[1].version + (n + 1) - 1
          /\ ~work[p].list[n + 1].snapshot
      BY <3>1 DEF SInv, Shaped
    <3> HIDE DEF item
    <3> QED BY <1>6, <2>2, <3>1, <3>2, <3>3
  <2>4. ASSUME NEW n \in 1..Len(w.list) PROVE w.list[n].version = w.list[1].version + n - 1
    <3>1. 1 \in 1..Len(w.list) /\ n \in Nat
      BY <2>1
    <3>2. w.list[1].version = item.version + 1 /\ w.list[n].version = item.version + n
      BY <2>3, <3>1
    <3> HIDE DEF item
    <3> QED BY <2>2, <3>1, <3>2
  <2>5. w.list # <<>> => Head(w.list) = w.list[1] /\ 1 \in 1..Len(w.list)
    BY <1>4, <1>6, <2>1, EmptySeq
  <2> QED BY <2>3, <2>4, <2>5
<1>8. Shaped(w) /\ MacOK(w, log)
  BY <1>4, <1>5, <1>7 DEF Shaped, MacOK
<1>9. clean' => clean /\ macs' = IF Refused(rows) THEN macs ELSE macs \cup rows
  BY DEF InsertMACs
<1>10. ASSUME CleanOK(work[p], log, row, macs, skipped, settings)
       PROVE  ~Refused(rows) /\ CleanOK(w, log, row, macs \cup rows, skipped, settings)
  <2>1. /\ Latest(macs) = Trimmed(item, log) /\ \A q \in macs : q.version < row.version
        /\ work[p].state = row /\ row.hash = TrueHash(log, row.version)
    BY <1>1, <1>10 DEF CleanOK, LeaderOK
  <2>2. row.version = item.version /\ row.version \in Nat \ {0}
    BY <1>5, <2>1, BoundsAssumption DEF Versions
  <2>3. \A q \in macs : q.version \in Nat /\ q.version < row.version
    BY <2>1, MACVersions
  <2>4. rows = {[version |-> row.version, index |-> x, value |-> Sets(item)[x]] :
                   x \in {y \in Indexes : Sets(item)[y] # 0}}
    BY <2>1 DEF Added
  <2> HIDE DEF rows
  <2>5. \A r \in rows : r.version = row.version
    BY <2>4
  <2>6. ~Refused(rows)
    <3>1. row # NoRow
      BY <2>2 DEF NoRow
    <3> QED BY <2>2, <2>3, <2>5, <3>1 DEF Refused
  <2>7. Latest(macs \cup rows) = Contents(log, row.version)
    <3>1. PICK S, v, m : S = Sets(item) /\ v = row.version /\ m = macs
      OBVIOUS
    <3>2. \A x \in Indexes :
             Latest(macs \cup rows)[x] = IF S[x] # 0 THEN S[x] ELSE Latest(macs)[x]
      <4>1. rows = RowsOf(S, v)
        BY <2>4, <3>1 DEF RowsOf
      <4>2. v \in Nat /\ \A q \in m : q.version \in Nat /\ q.version < v
        BY <2>2, <2>3, <3>1
      <4>3. \A x \in Indexes :
               Latest(m \cup RowsOf(S, v))[x] = IF S[x] # 0 THEN S[x] ELSE Latest(m)[x]
        BY <4>2, LatestWith
      <4> QED BY <3>1, <4>1, <4>3
    <3>3. \A x \in Indexes : Contents(log, item.version)[x]
                               = IF S[x] # 0 THEN S[x] ELSE Trimmed(item, log)[x]
      BY <1>5, <3>1, AfterItem
    <3>4. /\ Contents(log, row.version) = [x \in Indexes |-> Contents(log, row.version)[x]]
          /\ Latest(macs \cup rows) = [x \in Indexes |-> Latest(macs \cup rows)[x]]
      BY DEF Contents, Latest
    <3> QED BY <2>1, <2>2, <3>2, <3>3, <3>4
  <2>8. \A q \in macs \cup rows : q.version <= row.version
    BY <2>2, <2>3, <2>5
  <2>9. w.list # <<>> => Follows(Head(w.list), row)
    BY <1>7, <2>2 DEF Follows
  <2>10. LeaderOK(w, log, row, macs \cup rows)
    BY <1>4, <2>1, <2>7, <2>8, <2>9 DEF LeaderOK
  <2>11. ASSUME Kept(work[p], log, row, settings) PROVE Kept(w, log, row, settings)
    <3> SUFFICES ASSUME NEW x \in Indexes, Contents(log, row.version)[x] # 0
                 PROVE  Contents(log, row.version)[x]
                           = IF w.news[x] # 0 THEN w.news[x] ELSE settings[x]
      BY DEF Kept
    <3>1. w.news[x] = IF Sets(item)[x] # 0 THEN Sets(item)[x] ELSE work[p].news[x]
      BY <1>4 DEF News
    <3>2. CASE Gives(item, log, x)
      BY <1>5, <2>2, <3>1, <3>2, AfterItem
    <3>3. CASE ~Gives(item, log, x)
      <4>1. Sets(item)[x] = 0
        BY <1>5, <3>3, AfterItem
      <4> QED BY <2>11, <3>1, <3>3, <4>1 DEF Kept
    <3> QED BY <3>2, <3>3
  <2> QED BY <1>10, <2>6, <2>10, <2>11 DEF CleanOK
<1>11. Extends(log, log') /\ UploadsAreValid'
  BY <1>1, ExtendsItself DEF IInv, SInv, UploadsAreValid
<1>12. clean' /\ CleanOK(work[p], log, row, macs, skipped, settings)
          => CleanOK(w, log', row', macs', skipped', settings')
  <2> HIDE DEF rows
  <2> QED BY <1>1, <1>9, <1>10
<1>13. Holds(p) /\ (clean' => clean) /\ MacOK(w, log')
  BY <1>1, <1>5, <1>8, <1>9
<1> HIDE DEF item, rows
<1> QED BY <1>3, <1>8, <1>11, <1>12, <1>13, LeaderMoves

LEMMA DispatchKeeps == ASSUME IInv, SInv, NEW p \in Procs, Dispatch(p) PROVE SInv'
<1> DEFINE asks == [work[p] EXCEPT !.list = <<>>, !.news = NoNews, !.full = FALSE, !.step = "ask"]
           again == [Resting EXCEPT !.step = "read", !.ops = work[p].ops]
<1>1. PICK w : Becomes(p, w) /\ ((w = asks /\ work[p].step = "decode") \/ w = again \/ w = Over(p))
  BY DEF Dispatch, Ends
<1>2. /\ Holds(p) /\ work[p].step = "decode" /\ work[p].list = <<>>
      /\ UNCHANGED <<log, row, macs>>
      /\ \/ skipped' = TRUE
         \/ /\ skipped' = skipped
            /\ settings' = [x \in Indexes |-> IF work[p].news[x] # 0 THEN work[p].news[x]
                                             ELSE settings[x]]
  BY DEF Dispatch, Holds
<1>3. CleanOK(work[p], log, row, macs, skipped, settings)
        => AtRest(log, row, macs, skipped', settings')
  <2> SUFFICES ASSUME CleanOK(work[p], log, row, macs, skipped, settings)
               PROVE  AtRest(log, row, macs, skipped', settings')
    OBVIOUS
  <2>1. (skipped \/ Kept(work[p], log, row, settings)) => skipped' \/
          \A x \in Indexes : LET v == Contents(log, row.version)[x] IN v = 0 \/ v = settings'[x]
    BY <1>2 DEF Kept
  <2> QED BY <1>2, <2>1 DEF CleanOK, LeaderOK, AtRest
<1>4. w.news = NoNews /\ Shaped(w) /\ MacOK(w, log)
  <2>1. work[p] \in Works /\ ~work[p].again
    BY <1>2 DEF IInv, WorkOK, SInv, Shaped
  <2>2. CASE w = asks
    <3>1. w.step = "ask" /\ w.list = <<>> /\ w.news = NoNews
      BY <2>1, <2>2 DEF Works
    <3> QED BY <3>1, EmptySeq DEF Shaped, MacOK
  <2>3. CASE w = again
    <3>1. w.step = "read" /\ w.list = <<>> /\ w.news = NoNews
      BY <2>3 DEF Resting
    <3> QED BY <3>1, EmptySeq DEF Shaped, MacOK
  <2>4. CASE w = Over(p)
    <3>1. w.step \in {"idle", "done"} /\ w.list = <<>> /\ w.news = NoNews
      BY <2>4 DEF Over, Resting
    <3> QED BY <3>1, EmptySeq DEF Shaped, MacOK
  <2> QED BY <1>1, <2>2, <2>3, <2>4
<1>5. ASSUME CleanOK(work[p], log, row, macs, skipped, settings)
      PROVE  CleanOK(w, log, row, macs, skipped', settings')
  <2>1. AtRest(log, row, macs, skipped', settings')
    BY <1>3, <1>5
  <2>2. CASE w = asks
    <3>1. /\ w.step = "ask" /\ w.state = work[p].state /\ ~w.again
      <4>1. work[p] \in Works /\ ~work[p].again
        BY <1>2 DEF IInv, WorkOK, SInv, Shaped
      <4> QED BY <2>2, <4>1 DEF Works
    <3>2. work[p].state = row
      BY <1>2, <1>5 DEF CleanOK, LeaderOK
    <3>3. LeaderOK(w, log, row, macs)
      BY <2>1, <3>1, <3>2 DEF AtRest, LeaderOK
    <3>4. skipped' \/ Kept(w, log, row, settings')
      BY <1>4, <2>1 DEF AtRest, Kept, NoNews
    <3> QED BY <3>3, <3>4 DEF CleanOK
  <2>3. CASE w = again
    <3>1. w.step = "read" /\ ~w.full
      BY <2>3 DEF Resting
    <3> QED BY <1>4, <2>1, <3>1, RestIsClean
  <2>4. CASE w = Over(p)
    BY <2>1, <2>4, OverIsClean
  <2> QED BY <1>1, <2>2, <2>3, <2>4
<1>6. /\ work' = [work EXCEPT ![p] = work'[p]] /\ work'[p] = w /\ (clean' => clean)
  BY <1>1, BecomesResult DEF Becomes, IInv
<1>7. Extends(log, log') /\ UploadsAreValid'
  BY <1>2, ExtendsItself DEF IInv, SInv, UploadsAreValid
<1>8. clean' /\ CleanOK(work[p], log, row, macs, skipped, settings)
         => CleanOK(w, log', row', macs', skipped', settings')
  BY <1>2, <1>5
<1> HIDE DEF asks, again
<1> QED BY <1>2, <1>4, <1>6, <1>7, <1>8, LeaderMoves

LEMMA DispatchAbortsKeeps == ASSUME IInv, SInv, DispatchAborts PROVE SInv'
<1>1. /\ "fetch" \in Procs /\ Holds("fetch") /\ work["fetch"].step = "decode"
      /\ UNCHANGED <<log, row, macs, settings>> /\ Ends("fetch") /\ skipped' = TRUE
  BY DEF DispatchAborts, Holds, Procs, dbVars
<1> QED BY <1>1, LeaderEnds

-----------------------------------------------------------------------------
(* sendAppState. *)

LEMMA SendStartKeeps ==
    ASSUME IInv, SInv, NEW s \in Senders, NEW ops \in Shapes, SendStart(s, ops) PROVE SInv'
<1>1. PICK w : w = [Resting EXCEPT !.step = "read", !.ops = ops, !.again = TRUE]
  OBVIOUS
<1>2. /\ s \in Procs /\ s # "fetch" /\ ~Holds(s) /\ Becomes(s, w)
      /\ UNCHANGED <<log, row, macs, settings, skipped>>
  BY <1>1, SendersAssumption DEF SendStart, Holds, Procs, dbVars
<1>3. w.step = "read" /\ ~w.full /\ w.news = NoNews /\ w.list = <<>>
  BY <1>1 DEF Resting
<1>4. Shaped(w) /\ MacOK(w, log')
  BY <1>3, EmptySeq DEF Shaped, MacOK
<1>5. /\ work' = [work EXCEPT ![s] = work'[s]] /\ work'[s] = w /\ (clean' => clean)
  BY <1>2, BecomesResult DEF Becomes, IInv
<1>6. Extends(log, log') /\ UploadsAreValid'
  BY <1>2, ExtendsItself DEF IInv, SInv, UploadsAreValid
<1> QED BY <1>2, <1>3, <1>4, <1>5, <1>6, Bystander

LEMMA SendReadKeeps == ASSUME IInv, SInv, NEW s \in Senders, SendRead(s) PROVE SInv'
<1>1. PICK w : w = [work[s] EXCEPT !.step = "encode", !.state = row]
  OBVIOUS
<1>2. /\ s \in Procs /\ s # "fetch" /\ ~Holds(s) /\ Becomes(s, w) /\ work[s].step = "read"
      /\ UNCHANGED <<log, row, macs, settings, skipped>>
  BY <1>1, SendersAssumption DEF SendRead, Holds, Procs, dbVars
<1>3. work[s] \in Works
  BY <1>2 DEF IInv, WorkOK
<1>4. w.step = "encode" /\ w.state = row /\ w.list = work[s].list /\ w.news = work[s].news
  BY <1>1, <1>3 DEF Works
<1>5. w.news = NoNews /\ Shaped(w) /\ MacOK(w, log')
  BY <1>2, <1>4 DEF SInv, Shaped, MacOK
<1>6. /\ work' = [work EXCEPT ![s] = work'[s]] /\ work'[s] = w /\ (clean' => clean)
  BY <1>2, BecomesResult DEF Becomes, IInv
<1>7. Extends(log, log') /\ UploadsAreValid'
  BY <1>2, ExtendsItself DEF IInv, SInv, UploadsAreValid
<1> QED BY <1>2, <1>4, <1>5, <1>6, <1>7, Bystander

(* From consistent tables the hash that EncodePatch signs is the server's   *)
(* next.                                                                    *)
LEMMA EncodeKeeps == ASSUME IInv, SInv, NEW s \in Senders, Encode(s) PROVE SInv'
<1> DEFINE v == work[s].state.version + 1
           mac == Updated(work[s].state.hash, work[s].ops, v, Lookup)
           ok == Consistent(work[s].state)
           up == [work[s] EXCEPT !.step = "upload", !.sound = ok, !.mac = mac]
<1>1. /\ s \in Procs /\ s # "fetch" /\ ~Holds(s) /\ work[s].step = "encode"
      /\ UNCHANGED <<log, row, macs, settings, skipped>>
  BY SendersAssumption DEF Encode, Holds, Procs, dbVars
<1>2. Ends(s) \/ Becomes(s, up)
  BY DEF Encode
<1>3. work[s] \in Works /\ work[s].news = NoNews
  BY <1>1 DEF IInv, WorkOK, SInv, Shaped
<1>4. CASE Ends(s)
  BY <1>1, <1>4, BystanderEnds
<1>5. CASE Becomes(s, up)
  <2>1. PICK w : w = up
    OBVIOUS
  <2>2. /\ w.step = "upload" /\ w.state = work[s].state /\ w.list = work[s].list
        /\ w.news = work[s].news /\ w.ops = work[s].ops /\ w.mac = mac
        /\ w.sound = ok
    <3> HIDE DEF mac, ok
    <3> QED BY <1>3, <2>1 DEF Works
  <2>3. Shaped(w)
    BY <1>1, <2>2 DEF SInv, Shaped
  <2>4. ASSUME ok, work[s].state.version = Len(log)
        PROVE  mac = Updated(TrueHash(log, work[s].state.version), work[s].ops, v,
                             Contents(log, work[s].state.version))
    <3>1. row.version <= Len(log) /\ row.version \in Nat /\ Len(log) \in Nat
      BY BoundsAssumption DEF IInv, RowOK, KnownIn, State, LogOK
    <3>2. clean /\ row = work[s].state /\ \A p \in Procs : ~Storing(p)
      BY <2>4, <3>1 DEF Consistent
    <3>3. PICK p \in Procs : CleanOK(work[p], log, row, macs, skipped, settings)
      BY <3>2 DEF SInv
    <3>4. work[p].step \notin {"delete", "insert"}
      BY <3>2 DEF Storing
    <3>5. row.hash = TrueHash(log, row.version) /\ Latest(macs) = Contents(log, row.version)
      BY <3>3, <3>4 DEF CleanOK, LeaderOK
    <3> QED BY <3>2, <3>5, LatestIsLookup
  <2>5. MacOK(w, log')
    <3> HIDE DEF mac, ok
    <3> QED BY <1>1, <2>2, <2>4 DEF MacOK
  <2> HIDE DEF up
  <2>6. /\ work' = [work EXCEPT ![s] = work'[s]] /\ work'[s] = w /\ (clean' => clean)
    BY <1>1, <1>5, <2>1, BecomesResult DEF Becomes, IInv
  <2>7. Extends(log, log') /\ UploadsAreValid'
    BY <1>1, ExtendsItself DEF IInv, SInv, UploadsAreValid
  <2> QED BY <1>1, <1>3, <2>2, <2>3, <2>5, <2>6, <2>7, Bystander
<1> QED BY <1>2, <1>4, <1>5

(* What is accepted is the patch after the version it was encoded for. *)
LEMMA AcceptedKeeps == ASSUME IInv, IInv', SInv, NEW s \in Senders, Accepted(s) PROVE SInv'
<1> DEFINE w == work[s]
           n == Len(log) + 1
           patch == [ops |-> w.ops, key |-> Newest(keys), mac |-> w.mac, sound |-> w.sound]
           resync == [Resting EXCEPT !.step = "resync"]
<1>1. /\ s \in Procs /\ s # "fetch" /\ ~Holds(s)
      /\ w.step = "upload" /\ w.state.version = Len(log)
      /\ log' = Append(log, patch) /\ UNCHANGED <<row, macs, settings, skipped>>
  BY SendersAssumption DEF Accepted, Holds, Procs, dbVars
<1>2. /\ WorkOK(w, log, keys) /\ log \in Seq(Patch) /\ log' \in Seq(Patch)
      /\ Len(log) \in Nat /\ w.news = NoNews
  BY <1>1 DEF IInv, LogOK, SInv, Shaped
<1>3. /\ Len(log') = n /\ \A v \in 1..Len(log) : log'[v] = log[v]
      /\ log'[n] = patch /\ log'[n] \in Patch /\ n \in 1..Len(log')
  <2>1. patch \in {patch} /\ Len(log') = n /\ log'[n] = patch
        /\ \A v \in 1..Len(log) : log'[v] = log[v]
    <3> HIDE DEF patch
    <3> QED BY <1>1, <1>2
  <2>2. n \in 1..Len(log')
    BY <1>2, <2>1
  <2> HIDE DEF patch
  <2> QED BY <1>2, <2>1, <2>2, ElementOfSeq
<1>4. Extends(log, log') /\ n \in Versions
  <2>1. w.state.version < MaxVersion
    BY <1>1, <1>2 DEF WorkOK
  <2> HIDE DEF patch, w
  <2> QED BY <1>1, <1>2, <1>3, <2>1, BoundsAssumption DEF Extends, Versions
<1>5. w.sound => w.mac = TrueHash(log', n)
  <2> SUFFICES ASSUME w.sound PROVE w.mac = TrueHash(log', n)
    OBVIOUS
  <2>1. w.mac = Updated(TrueHash(log, Len(log)), w.ops, n, Contents(log, Len(log)))
    BY <1>1 DEF SInv, MacOK
  <2>2. /\ Contents(log', Len(log)) = Contents(log, Len(log))
        /\ TrueHash(log', Len(log)) = TrueHash(log, Len(log))
    BY <1>2, <1>4, ContentsStable, TrueHashStable
  <2>3. n - 1 = Len(log) /\ log'[n].ops = w.ops
    BY <1>2, <1>3
  <2>4. log'[n].ops \in [Indexes -> Operations]
    BY <1>3, PatchOps
  <2>5. Updated(TrueHash(log', n - 1), log'[n].ops, n, Contents(log', n - 1)) = TrueHash(log', n)
    <3> HIDE DEF n
    <3> QED BY <1>4, <2>4, HashStep
  <2> HIDE DEF n
  <2> QED BY <2>1, <2>2, <2>3, <2>5
<1>6. UploadsAreValid'
  <2> SUFFICES ASSUME NEW v \in 1..n, log'[v].sound PROVE log'[v].mac = TrueHash(log', v)
    BY <1>2, <1>3 DEF UploadsAreValid
  <2>1. CASE v = n
    BY <2>1, <1>3, <1>5
  <2>2. CASE v \in 1..Len(log)
    BY <2>2, <1>2, <1>3, <1>4, TrueHashStable DEF SInv, UploadsAreValid
  <2> QED BY <1>2, <2>1, <2>2
<1>7. PICK x : Becomes(s, x) /\ (x = resync \/ x = Over(s))
  BY DEF Accepted, Ends
<1>8. /\ WorkOK(x, log, keys) /\ x.step \in {"resync", "idle", "done"}
      /\ ~x.full /\ x.news = NoNews /\ x.list = <<>>
  <2>1. CASE x = resync
    <3>1. /\ x \in Works /\ x.list = <<>> /\ x.state = NoRow /\ x.step = "resync"
          /\ ~x.full /\ x.news = NoNews
      BY <2>1, RestingWorks DEF Works, Steps, Resting
    <3>2. KnownIn(NoRow, log)
      BY NoRowOK DEF RowOK, IInv
    <3> QED BY <3>1, <3>2, EmptyWorkOK DEF IInv
  <2>2. CASE x = Over(s)
    <3>1. x.step \in {"idle", "done"} /\ ~x.full /\ x.news = NoNews /\ x.list = <<>>
      BY <2>2 DEF Over, Resting
    <3> QED BY <1>1, <2>2, <3>1, OverOK DEF IInv
  <2> QED BY <1>7, <2>1, <2>2
<1>9. Shaped(x) /\ MacOK(x, log')
  BY <1>8, EmptySeq DEF Shaped, MacOK
<1>10. /\ work' = [work EXCEPT ![s] = work'[s]] /\ work'[s] = x /\ (clean' => clean)
  BY <1>1, <1>7, BecomesResult DEF Becomes, IInv
<1> HIDE DEF resync, patch
<1> QED BY <1>1, <1>4, <1>6, <1>8, <1>9, <1>10, Bystander

LEMMA ConflictKeeps == ASSUME IInv, SInv, NEW s \in Senders, Conflict(s) PROVE SInv'
<1> DEFINE v == work[s].state.version
           list == Patches(v + 1, Len(log))
           retry == [Resting EXCEPT !.step = "decode", !.ops = work[s].ops, !.state = work[s].state,
                                    !.list = list]
<1>1. /\ s \in Procs /\ s # "fetch" /\ ~Holds(s)
      /\ work[s].step = "upload" /\ v < Len(log)
      /\ UNCHANGED <<log, row, macs, settings, skipped>>
  BY SendersAssumption DEF Conflict, Holds, Procs, dbVars
<1>2. \/ Ends(s)
      \/ /\ work' = [work EXCEPT ![s] = retry]
         /\ clean' = (clean /\ Alone' /\ work[s].state = row)
  BY DEF Conflict
<1>3. work[s].news = NoNews
  BY <1>1 DEF SInv, Shaped
<1>4. CASE Ends(s)
  BY <1>1, <1>4, BystanderEnds
<1>5. CASE /\ work' = [work EXCEPT ![s] = retry]
           /\ clean' = (clean /\ Alone' /\ work[s].state = row)
  <2>1. PICK w : w = retry
    OBVIOUS
  <2>2. /\ w.step = "decode" /\ w.state = work[s].state /\ w.list = list
        /\ w.news = NoNews /\ ~w.again
    <3> HIDE DEF list
    <3> QED BY <2>1 DEF Resting
  <2>3. /\ \A n \in 1..Len(list) : list[n] = [snapshot |-> FALSE, version |-> v + 1 + n - 1]
        /\ \A n \in 1..Len(list) : list[n].version = list[1].version + n - 1
        /\ list # <<>> => Head(list) = [snapshot |-> FALSE, version |-> v + 1]
    <3>1. v \in 0..MaxVersion /\ Len(log) \in 0..MaxVersion
      <4>1. v \in 0..MaxVersion
        BY <1>1 DEF IInv, WorkOK, KnownIn, State
      <4>2. Len(log) \in 0..MaxVersion
        BY BoundsAssumption DEF IInv, LogOK
      <4> QED BY <4>1, <4>2
    <3>2. v + 1 \in Nat \ {0} /\ v + 1 <= Len(log) + 1
      BY <1>1, <3>1, BoundsAssumption
    <3> QED BY <3>1, <3>2, PatchesFollow
  <2> HIDE DEF list
  <2>4. Shaped(w) /\ MacOK(w, log)
    <3>1. \A n \in 1..Len(list) : ~list[n].snapshot
      <4> TAKE n \in 1..Len(list)
      <4>1. list[n] = [snapshot |-> FALSE, version |-> v + 1 + n - 1]
        BY <2>3
      <4> QED BY <4>1
    <3>2. list # <<>> => Head(list).version = v + 1
      BY <2>3
    <3> QED BY <2>2, <2>3, <3>1, <3>2 DEF Shaped, MacOK
  <2>5. ASSUME clean', AtRest(log, row, macs, skipped, settings)
        PROVE  CleanOK(w, log, row, macs, skipped, settings)
    <3>1. w.state = row
      BY <1>5, <2>2, <2>5
    <3>2. list # <<>> => Follows(Head(list), row)
      BY <2>2, <2>3, <3>1 DEF Follows
    <3>3. LeaderOK(w, log, row, macs)
      BY <2>2, <2>5, <3>1, <3>2 DEF AtRest, LeaderOK
    <3>4. skipped \/ Kept(w, log, row, settings)
      BY <2>2, <2>5 DEF AtRest, Kept, NoNews
    <3> QED BY <3>3, <3>4 DEF CleanOK
  <2> HIDE DEF retry
  <2>6. work'[s] = w /\ \A q \in Procs : q # s => work'[q] = work[q]
    BY <1>1, <1>5, <2>1 DEF IInv
  <2>7. Holds(s)' /\ \A q \in Procs : q # s => (Holds(q) => Holds(q)')
    BY <2>2, <2>6 DEF Holds
  <2>8. \A q \in Procs : Shaped(work'[q]) /\ MacOK(work'[q], log')
    BY <1>1, <2>4, <2>6 DEF SInv
  <2>9. clean' => clean /\ Alone'
    BY <1>5
  <2> QED BY <1>1, <2>5, <2>6, <2>7, <2>8, <2>9, LeaderStarts
<1> QED BY <1>2, <1>4, <1>5

LEMMA SendFailsKeeps == ASSUME IInv, SInv, NEW s \in Senders, SendFails(s) PROVE SInv'
<1>1. /\ s # "fetch" /\ ~Holds(s) /\ Ends(s)
      /\ UNCHANGED <<log, row, macs, settings, skipped>>
  BY SendersAssumption DEF SendFails, Holds, dbVars
<1> QED BY <1>1, BystanderEnds

-----------------------------------------------------------------------------
LEMMA StepSInv == IInv /\ IInv' /\ SInv /\ [Next]_vars => SInv'
<1> SUFFICES ASSUME IInv, IInv', SInv, [Next]_vars PROVE SInv'
  OBVIOUS
<1>1. CASE UNCHANGED vars
  <2>1. UploadsAreValid' /\ Extends(log, log')
    BY <1>1, ExtendsItself DEF vars, IInv, SInv, UploadsAreValid
  <2> QED BY <1>1, <2>1, LeaderWaits DEF vars, dbVars
<1>2. ASSUME NEW p \in Procs, Apply(p) PROVE SInv'
  BY <1>2, DecodeKeeps, DecodeFailsKeeps, PutVersionKeeps, DeleteMACsKeeps, InsertMACsKeeps,
     DispatchKeeps DEF Apply
<1>3. ASSUME NEW s \in Senders, Send(s) PROVE SInv'
  BY <1>3, SendStartKeeps, SendReadKeeps, EncodeKeeps, AcceptedKeeps, ConflictKeeps,
     SendFailsKeeps, FetchBeginKeeps DEF Send
<1>4. CASE FetchStep
  BY <1>4, FetchReadKeeps, FetchReplyKeeps DEF FetchStep
<1>5. CASE Fetch
  BY <1>5, FetchBeginKeeps, FetchFullyKeeps DEF Fetch
<1> QED BY <1>1, <1>2, <1>3, <1>4, <1>5, PublishKeeps, AroundKeeps, CrashKeeps,
           DispatchAbortsKeeps DEF Next

LEMMA CleanInvariant == Spec => []SInv
<1>1. IInv /\ SInv /\ [Next]_vars => (IInv /\ SInv)'
  BY StepIInv, StepSInv
<1>2. Spec => [](IInv /\ SInv)
  BY <1>1, InitIInv, InitSInv, PTL DEF Spec
<1> QED BY <1>2, PTL

(* From a clean start (a collection never synced, or a full sync that ran   *)
(* alone) the MACs are those of the server's entries at the stored version  *)
(* between any two patches, however often fetches and senders take turns.   *)
THEOREM MACsAreEntries == Spec => []MACsMatchVersion
<1>1. SInv => MACsMatchVersion
  <2> SUFFICES ASSUME SInv, clean, \A p \in Procs : ~Storing(p)
               PROVE  Lookup = Contents(log, row.version)
    BY DEF MACsMatchVersion
  <2>1. PICK p \in Procs : CleanOK(work[p], log, row, macs, skipped, settings)
    BY DEF SInv
  <2>2. work[p].step \notin {"delete", "insert"}
    BY DEF Storing
  <2>3. Latest(macs) = Contents(log, row.version)
    BY <2>1, <2>2 DEF CleanOK, LeaderOK
  <2> QED BY <2>3, LatestIsLookup
<1> QED BY <1>1, CleanInvariant, PTL

(* A patch that the server accepts carries the hash that every other device *)
(* will compute, whatever fetches store and other devices upload between    *)
(* the reading of the version, that of the MACs and the upload, except when *)
(* the MACs of the version that was read were incomplete.                   *)
THEOREM UploadsAreRight == Spec => []UploadsAreValid
<1>1. SInv => UploadsAreValid
  BY DEF SInv
<1> QED BY <1>1, CleanInvariant, PTL

(* From a clean start, when nobody is applying patches, the stores have the *)
(* value of every entry at the stored version, unless a fetch failed with a *)
(* part of its patches stored, or a store refused a value, since the last   *)
(* full sync.                                                               *)
THEOREM SettingsAreKept == Spec => []NothingElseIsLost
<1>1. SInv => NothingElseIsLost
  <2> SUFFICES ASSUME SInv, ~skipped, clean,
                      \A p \in Procs : ~Storing(p) /\ work[p].step # "decode"
               PROVE  Applied
    BY DEF NothingElseIsLost, NothingIsLost
  <2>1. PICK p \in Procs : CleanOK(work[p], log, row, macs, skipped, settings)
    BY DEF SInv
  <2>2. work[p].step \notin {"delete", "insert"} /\ work[p].news = NoNews
    BY DEF Storing, SInv, Shaped
  <2>3. AtRest(log, row, macs, skipped, settings)
    BY <2>1, <2>2, CleanIsRest
  <2> QED BY <2>3 DEF AtRest, Applied
<1> QED BY <1>1, CleanInvariant, PTL
=============================================================================
