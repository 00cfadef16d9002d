--------------------------- MODULE SessionsProofs ---------------------------
(***************************************************************************)
(* Proofs about Sessions for any messages, bounds and faults.              *)
(*                                                                         *)
(* Spent are the message keys that are used or about to be.  As long as    *)
(* no two processes had the session at once, a row, and the record that    *)
(* the one active process is about to write, count every key of their      *)
(* session that is spent; and a bundle that waits for its retry is known   *)
(* to nobody else and has no key spent.                                    *)
(*                                                                         *)
(* For the retries: one copy of each message is on its way at most, with a *)
(* key the contact has not used; and after the second request only an      *)
(* answer for a session whose keys the contact holds is left.              *)
(***************************************************************************)
EXTENDS Sessions, SequenceTheorems, TLAPS

WorkSteps == {"idle", "address", "fetch", "migrate", "bundle", "load", "session", "store",
              "transmit"}
WorkType == [step : WorkSteps, msg : Messages \cup {""}, to : Addresses, bundle : 0..MaxId,
             session : Session]

(* What the step of a process says of the rest of its work. *)
WorkOK(p, w) ==
    /\ w \in WorkType
    /\ w.step \notin {"store", "transmit"} => w.session = None
    /\ w.step \in {"store", "transmit"} => w.session.id \in Ids
    /\ w.step = "transmit" => p # "receive" /\ w.session.sent \in 1..MaxSent
    /\ w.step = "bundle" => w.bundle # 0
    /\ p # "receive" /\ w.step # "idle" => w.msg \in Messages

RowOK(s) == s \in Session /\ (s # None => s.id \in Ids)

Plain ==
    /\ mapped \in BOOLEAN /\ migrated \in BOOLEAN
    /\ recent \in Seq(Messages) /\ Len(recent) <= RecentSize /\ started \subseteq Messages
    /\ net \subseteq [msg : Messages, id : Ids, count : 1..MaxSent]
    /\ receipt \in [Messages -> [sent : BOOLEAN, keys : 0..MaxId]]
    /\ changed \in BOOLEAN /\ valid \subseteq Ids /\ seen \subseteq Keys
    /\ read \subseteq Messages /\ tries \in [Messages -> 0..PeerTries]
    /\ used \subseteq Keys /\ reused \in BOOLEAN
    /\ clean \in BOOLEAN /\ moved \in BOOLEAN
    /\ faults \in 0..MaxFaults

Typed ==
    /\ rows \in [Addresses -> Session] /\ \A a \in Addresses : RowOK(rows[a])
    /\ work = [p \in Procs |-> work[p]] /\ \A p \in Procs : WorkOK(p, work[p])
    /\ Plain

(* No session and no spent key has this id. *)
Untouched(id) ==
    /\ \A a \in Addresses : rows[a].id # id
    /\ \A p \in Procs : work[p].session.id # id
    /\ \A k \in used : k[1] # id

(* A bundle has one holder, and nothing was encrypted with it. *)
BundlesWait ==
    /\ \A m, n \in Messages :
         receipt[m].keys # 0 /\ receipt[m].keys = receipt[n].keys => m = n
    /\ \A p, q \in Procs : work[p].bundle # 0 /\ work[p].bundle = work[q].bundle => p = q
    /\ \A m \in Messages, p \in Procs : receipt[m].keys # 0 => receipt[m].keys # work[p].bundle
    /\ \A id \in Ids, m \in Messages : receipt[m].keys = id => Untouched(id)
    /\ \A id \in Ids, p \in Procs : work[p].bundle = id => Untouched(id)

Key(p)     == <<work[p].session.id, work[p].session.sent>>
Sending(p) == work[p].step = "transmit"

(* The session s counts every key that is spent. *)
Counts(s) ==
    /\ \A k \in used : k[1] = s.id => k[2] <= s.sent
    /\ \A p \in Procs :
         Sending(p) /\ work[p].session.id = s.id => work[p].session.sent <= s.sent

InOrder ==
    /\ Alone
    /\ ~reused
    /\ \A p \in Procs : Sending(p) => Key(p) \notin used
    /\ \A p, q \in Procs : Sending(p) /\ Sending(q) /\ Key(p) = Key(q) => p = q
    /\ \A a \in Addresses : rows[a] # None => Counts(rows[a])
    /\ rows["PN"] # None => rows["PN"].id # rows["LID"].id
    /\ \A p \in Procs : work[p].step = "store" =>
         /\ Counts(work[p].session)
         /\ \A a \in Addresses : a # work[p].to => rows[a].id # work[p].session.id

IInv == Typed /\ BundlesWait /\ (clean => InOrder)

-----------------------------------------------------------------------------
(* Types. *)

LEMMA NoneType == None \in Session /\ RowOK(None) /\ None.id = 0 /\ 0 \notin Ids
BY BoundsAssumption DEF None, Session, RowOK, Ids

LEMMA ProcsAre ==
    /\ "send" \in Procs /\ "receive" \in Procs /\ Messages \subseteq Procs
    /\ "receive" # "send" /\ "receive" \notin Messages /\ "send" \notin Messages
BY MessagesAssumption DEF Procs

LEMMA SentIsNat ==
    ASSUME Typed, NEW p \in Procs
    PROVE  work[p].session \in Session /\ work[p].session.sent \in Nat
<1>1. work[p] \in WorkType
  BY DEF Typed, WorkOK
<1>2. work[p].session \in Session
  BY <1>1 DEF WorkType
<1> QED BY <1>2 DEF Session

LEMMA RestingOK == \A p \in Procs : WorkOK(p, Resting)
BY NoneType, BoundsAssumption DEF WorkOK, WorkType, WorkSteps, Resting, Addresses

LEMMA TypedMove ==
    ASSUME Typed, NEW p \in Procs, work' = [work EXCEPT ![p] = work'[p]],
           WorkOK(p, work'[p]), Plain',
           rows' \in [Addresses -> Session], \A a \in Addresses : RowOK(rows'[a])
    PROVE  Typed'
<1>1. work' = [q \in Procs |-> work'[q]] /\ \A q \in Procs : q # p => work'[q] = work[q]
  BY DEF Typed
<1> QED BY <1>1 DEF Typed

LEMMA BecomesResult ==
    ASSUME Typed, NEW p \in Procs, NEW w, Becomes(p, w)
    PROVE  /\ work'[p] = w /\ work' = [work EXCEPT ![p] = work'[p]]
           /\ clean' \in BOOLEAN /\ (clean' => clean /\ Alone')
<1>1. work'[p] = w /\ work' = [work EXCEPT ![p] = w]
  BY DEF Typed, Becomes
<1>2. clean' \in BOOLEAN /\ (clean' => clean /\ Alone')
  BY DEF Becomes
<1> QED BY <1>1, <1>2

LEMMA FaultCounts == faults \in 0..MaxFaults /\ Fault => faults' \in 0..MaxFaults
BY BoundsAssumption DEF Fault

(* Addressed moves p to "migrate", or to the row, or a sender gives up. *)
LEMMA AddressedResult ==
    ASSUME Typed, NEW p \in Procs, NEW w, WorkOK(p, w), w.session = None,
           p # "receive" => w.msg \in Messages, p = "send" => w.bundle = 0, Addressed(p, w)
    PROVE  /\ WorkOK(p, work'[p]) /\ work' = [work EXCEPT ![p] = work'[p]]
           /\ work'[p].step \in {"idle", "migrate", AtRow(w)}
           /\ work'[p].step \notin {"store", "transmit"}
           /\ p # "send" => work'[p].step # "idle"
           /\ work'[p].step # "idle" => work'[p].msg = w.msg
           /\ work'[p].bundle = w.bundle /\ work'[p].session = None
           /\ clean' \in BOOLEAN /\ (clean' => clean /\ Alone')
           /\ migrated' \in BOOLEAN
<1>1. migrated' \in BOOLEAN
  BY DEF Addressed, Typed, Plain
<1>2. AtRow(w) \in {"bundle", "load"} /\ (AtRow(w) = "bundle" => w.bundle # 0)
  BY DEF AtRow
<1>3. ASSUME NEW x, NEW to \in Addresses, NEW step \in {"migrate", AtRow(w)},
             x = [w EXCEPT !.to = to, !.step = step], Becomes(p, x)
      PROVE  /\ WorkOK(p, x) /\ x.step = step /\ x.bundle = w.bundle
             /\ x.session = None /\ x.msg = w.msg
  <2>1. /\ x \in WorkType /\ x.step = step /\ x.bundle = w.bundle /\ x.session = None
        /\ x.msg = w.msg
    BY <1>2, <1>3 DEF WorkOK, WorkType, WorkSteps
  <2> QED BY <1>2, <2>1 DEF WorkOK
<1>4. \/ \E to \in Addresses, step \in {"migrate", AtRow(w)} :
           Becomes(p, [w EXCEPT !.to = to, !.step = step])
      \/ p = "send" /\ Becomes(p, Resting)
  <2>1. CASE w.to = "PN" /\ p = "send" /\ GivesUp(p)
    BY <2>1 DEF GivesUp
  <2>2. CASE Becomes(p, [w EXCEPT !.to = "LID", !.step = IF migrated THEN AtRow(w) ELSE "migrate"])
    <3>1. CASE migrated
      BY <2>2, <3>1 DEF Addresses
    <3>2. CASE ~migrated
      BY <2>2, <3>2 DEF Addresses
    <3> QED BY <3>1, <3>2
  <2>3. CASE Becomes(p, [w EXCEPT !.step = AtRow(w)])
    <3>1. w.to \in Addresses /\ w \in WorkType
      BY DEF WorkOK, WorkType
    <3>2. [w EXCEPT !.step = AtRow(w)] = [w EXCEPT !.to = w.to, !.step = AtRow(w)]
      BY <3>1 DEF WorkType
    <3> QED BY <2>3, <3>1, <3>2
  <2> QED BY <2>1, <2>2, <2>3 DEF Addressed
<1>5. ASSUME NEW to \in Addresses, NEW step \in {"migrate", AtRow(w)},
             Becomes(p, [w EXCEPT !.to = to, !.step = step])
      PROVE  /\ WorkOK(p, work'[p]) /\ work'[p].step = step /\ work'[p].bundle = w.bundle
             /\ work'[p].session = None /\ work'[p].msg = w.msg
  <2>1. PICK x : x = [w EXCEPT !.to = to, !.step = step]
    OBVIOUS
  <2>2. Becomes(p, x)
    BY <1>5, <2>1
  <2>3. work'[p] = x
    BY <2>2, BecomesResult
  <2> QED BY <1>3, <1>5, <2>1, <2>2, <2>3
<1>6. CASE \E to \in Addresses, step \in {"migrate", AtRow(w)} :
             Becomes(p, [w EXCEPT !.to = to, !.step = step])
  <2>1. /\ work' = [work EXCEPT ![p] = work'[p]]
        /\ clean' \in BOOLEAN /\ (clean' => clean /\ Alone')
    BY <1>6, BecomesResult
  <2> QED BY <1>1, <1>2, <1>5, <1>6, <2>1
<1>7. CASE p = "send" /\ Becomes(p, Resting)
  <2>1. /\ work'[p] = Resting /\ work' = [work EXCEPT ![p] = work'[p]]
        /\ clean' \in BOOLEAN /\ (clean' => clean /\ Alone')
    BY <1>7, BecomesResult
  <2>2. Resting.step = "idle" /\ Resting.bundle = 0 /\ Resting.session = None
    BY DEF Resting
  <2> QED BY <1>1, <1>7, <2>1, <2>2, RestingOK
<1> QED BY <1>4, <1>6, <1>7

-----------------------------------------------------------------------------
(* The order survives a step in which rows and spent keys may go and no     *)
(* process comes to hold a session.                                         *)
LEMMA OrderKept ==
    ASSUME IInv, clean, Alone', used' \subseteq used, reused' = reused,
           \A q \in Procs : work'[q].step \in {"store", "transmit"} => work'[q] = work[q],
           \A a \in Addresses : rows'[a] \in {None, rows[a]}
    PROVE  InOrder'
<1>1. InOrder
  BY DEF IInv
<1>2. \A p \in Procs : Sending(p)' => Sending(p) /\ work'[p] = work[p]
  BY DEF Sending
<1>3. ASSUME NEW s, Counts(s) PROVE Counts(s)'
  BY <1>2, <1>3 DEF Counts
<1>4. \A p \in Procs : Sending(p)' => Key(p)' \notin used'
  BY <1>1, <1>2 DEF InOrder, Key
<1>5. \A p, q \in Procs : Sending(p)' /\ Sending(q)' /\ Key(p)' = Key(q)' => p = q
  BY <1>1, <1>2 DEF InOrder, Key
<1>6. \A a \in Addresses : rows'[a] # None => Counts(rows[a])'
  <2> SUFFICES ASSUME NEW a \in Addresses, rows'[a] # None PROVE Counts(rows[a])'
    OBVIOUS
  <2>1. PICK s : s = rows[a]
    OBVIOUS
  <2>2. s = rows'[a] /\ Counts(s)'
    BY <1>1, <1>3, <2>1 DEF InOrder
  <2> QED BY <2>2
<1>7. rows'["PN"] # None => rows'["PN"].id # rows'["LID"].id
  <2>1. "PN" \in Addresses /\ "LID" \in Addresses
    BY DEF Addresses
  <2>2. rows["PN"] # None => rows["PN"].id \in Ids
    BY <2>1 DEF IInv, Typed, RowOK
  <2> QED BY <1>1, <2>1, <2>2, NoneType DEF InOrder
<1>8. ASSUME NEW p \in Procs, work'[p].step = "store"
      PROVE  /\ Counts(work[p].session)'
             /\ \A a \in Addresses : a # work'[p].to => rows'[a].id # work'[p].session.id
  <2>1. PICK s : s = work[p].session
    OBVIOUS
  <2>2. work'[p] = work[p] /\ s = work'[p].session /\ s.id # 0
    BY <1>8, <2>1, NoneType DEF IInv, Typed, WorkOK
  <2>3. Counts(s)' /\ \A a \in Addresses : a # work[p].to => rows[a].id # s.id
    BY <1>1, <1>3, <1>8, <2>1, <2>2 DEF InOrder
  <2> QED BY <2>2, <2>3, NoneType
<1>9. ~reused'
  BY <1>1 DEF InOrder
<1> QED BY <1>4, <1>5, <1>6, <1>7, <1>8, <1>9 DEF InOrder

(* A step that encrypts nothing and writes no session: rows may go, bundles *)
(* may be forgotten, and no process comes to hold a session.                *)
LEMMA Calm ==
    ASSUME IInv, Typed',
           \A q \in Procs : work'[q].step \in {"store", "transmit"} => work'[q] = work[q],
           \A q \in Procs : work'[q].bundle \in {0, work[q].bundle},
           \A m \in Messages : receipt'[m].keys \in {0, receipt[m].keys},
           \A a \in Addresses : rows'[a] \in {None, rows[a]},
           used' = used, reused' = reused, clean' => clean /\ Alone'
    PROVE  IInv'
<1>1. \A q \in Procs : work'[q].session \in {None, work[q].session}
  BY DEF Typed, WorkOK
<1>2. ASSUME NEW id \in Ids, Untouched(id) PROVE Untouched(id)'
  BY <1>1, <1>2, NoneType DEF Untouched
<1>3. BundlesWait'
  <2>1. \A id \in Ids, m \in Messages : receipt'[m].keys = id => Untouched(id)'
    BY <1>2, NoneType DEF IInv, BundlesWait
  <2>2. \A id \in Ids, q \in Procs : work'[q].bundle = id => Untouched(id)'
    BY <1>2, NoneType DEF IInv, BundlesWait
  <2>3. \A m, n \in Messages :
          receipt'[m].keys # 0 /\ receipt'[m].keys = receipt'[n].keys => m = n
    BY DEF IInv, BundlesWait
  <2>4. \A p, q \in Procs : work'[p].bundle # 0 /\ work'[p].bundle = work'[q].bundle => p = q
    BY DEF IInv, BundlesWait
  <2>5. \A m \in Messages, p \in Procs :
          receipt'[m].keys # 0 => receipt'[m].keys # work'[p].bundle
    BY DEF IInv, BundlesWait
  <2> QED BY <2>1, <2>2, <2>3, <2>4, <2>5 DEF BundlesWait
<1>4. clean' => InOrder'
  BY OrderKept
<1> QED BY <1>3, <1>4 DEF IInv

(* No process moves. *)
LEMMA Around ==
    ASSUME IInv, UNCHANGED <<work, used, reused, clean>>, Plain',
           \A m \in Messages : receipt'[m].keys \in {0, receipt[m].keys},
           rows' = rows \/ rows' = [rows EXCEPT !["PN"] = None]
    PROVE  IInv'
<1>1. rows' \in [Addresses -> Session] /\ \A a \in Addresses : rows'[a] \in {None, rows[a]}
  BY NoneType DEF IInv, Typed
<1>2. Typed'
  BY <1>1, NoneType DEF IInv, Typed
<1>3. Alone' = Alone
  BY DEF Alone, Active
<1>4. clean' => clean /\ Alone'
  BY <1>3 DEF IInv, InOrder
<1> QED BY <1>1, <1>2, <1>4, Calm

(* Only p moves, and it comes to hold no session. *)
LEMMA OneCalm ==
    ASSUME IInv, NEW p \in Procs, work' = [work EXCEPT ![p] = work'[p]], WorkOK(p, work'[p]),
           work'[p].step \notin {"store", "transmit"}, work'[p].bundle \in {0, work[p].bundle},
           UNCHANGED <<rows, receipt, used, reused>>, Plain', clean' => clean /\ Alone'
    PROVE  IInv'
<1>1. \A q \in Procs : q # p => work'[q] = work[q]
  BY DEF IInv, Typed
<1>2. Typed'
  BY TypedMove DEF IInv, Typed
<1>3. \A q \in Procs : work'[q].step \in {"store", "transmit"} => work'[q] = work[q]
  BY <1>1
<1>4. \A q \in Procs : work'[q].bundle \in {0, work[q].bundle}
  BY <1>1
<1>5. \A a \in Addresses : rows'[a] \in {None, rows[a]}
  OBVIOUS
<1>6. \A m \in Messages : receipt'[m].keys \in {0, receipt[m].keys}
  OBVIOUS
<1> QED BY <1>2, <1>3, <1>4, <1>5, <1>6, Calm

(* An error: the process rests. *)
LEMMA GivesUpKeeps ==
    ASSUME IInv, NEW p \in Procs, GivesUp(p), UNCHANGED <<rows, receipt, used, reused>>,
           clean' \in BOOLEAN => Plain'
    PROVE  IInv'
<1>1. PICK w : w = Resting
  OBVIOUS
<1>2. Becomes(p, w) /\ WorkOK(p, w) /\ w.step = "idle" /\ w.bundle = 0
  BY <1>1, RestingOK DEF GivesUp, Resting
<1>3. /\ work'[p] = w /\ work' = [work EXCEPT ![p] = work'[p]]
      /\ clean' \in BOOLEAN /\ (clean' => clean /\ Alone')
  BY <1>2, BecomesResult DEF IInv
<1> QED BY <1>2, <1>3, OneCalm

-----------------------------------------------------------------------------
(* Steps that leave the processes alone. *)

LEMMA LearnStep == IInv /\ Learn => IInv'
<1> SUFFICES ASSUME IInv, Learn PROVE IInv'
  OBVIOUS
<1>1. Plain'
  BY DEF IInv, Typed, Plain, Learn, peer, hist
<1> QED BY <1>1, Around DEF Learn, peer, hist

LEMMA IdentityChangeStep == ASSUME IInv, NEW a \in Addresses, IdentityChange(a) PROVE IInv'
<1>1. Plain'
  BY DEF IInv, Typed, Plain, IdentityChange, hist
<1> QED BY <1>1, Around DEF IdentityChange, hist

LEMMA ReinstallStep == IInv /\ Reinstall => IInv'
<1> SUFFICES ASSUME IInv, Reinstall PROVE IInv'
  OBVIOUS
<1>1. faults' \in 0..MaxFaults
  BY FaultCounts DEF Reinstall, IInv, Typed, Plain
<1>2. Plain'
  BY <1>1 DEF IInv, Typed, Plain, Reinstall, store, hist
<1> QED BY <1>2, Around DEF Reinstall, store, hist

LEMMA PeerReadsStep == ASSUME IInv, NEW c \in net, PeerReads(c) PROVE IInv'
<1>1. /\ c.id \in Ids /\ c.count \in 1..MaxSent /\ c.msg \in Messages
  BY DEF IInv, Typed, Plain
<1>2. Plain'
  BY <1>1 DEF IInv, Typed, Plain, PeerReads, store, hist, Keys
<1> QED BY <1>2, Around DEF PeerReads, store, hist

LEMMA CrashStep == IInv /\ Crash => IInv'
<1> SUFFICES ASSUME IInv, Crash PROVE IInv'
  OBVIOUS
<1>1. Plain'
  <2>1. faults' \in 0..MaxFaults
    BY FaultCounts DEF Crash, IInv, Typed, Plain
  <2>2. receipt' \in [Messages -> [sent : BOOLEAN, keys : 0..MaxId]]
    BY BoundsAssumption DEF Crash, NoReceipt
  <2>3. recent' \in Seq(Messages) /\ Len(recent') <= RecentSize
    BY BoundsAssumption, EmptySeq DEF Crash
  <2>4. migrated' = FALSE /\ changed' \in BOOLEAN /\ UNCHANGED <<used, reused, clean>>
    BY DEF Crash, IInv, Typed, Plain, hist
  <2> QED BY <2>1, <2>2, <2>3, <2>4 DEF Crash, IInv, Typed, Plain
<1>2. \A p \in Procs : work'[p] = Resting
  BY DEF Crash
<1>3. Typed'
  BY <1>1, <1>2, RestingOK DEF Crash, IInv, Typed
<1>4. \A p \in Procs : work'[p].step = "idle" /\ work'[p].bundle = 0
  <2>1. Resting.step = "idle" /\ Resting.bundle = 0
    BY DEF Resting
  <2> QED BY <1>2, <2>1
<1>5. Alone'
  BY <1>4 DEF Alone, Active
<1>6. \A m \in Messages : receipt'[m].keys = 0
  BY DEF Crash, NoReceipt
<1> QED BY <1>3, <1>4, <1>5, <1>6, Calm DEF Crash, hist

-----------------------------------------------------------------------------
(* Steps of a process that encrypt nothing and write no session. *)

LEMMA SendStartStep == ASSUME IInv, NEW m \in Messages, SendStart(m) PROVE IInv'
<1>1. PICK a \in Addresses : Addressed("send", [Resting EXCEPT !.msg = m, !.to = a])
  BY DEF SendStart
<1>w. PICK w : w = [Resting EXCEPT !.msg = m, !.to = a]
  OBVIOUS
<1>2. WorkOK("send", w) /\ w.session = None /\ w.msg \in Messages /\ w.bundle = 0
  BY <1>w, RestingOK, ProcsAre DEF WorkOK, WorkType, Resting
<1>3. Addressed("send", w) /\ UNCHANGED <<rows, mapped, peer, hist, faults>>
  BY <1>1, <1>w DEF SendStart
<1>4. /\ WorkOK("send", work'["send"]) /\ work' = [work EXCEPT !["send"] = work'["send"]]
      /\ work'["send"].step \notin {"store", "transmit"} /\ work'["send"].bundle = 0
      /\ clean' \in BOOLEAN /\ (clean' => clean /\ Alone') /\ migrated' \in BOOLEAN
  BY <1>2, <1>3, AddressedResult, ProcsAre DEF IInv
<1>5. recent' \in Seq(Messages) /\ Len(recent') <= RecentSize
  <2>1. recent \in Seq(Messages) /\ Len(recent) \in Nat /\ Len(recent) <= RecentSize
    BY DEF IInv, Typed, Plain
  <2>2. CASE Len(recent) = RecentSize
    <3>1. recent # <<>>
      BY <2>2, BoundsAssumption, EmptySeq
    <3>2. Tail(recent) \in Seq(Messages) /\ Len(Tail(recent)) = Len(recent) - 1
      BY <2>1, <3>1, HeadTailProperties
    <3>3. recent' = Append(Tail(recent), m)
      BY <2>2 DEF SendStart, Remembered
    <3> QED BY <2>1, <2>2, <3>2, <3>3, AppendProperties
  <2>3. CASE Len(recent) # RecentSize
    <3>1. recent' = Append(recent, m)
      BY <2>3 DEF SendStart, Remembered
    <3> QED BY <2>1, <2>3, <3>1, BoundsAssumption, AppendProperties
  <2> QED BY <2>2, <2>3
<1>6. started' \subseteq Messages
  BY DEF SendStart, IInv, Typed, Plain
<1>7. Plain'
  BY <1>3, <1>4, <1>5, <1>6 DEF IInv, Typed, Plain, peer, hist
<1> QED BY <1>3, <1>4, <1>7, OneCalm, ProcsAre DEF peer, hist

LEMMA ReceiveStartStep == IInv /\ ReceiveStart => IInv'
<1> SUFFICES ASSUME IInv, ReceiveStart PROVE IInv'
  OBVIOUS
<1>1. PICK a \in Addresses : Addressed("receive", [Resting EXCEPT !.to = a])
  BY DEF ReceiveStart
<1>w. PICK w : w = [Resting EXCEPT !.to = a]
  OBVIOUS
<1>2. WorkOK("receive", w) /\ w.session = None /\ w.bundle = 0
  BY <1>w, RestingOK, ProcsAre DEF WorkOK, WorkType, Resting
<1>3. Addressed("receive", w) /\ UNCHANGED <<rows, mapped, recent, started, peer, hist, faults>>
  BY <1>1, <1>w DEF ReceiveStart
<1>4. /\ WorkOK("receive", work'["receive"])
      /\ work' = [work EXCEPT !["receive"] = work'["receive"]]
      /\ work'["receive"].step \notin {"store", "transmit"} /\ work'["receive"].bundle = 0
      /\ clean' \in BOOLEAN /\ (clean' => clean /\ Alone') /\ migrated' \in BOOLEAN
  BY <1>2, <1>3, AddressedResult, ProcsAre DEF IInv
<1>5. Plain'
  BY <1>3, <1>4 DEF IInv, Typed, Plain, peer, hist
<1> QED BY <1>3, <1>4, <1>5, OneCalm, ProcsAre DEF peer, hist

LEMMA RetryAddressStep == ASSUME IInv, NEW m \in Messages, RetryAddress(m) PROVE IInv'
<1>1. PICK w : w = work[m]
  OBVIOUS
<1>2. m \in Procs /\ m # "send" /\ WorkOK(m, w) /\ w.session = None /\ w.msg \in Messages
  BY <1>1, ProcsAre DEF IInv, Typed, WorkOK, RetryAddress
<1>3. Addressed(m, w) /\ UNCHANGED <<rows, mapped, recent, started, peer, hist, faults>>
  BY <1>1 DEF RetryAddress
<1>4. /\ WorkOK(m, work'[m]) /\ work' = [work EXCEPT ![m] = work'[m]]
      /\ work'[m].step \notin {"store", "transmit"} /\ work'[m].bundle = w.bundle
      /\ clean' \in BOOLEAN /\ (clean' => clean /\ Alone') /\ migrated' \in BOOLEAN
  BY <1>2, <1>3, AddressedResult DEF IInv
<1>5. Plain'
  BY <1>3, <1>4 DEF IInv, Typed, Plain, peer, hist
<1> QED BY <1>1, <1>2, <1>3, <1>4, <1>5, OneCalm DEF peer, hist

LEMMA TransmitFailsStep == ASSUME IInv, NEW p \in Procs, TransmitFails(p) PROVE IInv'
<1>1. clean' \in BOOLEAN => Plain'
  BY DEF IInv, Typed, Plain, TransmitFails, store, peer, hist
<1> QED BY <1>1, GivesUpKeeps DEF TransmitFails, store, peer, hist

-----------------------------------------------------------------------------
(* A new bundle. *)

LEMMA NewIsUnknown ==
    ASSUME NEW id \in Ids, IsNew(id)
    PROVE  /\ \A a \in Addresses : rows[a].id # id
           /\ \A p \in Procs : work[p].bundle # id /\ work[p].session.id # id
           /\ \A m \in Messages : receipt[m].keys # id
BY DEF IsNew, InUse

LEMMA OffersResult ==
    ASSUME Typed, NEW id \in Ids, Offers(id)
    PROVE  /\ used' \subseteq used /\ \A k \in used' : k[1] # id
           /\ valid' \subseteq Ids /\ seen' \subseteq Keys /\ used' \subseteq Keys
BY DEF Offers, Typed, Plain

(* A new bundle has one holder and no key that is spent.                    *)
LEMMA BundleKept ==
    ASSUME IInv, Typed', NEW id \in Ids, IsNew(id), Offers(id), UNCHANGED <<rows, reused>>,
           \A q \in Procs : work'[q].step \in {"store", "transmit"} => work'[q] = work[q],
           \A q \in Procs : work'[q].bundle \in {id, work[q].bundle},
           \A m \in Messages : receipt'[m].keys \in {0, id, receipt[m].keys},
           \A p, q \in Procs : work'[p].bundle = id /\ work'[q].bundle = id => p = q,
           \A m, n \in Messages : receipt'[m].keys = id /\ receipt'[n].keys = id => m = n,
           \A m \in Messages, p \in Procs : receipt'[m].keys = id => work'[p].bundle # id,
           clean' => clean /\ Alone'
    PROVE  IInv'
<1>1. \A q \in Procs : work'[q].session \in {None, work[q].session}
  BY DEF Typed, WorkOK
<1>2. used' \subseteq used /\ \A k \in used' : k[1] # id
  BY OffersResult DEF IInv
<1>3. ASSUME NEW x \in Ids, Untouched(x) PROVE Untouched(x)'
  BY <1>1, <1>2, <1>3, NoneType DEF Untouched
<1>4. Untouched(id)'
  BY <1>1, <1>2, NoneType, NewIsUnknown DEF Untouched
<1>5. id # 0
  BY NoneType
<1>6. BundlesWait'
  <2>1. \A x \in Ids, m \in Messages : receipt'[m].keys = x => Untouched(x)'
    BY <1>3, <1>4, NoneType DEF IInv, BundlesWait
  <2>2. \A x \in Ids, q \in Procs : work'[q].bundle = x => Untouched(x)'
    BY <1>3, <1>4 DEF IInv, BundlesWait
  <2>3. \A m, n \in Messages :
          receipt'[m].keys # 0 /\ receipt'[m].keys = receipt'[n].keys => m = n
    BY DEF IInv, BundlesWait
  <2>4. \A p, q \in Procs : work'[p].bundle # 0 /\ work'[p].bundle = work'[q].bundle => p = q
    BY <1>5 DEF IInv, BundlesWait
  <2>5. \A m \in Messages, p \in Procs :
          receipt'[m].keys # 0 => receipt'[m].keys # work'[p].bundle
    BY NewIsUnknown DEF IInv, BundlesWait
  <2> QED BY <2>1, <2>2, <2>3, <2>4, <2>5 DEF BundlesWait
<1>7. clean' => InOrder'
  BY <1>2, OrderKept
<1> QED BY <1>6, <1>7 DEF IInv

LEMMA RetryFetchStep == ASSUME IInv, NEW m \in Messages, RetryFetch(m) PROVE IInv'
<1>1. CASE GivesUp(m) /\ UNCHANGED <<valid, seen, used>>
  <2>1. clean' \in BOOLEAN => Plain'
    BY <1>1 DEF IInv, Typed, Plain, RetryFetch, store
  <2> QED BY <1>1, <2>1, GivesUpKeeps, ProcsAre DEF RetryFetch, store
<1>2. ASSUME NEW id \in Ids, IsNew(id), Offers(id),
             Becomes(m, [work[m] EXCEPT !.step = "address", !.bundle = id])
      PROVE  IInv'
  <2>1. PICK w : w = [work[m] EXCEPT !.step = "address", !.bundle = id]
    OBVIOUS
  <2>2. m \in Procs /\ WorkOK(m, work[m]) /\ work[m].step = "fetch"
    BY ProcsAre DEF IInv, Typed, RetryFetch
  <2>3. /\ w \in WorkType /\ w.step = "address" /\ w.bundle = id /\ w.session = None
        /\ w.msg \in Messages
    <3>1. m # "receive" /\ id \in 0..MaxId
      BY ProcsAre DEF Ids
    <3>2. work[m] \in WorkType /\ work[m].session = None /\ work[m].msg \in Messages
      BY <2>2, <3>1 DEF WorkOK
    <3> QED BY <2>1, <3>1, <3>2 DEF WorkType, WorkSteps
  <2>4. WorkOK(m, w)
    BY <2>3 DEF WorkOK
  <2>5. /\ work'[m] = w /\ work' = [work EXCEPT ![m] = work'[m]]
        /\ clean' \in BOOLEAN /\ (clean' => clean /\ Alone')
    BY <1>2, <2>1, <2>2, BecomesResult DEF IInv
  <2>6. /\ UNCHANGED <<rows, mapped, migrated, recent, started, net, receipt, changed, read,
                       tries, reused, moved, faults>>
    BY DEF RetryFetch, store
  <2>7. Plain'
    BY <1>2, <2>5, <2>6, OffersResult DEF IInv, Typed, Plain
  <2>8. Typed'
    BY <2>2, <2>4, <2>5, <2>6, <2>7, TypedMove DEF IInv, Typed
  <2>9. \A q \in Procs : q # m => work'[q] = work[q]
    BY <2>5 DEF IInv, Typed
  <2>10. /\ \A q \in Procs : work'[q].step \in {"store", "transmit"} => work'[q] = work[q]
         /\ \A q \in Procs : work'[q].bundle \in {id, work[q].bundle}
    BY <2>3, <2>5, <2>9
  <2>11. /\ \A p, q \in Procs : work'[p].bundle = id /\ work'[q].bundle = id => p = q
         /\ \A n \in Messages : receipt'[n].keys # id /\ receipt'[n].keys = receipt[n].keys
    BY <1>2, <2>6, <2>9, NewIsUnknown
  <2> QED BY <1>2, <2>5, <2>6, <2>8, <2>10, <2>11, BundleKept
<1> QED BY <1>1, <1>2 DEF RetryFetch

LEMMA PeerAsksStep == ASSUME IInv, NEW c \in net, PeerAsks(c) PROVE IInv'
<1>1. c.id \in Ids /\ c.count \in 1..MaxSent /\ c.msg \in Messages /\ net' = net \ {c}
  BY DEF IInv, Typed, Plain, PeerAsks
<1>2. UNCHANGED <<rows, mapped, migrated, recent, started, work, changed, read, moved, reused,
                  clean, faults>>
  BY DEF PeerAsks, store
<1>3. CASE UNCHANGED <<receipt, tries, valid, seen, used>>
  <2>1. Plain'
    BY <1>1, <1>2, <1>3 DEF IInv, Typed, Plain
  <2> QED BY <1>2, <1>3, <2>1, Around
<1>4. CASE /\ tries[c.msg] # PeerTries
           /\ tries' = [tries EXCEPT ![c.msg] = @ + 1]
           /\ receipt' = [receipt EXCEPT ![c.msg] = [sent |-> TRUE, keys |-> 0]]
           /\ UNCHANGED <<valid, seen, used>>
  <2>1. tries' \in [Messages -> 0..PeerTries]
    <3>1. tries \in [Messages -> 0..PeerTries] /\ tries[c.msg] \in 0..PeerTries
      BY <1>1 DEF IInv, Typed, Plain
    <3>2. tries[c.msg] + 1 \in 0..PeerTries
      BY <1>4, <3>1, BoundsAssumption
    <3> QED BY <1>4, <3>1, <3>2
  <2>2. receipt' \in [Messages -> [sent : BOOLEAN, keys : 0..MaxId]]
    BY <1>4, BoundsAssumption DEF IInv, Typed, Plain
  <2>3. Plain'
    BY <1>1, <1>2, <1>4, <2>1, <2>2 DEF IInv, Typed, Plain
  <2>4. \A m \in Messages : receipt'[m].keys \in {0, receipt[m].keys}
    BY <1>1, <1>4 DEF IInv, Typed, Plain
  <2> QED BY <1>2, <1>4, <2>3, <2>4, Around
<1>5. ASSUME tries[c.msg] # PeerTries, tries' = [tries EXCEPT ![c.msg] = @ + 1],
             NEW id \in Ids, IsNew(id), Offers(id),
             receipt' = [receipt EXCEPT ![c.msg] = [sent |-> TRUE, keys |-> id]]
      PROVE  IInv'
  <2>1. tries' \in [Messages -> 0..PeerTries]
    <3>1. tries \in [Messages -> 0..PeerTries] /\ tries[c.msg] \in 0..PeerTries
      BY <1>1 DEF IInv, Typed, Plain
    <3>2. tries[c.msg] + 1 \in 0..PeerTries
      BY <1>5, <3>1, BoundsAssumption
    <3> QED BY <1>5, <3>1, <3>2
  <2>2. /\ receipt' \in [Messages -> [sent : BOOLEAN, keys : 0..MaxId]]
        /\ receipt'[c.msg].keys = id
        /\ \A m \in Messages : m # c.msg => receipt'[m] = receipt[m]
    BY <1>1, <1>5 DEF IInv, Typed, Plain, Ids
  <2>3. Plain'
    BY <1>1, <1>2, <1>5, <2>1, <2>2, OffersResult DEF IInv, Typed, Plain
  <2>4. Typed'
    BY <1>2, <2>3 DEF IInv, Typed
  <2>5. \A m \in Messages : receipt[m].keys # id
    BY <1>5, NewIsUnknown
  <2>6. \A q \in Procs : work'[q] = work[q] /\ work[q].bundle # id
    BY <1>2, <1>5, NewIsUnknown
  <2>7. clean' => clean /\ Alone'
    BY <1>2 DEF IInv, InOrder, Alone, Active
  <2>8. /\ \A m \in Messages : receipt'[m].keys \in {0, id, receipt[m].keys}
        /\ \A m, n \in Messages : receipt'[m].keys = id /\ receipt'[n].keys = id => m = n
    BY <2>2, <2>5
  <2> QED BY <1>2, <1>5, <2>4, <2>6, <2>7, <2>8, BundleKept
<1> QED BY <1>3, <1>4, <1>5 DEF PeerAsks

(* The receipt hands its bundle over to the goroutine that answers it.      *)
LEMMA RetryStartStep == ASSUME IInv, NEW m \in Messages, RetryStart(m) PROVE IInv'
<1>1. /\ m \in Procs /\ m # "receive" /\ WorkOK(m, work[m]) /\ work[m].step = "idle"
      /\ receipt[m].keys \in 0..MaxId
  BY ProcsAre DEF IInv, Typed, Plain, RetryStart
<1>2. UNCHANGED <<rows, mapped, migrated, recent, started, net, changed, valid, seen, read,
                  tries, moved, used, reused, faults>>
  BY DEF RetryStart, store, hist
<1>3. /\ receipt' = [receipt EXCEPT ![m] = NoReceipt]
      /\ receipt' \in [Messages -> [sent : BOOLEAN, keys : 0..MaxId]]
      /\ receipt'[m].keys = 0 /\ \A n \in Messages : n # m => receipt'[n] = receipt[n]
  <2>1. receipt' = [receipt EXCEPT ![m] = NoReceipt]
    BY DEF RetryStart, Forget
  <2>2. receipt \in [Messages -> [sent : BOOLEAN, keys : 0..MaxId]]
    BY DEF IInv, Typed, Plain
  <2>3. NoReceipt \in [sent : BOOLEAN, keys : 0..MaxId] /\ NoReceipt.keys = 0
    BY BoundsAssumption DEF NoReceipt
  <2> QED BY <2>1, <2>2, <2>3
<1>4. CASE UNCHANGED <<work, clean>>
  <2>1. Plain'
    BY <1>2, <1>3, <1>4 DEF IInv, Typed, Plain
  <2>2. \A n \in Messages : receipt'[n].keys \in {0, receipt[n].keys}
    BY <1>3
  <2> QED BY <1>2, <1>4, <2>1, <2>2, Around
<1>5. ASSUME NEW w, Becomes(m, w), NEW step \in {"fetch", "address"}, NEW a \in Addresses,
             w = [Resting EXCEPT !.msg = m, !.to = a, !.bundle = receipt[m].keys, !.step = step]
      PROVE  IInv'
  <2>1. WorkOK(m, w) /\ w.step = step /\ w.bundle = receipt[m].keys /\ w.session = None
    BY <1>1, <1>5, RestingOK DEF WorkOK, WorkType, WorkSteps, Resting
  <2>2. /\ work'[m] = w /\ work' = [work EXCEPT ![m] = work'[m]]
        /\ clean' \in BOOLEAN /\ (clean' => clean /\ Alone')
    BY <1>1, <1>5, BecomesResult DEF IInv
  <2>3. Plain'
    BY <1>2, <1>3, <2>2 DEF IInv, Typed, Plain
  <2>4. Typed'
    BY <1>1, <1>2, <2>1, <2>2, <2>3, TypedMove DEF IInv, Typed
  <2>5. \A q \in Procs : q # m => work'[q] = work[q]
    BY <2>2 DEF IInv, Typed
  <2>6. \A q \in Procs : work'[q].session \in {None, work[q].session}
    BY <2>1, <2>2, <2>5
  <2>7. ASSUME NEW id \in Ids, Untouched(id) PROVE Untouched(id)'
    BY <1>2, <2>6, <2>7, NoneType DEF Untouched
  <2>8. BundlesWait'
    <3>1. \A id \in Ids, n \in Messages : receipt'[n].keys = id => Untouched(id)'
      BY <1>3, <2>7, NoneType DEF IInv, BundlesWait
    <3>2. \A id \in Ids, q \in Procs : work'[q].bundle = id => Untouched(id)'
      BY <2>1, <2>2, <2>5, <2>7 DEF IInv, BundlesWait
    <3>3. \A n, o \in Messages :
            receipt'[n].keys # 0 /\ receipt'[n].keys = receipt'[o].keys => n = o
      BY <1>3 DEF IInv, BundlesWait
    <3>4. \A p, q \in Procs : work'[p].bundle # 0 /\ work'[p].bundle = work'[q].bundle => p = q
      BY <2>1, <2>2, <2>5 DEF IInv, BundlesWait
    <3>5. \A n \in Messages, p \in Procs :
            receipt'[n].keys # 0 => receipt'[n].keys # work'[p].bundle
      BY <1>3, <2>1, <2>2, <2>5 DEF IInv, BundlesWait
    <3> QED BY <3>1, <3>2, <3>3, <3>4, <3>5 DEF BundlesWait
  <2>9. \A q \in Procs : work'[q].step \in {"store", "transmit"} => work'[q] = work[q]
    BY <2>1, <2>2, <2>5
  <2>10. clean' => InOrder'
    BY <1>2, <2>2, <2>9, OrderKept
  <2> QED BY <2>4, <2>8, <2>10 DEF IInv
<1>6. \/ UNCHANGED <<work, clean>>
      \/ \E a \in Addresses, step \in {"fetch", "address"} :
           Becomes(m, [Resting EXCEPT !.msg = m, !.to = a, !.bundle = receipt[m].keys,
                                      !.step = step])
  <2>1. CASE UNCHANGED <<work, clean>>
    BY <2>1
  <2>2. ASSUME NEW a \in Addresses,
               Becomes(m, [Resting EXCEPT !.msg = m, !.to = a, !.bundle = receipt[m].keys,
                             !.step = IF receipt[m].keys = 0 /\ rows[a] = None
                                      THEN "fetch" ELSE "address"])
        PROVE  \E step \in {"fetch", "address"} :
                 Becomes(m, [Resting EXCEPT !.msg = m, !.to = a, !.bundle = receipt[m].keys,
                                            !.step = step])
    <3>1. CASE receipt[m].keys = 0 /\ rows[a] = None
      BY <2>2, <3>1
    <3>2. CASE ~ (receipt[m].keys = 0 /\ rows[a] = None)
      BY <2>2, <3>2
    <3> QED BY <3>1, <3>2
  <2> QED BY <2>1, <2>2 DEF RetryStart
<1> QED BY <1>4, <1>5, <1>6

-----------------------------------------------------------------------------
(* Steps of the process that has the session. *)

LEMMA SendFetchStep == IInv /\ SendFetch => IInv'
<1> SUFFICES ASSUME IInv, SendFetch PROVE IInv'
  OBVIOUS
<1>1. CASE GivesUp("send") /\ UNCHANGED <<valid, seen, used>>
  <2>1. clean' \in BOOLEAN => Plain'
    BY <1>1 DEF IInv, Typed, Plain, SendFetch, store
  <2> QED BY <1>1, <2>1, GivesUpKeeps, ProcsAre DEF SendFetch, store
<1>2. ASSUME NEW id \in Ids, IsNew(id), Offers(id),
             Becomes("send", [work["send"] EXCEPT !.step = "store",
                                                  !.session = [id |-> id, sent |-> 0]])
      PROVE  IInv'
  <2>1. PICK w : w = [work["send"] EXCEPT !.step = "store", !.session = [id |-> id, sent |-> 0]]
    OBVIOUS
  <2>2. /\ "send" \in Procs /\ WorkOK("send", work["send"])
        /\ work["send"].step = "session" /\ [id |-> id, sent |-> 0] \in Session
    <3>1. "send" \in Procs /\ WorkOK("send", work["send"]) /\ work["send"].step = "session"
      BY ProcsAre DEF IInv, Typed, SendFetch
    <3>2. id \in 0..MaxId /\ 0 \in 0..MaxSent
      BY BoundsAssumption DEF Ids
    <3> QED BY <3>1, <3>2 DEF Session
  <2>3. /\ w \in WorkType /\ w.step = "store" /\ w.bundle = work["send"].bundle
        /\ w.session = [id |-> id, sent |-> 0] /\ w.to = work["send"].to
        /\ w.msg = work["send"].msg
    BY <2>1, <2>2 DEF WorkOK, WorkType, WorkSteps
  <2>4. WorkOK("send", w)
    BY <2>2, <2>3 DEF WorkOK
  <2>5. /\ work'["send"] = w /\ work' = [work EXCEPT !["send"] = work'["send"]]
        /\ clean' \in BOOLEAN /\ (clean' => clean /\ Alone')
    BY <1>2, <2>1, <2>2, BecomesResult DEF IInv
  <2>6. UNCHANGED <<rows, mapped, migrated, recent, started, net, receipt, changed, read,
                    tries, reused, moved, faults>>
    BY DEF SendFetch, store
  <2>7. /\ used' \subseteq used /\ \A k \in used' : k[1] # id
    BY <1>2, OffersResult DEF IInv
  <2>8. Typed'
    <3>1. Plain'
      BY <1>2, <2>5, <2>6, OffersResult DEF IInv, Typed, Plain
    <3> QED BY <2>2, <2>4, <2>5, <2>6, <3>1, TypedMove DEF IInv, Typed
  <2>9. \A q \in Procs : q # "send" => work'[q] = work[q]
    BY <2>5 DEF IInv, Typed
  <2>10. BundlesWait'
    <3>1. ASSUME NEW x \in Ids, x # id, Untouched(x) PROVE Untouched(x)'
      BY <2>3, <2>5, <2>6, <2>7, <2>9, <3>1 DEF Untouched
    <3>2. /\ \A q \in Procs : work'[q].bundle = work[q].bundle /\ work[q].bundle # id
          /\ \A m \in Messages : receipt'[m].keys # id
      BY <1>2, <2>3, <2>5, <2>6, <2>9, NewIsUnknown
    <3> QED BY <2>6, <3>1, <3>2 DEF IInv, BundlesWait
  <2>11. ASSUME clean' PROVE InOrder'
    <3>1. clean /\ Alone' /\ InOrder
      BY <2>5, <2>11 DEF IInv
    <3>2. \A p \in Procs : Sending(p)' => p # "send" /\ Sending(p) /\ work'[p] = work[p]
      BY <2>3, <2>5, <2>9 DEF Sending
    <3>3. ASSUME NEW s, Counts(s) PROVE Counts(s)'
      BY <2>7, <3>2, <3>3 DEF Counts
    <3>4. Counts([id |-> id, sent |-> 0])'
      BY <1>2, <2>7, <3>2, NewIsUnknown DEF Counts
    <3>5. \A p \in Procs : Sending(p)' => Key(p)' \notin used'
      BY <2>7, <3>1, <3>2 DEF InOrder, Key
    <3>6. \A p, q \in Procs : Sending(p)' /\ Sending(q)' /\ Key(p)' = Key(q)' => p = q
      BY <3>1, <3>2 DEF InOrder, Key
    <3>7. \A a \in Addresses : rows'[a] # None => Counts(rows[a])'
      <4> SUFFICES ASSUME NEW a \in Addresses, rows'[a] # None PROVE Counts(rows[a])'
        OBVIOUS
      <4>1. PICK s : s = rows[a]
        OBVIOUS
      <4>2. s = rows'[a] /\ Counts(s)'
        BY <2>6, <3>1, <3>3, <4>1 DEF InOrder
      <4> QED BY <4>2
    <3>8. rows'["PN"] # None => rows'["PN"].id # rows'["LID"].id
      BY <2>6, <3>1 DEF InOrder
    <3>9. ASSUME NEW p \in Procs, work'[p].step = "store"
          PROVE  /\ Counts(work[p].session)'
                 /\ \A a \in Addresses : a # work'[p].to => rows'[a].id # work'[p].session.id
      <4>1. p = "send"
        BY <2>2, <2>3, <2>5, <3>1, <3>9 DEF Alone, Active
      <4>2. work'[p].session = [id |-> id, sent |-> 0]
        BY <2>3, <2>5, <4>1
      <4>3. \A a \in Addresses : rows'[a].id # id
        BY <1>2, <2>6, NewIsUnknown
      <4> QED BY <3>4, <4>2, <4>3
    <3> QED BY <2>6, <3>1, <3>5, <3>6, <3>7, <3>8, <3>9 DEF InOrder
  <2> QED BY <2>8, <2>10, <2>11 DEF IInv
<1> QED BY <1>1, <1>2 DEF SendFetch

(* Only p moves, from a step at which it has the session to one at which it *)
(* holds no record in memory, and the rows may change with it.              *)
LEMMA RowsMove ==
    ASSUME IInv, Typed', NEW p \in Procs, work' = [work EXCEPT ![p] = work'[p]],
           Active(p), work'[p].step \notin {"store", "transmit"},
           work[p].step # "transmit", UNCHANGED <<used, reused>>, clean' => clean /\ Alone',
           clean => \A a \in Addresses : rows'[a] # None =>
                      \E s \in Session : s = rows'[a] /\ Counts(s),
           clean => (rows'["PN"] # None => rows'["PN"].id # rows'["LID"].id)
    PROVE  clean' => InOrder'
<1> SUFFICES ASSUME clean' PROVE InOrder'
  OBVIOUS
<1>1. clean /\ Alone' /\ InOrder
  BY DEF IInv
<1>2. \A q \in Procs : q # p => work'[q] = work[q]
  BY DEF IInv, Typed
<1>3. \A q \in Procs : Sending(q)' => q # p /\ Sending(q) /\ work'[q] = work[q]
  BY <1>2 DEF Sending
<1>4. ASSUME NEW s, Counts(s) PROVE Counts(s)'
  BY <1>3, <1>4 DEF Counts
<1>5. \A q \in Procs : Sending(q)' => Key(q)' \notin used'
  BY <1>1, <1>3 DEF InOrder, Key
<1>6. \A q, r \in Procs : Sending(q)' /\ Sending(r)' /\ Key(q)' = Key(r)' => q = r
  BY <1>1, <1>3 DEF InOrder, Key
<1>7. \A a \in Addresses : rows'[a] # None => Counts(rows[a])'
  <2> SUFFICES ASSUME NEW a \in Addresses, rows'[a] # None PROVE Counts(rows[a])'
    OBVIOUS
  <2>1. PICK s \in Session : s = rows'[a] /\ Counts(s)
    BY <1>1
  <2>2. Counts(s)'
    BY <1>4, <2>1
  <2> QED BY <2>1, <2>2
<1>8. \A q \in Procs : work'[q].step # "store"
  BY <1>1, <1>2 DEF InOrder, Alone, Active
<1> QED BY <1>1, <1>5, <1>6, <1>7, <1>8 DEF InOrder

LEMMA ProcessBundleStep == ASSUME IInv, NEW m \in Messages, ProcessBundle(m) PROVE IInv'
<1> DEFINE b == work[m].bundle
           to == work[m].to
           new == [id |-> b, sent |-> 0]
<1>1. /\ m \in Procs /\ WorkOK(m, work[m]) /\ work[m].step = "bundle" /\ b \in Ids
      /\ to \in Addresses
  <2>1. m \in Procs /\ WorkOK(m, work[m]) /\ work[m].step = "bundle"
    BY ProcsAre DEF IInv, Typed, ProcessBundle
  <2>2. b \in 0..MaxId /\ b # 0 /\ to \in Addresses
    BY <2>1 DEF WorkOK, WorkType
  <2> QED BY <2>1, <2>2, BoundsAssumption DEF Ids
<1>2. new \in Session /\ RowOK(new)
  BY <1>1, BoundsAssumption DEF Session, RowOK, Ids
<1>3. rows' = [rows EXCEPT ![to] = new] /\ rows \in [Addresses -> Session]
  BY DEF ProcessBundle, IInv, Typed
<1>4. rows'[to] = new /\ \A a \in Addresses : a # to => rows'[a] = rows[a]
  BY <1>1, <1>3
<1>5. PICK w : w = [work[m] EXCEPT !.step = "load", !.bundle = 0]
  OBVIOUS
<1>6. /\ w \in WorkType /\ w.step = "load" /\ w.bundle = 0 /\ w.session = None
      /\ w.msg = work[m].msg
  <2>1. work[m] \in WorkType /\ work[m].session = None /\ 0 \in 0..MaxId
    BY <1>1, BoundsAssumption DEF WorkOK
  <2> QED BY <1>5, <2>1 DEF WorkType, WorkSteps
<1>7. WorkOK(m, w)
  BY <1>1, <1>6 DEF WorkOK
<1>8. /\ work'[m] = w /\ work' = [work EXCEPT ![m] = work'[m]]
      /\ clean' \in BOOLEAN /\ (clean' => clean /\ Alone')
  BY <1>1, <1>5, BecomesResult DEF IInv, ProcessBundle
<1>9. UNCHANGED <<mapped, migrated, recent, started, net, receipt, changed, valid, seen, read,
                  tries, moved, used, reused, faults>>
  BY DEF ProcessBundle, peer, hist
<1>10. Typed'
  <2>1. Plain'
    BY <1>8, <1>9 DEF IInv, Typed, Plain
  <2>2. rows' \in [Addresses -> Session] /\ \A a \in Addresses : RowOK(rows'[a])
    BY <1>2, <1>3, <1>4 DEF IInv, Typed
  <2> QED BY <1>1, <1>7, <1>8, <2>1, <2>2, TypedMove DEF IInv
<1>11. \A q \in Procs : q # m => work'[q] = work[q]
  BY <1>8 DEF IInv, Typed
<1>12. Untouched(b)
  BY <1>1 DEF IInv, BundlesWait
<1>13. BundlesWait'
  <2>1. ASSUME NEW x \in Ids, x # b, Untouched(x) PROVE Untouched(x)'
    <3>1. \A a \in Addresses : rows'[a].id # x
      BY <1>4, <2>1 DEF Untouched
    <3>2. \A q \in Procs : work'[q].session.id # x
      BY <1>6, <1>8, <1>11, <2>1, NoneType DEF Untouched
    <3>3. \A k \in used' : k[1] # x
      BY <1>9, <2>1 DEF Untouched
    <3> QED BY <3>1, <3>2, <3>3 DEF Untouched
  <2>2. \A q \in Procs : work'[q].bundle # b
    BY <1>1, <1>6, <1>8, <1>11, NoneType DEF IInv, BundlesWait
  <2>3. \A n \in Messages : receipt'[n].keys # b
    BY <1>1, <1>9, NoneType DEF IInv, BundlesWait
  <2>4. \A q \in Procs : work'[q].bundle \in {0, work[q].bundle}
    BY <1>6, <1>8, <1>11
  <2>5. \A x \in Ids, n \in Messages : receipt'[n].keys = x => Untouched(x)'
    BY <1>9, <2>1, <2>3 DEF IInv, BundlesWait
  <2>6. \A x \in Ids, q \in Procs : work'[q].bundle = x => Untouched(x)'
    BY <2>1, <2>2, <2>4, NoneType DEF IInv, BundlesWait
  <2> QED BY <1>9, <2>4, <2>5, <2>6 DEF IInv, BundlesWait
<1>14. clean' => InOrder'
  <2>1. Active(m)
    BY <1>1 DEF Active
  <2>2. clean => Counts(new)
    BY <1>1, <1>12 DEF Counts, Untouched, Sending
  <2>3. clean => \A a \in Addresses : rows'[a] # None =>
                   \E s \in Session : s = rows'[a] /\ Counts(s)
    BY <1>2, <1>3, <1>4, <2>2 DEF IInv, InOrder
  <2>4. clean => (rows'["PN"] # None => rows'["PN"].id # rows'["LID"].id)
    <3>1. CASE to = "PN"
      BY <1>4, <1>12, <3>1 DEF Untouched, Addresses
    <3>2. CASE to = "LID"
      BY <1>4, <1>12, <3>2 DEF Untouched, Addresses
    <3> QED BY <1>1, <3>1, <3>2 DEF Addresses
  <2> QED BY <1>1, <1>6, <1>8, <1>9, <1>10, <2>1, <2>3, <2>4, RowsMove
<1> QED BY <1>10, <1>13, <1>14 DEF IInv

LEMMA MigrateStep == ASSUME IInv, NEW p \in Procs, Migrate(p) PROVE IInv'
<1>1. WorkOK(p, work[p]) /\ work[p].step = "migrate"
  BY DEF IInv, Typed, Migrate
<1>2. PICK w : w = [work[p] EXCEPT !.step = AtRow(work[p])]
  OBVIOUS
<1>3. /\ w \in WorkType /\ w.step \in {"bundle", "load"} /\ w.bundle = work[p].bundle
      /\ w.session = None /\ w.msg = work[p].msg /\ (w.step = "bundle" => w.bundle # 0)
  BY <1>1, <1>2 DEF WorkOK, WorkType, WorkSteps, AtRow
<1>4. WorkOK(p, w)
  BY <1>1, <1>3 DEF WorkOK
<1>5. /\ work'[p] = w /\ work' = [work EXCEPT ![p] = work'[p]]
      /\ clean' \in BOOLEAN /\ (clean' => clean /\ Alone')
  BY <1>2, BecomesResult DEF IInv, Migrate
<1>6. UNCHANGED <<mapped, migrated, recent, started, net, receipt, changed, valid, seen, read,
                  tries, moved, used, reused>>
  BY DEF Migrate, peer, hist
<1>7. \/ rows' = rows
      \/ rows' = [PN |-> None,
                  LID |-> IF rows["PN"] # None THEN rows["PN"] ELSE rows["LID"]]
  BY DEF Migrate
<1>8. rows \in [Addresses -> Session] /\ "PN" \in Addresses /\ "LID" \in Addresses
  BY DEF IInv, Typed, Addresses
<1>9. rows' \in [Addresses -> Session]
      /\ \A a \in Addresses : rows'[a] = None \/ \E c \in Addresses : rows'[a] = rows[c]
  <2>1. CASE rows' = rows
    BY <1>8, <2>1
  <2>2. CASE rows' = [PN |-> None,
                      LID |-> IF rows["PN"] # None THEN rows["PN"] ELSE rows["LID"]]
    BY <1>8, <2>2, NoneType DEF Addresses
  <2> QED BY <1>7, <2>1, <2>2
<1>10. rows'["PN"] = None \/ rows' = rows
  BY <1>7
<1>11. Typed'
  <2>1. faults' \in 0..MaxFaults
    BY FaultCounts DEF Migrate, IInv, Typed, Plain
  <2>2. Plain'
    BY <1>5, <1>6, <2>1 DEF IInv, Typed, Plain
  <2>3. \A a \in Addresses : RowOK(rows'[a])
    BY <1>9, NoneType DEF IInv, Typed
  <2> QED BY <1>4, <1>5, <1>9, <2>2, <2>3, TypedMove DEF IInv
<1>12. \A q \in Procs : q # p => work'[q] = work[q]
  BY <1>5 DEF IInv, Typed
<1>13. BundlesWait'
  <2>1. ASSUME NEW x \in Ids, Untouched(x) PROVE Untouched(x)'
    <3>1. \A a \in Addresses : rows'[a].id # x
      BY <1>9, <2>1, NoneType DEF Untouched
    <3>2. \A q \in Procs : work'[q].session.id # x
      BY <1>3, <1>5, <1>12, <2>1, NoneType DEF Untouched
    <3>3. \A k \in used' : k[1] # x
      BY <1>6, <2>1 DEF Untouched
    <3> QED BY <3>1, <3>2, <3>3 DEF Untouched
  <2>2. \A q \in Procs : work'[q].bundle = work[q].bundle
    BY <1>3, <1>5, <1>12
  <2> QED BY <1>6, <2>1, <2>2 DEF IInv, BundlesWait
<1>14. clean' => InOrder'
  <2>1. Active(p)
    BY <1>1 DEF Active
  <2>2. clean => \A a \in Addresses : rows'[a] # None =>
                   \E s \in Session : s = rows'[a] /\ Counts(s)
    BY <1>8, <1>9 DEF IInv, InOrder
  <2>3. clean => (rows'["PN"] # None => rows'["PN"].id # rows'["LID"].id)
    BY <1>10 DEF IInv, InOrder
  <2> QED BY <1>1, <1>3, <1>5, <1>6, <1>11, <2>1, <2>2, <2>3, RowsMove
<1> QED BY <1>11, <1>13, <1>14 DEF IInv

LEMMA LoadStep == ASSUME IInv, NEW p \in Procs, Load(p) PROVE IInv'
<1>1. /\ WorkOK(p, work[p]) /\ work[p].step = "load" /\ work[p].to \in Addresses
      /\ UNCHANGED <<rows, mapped, migrated, recent, started, net, receipt, changed, valid,
                     seen, read, tries, moved, used, reused, faults>>
  <2>1. WorkOK(p, work[p]) /\ work[p].step = "load"
    BY DEF IInv, Typed, Load
  <2> QED BY <2>1 DEF WorkOK, WorkType, Load, store, peer, hist
<1>2. CASE GivesUp(p)
  <2>1. clean' \in BOOLEAN => Plain'
    BY <1>1 DEF IInv, Typed, Plain
  <2> QED BY <1>1, <1>2, <2>1, GivesUpKeeps
<1>3. CASE p = "send" /\ Becomes(p, [work[p] EXCEPT !.step = "session"])
  <2>1. PICK w : w = [work[p] EXCEPT !.step = "session"]
    OBVIOUS
  <2>2. /\ w \in WorkType /\ w.step = "session" /\ w.session = None
        /\ w.bundle = work[p].bundle /\ w.msg = work[p].msg
    BY <1>1, <2>1 DEF WorkOK, WorkType, WorkSteps
  <2>3. WorkOK(p, w)
    BY <1>1, <2>2 DEF WorkOK
  <2>4. /\ work'[p] = w /\ work' = [work EXCEPT ![p] = work'[p]]
        /\ clean' \in BOOLEAN /\ (clean' => clean /\ Alone')
    BY <1>3, <2>1, BecomesResult DEF IInv
  <2>5. Plain'
    BY <1>1, <2>4 DEF IInv, Typed, Plain
  <2> QED BY <1>1, <2>2, <2>3, <2>4, <2>5, OneCalm
<1>4. ASSUME NEW s \in Session, s = rows[work[p].to], s # None,
             Becomes(p, [work[p] EXCEPT !.step = "store", !.session = s])
      PROVE  IInv'
  <2>1. PICK w : w = [work[p] EXCEPT !.step = "store", !.session = s]
    OBVIOUS
  <2>2. s.id \in Ids
    BY <1>1, <1>4 DEF IInv, Typed, RowOK
  <2>3. /\ w \in WorkType /\ w.step = "store" /\ w.session = s /\ w.to = work[p].to
        /\ w.bundle = work[p].bundle /\ w.msg = work[p].msg
    BY <1>1, <1>4, <2>1 DEF WorkOK, WorkType, WorkSteps
  <2>4. WorkOK(p, w)
    BY <1>1, <2>2, <2>3 DEF WorkOK
  <2>5. /\ work'[p] = w /\ work' = [work EXCEPT ![p] = work'[p]]
        /\ clean' \in BOOLEAN /\ (clean' => clean /\ Alone')
    BY <1>4, <2>1, BecomesResult DEF IInv
  <2>6. Typed'
    <3>1. Plain'
      BY <1>1, <2>5 DEF IInv, Typed, Plain
    <3> QED BY <1>1, <2>4, <2>5, <3>1, TypedMove DEF IInv, Typed
  <2>7. \A q \in Procs : q # p => work'[q] = work[q]
    BY <2>5 DEF IInv, Typed
  <2>8. BundlesWait'
    <3>1. ASSUME NEW x \in Ids, Untouched(x) PROVE Untouched(x)'
      BY <1>1, <1>4, <2>3, <2>5, <2>7, <3>1 DEF Untouched
    <3>2. \A q \in Procs : work'[q].bundle = work[q].bundle
      BY <2>3, <2>5, <2>7
    <3> QED BY <1>1, <3>1, <3>2 DEF IInv, BundlesWait
  <2>9. ASSUME clean' PROVE InOrder'
    <3>1. clean /\ Alone' /\ InOrder
      BY <2>5, <2>9 DEF IInv
    <3>2. \A q \in Procs : Sending(q)' => Sending(q) /\ work'[q] = work[q]
      BY <2>3, <2>5, <2>7 DEF Sending
    <3>3. ASSUME NEW t, Counts(t) PROVE Counts(t)'
      BY <1>1, <3>2, <3>3 DEF Counts
    <3>4. \A q \in Procs : Sending(q)' => Key(q)' \notin used'
      BY <1>1, <3>1, <3>2 DEF InOrder, Key
    <3>5. \A q, r \in Procs : Sending(q)' /\ Sending(r)' /\ Key(q)' = Key(r)' => q = r
      BY <3>1, <3>2 DEF InOrder, Key
    <3>6. \A a \in Addresses : rows'[a] # None => Counts(rows[a])'
      <4> SUFFICES ASSUME NEW a \in Addresses, rows'[a] # None PROVE Counts(rows[a])'
        OBVIOUS
      <4>1. PICK t : t = rows[a]
        OBVIOUS
      <4>2. t = rows'[a] /\ Counts(t)'
        BY <1>1, <3>1, <3>3, <4>1 DEF InOrder
      <4> QED BY <4>2
    <3>7. Counts(s)' /\ \A a \in Addresses : a # work[p].to => rows[a].id # s.id
      <4>1. Counts(s)
        BY <1>1, <1>4, <3>1 DEF InOrder
      <4>2. rows["PN"] # None => rows["PN"].id # rows["LID"].id
        BY <3>1 DEF InOrder
      <4> QED BY <1>1, <1>4, <2>2, <3>3, <4>1, <4>2, NoneType DEF Addresses
    <3>8. ASSUME NEW q \in Procs, work'[q].step = "store"
          PROVE  /\ Counts(work[q].session)'
                 /\ \A a \in Addresses : a # work'[q].to => rows'[a].id # work'[q].session.id
      <4>1. q = p
        BY <2>3, <2>5, <3>1, <3>8 DEF Alone, Active
      <4>2. work'[q].session = s /\ work'[q].to = work[p].to
        BY <2>3, <2>5, <4>1
      <4> QED BY <1>1, <3>7, <4>2
    <3> QED BY <1>1, <3>1, <3>4, <3>5, <3>6, <3>8 DEF InOrder
  <2> QED BY <2>6, <2>8, <2>9 DEF IInv
<1>5. rows[work[p].to] \in Session
  BY <1>1 DEF IInv, Typed
<1>6. CASE rows[work[p].to] # None
  BY <1>4, <1>5, <1>6 DEF Load
<1>7. CASE rows[work[p].to] = None
  BY <1>2, <1>3, <1>7 DEF Load
<1> QED BY <1>6, <1>7

LEMMA TransmitStep == ASSUME IInv, NEW p \in Procs, Transmit(p) PROVE IInv'
<1>1. /\ WorkOK(p, work[p]) /\ Sending(p) /\ work[p].msg \in Messages
      /\ work[p].session.id \in Ids /\ work[p].session.sent \in 1..MaxSent
  BY DEF IInv, Typed, WorkOK, Transmit, Sending
<1>2. PICK w : w = Resting
  OBVIOUS
<1>3. WorkOK(p, w) /\ w.step = "idle" /\ w.bundle = 0 /\ w.session = None
  BY <1>2, RestingOK DEF Resting
<1>4. /\ work'[p] = w /\ work' = [work EXCEPT ![p] = work'[p]]
      /\ clean' \in BOOLEAN /\ (clean' => clean /\ Alone')
  BY <1>2, BecomesResult DEF IInv, Transmit
<1>5. /\ used' = used \cup {Key(p)} /\ (reused' <=> (reused \/ Key(p) \in used))
      /\ reused' \in BOOLEAN
      /\ UNCHANGED <<rows, mapped, migrated, recent, started, receipt, changed, valid, seen,
                     read, tries, moved, faults>>
  BY DEF Transmit, Key, store, IInv, Typed, Plain
<1>6. Typed'
  <2>1. net' \subseteq [msg : Messages, id : Ids, count : 1..MaxSent]
    BY <1>1 DEF Transmit, IInv, Typed, Plain
  <2>2. used' \subseteq Keys
    BY <1>1, <1>5 DEF Key, Keys, IInv, Typed, Plain
  <2>3. Plain'
    BY <1>4, <1>5, <2>1, <2>2 DEF IInv, Typed, Plain
  <2> QED BY <1>3, <1>4, <1>5, <2>3, TypedMove DEF IInv, Typed
<1>7. \A q \in Procs : q # p => work'[q] = work[q]
  BY <1>4 DEF IInv, Typed
<1>8. BundlesWait'
  <2>1. ASSUME NEW x \in Ids, Untouched(x) PROVE Untouched(x)'
    <3>1. \A q \in Procs : work'[q].session.id # x
      BY <1>3, <1>4, <1>7, <2>1, NoneType DEF Untouched
    <3>2. \A k \in used' : k[1] # x
      BY <1>5, <2>1 DEF Untouched, Key
    <3> QED BY <1>5, <2>1, <3>1, <3>2 DEF Untouched
  <2>2. \A q \in Procs : work'[q].bundle \in {0, work[q].bundle}
    BY <1>3, <1>4, <1>7
  <2> QED BY <1>5, <2>1, <2>2, NoneType DEF IInv, BundlesWait
<1>9. ASSUME clean' PROVE InOrder'
  <2>1. clean /\ Alone' /\ InOrder
    BY <1>4, <1>9 DEF IInv
  <2>2. \A q \in Procs : Sending(q)' => q # p /\ Sending(q) /\ work'[q] = work[q]
    BY <1>3, <1>4, <1>7 DEF Sending
  <2>3. ASSUME NEW t, Counts(t) PROVE Counts(t)'
    BY <1>1, <1>5, <2>2, <2>3 DEF Counts, Key
  <2>4. \A q \in Procs : Sending(q)' => Key(q)' \notin used'
    BY <1>1, <1>5, <2>1, <2>2 DEF InOrder, Key
  <2>5. \A q, r \in Procs : Sending(q)' /\ Sending(r)' /\ Key(q)' = Key(r)' => q = r
    BY <2>1, <2>2 DEF InOrder, Key
  <2>6. \A a \in Addresses : rows'[a] # None => Counts(rows[a])'
    <3> SUFFICES ASSUME NEW a \in Addresses, rows'[a] # None PROVE Counts(rows[a])'
      OBVIOUS
    <3>1. PICK t : t = rows[a]
      OBVIOUS
    <3>2. t = rows'[a] /\ Counts(t)'
      BY <1>5, <2>1, <2>3, <3>1 DEF InOrder
    <3> QED BY <3>2
  <2>7. ASSUME NEW q \in Procs, work'[q].step = "store"
        PROVE  /\ Counts(work[q].session)'
               /\ \A a \in Addresses : a # work'[q].to => rows'[a].id # work'[q].session.id
    <3>1. PICK t : t = work[q].session
      OBVIOUS
    <3>2. work'[q] = work[q]
      BY <1>3, <1>4, <1>7, <2>7
    <3>3. Counts(t)' /\ \A a \in Addresses : a # work[q].to => rows[a].id # t.id
      BY <2>1, <2>3, <2>7, <3>1, <3>2 DEF InOrder
    <3> QED BY <1>5, <3>1, <3>2, <3>3
  <2>8. ~reused' /\ (rows'["PN"] # None => rows'["PN"].id # rows'["LID"].id)
    BY <1>1, <1>5, <2>1 DEF InOrder
  <2> QED BY <2>1, <2>4, <2>5, <2>6, <2>7, <2>8 DEF InOrder
<1> QED BY <1>6, <1>8, <1>9 DEF IInv

(* The record is written: the row has it, and p has the key of its          *)
(* ciphertext, or nothing if it decrypted.                                  *)
LEMMA WrittenKeeps ==
    ASSUME IInv, NEW p \in Procs, work[p].step = "store", Typed',
           NEW s \in Session, s.id = work[p].session.id,
           rows' = [rows EXCEPT ![work[p].to] = s],
           work' = [work EXCEPT ![p] = work'[p]], work'[p].bundle \in {0, work[p].bundle},
           \/ work'[p].step = "idle" /\ s = work[p].session
           \/ /\ work'[p].step = "transmit" /\ work'[p].session = s
              /\ s.sent = work[p].session.sent + 1,
           UNCHANGED <<receipt, used, reused>>, clean' => clean /\ Alone'
    PROVE  IInv'
<1> DEFINE to == work[p].to
           t == work[p].session
<1>1. to \in Addresses /\ t \in Session /\ t.id \in Ids /\ t.sent \in Nat /\ s.sent \in Nat
  <2>1. WorkOK(p, work[p])
    BY DEF IInv, Typed
  <2>2. to \in Addresses /\ t.id \in Ids
    BY <2>1 DEF WorkOK, WorkType
  <2>3. t \in Session /\ t.sent \in Nat /\ s.sent \in Nat
    BY SentIsNat DEF IInv, Session
  <2> QED BY <2>2, <2>3
<1>2. rows'[to] = s /\ \A a \in Addresses : a # to => rows'[a] = rows[a]
  BY <1>1 DEF IInv, Typed
<1>3. \A q \in Procs : q # p => work'[q] = work[q]
  BY DEF IInv, Typed
<1>4. work'[p].session = None \/ work'[p].session = s
  BY DEF Typed, WorkOK
<1>5. BundlesWait'
  <2>1. ASSUME NEW x \in Ids, Untouched(x) PROVE Untouched(x)'
    <3>1. \A a \in Addresses : rows'[a].id # x
      BY <1>2, <2>1 DEF Untouched
    <3>2. \A q \in Procs : work'[q].session.id # x
      BY <1>3, <1>4, <2>1, NoneType DEF Untouched
    <3> QED BY <2>1, <3>1, <3>2 DEF Untouched
  <2>2. \A q \in Procs : work'[q].bundle \in {0, work[q].bundle}
    BY <1>3
  <2> QED BY <2>1, <2>2, NoneType DEF IInv, BundlesWait
<1>6. ASSUME clean' PROVE InOrder'
  <2>1. clean /\ Alone' /\ InOrder
    BY <1>6 DEF IInv
  <2>2. /\ \A q \in Procs : Sending(q)' /\ q # p => Sending(q) /\ work'[q] = work[q]
        /\ Sending(p)' => work'[p].session = s /\ s.sent = t.sent + 1
    BY <1>3 DEF Sending
  <2>3. Counts(t) /\ \A a \in Addresses : a # to => rows[a].id # t.id
    BY <2>1 DEF InOrder
  <2>4. \A q \in Procs : Sending(q)' => Key(q)' \notin used'
    <3>1. ASSUME Sending(p)' PROVE Key(p)' \notin used'
      <4>1. Key(p)' = <<t.id, t.sent + 1>>
        BY <2>2, <3>1 DEF Key
      <4>2. <<t.id, t.sent + 1>> \notin used
        BY <1>1, <2>3 DEF Counts
      <4> QED BY <4>1, <4>2
    <3>2. ASSUME NEW q \in Procs, q # p, Sending(q)' PROVE Key(q)' \notin used'
      BY <2>1, <2>2, <3>2 DEF InOrder, Key
    <3> QED BY <3>1, <3>2
  <2>5. \A q, r \in Procs : Sending(q)' /\ Sending(r)' /\ Key(q)' = Key(r)' => q = r
    <3>1. ASSUME NEW q \in Procs, q # p, Sending(q)', Sending(p)' PROVE Key(q)' # Key(p)'
      <4>1. Key(p)' = <<t.id, t.sent + 1>>
        BY <2>2, <3>1 DEF Key
      <4>2. Key(q)' = <<work[q].session.id, work[q].session.sent>> /\ Sending(q)
        BY <2>2, <3>1 DEF Key
      <4>3. work[q].session.id = t.id => work[q].session.sent <= t.sent
        BY <2>3, <4>2 DEF Counts
      <4>4. work[q].session.sent \in Nat
        BY SentIsNat DEF IInv
      <4> QED BY <1>1, <4>1, <4>2, <4>3, <4>4
    <3>2. ASSUME NEW q \in Procs, NEW r \in Procs, q # p, r # p, Sending(q)', Sending(r)',
                 Key(q)' = Key(r)'
          PROVE  q = r
      BY <2>1, <2>2, <3>2 DEF InOrder, Key
    <3> QED BY <3>1, <3>2
  <2>6. \A a \in Addresses : rows'[a] # None => Counts(rows[a])'
    <3>1. ASSUME NEW u, Counts(u), u.id # t.id PROVE Counts(u)'
      BY <1>1, <2>2, <3>1 DEF Counts
    <3>2. Counts(s)'
      <4>1. \A k \in used : k[1] = s.id => k[2] <= s.sent
        <5>1. used \subseteq Keys
          BY DEF IInv, Typed, Plain
        <5>2. \A k \in used : k[1] = t.id => k[2] <= t.sent /\ k[2] \in Nat
          BY <2>3, <5>1 DEF Counts, Keys
        <5>3. s.sent = t.sent \/ s.sent = t.sent + 1
          OBVIOUS
        <5> QED BY <1>1, <5>2, <5>3
      <4>2. \A q \in Procs : Sending(q)' /\ work'[q].session.id = s.id =>
                              work'[q].session.sent <= s.sent
        <5>1. ASSUME NEW q \in Procs, q # p, Sending(q)', work'[q].session.id = s.id
              PROVE  work'[q].session.sent <= s.sent
          <6>1. work'[q] = work[q] /\ work[q].session.sent <= t.sent
            BY <2>2, <2>3, <5>1 DEF Counts
          <6>2. work[q].session.sent \in Nat
            BY SentIsNat DEF IInv
          <6>3. s.sent = t.sent \/ s.sent = t.sent + 1
            OBVIOUS
          <6> QED BY <1>1, <6>1, <6>2, <6>3
        <5>2. Sending(p)' => work'[p].session.sent <= s.sent
          BY <1>1, <2>2
        <5> QED BY <5>1, <5>2
      <4> QED BY <4>1, <4>2 DEF Counts
    <3> SUFFICES ASSUME NEW a \in Addresses, rows'[a] # None PROVE Counts(rows[a])'
      OBVIOUS
    <3>3. CASE a = to
      BY <1>2, <3>2, <3>3
    <3>4. CASE a # to
      <4>1. PICK u : u = rows[a]
        OBVIOUS
      <4>2. rows'[a] = u /\ Counts(u) /\ u.id # t.id
        BY <1>2, <2>1, <2>3, <3>4, <4>1 DEF InOrder
      <4>3. Counts(u)'
        BY <3>1, <4>2
      <4> QED BY <4>2, <4>3
    <3> QED BY <3>3, <3>4
  <2>7. rows'["PN"] # None => rows'["PN"].id # rows'["LID"].id
    BY <1>1, <1>2, <2>3 DEF Addresses
  <2>8. \A q \in Procs : work'[q].step # "store"
    BY <1>3, <2>1 DEF InOrder, Alone, Active
  <2>9. ~reused'
    BY <2>1 DEF InOrder
  <2> QED BY <2>1, <2>4, <2>5, <2>6, <2>7, <2>8, <2>9 DEF InOrder
<1> QED BY <1>5, <1>6 DEF IInv

LEMMA StoreStep == ASSUME IInv, NEW p \in Procs, Store(p) PROVE IInv'
<1> DEFINE to == work[p].to
           t == work[p].session
           next == [id |-> t.id, sent |-> t.sent + 1]
<1>1. WorkOK(p, work[p]) /\ work[p].step = "store"
  BY DEF IInv, Typed, Store
<1>2. work[p] \in WorkType /\ to \in Addresses /\ t \in Session /\ t.id \in Ids
      /\ t = [id |-> t.id, sent |-> t.sent]
  BY <1>1 DEF WorkOK, WorkType, Session
<1>3. UNCHANGED <<mapped, migrated, recent, started, net, receipt, changed, valid, seen, read,
                  tries, moved, used, reused>>
  BY DEF Store, peer, hist
<1>4. faults' \in 0..MaxFaults
  BY FaultCounts DEF Store, IInv, Typed, Plain
<1>5. clean' \in BOOLEAN => Plain'
  BY <1>3, <1>4 DEF IInv, Typed, Plain
<1>6. CASE GivesUp(p) /\ UNCHANGED rows
  BY <1>3, <1>5, <1>6, GivesUpKeeps
<1>7. ASSUME p = "receive", rows' = [rows EXCEPT ![to] = t], Becomes(p, Resting)
      PROVE  IInv'
  <2>1. PICK w : w = Resting
    OBVIOUS
  <2>2. WorkOK(p, w) /\ w.step = "idle" /\ w.bundle = 0
    BY <2>1, RestingOK DEF Resting
  <2>3. /\ work'[p] = w /\ work' = [work EXCEPT ![p] = work'[p]]
        /\ clean' \in BOOLEAN /\ (clean' => clean /\ Alone')
    BY <1>7, <2>1, BecomesResult DEF IInv
  <2>4. rows' \in [Addresses -> Session] /\ \A a \in Addresses : RowOK(rows'[a])
    BY <1>2, <1>7 DEF IInv, Typed, RowOK
  <2>5. Typed'
    BY <1>5, <2>2, <2>3, <2>4, TypedMove DEF IInv
  <2> QED BY <1>1, <1>2, <1>3, <1>7, <2>2, <2>3, <2>5, WrittenKeeps
<1>8. ASSUME p # "receive", t.sent < MaxSent, rows' = [rows EXCEPT ![to] = next],
             Becomes(p, [work[p] EXCEPT !.step = "transmit", !.session = next])
      PROVE  IInv'
  <2>1. PICK w : w = [work[p] EXCEPT !.step = "transmit", !.session = next]
    OBVIOUS
  <2>2. next \in Session /\ next.id = t.id /\ next.sent = t.sent + 1 /\ next.sent \in 1..MaxSent
    BY <1>2, <1>8, BoundsAssumption DEF Session
  <2>3. /\ w \in WorkType /\ w.step = "transmit" /\ w.session = next
        /\ w.bundle = work[p].bundle /\ w.msg = work[p].msg
    BY <1>2, <2>1, <2>2 DEF WorkType, WorkSteps
  <2>4. WorkOK(p, w)
    BY <1>1, <1>2, <1>8, <2>2, <2>3 DEF WorkOK
  <2>5. /\ work'[p] = w /\ work' = [work EXCEPT ![p] = work'[p]]
        /\ clean' \in BOOLEAN /\ (clean' => clean /\ Alone')
    BY <1>8, <2>1, BecomesResult DEF IInv
  <2>6. rows' \in [Addresses -> Session] /\ \A a \in Addresses : RowOK(rows'[a])
    BY <1>2, <1>8, <2>2 DEF IInv, Typed, RowOK
  <2>7. Typed'
    BY <1>5, <2>4, <2>5, <2>6, TypedMove DEF IInv
  <2> HIDE DEF next
  <2> QED BY <1>1, <1>2, <1>3, <1>8, <2>2, <2>3, <2>5, <2>7, WrittenKeeps
<1>9. [t EXCEPT !.sent = @ + 1] = next
  BY <1>2
<1>10. CASE p = "receive"
  BY <1>6, <1>7, <1>10 DEF Store, Advanced
<1>11. CASE p # "receive"
  <2>1. Advanced(p) = next
    BY <1>9, <1>11 DEF Advanced
  <2>2. [work[p] EXCEPT !.step = "transmit", !.session.sent = @ + 1]
          = [work[p] EXCEPT !.step = "transmit", !.session = next]
    BY <1>2, <1>9 DEF WorkType
  <2> QED BY <1>6, <1>8, <1>11, <2>1, <2>2 DEF Store
<1> QED BY <1>10, <1>11

-----------------------------------------------------------------------------
LEMMA InitIInv == Init => IInv
<1> SUFFICES ASSUME Init PROVE IInv
  OBVIOUS
<1>1. /\ \A a \in Addresses : rows[a] = None
      /\ \A p \in Procs : work[p] = Resting
      /\ \A m \in Messages : receipt[m].keys = 0
  BY DEF Init, NoReceipt
<1>2. Resting.step = "idle" /\ Resting.bundle = 0 /\ Resting.session = None
  BY DEF Resting
<1>3. \A p \in Procs : work[p].step = "idle" /\ work[p].bundle = 0
  BY <1>1, <1>2
<1>4. Typed
  <2>1. receipt \in [Messages -> [sent : BOOLEAN, keys : 0..MaxId]]
    BY BoundsAssumption DEF Init, NoReceipt
  <2>2. tries \in [Messages -> 0..PeerTries] /\ faults \in 0..MaxFaults
    BY BoundsAssumption DEF Init
  <2>3. recent \in Seq(Messages) /\ Len(recent) <= RecentSize
    BY BoundsAssumption, EmptySeq DEF Init
  <2>4. /\ mapped \in BOOLEAN /\ migrated = FALSE /\ changed = FALSE /\ reused = FALSE
        /\ clean = TRUE /\ moved = FALSE
        /\ net = {} /\ started = {} /\ valid = {} /\ seen = {} /\ read = {} /\ used = {}
    BY DEF Init
  <2>5. Plain
    BY <2>1, <2>2, <2>3, <2>4 DEF Plain
  <2>6. rows \in [Addresses -> Session] /\ work = [p \in Procs |-> work[p]]
    BY NoneType DEF Init
  <2> QED BY <1>1, <2>5, <2>6, NoneType, RestingOK DEF Typed
<1>5. BundlesWait
  BY <1>1, <1>3, NoneType DEF BundlesWait
<1>6. InOrder
  BY <1>1, <1>3 DEF InOrder, Alone, Active, Sending, Init, Addresses
<1> QED BY <1>4, <1>5, <1>6 DEF IInv

LEMMA StepIInv == IInv /\ [Next]_vars => IInv'
<1> SUFFICES ASSUME IInv, [Next]_vars PROVE IInv'
  OBVIOUS
<1>1. CASE UNCHANGED vars
  <2>1. Plain'
    BY <1>1 DEF vars, IInv, Typed, Plain
  <2> QED BY <1>1, <2>1, Around DEF vars
<1>2. ASSUME NEW p \in Procs, Step(p) PROVE IInv'
  BY <1>2, MigrateStep, LoadStep, StoreStep, TransmitStep, TransmitFailsStep DEF Step
<1>3. ASSUME NEW m \in Messages, Retry(m) PROVE IInv'
  BY <1>3, RetryStartStep, RetryFetchStep, RetryAddressStep, ProcessBundleStep DEF Retry
<1> QED BY <1>1, <1>2, <1>3, SendStartStep, SendFetchStep, ReceiveStartStep, LearnStep,
           IdentityChangeStep, CrashStep, PeerReadsStep, PeerAsksStep, ReinstallStep DEF Next

LEMMA Invariant == Spec => []IInv
BY InitIInv, StepIInv, PTL DEF Spec

(* Every variable keeps its type: what a process holds is what its step     *)
(* says, and a row is empty or has a session that was made from a bundle.   *)
THEOREM TypeCorrect == Spec => []TypeOK
<1>1. IInv => TypeOK
  <2> SUFFICES ASSUME IInv PROVE TypeOK
    OBVIOUS
  <2>1. work \in [Procs -> WorkType]
    BY DEF IInv, Typed, WorkOK
  <2> QED BY <2>1 DEF IInv, Typed, Plain, TypeOK, WorkType, WorkSteps
<1> QED BY <1>1, Invariant, PTL

(* For any messages, retries, reinstallations, crashes and failures of the  *)
(* database, a message key is used for one ciphertext as long as no two     *)
(* processes had the session at once.                                       *)
THEOREM OneKeyOneMessage == Spec => []KeysUsedOnce
<1>1. IInv => KeysUsedOnce
  BY DEF IInv, InOrder, KeysUsedOnce
<1> QED BY <1>1, Invariant, PTL

-----------------------------------------------------------------------------
(* Few retries.  Of each message one copy at most is on its way: with its   *)
(* sender, in the net, in a receipt, or with the goroutine that sends it    *)
(* again.  So when the contact has asked for it twice, and sent the keys of *)
(* a bundle that it holds, nothing is left but the answer to that.          *)

Outgoing(m) == work["send"].step # "idle" /\ work["send"].msg = m
Flying(m)   == \E c \in net : c.msg = m
Asked(m)    == receipt[m] # NoReceipt
Retrying(m) == work[m].step # "idle"

OneCopy(m) ==
    /\ Outgoing(m) => ~Flying(m) /\ ~Asked(m) /\ ~Retrying(m)
    /\ Flying(m) => ~Asked(m) /\ ~Retrying(m)
    /\ Asked(m) => ~Retrying(m)
    /\ \A c, d \in net : c.msg = m /\ d.msg = m => c = d
    /\ m \notin started => /\ ~Outgoing(m) /\ ~Flying(m) /\ ~Asked(m) /\ ~Retrying(m)
                           /\ tries[m] = 0
    /\ Retrying(m) => work[m].msg = m

(* The contact that was not installed again holds the keys of all sessions. *)
Held == ~moved => InUse \subseteq valid \cup {0}

(* The contact has not used the key of a ciphertext on its way.             *)
KeysApart ==
    /\ seen \subseteq used
    /\ \A c \in net : <<c.id, c.count>> \in used \ seen
    /\ \A c, d \in net : c.id = d.id /\ c.count = d.count => c = d

(* A retry, with the rows R, that leads to a session of which the contact   *)
(* holds the keys V.                                                        *)
Fit(w, R, V) ==
    /\ w.step # "fetch"
    /\ w.step \in {"address", "migrate", "bundle"} => w.bundle \in V
    /\ w.step = "load" => R[w.to] = None \/ R[w.to].id \in V
    /\ w.step \in {"store", "transmit"} => w.session.id \in V

Answered(m) ==
    tries[m] >= 2 =>
        /\ \A c \in net : c.msg = m => c.id \in valid
        /\ Asked(m) => receipt[m].keys \in valid
        /\ ~Outgoing(m)
        /\ Fit(work[m], rows, valid)

RetryInv ==
    /\ \A m \in Messages : OneCopy(m)
    /\ Held
    /\ clean => KeysApart /\ FewRetries /\ \A m \in Messages : Answered(m)

LEMMA CopiesKept ==
    ASSUME NEW m \in Messages, OneCopy(m), net' \subseteq net,
           m \notin started' => m \notin started /\ tries'[m] = tries[m],
           Outgoing(m)' => Outgoing(m), Asked(m)' => Asked(m),
           Retrying(m)' => Retrying(m) /\ work'[m].msg = work[m].msg
    PROVE  OneCopy(m)'
<1>1. Flying(m)' => Flying(m)
  BY DEF Flying
<1>2. \A c, d \in net' : c.msg = m /\ d.msg = m => c = d
  BY DEF OneCopy
<1>3. m \notin started' => tries'[m] = 0
  BY DEF OneCopy
<1> QED BY <1>1, <1>2, <1>3 DEF OneCopy

LEMMA HeldKept ==
    ASSUME Held, moved => moved', valid \subseteq valid',
           NEW S, S = InUse \cup valid' \cup {0},
           \A a \in Addresses : rows'[a].id \in S,
           \A p \in Procs : work'[p].bundle \in S /\ work'[p].session.id \in S,
           \A c \in net' : c.id \in S, \A m \in Messages : receipt'[m].keys \in S
    PROVE  Held'
<1>1. InUse' \subseteq S
  BY DEF InUse
<1> QED BY <1>1 DEF Held

LEMMA ApartKept ==
    ASSUME KeysApart, net' \subseteq net,
           \/ UNCHANGED <<used, seen>>
           \/ \E id \in Ids : IsNew(id) /\ Offers(id)
    PROVE  KeysApart'
<1>1. CASE UNCHANGED <<used, seen>>
  BY <1>1 DEF KeysApart
<1>2. ASSUME NEW id \in Ids, IsNew(id), Offers(id) PROVE KeysApart'
  <2>1. \A c \in net' : c.id # id
    BY <1>2 DEF IsNew, InUse
  <2>2. seen' = {k \in seen : k[1] # id} /\ used' = {k \in used : k[1] # id}
    BY <1>2 DEF Offers
  <2>3. \A c \in net' : <<c.id, c.count>> \in used' \ seen'
    BY <2>1, <2>2 DEF KeysApart
  <2> QED BY <2>2, <2>3 DEF KeysApart
<1> QED BY <1>1, <1>2

LEMMA AnswerKept ==
    ASSUME NEW m \in Messages, Answered(m), net' \subseteq net, UNCHANGED tries,
           valid \subseteq valid', receipt'[m] \in {NoReceipt, receipt[m]},
           Outgoing(m)' => Outgoing(m),
           Fit(work[m], rows, valid) => Fit(work'[m], rows', valid')
    PROVE  Answered(m)'
BY DEF Answered, Asked

(* Where the ids come from. *)
LEMMA IdsInUse ==
    /\ \A a \in Addresses : rows[a].id \in InUse
    /\ \A p \in Procs : work[p].bundle \in InUse /\ work[p].session.id \in InUse
    /\ \A c \in net : c.id \in InUse
    /\ \A m \in Messages : receipt[m].keys \in InUse
BY DEF InUse

LEMMA FewStay ==
    ASSUME IInv, FewRetries, clean, UNCHANGED tries, moved => moved'
    PROVE  FewRetries'
<1>1. \A m \in Messages : tries[m] \in Nat
  BY BoundsAssumption DEF IInv, Typed, Plain
<1> QED BY <1>1 DEF FewRetries

(* A step that takes copies away and starts nothing. *)
LEMMA QuietKeeps ==
    ASSUME IInv, RetryInv, clean' => clean, UNCHANGED <<started, tries, moved, valid, used, seen>>,
           net' \subseteq net,
           \A m \in Messages : receipt'[m] \in {NoReceipt, receipt[m]},
           \A a \in Addresses : rows'[a] \in {None, rows[a]},
           \A p \in Procs : work'[p] \in {Resting, work[p]}
    PROVE  RetryInv'
<1>1. Resting.step = "idle" /\ Resting.bundle = 0 /\ Resting.session.id = 0 /\ None.id = 0
      /\ NoReceipt.keys = 0
  BY DEF Resting, None, NoReceipt
<1>2. \A m \in Messages : Outgoing(m)' => Outgoing(m)
  BY <1>1, ProcsAre DEF Outgoing
<1>3. \A m \in Messages : Asked(m)' => Asked(m)
  BY DEF Asked
<1>4. \A m \in Messages : Retrying(m)' => Retrying(m) /\ work'[m] = work[m]
  BY <1>1, ProcsAre DEF Retrying
<1>5. \A m \in Messages : OneCopy(m)'
  BY <1>2, <1>3, <1>4, CopiesKept DEF RetryInv
<1>6. Held'
  <2>1. PICK S : S = InUse \cup valid' \cup {0}
    OBVIOUS
  <2>2. /\ \A a \in Addresses : rows'[a].id \in S
        /\ \A p \in Procs : work'[p].bundle \in S /\ work'[p].session.id \in S
        /\ \A c \in net' : c.id \in S
        /\ \A m \in Messages : receipt'[m].keys \in S
    BY <1>1, <2>1, IdsInUse
  <2> QED BY <2>1, <2>2, HeldKept DEF RetryInv
<1>7. ASSUME clean' PROVE KeysApart' /\ FewRetries' /\ \A m \in Messages : Answered(m)'
  <2>1. KeysApart' /\ FewRetries'
    BY <1>7, ApartKept, FewStay DEF RetryInv
  <2>2. ASSUME NEW m \in Messages, Fit(work[m], rows, valid)
        PROVE  Fit(work'[m], rows', valid')
    <3>1. CASE work'[m] = work[m]
      <4>1. work[m].to \in Addresses
        BY ProcsAre DEF IInv, Typed, WorkOK, WorkType
      <4> QED BY <2>2, <3>1, <4>1 DEF Fit
    <3>2. CASE work'[m] = Resting
      BY <1>1, <3>2 DEF Fit
    <3> QED BY <3>1, <3>2, ProcsAre
  <2>3. \A m \in Messages : Answered(m)'
    BY <1>2, <1>7, <2>2, AnswerKept DEF RetryInv
  <2> QED BY <2>1, <2>3
<1> QED BY <1>5, <1>6, <1>7 DEF RetryInv

(* A step of p alone, with the copy that it has. *)
LEMMA OnwardKeeps ==
    ASSUME IInv, RetryInv, NEW p \in Procs, clean' => clean,
           \A q \in Procs : q # p => work'[q] = work[q],
           work'[p].step = "idle" \/ p = "receive"
              \/ (work[p].step # "idle" /\ work'[p].msg = work[p].msg),
           UNCHANGED <<net, receipt, started, tries, moved>>, valid \subseteq valid',
           UNCHANGED <<used, seen>> \/ \E id \in Ids : IsNew(id) /\ Offers(id),
           NEW S, S = InUse \cup valid' \cup {0},
           \A a \in Addresses : rows'[a].id \in S,
           work'[p].bundle \in S, work'[p].session.id \in S,
           rows' = rows \/ Active(p),
           p \in Messages => (Fit(work[p], rows, valid) => Fit(work'[p], rows', valid'))
    PROVE  RetryInv'
<1>1. \A m \in Messages : Outgoing(m)' => Outgoing(m)
  BY ProcsAre DEF Outgoing
<1>2. \A m \in Messages : Asked(m)' => Asked(m)
  BY DEF Asked
<1>3. \A m \in Messages : Retrying(m)' => Retrying(m) /\ work'[m].msg = work[m].msg
  BY ProcsAre DEF Retrying
<1>4. \A m \in Messages : OneCopy(m)'
  BY <1>1, <1>2, <1>3, CopiesKept DEF RetryInv
<1>5. Held'
  <2>1. \A q \in Procs : work'[q].bundle \in S /\ work'[q].session.id \in S
    BY IdsInUse
  <2>2. /\ \A c \in net' : c.id \in S
        /\ \A m \in Messages : receipt'[m].keys \in S
    BY IdsInUse
  <2> QED BY <2>1, <2>2, HeldKept DEF RetryInv
<1>6. ASSUME clean' PROVE KeysApart' /\ FewRetries' /\ \A m \in Messages : Answered(m)'
  <2>1. KeysApart' /\ FewRetries'
    BY <1>6, ApartKept, FewStay DEF RetryInv
  <2>2. ASSUME NEW m \in Messages, Fit(work[m], rows, valid)
        PROVE  Fit(work'[m], rows', valid')
    <3>1. CASE m = p
      BY <2>2, <3>1
    <3>2. CASE m # p
      <4>1. work'[m] = work[m]
        BY <3>2, ProcsAre
      <4>2. work[m].step = "load" => rows' = rows
        BY <1>6, <3>2, ProcsAre DEF IInv, InOrder, Alone, Active
      <4> QED BY <2>2, <4>1, <4>2 DEF Fit
    <3> QED BY <3>1, <3>2
  <2>3. \A m \in Messages : Answered(m)'
    BY <1>1, <1>6, <2>2, AnswerKept DEF RetryInv
  <2> QED BY <2>1, <2>3
<1> QED BY <1>4, <1>5, <1>6 DEF RetryInv

-----------------------------------------------------------------------------
(* Few retries, step by step: the contact and the database. *)

LEMMA LearnFew == IInv /\ RetryInv /\ Learn => RetryInv'
BY QuietKeeps DEF Learn, peer, hist

LEMMA IdentityChangeFew ==
    ASSUME IInv, RetryInv, NEW a \in Addresses, IdentityChange(a) PROVE RetryInv'
<1>1. \A b \in Addresses : rows'[b] \in {None, rows[b]}
  BY DEF IdentityChange, IInv, Typed
<1> QED BY <1>1, QuietKeeps DEF IdentityChange, hist

LEMMA CrashFew == IInv /\ RetryInv /\ Crash => RetryInv'
BY QuietKeeps DEF Crash, hist

(* Until now nobody had to ask, so there is no answer to be judged. *)
LEMMA ReinstallFew == IInv /\ RetryInv /\ Reinstall => RetryInv'
<1> SUFFICES ASSUME IInv, RetryInv, Reinstall PROVE RetryInv'
  OBVIOUS
<1>1. UNCHANGED <<rows, started, work, net, receipt, seen, tries, used, clean>>
      /\ ~moved /\ moved'
  BY DEF Reinstall, store, hist
<1>2. \A m \in Messages : OneCopy(m)'
  BY <1>1 DEF RetryInv, OneCopy, Outgoing, Flying, Asked, Retrying
<1>3. Held'
  BY <1>1 DEF Held
<1>4. ASSUME clean' PROVE KeysApart' /\ FewRetries' /\ \A m \in Messages : Answered(m)'
  <2>1. KeysApart'
    BY <1>1, <1>4 DEF RetryInv, KeysApart
  <2>2. FewRetries'
    BY <1>1, <1>4, FewStay DEF RetryInv
  <2>3. \A m \in Messages : tries[m] <= 0 /\ tries[m] \in Nat
    BY <1>1, <1>4, BoundsAssumption DEF RetryInv, FewRetries, IInv, Typed, Plain
  <2>4. \A m \in Messages : Answered(m)'
    BY <1>1, <2>3 DEF Answered
  <2> QED BY <2>1, <2>2, <2>4
<1> QED BY <1>2, <1>3, <1>4 DEF RetryInv

LEMMA PeerReadsFew == ASSUME IInv, RetryInv, NEW c \in net, PeerReads(c) PROVE RetryInv'
<1>1. /\ UNCHANGED <<rows, started, work, receipt, valid, tries, moved, used, clean>>
      /\ net' = net \ {c} /\ seen' = seen \cup {<<c.id, c.count>>}
  BY DEF PeerReads, store, hist
<1>2. \A m \in Messages : OneCopy(m)'
  BY <1>1, CopiesKept DEF RetryInv, Outgoing, Asked, Retrying
<1>3. Held'
  <2>1. InUse' \subseteq InUse
    BY <1>1 DEF InUse
  <2> QED BY <1>1, <2>1 DEF RetryInv, Held
<1>4. ASSUME clean' PROVE KeysApart' /\ FewRetries' /\ \A m \in Messages : Answered(m)'
  <2>1. KeysApart'
    <3>1. KeysApart
      BY <1>1, <1>4 DEF RetryInv
    <3>2. \A d \in net' : d \in net /\ <<d.id, d.count>> # <<c.id, c.count>>
      BY <1>1, <3>1 DEF KeysApart
    <3> QED BY <1>1, <3>1, <3>2 DEF KeysApart
  <2>2. FewRetries'
    BY <1>1, <1>4, FewStay DEF RetryInv
  <2>3. \A m \in Messages : Answered(m)'
    BY <1>1, <1>4, AnswerKept DEF RetryInv, Outgoing
  <2> QED BY <2>1, <2>2, <2>3
<1> QED BY <1>2, <1>3, <1>4 DEF RetryInv

(* What the contact cannot read is of a session that it lost.  When it asks *)
(* for the second time, the bundle goes with the receipt, and no other copy *)
(* of the message is left.                                                  *)
LEMMA PeerAsksFew == ASSUME IInv, RetryInv, NEW c \in net, PeerAsks(c) PROVE RetryInv'
<1> DEFINE m == c.msg
<1>1. /\ UNCHANGED <<rows, started, work, moved, clean>> /\ net' = net \ {c} /\ ~Readable(c)
      /\ m \in Messages /\ tries \in [Messages -> 0..PeerTries] /\ tries[m] \in Nat
      /\ receipt \in [Messages -> [sent : BOOLEAN, keys : 0..MaxId]]
  BY BoundsAssumption DEF PeerAsks, store, IInv, Typed, Plain
<1>2. CASE UNCHANGED <<receipt, tries, valid, seen, used>>
  BY <1>1, <1>2, QuietKeeps
<1>3. ASSUME NEW keys \in 0..MaxId, tries' = [tries EXCEPT ![m] = @ + 1],
             receipt' = [receipt EXCEPT ![m] = [sent |-> TRUE, keys |-> keys]],
             valid \subseteq valid', keys \in valid' \cup {0},
             keys = 0 => tries[m] = 0,
             UNCHANGED <<used, seen>> \/ \E id \in Ids : IsNew(id) /\ Offers(id)
      PROVE  RetryInv'
  <2>1. /\ Flying(m) /\ OneCopy(m) /\ m \in started /\ ~Outgoing(m) /\ ~Retrying(m)
        /\ \A d \in net' : d.msg # m
    BY <1>1 DEF RetryInv, OneCopy, Flying
  <2>2. /\ tries'[m] = tries[m] + 1 /\ receipt'[m].keys = keys
        /\ \A n \in Messages : n # m => tries'[n] = tries[n] /\ receipt'[n] = receipt[n]
    BY <1>1, <1>3
  <2>3. ASSUME NEW n \in Messages PROVE OneCopy(n)'
    <3>1. CASE n = m
      BY <1>1, <2>1, <3>1 DEF OneCopy, Outgoing, Flying, Retrying
    <3>2. CASE n # m
      BY <1>1, <2>2, <3>2, CopiesKept DEF RetryInv, Outgoing, Asked, Retrying
    <3> QED BY <3>1, <3>2
  <2>4. Held'
    <3>1. PICK S : S = InUse \cup valid' \cup {0}
      OBVIOUS
    <3>2. \A n \in Messages : receipt'[n].keys \in S
      BY <1>3, <2>2, <3>1, IdsInUse
    <3> QED BY <1>1, <1>3, <3>1, <3>2, IdsInUse, HeldKept DEF RetryInv
  <2>5. ASSUME clean' PROVE KeysApart' /\ FewRetries' /\ \A n \in Messages : Answered(n)'
    <3>1. KeysApart /\ FewRetries /\ \A n \in Messages : Answered(n)
      BY <1>1, <2>5 DEF RetryInv
    <3>2. KeysApart'
      BY <1>1, <1>3, <3>1, ApartKept
    <3>3. c.id \notin valid
      BY <1>1, <3>1 DEF Readable, KeysApart
    <3>4. c.id # 0
      BY NoneType DEF IInv, Typed, Plain
    <3>5. moved
      BY <3>3, <3>4, IdsInUse DEF RetryInv, Held
    <3>6. tries[m] <= 1
      BY <1>1, <3>1, <3>3 DEF Answered
    <3>7. FewRetries'
      BY <1>1, <2>2, <2>5, <3>1, <3>5, <3>6 DEF FewRetries
    <3>8. ASSUME NEW n \in Messages PROVE Answered(n)'
      <4>1. CASE n = m
        <5>1. work[m].step = "idle"
          BY <2>1 DEF Retrying
        <5>2. tries'[m] >= 2 => keys \in valid'
          BY <1>1, <1>3, <2>2
        <5> QED BY <1>1, <2>1, <2>2, <4>1, <5>1, <5>2 DEF Answered, Fit, Outgoing
      <4>2. CASE n # m
        <5>1. Fit(work[n], rows, valid) => Fit(work'[n], rows', valid')
          BY <1>1, <1>3 DEF Fit
        <5> QED BY <1>1, <1>3, <2>2, <3>1, <4>2, <5>1 DEF Answered, Outgoing, Asked
      <4> QED BY <4>1, <4>2
    <3> QED BY <3>2, <3>7, <3>8
  <2> QED BY <2>3, <2>4, <2>5 DEF RetryInv
<1> HIDE DEF m
<1>4. CASE /\ tries' = [tries EXCEPT ![m] = @ + 1] /\ tries[m] = 0
           /\ receipt' = [receipt EXCEPT ![m] = [sent |-> TRUE, keys |-> 0]]
           /\ UNCHANGED <<valid, seen, used>>
  <2>1. 0 \in 0..MaxId
    BY BoundsAssumption
  <2> QED BY <1>3, <1>4, <2>1
<1>5. ASSUME NEW id \in Ids, IsNew(id), Offers(id), tries' = [tries EXCEPT ![m] = @ + 1],
             receipt' = [receipt EXCEPT ![m] = [sent |-> TRUE, keys |-> id]]
      PROVE  RetryInv'
  <2>1. id \in 0..MaxId /\ id # 0 /\ valid \subseteq valid' /\ id \in valid'
    BY <1>5, BoundsAssumption DEF Ids, Offers
  <2> QED BY <1>3, <1>5, <2>1
<1> QED BY <1>2, <1>4, <1>5 DEF PeerAsks, m

-----------------------------------------------------------------------------
(* Few retries, step by step: the client. *)

LEMMA SendStartFew == ASSUME IInv, RetryInv, NEW m \in Messages, SendStart(m) PROVE RetryInv'
<1>1. PICK a \in Addresses : Addressed("send", [Resting EXCEPT !.msg = m, !.to = a])
  BY DEF SendStart
<1>w. PICK w : w = [Resting EXCEPT !.msg = m, !.to = a]
  OBVIOUS
<1>2. w.msg = m /\ w.bundle = 0 /\ w.session = None /\ WorkOK("send", w)
  BY <1>w, RestingOK, ProcsAre DEF Resting, WorkOK, WorkType
<1>3. Addressed("send", w) /\ m \notin started /\ started' = started \cup {m}
      /\ UNCHANGED <<rows, net, receipt, valid, seen, tries, moved, used>>
      /\ work["send"].step = "idle"
  BY <1>1, <1>w DEF SendStart, peer, hist
<1>4. /\ work' = [work EXCEPT !["send"] = work'["send"]] /\ work'["send"].bundle = 0
      /\ WorkOK("send", work'["send"]) /\ work'["send"].step \notin {"store", "transmit"}
      /\ work'["send"].step # "idle" => work'["send"].msg = m
      /\ (clean' => clean)
  BY <1>2, <1>3, AddressedResult, ProcsAre DEF IInv
<1>5. /\ work'["send"].session = None
      /\ \A q \in Procs : q # "send" => work'[q] = work[q]
  BY <1>4 DEF WorkOK, IInv, Typed
<1>6. \A n \in Messages : Outgoing(n)' => n = m
  BY <1>4 DEF Outgoing
<1>7. ASSUME NEW n \in Messages PROVE OneCopy(n)'
  <2>1. CASE n = m
    BY <1>3, <1>5, <2>1, ProcsAre DEF RetryInv, OneCopy, Outgoing, Flying, Asked, Retrying
  <2>2. CASE n # m
    BY <1>3, <1>5, <1>6, <2>2, CopiesKept, ProcsAre DEF RetryInv, Outgoing, Asked, Retrying
  <2> QED BY <2>1, <2>2
<1>8. Held'
  <2>1. PICK S : S = InUse \cup valid' \cup {0}
    OBVIOUS
  <2>2. \A p \in Procs : work'[p].bundle \in S /\ work'[p].session.id \in S
    BY <1>4, <1>5, <2>1, IdsInUse, NoneType
  <2> QED BY <1>3, <2>1, <2>2, IdsInUse, HeldKept DEF RetryInv
<1>9. ASSUME clean' PROVE KeysApart' /\ FewRetries' /\ \A n \in Messages : Answered(n)'
  <2>1. KeysApart' /\ FewRetries'
    BY <1>3, <1>4, <1>9, ApartKept, FewStay DEF RetryInv
  <2>2. ASSUME NEW n \in Messages PROVE Answered(n)'
    <3>1. CASE n = m
      BY <1>3, <3>1 DEF RetryInv, OneCopy, Answered
    <3>2. CASE n # m
      <4>1. Fit(work[n], rows, valid) => Fit(work'[n], rows', valid')
        BY <1>3, <1>5, ProcsAre DEF Fit
      <4> QED BY <1>3, <1>4, <1>6, <1>9, <3>2, <4>1, AnswerKept DEF RetryInv, Outgoing
    <3> QED BY <3>1, <3>2
  <2> QED BY <2>1, <2>2
<1> QED BY <1>7, <1>8, <1>9 DEF RetryInv

LEMMA GivesUpFew ==
    ASSUME IInv, RetryInv, NEW p \in Procs, GivesUp(p),
           UNCHANGED <<rows, net, receipt, started, tries, moved, valid, used, seen>>
    PROVE  RetryInv'
<1>1. /\ work'[p] = Resting /\ \A q \in Procs : q # p => work'[q] = work[q]
      /\ (clean' => clean)
  BY BecomesResult DEF GivesUp, IInv, Typed, Becomes
<1> QED BY <1>1, QuietKeeps

LEMMA TransmitFailsFew == ASSUME IInv, RetryInv, NEW p \in Procs, TransmitFails(p) PROVE RetryInv'
BY GivesUpFew DEF TransmitFails, store, peer, hist

(* One process changes its work. *)
LEMMA Onward ==
    ASSUME IInv, NEW p \in Procs, NEW w, Becomes(p, w)
    PROVE  /\ work'[p] = w /\ \A q \in Procs : q # p => work'[q] = work[q]
           /\ (clean' => clean)
<1>1. work'[p] = w /\ work' = [work EXCEPT ![p] = work'[p]] /\ (clean' => clean)
  BY BecomesResult DEF IInv
<1> QED BY <1>1 DEF IInv, Typed

LEMMA SendFetchFew == IInv /\ RetryInv /\ SendFetch => RetryInv'
<1> SUFFICES ASSUME IInv, RetryInv, SendFetch PROVE RetryInv'
  OBVIOUS
<1>1. CASE GivesUp("send") /\ UNCHANGED <<valid, seen, used>>
  BY <1>1, GivesUpFew, ProcsAre DEF SendFetch, store
<1>2. ASSUME NEW id \in Ids, IsNew(id), Offers(id),
             Becomes("send", [work["send"] EXCEPT !.step = "store",
                                                  !.session = [id |-> id, sent |-> 0]])
      PROVE  RetryInv'
  <2>1. PICK w : w = [work["send"] EXCEPT !.step = "store", !.session = [id |-> id, sent |-> 0]]
    OBVIOUS
  <2>2. /\ w.step = "store" /\ w.session.id = id /\ w.bundle = work["send"].bundle
        /\ w.msg = work["send"].msg
    <3>1. work["send"] \in WorkType
      BY ProcsAre DEF IInv, Typed, WorkOK
    <3> QED BY <2>1, <3>1 DEF WorkType
  <2>3. /\ work'["send"] = w /\ \A q \in Procs : q # "send" => work'[q] = work[q]
        /\ (clean' => clean)
    BY <1>2, <2>1, Onward, ProcsAre
  <2>4. PICK S : S = InUse \cup valid' \cup {0}
    OBVIOUS
  <2>5. valid \subseteq valid' /\ id \in S
    BY <1>2, <2>4 DEF Offers
  <2>6. /\ UNCHANGED <<rows, net, receipt, started, tries, moved>>
        /\ work["send"].step = "session"
    BY DEF SendFetch, store
  <2>7. /\ \A a \in Addresses : rows'[a].id \in S
        /\ work'["send"].bundle \in S /\ work'["send"].session.id \in S
    BY <2>2, <2>3, <2>4, <2>5, <2>6, IdsInUse, ProcsAre
  <2> QED BY <1>2, <2>2, <2>3, <2>4, <2>5, <2>6, <2>7, OnwardKeeps, ProcsAre
<1> QED BY <1>1, <1>2 DEF SendFetch

LEMMA RetryFetchFew ==
    ASSUME IInv, RetryInv, NEW m \in Messages, RetryFetch(m) PROVE RetryInv'
<1>1. CASE GivesUp(m) /\ UNCHANGED <<valid, seen, used>>
  BY <1>1, GivesUpFew, ProcsAre DEF RetryFetch, store
<1>2. ASSUME NEW id \in Ids, IsNew(id), Offers(id),
             Becomes(m, [work[m] EXCEPT !.step = "address", !.bundle = id])
      PROVE  RetryInv'
  <2>1. PICK w : w = [work[m] EXCEPT !.step = "address", !.bundle = id]
    OBVIOUS
  <2>2. /\ w.step = "address" /\ w.session = work[m].session /\ w.bundle = id
        /\ w.msg = work[m].msg
    <3>1. work[m] \in WorkType
      BY ProcsAre DEF IInv, Typed, WorkOK
    <3> QED BY <2>1, <3>1 DEF WorkType
  <2>3. /\ work'[m] = w /\ \A q \in Procs : q # m => work'[q] = work[q]
        /\ (clean' => clean)
    BY <1>2, <2>1, Onward, ProcsAre
  <2>4. PICK S : S = InUse \cup valid' \cup {0}
    OBVIOUS
  <2>5. valid \subseteq valid' /\ id \in S /\ id \in valid'
    BY <1>2, <2>4 DEF Offers
  <2>6. /\ UNCHANGED <<rows, net, receipt, started, tries, moved>>
        /\ work[m].step = "fetch"
    BY DEF RetryFetch, store
  <2>7. /\ \A a \in Addresses : rows'[a].id \in S
        /\ work'[m].bundle \in S /\ work'[m].session.id \in S
    BY <2>2, <2>3, <2>4, <2>5, <2>6, IdsInUse, ProcsAre
  <2>8. ~Fit(work[m], rows, valid)
    BY <2>6 DEF Fit
  <2> QED BY <1>2, <2>2, <2>3, <2>4, <2>5, <2>6, <2>7, <2>8, OnwardKeeps, ProcsAre
<1> QED BY <1>1, <1>2 DEF RetryFetch

(* Once the address is chosen, the retry goes on with the bundle it had. *)
LEMMA RetryAddressFew ==
    ASSUME IInv, RetryInv, NEW m \in Messages, RetryAddress(m) PROVE RetryInv'
<1>1. /\ m \in Procs /\ m # "receive" /\ WorkOK(m, work[m]) /\ work[m].step = "address"
      /\ work[m].session = None /\ work[m].msg \in Messages
  BY ProcsAre DEF IInv, Typed, WorkOK, RetryAddress
<1>2. PICK x : x = work'[m]
  OBVIOUS
<1>3. /\ work'[m] = x /\ \A q \in Procs : q # m => work'[q] = work[q]
      /\ (clean' => clean)
      /\ x.bundle = work[m].bundle /\ x.session = None /\ x.msg = work[m].msg
      /\ x.step \in {"migrate", AtRow(work[m])}
  <2>1. Addressed(m, work[m]) /\ m # "send"
    BY ProcsAre DEF RetryAddress
  <2>2. /\ work' = [work EXCEPT ![m] = work'[m]] /\ (clean' => clean)
        /\ work'[m].step \in {"idle", "migrate", AtRow(work[m])} /\ work'[m].step # "idle"
        /\ work'[m].msg = work[m].msg
        /\ work'[m].bundle = work[m].bundle /\ work'[m].session = None
    BY <1>1, <2>1, AddressedResult DEF IInv
  <2> QED BY <1>1, <1>2, <2>2 DEF IInv, Typed
<1>4. x.step \in {"migrate", AtRow(work[m])}
  BY <1>3
<1>5. PICK S : S = InUse \cup valid' \cup {0}
  OBVIOUS
<1>6. UNCHANGED <<rows, net, receipt, started, tries, moved, valid, used, seen>>
  BY DEF RetryAddress, peer, hist
<1>7. /\ \A a \in Addresses : rows'[a].id \in S
      /\ work'[m].bundle \in S /\ work'[m].session.id \in S
  BY <1>1, <1>3, <1>4, <1>5, <1>6, IdsInUse, NoneType
<1>8. Fit(work[m], rows, valid) => Fit(work'[m], rows', valid')
  <2>1. 0 \notin valid
    BY NoneType DEF IInv, Typed, Plain
  <2> QED BY <1>1, <1>3, <1>4, <1>6, <2>1 DEF Fit, AtRow
<1> QED BY <1>1, <1>3, <1>4, <1>5, <1>6, <1>7, <1>8, OnwardKeeps

LEMMA ReceiveStartFew == IInv /\ RetryInv /\ ReceiveStart => RetryInv'
<1> SUFFICES ASSUME IInv, RetryInv, ReceiveStart PROVE RetryInv'
  OBVIOUS
<1>1. PICK to \in Addresses : Addressed("receive", [Resting EXCEPT !.to = to])
  BY DEF ReceiveStart
<1>w. PICK w : w = [Resting EXCEPT !.to = to]
  OBVIOUS
<1>2. WorkOK("receive", w) /\ w.session = None /\ w.bundle = 0
  BY <1>w, RestingOK, ProcsAre DEF WorkOK, WorkType, Resting
<1>3. Addressed("receive", w)
      /\ UNCHANGED <<rows, net, receipt, started, tries, moved, valid, used, seen>>
  BY <1>1, <1>w DEF ReceiveStart, peer, hist
<1>4. /\ WorkOK("receive", work'["receive"]) /\ work'["receive"].bundle = 0
      /\ work' = [work EXCEPT !["receive"] = work'["receive"]]
      /\ work'["receive"].step \notin {"store", "transmit"} /\ (clean' => clean)
  BY <1>2, <1>3, AddressedResult, ProcsAre DEF IInv
<1>5. /\ work'["receive"].session = None
      /\ \A q \in Procs : q # "receive" => work'[q] = work[q]
  BY <1>4 DEF WorkOK, IInv, Typed
<1>6. PICK S : S = InUse \cup valid' \cup {0}
  OBVIOUS
<1>7. /\ \A a \in Addresses : rows'[a].id \in S
      /\ work'["receive"].bundle \in S /\ work'["receive"].session.id \in S
  BY <1>3, <1>4, <1>5, <1>6, IdsInUse, NoneType
<1> QED BY <1>3, <1>4, <1>5, <1>6, <1>7, OnwardKeeps, ProcsAre

LEMMA ProcessBundleFew ==
    ASSUME IInv, RetryInv, NEW m \in Messages, ProcessBundle(m) PROVE RetryInv'
<1>1. /\ m \in Procs /\ work[m] \in WorkType /\ work[m].step = "bundle"
      /\ work[m].to \in Addresses
  BY ProcsAre DEF IInv, Typed, WorkOK, WorkType, ProcessBundle
<1>2. PICK x : x = [work[m] EXCEPT !.step = "load", !.bundle = 0]
  OBVIOUS
<1>3. /\ work'[m] = x /\ \A q \in Procs : q # m => work'[q] = work[q]
      /\ (clean' => clean)
  BY <1>1, <1>2, Onward DEF ProcessBundle
<1>4. /\ x.bundle = 0 /\ x.session = work[m].session /\ x.msg = work[m].msg
      /\ x.step = "load" /\ x.to = work[m].to
  BY <1>1, <1>2 DEF WorkType
<1>5. PICK S : S = InUse \cup valid' \cup {0}
  OBVIOUS
<1>6. /\ UNCHANGED <<net, receipt, started, tries, moved, valid, used, seen>>
      /\ rows'[work[m].to].id = work[m].bundle
      /\ \A a \in Addresses : a # work[m].to => rows'[a] = rows[a]
  BY <1>1 DEF ProcessBundle, peer, hist, IInv, Typed
<1>7. /\ \A a \in Addresses : rows'[a].id \in S
      /\ work'[m].bundle \in S /\ work'[m].session.id \in S
  BY <1>1, <1>3, <1>4, <1>5, <1>6, IdsInUse
<1>8. Fit(work[m], rows, valid) => Fit(work'[m], rows', valid')
  BY <1>1, <1>3, <1>4, <1>6 DEF Fit
<1>9. Active(m)
  BY <1>1 DEF Active
<1> QED BY <1>1, <1>3, <1>4, <1>5, <1>6, <1>7, <1>8, <1>9, OnwardKeeps

LEMMA MigrateFew == ASSUME IInv, RetryInv, NEW p \in Procs, Migrate(p) PROVE RetryInv'
<1>1. work[p] \in WorkType /\ WorkOK(p, work[p]) /\ work[p].step = "migrate"
  BY DEF IInv, Typed, WorkOK, Migrate
<1>2. PICK x : x = [work[p] EXCEPT !.step = AtRow(work[p])]
  OBVIOUS
<1>3. /\ work'[p] = x /\ \A q \in Procs : q # p => work'[q] = work[q]
      /\ (clean' => clean)
  BY <1>1, <1>2, Onward DEF Migrate
<1>4. /\ x.bundle = work[p].bundle /\ x.session = work[p].session /\ x.msg = work[p].msg
      /\ x.step = AtRow(work[p])
  BY <1>1, <1>2 DEF WorkType
<1>5. PICK S : S = InUse \cup valid' \cup {0}
  OBVIOUS
<1>6. /\ UNCHANGED <<net, receipt, started, tries, moved, valid, used, seen>>
      /\ \/ rows' = rows
         \/ rows' = [PN |-> None, LID |-> IF rows["PN"] # None THEN rows["PN"] ELSE rows["LID"]]
  BY DEF Migrate, peer, hist
<1>7. /\ \A a \in Addresses : rows'[a].id \in S
      /\ work'[p].bundle \in S /\ work'[p].session.id \in S
  <2>1. \A a \in Addresses : rows'[a] \in {None, rows["PN"], rows["LID"], rows[a]}
    BY <1>6 DEF Addresses
  <2>2. "PN" \in Addresses /\ "LID" \in Addresses
    BY DEF Addresses
  <2> QED BY <1>3, <1>4, <1>5, <2>1, <2>2, IdsInUse, NoneType
<1>8. Fit(work[p], rows, valid) => Fit(work'[p], rows', valid')
  <2>1. 0 \notin valid
    BY NoneType DEF IInv, Typed, Plain
  <2> QED BY <1>1, <1>3, <1>4, <1>6, <2>1 DEF Fit, AtRow
<1>9. Active(p)
  BY <1>1 DEF Active
<1> QED BY <1>1, <1>3, <1>4, <1>5, <1>6, <1>7, <1>8, <1>9, OnwardKeeps

LEMMA LoadFew == ASSUME IInv, RetryInv, NEW p \in Procs, Load(p) PROVE RetryInv'
<1> DEFINE s == rows[work[p].to]
<1>1. /\ work[p] \in WorkType /\ work[p].step = "load" /\ work[p].to \in Addresses
      /\ work[p].session = None
  BY DEF IInv, Typed, WorkOK, WorkType, Load
<1>2. UNCHANGED <<rows, net, receipt, started, tries, moved, valid, used, seen>>
  BY DEF Load, store, peer, hist
<1>3. CASE GivesUp(p)
  BY <1>2, <1>3, GivesUpFew
<1>4. ASSUME NEW x, Becomes(p, x), x.bundle = work[p].bundle, x.msg = work[p].msg,
             \/ s # None /\ x.session = s /\ x.step = "store"
             \/ p = "send" /\ x.session = None
      PROVE  RetryInv'
  <2>1. /\ work'[p] = x /\ \A q \in Procs : q # p => work'[q] = work[q]
        /\ (clean' => clean)
    BY <1>4, Onward
  <2>2. PICK S : S = InUse \cup valid' \cup {0}
    OBVIOUS
  <2>3. /\ \A a \in Addresses : rows'[a].id \in S
        /\ work'[p].bundle \in S /\ work'[p].session.id \in S
    BY <1>1, <1>2, <1>4, <2>1, <2>2, IdsInUse, NoneType
  <2>4. p \in Messages => (Fit(work[p], rows, valid) => Fit(work'[p], rows', valid'))
    BY <1>1, <1>2, <1>4, <2>1, ProcsAre DEF Fit
  <2> QED BY <1>1, <1>2, <1>4, <2>1, <2>2, <2>3, <2>4, OnwardKeeps
<1>5. CASE s # None
  <2>1. PICK x : x = [work[p] EXCEPT !.step = "store", !.session = s]
    OBVIOUS
  <2>2. x.bundle = work[p].bundle /\ x.msg = work[p].msg /\ x.session = s /\ x.step = "store"
    BY <1>1, <2>1 DEF WorkType
  <2> QED BY <1>4, <1>5, <2>1, <2>2 DEF Load
<1>6. CASE s = None /\ p = "send"
  <2>1. PICK x : x = [work[p] EXCEPT !.step = "session"]
    OBVIOUS
  <2>2. x.bundle = work[p].bundle /\ x.msg = work[p].msg /\ x.session = None
    BY <1>1, <2>1 DEF WorkType
  <2> QED BY <1>4, <1>6, <2>1, <2>2 DEF Load
<1> QED BY <1>3, <1>5, <1>6 DEF Load

LEMMA StoreFew == ASSUME IInv, RetryInv, NEW p \in Procs, Store(p) PROVE RetryInv'
<1>1. /\ work[p] \in WorkType /\ work[p].step = "store" /\ work[p].to \in Addresses
      /\ work[p].session \in Session
  BY DEF IInv, Typed, WorkOK, WorkType, Store
<1>2. UNCHANGED <<net, receipt, started, tries, moved, valid, used, seen>>
  BY DEF Store, peer, hist
<1>3. CASE GivesUp(p) /\ UNCHANGED rows
  BY <1>2, <1>3, GivesUpFew
<1>4. ASSUME rows' = [rows EXCEPT ![work[p].to] = Advanced(p)],
             NEW x, Becomes(p, x), x.bundle \in {0, work[p].bundle},
             \/ x.step = "idle" /\ x.session = None
             \/ x.step = "transmit" /\ x.msg = work[p].msg /\ x.session.id = work[p].session.id
      PROVE  RetryInv'
  <2>1. /\ work'[p] = x /\ \A q \in Procs : q # p => work'[q] = work[q]
        /\ (clean' => clean)
    BY <1>4, Onward
  <2>2. PICK S : S = InUse \cup valid' \cup {0}
    OBVIOUS
  <2>3. Advanced(p).id = work[p].session.id
    BY <1>1 DEF Advanced, Session
  <2>4. \A a \in Addresses : rows'[a].id \in S
    <3>1. rows'[work[p].to] = Advanced(p) /\ \A a \in Addresses : a # work[p].to => rows'[a] = rows[a]
      BY <1>1, <1>4 DEF IInv, Typed
    <3> QED BY <2>2, <2>3, <3>1, IdsInUse
  <2>5. work'[p].bundle \in S /\ work'[p].session.id \in S
    BY <1>4, <2>1, <2>2, IdsInUse, NoneType
  <2>6. Fit(work[p], rows, valid) => Fit(work'[p], rows', valid')
    BY <1>1, <1>2, <1>4, <2>1 DEF Fit
  <2>7. Active(p)
    BY <1>1 DEF Active
  <2> QED BY <1>1, <1>2, <1>4, <2>1, <2>2, <2>4, <2>5, <2>6, <2>7, OnwardKeeps
<1>5. CASE /\ p = "receive" /\ Becomes(p, Resting)
           /\ rows' = [rows EXCEPT ![work[p].to] = Advanced(p)]
  <2>1. Resting.step = "idle" /\ Resting.bundle = 0 /\ Resting.session = None
    BY DEF Resting
  <2> QED BY <1>4, <1>5, <2>1
<1>6. CASE /\ Becomes(p, [work[p] EXCEPT !.step = "transmit", !.session.sent = @ + 1])
           /\ rows' = [rows EXCEPT ![work[p].to] = Advanced(p)]
  <2>1. PICK x : x = [work[p] EXCEPT !.step = "transmit", !.session.sent = @ + 1]
    OBVIOUS
  <2>2. /\ x.bundle = work[p].bundle /\ x.msg = work[p].msg /\ x.step = "transmit"
        /\ x.session.id = work[p].session.id
    BY <1>1, <2>1 DEF WorkType, Session
  <2> QED BY <1>4, <1>6, <2>1, <2>2
<1> QED BY <1>3, <1>5, <1>6 DEF Store

(* The message key is new, and the copy of its process is now in the net. *)
LEMMA TransmitFew == ASSUME IInv, RetryInv, NEW p \in Procs, Transmit(p) PROVE RetryInv'
<1>1. PICK m, c :
        /\ m = work[p].msg
        /\ c = [msg |-> m, id |-> work[p].session.id, count |-> work[p].session.sent]
  OBVIOUS
<1>2. /\ WorkOK(p, work[p]) /\ Sending(p) /\ p # "receive" /\ m \in Messages
      /\ work[p].step = "transmit"
  BY <1>1 DEF IInv, Typed, WorkOK, Transmit, Sending
<1>3. /\ work'[p] = Resting /\ \A q \in Procs : q # p => work'[q] = work[q]
      /\ (clean' => clean)
  BY Onward DEF Transmit
<1>4. /\ net' = net \cup {c} /\ used' = used \cup {Key(p)} /\ Key(p) = <<c.id, c.count>>
      /\ UNCHANGED <<rows, started, receipt, valid, seen, tries, moved>>
      /\ c.msg = m /\ c.id = work[p].session.id
  BY <1>1 DEF Transmit, store, Key
<1>5. Resting.step = "idle" /\ Resting.bundle = 0 /\ Resting.session = None
  BY DEF Resting
<1>6. /\ p = "send" => Outgoing(m)
      /\ p # "send" => p = m /\ Retrying(m)
  <2>1. p # "send" => p \in Messages /\ Retrying(p)
    BY <1>2 DEF Procs, Retrying
  <2>2. \A n \in Messages : Retrying(n) => work[n].msg = n
    BY DEF RetryInv, OneCopy
  <2> QED BY <1>1, <1>2, <2>1, <2>2 DEF Outgoing
<1>7. ASSUME NEW n \in Messages PROVE OneCopy(n)'
  <2>1. CASE n = m
    <3>1. ~Flying(m) /\ ~Asked(m) /\ m \in started /\ (p = "send" => ~Retrying(m))
          /\ (p # "send" => ~Outgoing(m))
      BY <1>2, <1>6 DEF RetryInv, OneCopy
    <3>2. ~Outgoing(m)' /\ ~Retrying(m)' /\ ~Asked(m)'
      BY <1>2, <1>3, <1>4, <1>5, <1>6, <3>1, ProcsAre DEF Outgoing, Retrying, Asked
    <3>3. \A d \in net' : d.msg = m => d = c
      BY <1>4, <3>1 DEF Flying
    <3> QED BY <1>4, <2>1, <3>1, <3>2, <3>3 DEF OneCopy
  <2>2. CASE n # m
    <3>1. p # n
      BY <1>6, <2>2, ProcsAre
    <3>2. /\ Outgoing(n)' => Outgoing(n)
          /\ Retrying(n)' <=> Retrying(n) /\ work'[n] = work[n]
          /\ Asked(n)' <=> Asked(n)
      BY <1>3, <1>4, <1>5, <3>1, ProcsAre DEF Outgoing, Retrying, Asked
    <3>3. /\ \A d \in net' : d.msg = n => d \in net
          /\ Flying(n)' <=> Flying(n)
      BY <1>4, <2>2 DEF Flying
    <3> QED BY <1>4, <3>1, <3>2, <3>3 DEF RetryInv, OneCopy
  <2> QED BY <2>1, <2>2
<1>8. Held'
  <2>1. PICK S : S = InUse \cup valid' \cup {0}
    OBVIOUS
  <2>2. /\ \A q \in Procs : work'[q].bundle \in S /\ work'[q].session.id \in S
        /\ \A d \in net' : d.id \in S
    BY <1>3, <1>4, <1>5, <2>1, IdsInUse, NoneType
  <2> QED BY <1>4, <2>1, <2>2, IdsInUse, HeldKept DEF RetryInv
<1>9. ASSUME clean' PROVE KeysApart' /\ FewRetries' /\ \A n \in Messages : Answered(n)'
  <2>1. KeysApart /\ FewRetries /\ \A n \in Messages : Answered(n)
    BY <1>3, <1>9 DEF RetryInv
  <2>2. KeysApart'
    <3>1. Key(p) \notin used
      BY <1>2, <1>3, <1>9 DEF IInv, InOrder
    <3>2. <<c.id, c.count>> \notin used /\ \A d \in net : <<d.id, d.count>> \in used \ seen
      BY <1>4, <2>1, <3>1 DEF KeysApart
    <3> QED BY <1>4, <2>1, <3>2 DEF KeysApart
  <2>3. FewRetries'
    BY <1>3, <1>4, <1>9, <2>1, FewStay
  <2>4. ASSUME NEW n \in Messages PROVE Answered(n)'
    <3>1. CASE n = m
      <4>1. SUFFICES ASSUME tries[m] >= 2
                     PROVE  Answered(m)'
        BY <1>4, <3>1 DEF Answered
      <4>2. p = m /\ Retrying(m) /\ Fit(work[m], rows, valid)
        BY <1>2, <1>6, <2>1, <4>1 DEF Answered
      <4>3. c.id \in valid
        BY <1>2, <1>4, <4>2 DEF Fit
      <4>4. ~Flying(m) /\ ~Asked(m) /\ ~Outgoing(m)'
        BY <1>2, <1>3, <2>1, <4>1, <4>2, ProcsAre DEF RetryInv, OneCopy, Answered, Outgoing
      <4>5. Fit(work'[m], rows', valid')
        BY <1>3, <1>5, <4>2 DEF Fit
      <4>6. \A d \in net' : d.msg = m => d.id \in valid'
        BY <1>4, <4>3, <4>4 DEF Flying
      <4>7. ~Asked(m)'
        BY <1>4, <4>4 DEF Asked
      <4> QED BY <4>4, <4>5, <4>6, <4>7 DEF Answered
    <3>2. CASE n # m
      <4>1. p # n
        BY <1>6, <3>2, ProcsAre
      <4>2. /\ work'[n] = work[n] /\ (Outgoing(n)' => Outgoing(n)) /\ (Asked(n)' <=> Asked(n))
            /\ \A d \in net' : d.msg = n => d \in net
        BY <1>3, <1>4, <1>5, <3>2, <4>1, ProcsAre DEF Outgoing, Asked
      <4> QED BY <1>4, <2>1, <4>2 DEF Answered
    <3> QED BY <3>1, <3>2
  <2> QED BY <2>2, <2>3, <2>4
<1> QED BY <1>7, <1>8, <1>9 DEF RetryInv

(* The copy passes from the receipt to the goroutine that answers it. *)
LEMMA RetryStartFew ==
    ASSUME IInv, RetryInv, NEW m \in Messages, RetryStart(m) PROVE RetryInv'
<1>1. /\ m \in Procs /\ Asked(m) /\ work[m].step = "idle"
      /\ receipt' = [receipt EXCEPT ![m] = NoReceipt]
      /\ UNCHANGED <<rows, started, net, valid, seen, tries, moved, used>>
  BY ProcsAre DEF RetryStart, Forget, Asked, store, hist
<1>2. receipt'[m] = NoReceipt /\ \A n \in Messages : n # m => receipt'[n] = receipt[n]
  BY <1>1 DEF IInv, Typed, Plain
<1>3. CASE UNCHANGED <<work, clean>>
  BY <1>1, <1>2, <1>3, QuietKeeps
<1>4. ASSUME NEW w, Becomes(m, w), NEW step \in {"fetch", "address"}, NEW a \in Addresses,
             step = "fetch" => receipt[m].keys = 0,
             w = [Resting EXCEPT !.msg = m, !.to = a, !.bundle = receipt[m].keys, !.step = step]
      PROVE  RetryInv'
  <2>1. /\ w.step = step /\ w.bundle = receipt[m].keys /\ w.session = None /\ w.msg = m
    BY <1>4 DEF Resting
  <2>2. /\ work'[m] = w /\ \A q \in Procs : q # m => work'[q] = work[q]
        /\ (clean' => clean)
    BY <1>1, <1>4, Onward
  <2>3. OneCopy(m) /\ ~Outgoing(m) /\ ~Flying(m) /\ m \in started
    BY <1>1 DEF RetryInv, OneCopy
  <2>4. ~Outgoing(m)' /\ ~Flying(m)' /\ ~Asked(m)' /\ Retrying(m)'
    BY <1>1, <1>2, <2>1, <2>2, <2>3, ProcsAre DEF Outgoing, Flying, Asked, Retrying
  <2>5. ASSUME NEW n \in Messages PROVE OneCopy(n)'
    <3>1. CASE n = m
      BY <1>1, <2>1, <2>2, <2>3, <2>4, <3>1 DEF OneCopy
    <3>2. CASE n # m
      BY <1>1, <1>2, <2>2, <3>2, CopiesKept, ProcsAre
         DEF RetryInv, Outgoing, Asked, Retrying
    <3> QED BY <3>1, <3>2
  <2>6. Held'
    <3>1. PICK S : S = InUse \cup valid' \cup {0}
      OBVIOUS
    <3>2. /\ \A q \in Procs : work'[q].bundle \in S /\ work'[q].session.id \in S
          /\ \A n \in Messages : receipt'[n].keys \in S
      BY <1>2, <2>1, <2>2, <3>1, IdsInUse, NoneType DEF NoReceipt
    <3> QED BY <1>1, <3>1, <3>2, IdsInUse, HeldKept DEF RetryInv
  <2>7. ASSUME clean' PROVE KeysApart' /\ FewRetries' /\ \A n \in Messages : Answered(n)'
    <3>1. KeysApart' /\ FewRetries'
      BY <1>1, <2>2, <2>7, ApartKept, FewStay DEF RetryInv
    <3>2. ASSUME NEW n \in Messages PROVE Answered(n)'
      <4>1. CASE n = m
        <5>1. SUFFICES ASSUME tries[m] >= 2
                       PROVE  /\ \A c \in net' : c.msg = m => c.id \in valid'
                              /\ Fit(work'[m], rows', valid')
          BY <1>1, <2>4, <4>1 DEF Answered
        <5>2. receipt[m].keys \in valid
          BY <1>1, <2>2, <2>7, <5>1 DEF RetryInv, Answered
        <5>3. receipt[m].keys # 0
          BY <5>2, NoneType DEF IInv, Typed, Plain
        <5>4. Fit(w, rows, valid)
          BY <1>4, <2>1, <5>2, <5>3 DEF Fit
        <5> QED BY <1>1, <2>2, <2>3, <5>4 DEF Flying
      <4>2. CASE n # m
        <5>1. Fit(work[n], rows, valid) => Fit(work'[n], rows', valid')
          BY <1>1, <2>2, <4>2, ProcsAre
        <5>2. Answered(n) /\ (Outgoing(n)' => Outgoing(n))
          BY <2>2, <2>7, ProcsAre DEF RetryInv, Outgoing
        <5> QED BY <1>1, <1>2, <4>2, <5>1, <5>2, AnswerKept
      <4> QED BY <4>1, <4>2
    <3> QED BY <3>1, <3>2
  <2> QED BY <2>5, <2>6, <2>7 DEF RetryInv
<1>5. \/ UNCHANGED <<work, clean>>
      \/ \E a \in Addresses, step \in {"fetch", "address"} :
           /\ step = "fetch" => receipt[m].keys = 0
           /\ Becomes(m, [Resting EXCEPT !.msg = m, !.to = a, !.bundle = receipt[m].keys,
                                         !.step = step])
  <2>1. CASE UNCHANGED <<work, clean>>
    BY <2>1
  <2>2. ASSUME NEW a \in Addresses,
               Becomes(m, [Resting EXCEPT !.msg = m, !.to = a, !.bundle = receipt[m].keys,
                             !.step = IF receipt[m].keys = 0 /\ rows[a] = None
                                      THEN "fetch" ELSE "address"])
        PROVE  \E step \in {"fetch", "address"} :
                 /\ step = "fetch" => receipt[m].keys = 0
                 /\ Becomes(m, [Resting EXCEPT !.msg = m, !.to = a, !.bundle = receipt[m].keys,
                                               !.step = step])
    <3>1. CASE receipt[m].keys = 0 /\ rows[a] = None
      BY <2>2, <3>1
    <3>2. CASE ~ (receipt[m].keys = 0 /\ rows[a] = None)
      BY <2>2, <3>2
    <3> QED BY <3>1, <3>2
  <2> QED BY <2>1, <2>2 DEF RetryStart
<1> QED BY <1>3, <1>4, <1>5

LEMMA InitRetryInv == Init => RetryInv
<1> SUFFICES ASSUME Init PROVE RetryInv
  OBVIOUS
<1>1. /\ \A a \in Addresses : rows[a].id = 0
      /\ \A p \in Procs : work[p].step = "idle" /\ work[p].bundle = 0 /\ work[p].session.id = 0
      /\ \A m \in Messages : receipt[m] = NoReceipt /\ receipt[m].keys = 0 /\ tries[m] = 0
      /\ net = {} /\ seen = {} /\ used = {} /\ started = {} /\ ~moved
  BY DEF Init, None, Resting, NoReceipt
<1>2. \A m \in Messages : OneCopy(m)
  BY <1>1, ProcsAre DEF OneCopy, Outgoing, Flying, Asked, Retrying
<1>3. InUse \subseteq {0}
  BY <1>1 DEF InUse
<1>4. KeysApart /\ FewRetries /\ \A m \in Messages : Answered(m)
  BY <1>1 DEF KeysApart, FewRetries, Answered
<1> QED BY <1>2, <1>3, <1>4 DEF RetryInv, Held

LEMMA StepRetryInv == IInv /\ RetryInv /\ [Next]_vars => RetryInv'
<1> SUFFICES ASSUME IInv, RetryInv, [Next]_vars PROVE RetryInv'
  OBVIOUS
<1>1. CASE UNCHANGED vars
  BY <1>1, QuietKeeps DEF vars
<1>2. ASSUME NEW p \in Procs, Step(p) PROVE RetryInv'
  BY <1>2, MigrateFew, LoadFew, StoreFew, TransmitFew, TransmitFailsFew DEF Step
<1>3. ASSUME NEW m \in Messages, Retry(m) PROVE RetryInv'
  BY <1>3, RetryStartFew, RetryFetchFew, RetryAddressFew, ProcessBundleFew DEF Retry
<1> QED BY <1>1, <1>2, <1>3, SendStartFew, SendFetchFew, ReceiveStartFew, LearnFew,
           IdentityChangeFew, CrashFew, PeerReadsFew, PeerAsksFew, ReinstallFew DEF Next

(* As long as no two processes had the session at once, the contact never   *)
(* asks for a message again, or twice at most if it was installed again:    *)
(* the bundle in its second receipt makes a session that it can read.       *)
THEOREM TwoRetriesAtMost == Spec => []FewRetries
<1>1. RetryInv => FewRetries
  BY DEF RetryInv, FewRetries
<1>2. Spec => []RetryInv
  BY InitRetryInv, StepRetryInv, Invariant, PTL DEF Spec
<1> QED BY <1>1, <1>2, PTL
====
