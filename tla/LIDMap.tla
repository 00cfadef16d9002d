------------------------------- MODULE LIDMap -------------------------------
(***************************************************************************)
(* CachedLIDMap: the table whatsmeow_lid_map, which pairs the LID of a     *)
(* user with a phone number (PN), and the two maps that cache it, one for  *)
(* each direction.                                                         *)
(*                                                                         *)
(* Every operation holds lidCacheLock while it touches the caches, so an   *)
(* operation that neither waits nor fails half way is one step.  Two of    *)
(* them are more: a lookup drops its read lock before it takes the write   *)
(* lock, and a put writes the caches row by row inside a transaction that  *)
(* may still be rolled back.  The table survives a restart, the caches do  *)
(* not.                                                                    *)
(*                                                                         *)
(* MapInit, MapNext and the like have their prefix so that a module can    *)
(* extend this one and another specification.                              *)
(***************************************************************************)
EXTENDS Naturals, Sequences, FiniteSets

CONSTANTS
    PNs,        \* user parts of JIDs on the default server
    LIDs,       \* user parts of JIDs on the hidden user server
    Absent,     \* the key is not in a cache
    NoRow,      \* the empty string, cached for a key that has no row
    MaxRows,    \* bound: rows in one call of PutManyLIDMappings
    MaxLookups  \* bound: lookups waiting for the write lock

ASSUME UsersAssumption ==
    /\ PNs \cap LIDs = {}
    /\ Absent # NoRow
    /\ {Absent, NoRow} \cap (PNs \cup LIDs) = {}
ASSUME MapBoundsAssumption == MaxRows \in Nat /\ MaxLookups \in Nat

VARIABLES
    table,      \* committed rows <<lid, pn>> of whatsmeow_lid_map
    lidOf,      \* pnToLIDCache
    pnOf,       \* lidToPNCache
    filled,     \* cacheFilled
    missed,     \* keys that a single lookup missed: it waits for the lock
    missedMany, \* sets of PNs that GetManyLIDsForPNs missed, waiting likewise
    todo,       \* rows the running transaction still has to write
    writing,    \* a put holds the lock and its transaction is open
    work,       \* the rows as that transaction sees them
    wrote,      \* history: keys whose cache entry it has written
    spoiled     \* history: keys whose last cache entry was rolled back

cacheVars  == <<lidOf, pnOf, filled>>
lookupVars == <<missed, missedMany>>
putVars    == <<todo, writing, work, wrote>>
mapVars == <<table, cacheVars, lookupVars, putVars, spoiled>>

Mappings == LIDs \X PNs

(* The PRIMARY KEY and the UNIQUE constraint of the table. *)
Unique(rows) ==
    \A r \in rows, q \in rows : r[1] = q[1] \/ r[2] = q[2] => r = q

MapTypeOK ==
    /\ table \in SUBSET Mappings /\ Unique(table)
    /\ lidOf \in [PNs -> LIDs \cup {Absent, NoRow}]
    /\ pnOf \in [LIDs -> PNs \cup {Absent, NoRow}]
    /\ filled \in BOOLEAN
    /\ missed \in SUBSET (PNs \cup LIDs)
    /\ missedMany \in SUBSET SUBSET PNs
    /\ todo \in Seq(Mappings)
    /\ writing \in BOOLEAN
    /\ work \in SUBSET Mappings /\ Unique(work)
    /\ wrote \in SUBSET (PNs \cup LIDs)
    /\ spoiled \in SUBSET (PNs \cup LIDs)

-----------------------------------------------------------------------------
(* Parts of the actions. *)

Unlocked == ~writing

(* scanManyLids: every row read goes into both caches. *)
Scan(rows) ==
    /\ lidOf' = [p \in PNs |->
         IF \E r \in rows : r[2] = p THEN (CHOOSE r \in rows : r[2] = p)[1] ELSE lidOf[p]]
    /\ pnOf' = [l \in LIDs |->
         IF \E r \in rows : r[1] = l THEN (CHOOSE r \in rows : r[1] = l)[2] ELSE pnOf[l]]
    /\ spoiled' = spoiled \ UNION {{r[1], r[2]} : r \in rows}

RowsOf(keys) == {r \in table : r[1] \in keys \/ r[2] \in keys}

Waiting == Cardinality(missed) + Cardinality(missedMany)

(* MUTANT: the new row is inserted and the old one of its number is kept. *)
StoredTwice(rows, l, p) == {r \in rows : r[1] # l} \cup {<<l, p>>}

(* deleteExistingLIDMappingQuery, then putLIDMappingQuery. *)
Stored(rows, l, p) == {r \in rows : r[1] # l /\ r[2] # p} \cup {<<l, p>>}

-----------------------------------------------------------------------------
(* Lookups. *)

(* GetLIDForPN or GetPNForLID of a key that is not cached: the read lock is *)
(* dropped.  A key that is cached, or any key once the cache is filled, is  *)
(* answered at once and changes nothing.                                    *)
Miss(key) ==
    /\ Unlocked /\ ~filled /\ Waiting < MaxLookups
    /\ IF key \in PNs THEN lidOf[key] = Absent ELSE pnOf[key] = Absent
    /\ missed' = missed \cup {key}
    /\ UNCHANGED <<table, cacheVars, missedMany, putVars, spoiled>>

(* The query with the write lock held.  The caches are not looked at again. *)
(* A row is cached in both directions; no row, as an empty string.          *)
Query(key) ==
    /\ Unlocked /\ key \in missed
    /\ missed' = missed \ {key}
    /\ \/ RowsOf({key}) # {} /\ Scan(RowsOf({key}))
       \/ /\ RowsOf({key}) = {}
          /\ lidOf' = [p \in PNs |-> IF p = key THEN NoRow ELSE lidOf[p]]
          /\ pnOf' = [l \in LIDs |-> IF l = key THEN NoRow ELSE pnOf[l]]
          /\ spoiled' = spoiled \ {key}
    /\ UNCHANGED <<table, filled, missedMany, putVars>>

QueryFails(key) ==
    /\ Unlocked /\ key \in missed
    /\ missed' = missed \ {key}
    /\ UNCHANGED <<table, cacheVars, missedMany, putVars, spoiled>>

(* GetManyLIDsForPNs, which also asks again for a number cached as empty. *)
MissMany(pns) ==
    /\ Unlocked /\ ~filled /\ Waiting < MaxLookups
    /\ pns # {} /\ \A p \in pns : lidOf[p] \in {Absent, NoRow}
    /\ missedMany' = missedMany \cup {pns}
    /\ UNCHANGED <<table, cacheVars, missed, putVars, spoiled>>

(* Its query, whose scan may break off after some of the rows. *)
QueryMany(pns) ==
    /\ Unlocked /\ pns \in missedMany
    /\ missedMany' = missedMany \ {pns}
    /\ \E rows \in SUBSET RowsOf(pns) : Scan(rows)
    /\ UNCHANGED <<table, filled, missed, putVars>>

(* FillCache: all rows, or an error after some or all of them.  An error of *)
(* the query itself changes nothing.                                        *)
FillCache ==
    /\ Unlocked
    /\ \E rows \in SUBSET table :
         /\ Scan(rows)
         /\ \/ rows = table /\ filled' = TRUE
            \/ filled' = FALSE
    /\ UNCHANGED <<table, lookupVars, putVars>>

-----------------------------------------------------------------------------
(* PutLIDMapping, which is given one row, and PutManyLIDMappings. *)

Batches == {b \in UNION {[1..n -> Mappings] : n \in 1..MaxRows} :
              \A i \in DOMAIN b, j \in DOMAIN b : b[i] = b[j] => i = j}

(* The rows whose number is cached with that very LID have been dropped,    *)
(* and so have duplicates; if nothing is left the call returns.             *)
Put(batch) ==
    /\ Unlocked
    /\ \A i \in DOMAIN batch : lidOf[batch[i][2]] # batch[i][1]
    /\ writing' = TRUE
    /\ todo' = batch
    /\ work' = table
    /\ wrote' = {}
    /\ UNCHANGED <<table, cacheVars, lookupVars, spoiled>>

(* MUTANT: only the cache of the other direction is written. *)
CacheRowReverse(l, p) == lidOf' = lidOf /\ pnOf' = [pnOf EXCEPT ![l] = p]

(* MUTANT: only the cache of this direction is written. *)
CacheRowForward(l, p) == lidOf' = [lidOf EXCEPT ![p] = l] /\ pnOf' = pnOf

CacheRow(l, p) ==
    /\ lidOf' = [lidOf EXCEPT ![p] = l]
    /\ pnOf' = [pnOf EXCEPT ![l] = p]

(* unlockedPutLIDMapping: the row, then its two cache entries. *)
PutRow ==
    /\ writing /\ todo # <<>>
    /\ LET l == Head(todo)[1]
           p == Head(todo)[2]
       IN  /\ work' = Stored(work, l, p)
           /\ CacheRow(l, p)
           /\ wrote' = wrote \cup {l, p}
           /\ spoiled' = spoiled \ {l, p}
    /\ todo' = Tail(todo)
    /\ UNCHANGED <<table, filled, lookupVars, writing>>

Commit ==
    /\ writing /\ todo = <<>>
    /\ table' = work
    /\ writing' = FALSE /\ work' = {} /\ wrote' = {}
    /\ UNCHANGED <<cacheVars, lookupVars, todo, spoiled>>

(* A statement, or the commit, failed.  The caches keep what was written.   *)
Rollback ==
    /\ writing
    /\ writing' = FALSE /\ todo' = <<>> /\ work' = {} /\ wrote' = {}
    /\ spoiled' = spoiled \cup wrote
    /\ UNCHANGED <<table, cacheVars, lookupVars>>

-----------------------------------------------------------------------------
(* NewCachedLIDMap, after the process ended at any point. *)
Restart ==
    /\ lidOf' = [p \in PNs |-> Absent]
    /\ pnOf' = [l \in LIDs |-> Absent]
    /\ filled' = FALSE
    /\ missed' = {} /\ missedMany' = {}
    /\ todo' = <<>> /\ writing' = FALSE /\ work' = {} /\ wrote' = {}
    /\ spoiled' = {}
    /\ UNCHANGED table

MapInit ==
    /\ table = {}
    /\ lidOf = [p \in PNs |-> Absent]
    /\ pnOf = [l \in LIDs |-> Absent]
    /\ filled = FALSE
    /\ missed = {} /\ missedMany = {}
    /\ todo = <<>> /\ writing = FALSE /\ work = {} /\ wrote = {}
    /\ spoiled = {}

Lookup ==
    \/ \E key \in PNs \cup LIDs : Miss(key) \/ Query(key) \/ QueryFails(key)
    \/ \E pns \in SUBSET PNs : MissMany(pns) \/ QueryMany(pns)
    \/ FillCache

MapNext ==
    \/ Lookup
    \/ \E batch \in Batches : Put(batch)
    \/ PutRow \/ Commit \/ Rollback
    \/ Restart

MapSpec == MapInit /\ [][MapNext]_mapVars

-----------------------------------------------------------------------------
(* What the holder of the lock reads from the database. *)
View == IF writing THEN work ELSE table

(* Every stored mapping is found, in both directions, by whoever asks the   *)
(* caches: an entry for it is right, and with cacheFilled there is one.  A  *)
(* cached miss never hides a row that was put later, and a batch that is    *)
(* rolled back spoils the entries of its own rows and no others.            *)
StoredIsFound ==
    \A r \in View :
        /\ r[2] \notin spoiled /\ (filled \/ lidOf[r[2]] # Absent) => lidOf[r[2]] = r[1]
        /\ r[1] \notin spoiled /\ (filled \/ pnOf[r[1]] # Absent) => pnOf[r[1]] = r[2]

(* An entry can outlive its row, when the number or the LID is paired with  *)
(* another.  Then the two caches disagree about it: a pair that both        *)
(* directions give is stored.                                               *)
AgreementIsStored ==
    \A l \in LIDs, p \in PNs :
        lidOf[p] = l /\ pnOf[l] = p /\ {l, p} \cap spoiled = {} => <<l, p>> \in View

=============================================================================
