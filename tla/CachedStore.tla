----------------------------- MODULE CachedStore -----------------------------
(***************************************************************************)
(* CachedObjectStore (store/cached_store.go) over its write-back LRU cache *)
(* (store/cache.go) and the IAVL backing store (store/iavl_store.go).      *)
(*                                                                         *)
(* Goroutines call the store concurrently.  A call takes s.mu only to read *)
(* `closed`, and then works on the cache and on the tree, each of which    *)
(* locks itself: one action is one such locked section, and other          *)
(* goroutines run between two of them.  Flush and Close hold s.mu to the   *)
(* end.  The process may crash at any point; the tree reopens at its last  *)
(* saved version.                                                          *)
(*                                                                         *)
(* The second cache level is left out: nothing calls Set on l2, so it is   *)
(* empty in every state and every operation on it finds nothing.           *)
(***************************************************************************)
EXTENDS Naturals, FiniteSets, Sequences

CONSTANTS
    Keys,       \* keys; numbers, because Flush sorts them
    Values,     \* objects
    Procs,      \* goroutines
    Ops,        \* Ops[p]: the operations goroutine p calls
    Capacity,   \* l1 size given to NewCache
    Faults,     \* backing store operations that may return an error
    Nil,        \* no object: ErrNotFound, and a deleted entry
    Absent      \* no cache entry

OpKinds == {"get", "has", "scan", "set", "delete", "setBatch", "deleteBatch",
            "flush", "close"}

FaultKinds == {"read", "write", "save"}

Objects == Values \cup {Nil}

Entries == [value : Objects, dirty : BOOLEAN]

ASSUME KeysAssumption == Keys \subseteq Nat /\ IsFiniteSet(Keys)
ASSUME CapacityAssumption == Capacity \in Nat \ {0}
ASSUME OpsAssumption == Ops \in [Procs -> SUBSET OpKinds]
ASSUME FaultsAssumption == Faults \subseteq FaultKinds
ASSUME ValuesAssumption ==
    Nil \notin Values /\ Nil \notin Keys /\ Absent \notin Objects /\ Absent \notin Entries
ASSUME ProcsAssumption == Nil \notin Procs

VARIABLES
    cache,      \* l1.items: the entry of each key, or Absent
    lru,        \* l1.lru: the cached keys, most recently used first
    tree,       \* the working IAVL tree
    disk,       \* the last saved version of the tree
    closed,     \* s.closed
    treeClosed, \* IAVLStore.closed
    mu,         \* the goroutine that holds s.mu for writing, or Nil
    pc,         \* where each goroutine is
    key,        \* the key of its call
    got,        \* the object it read from the tree
    batch,      \* the objects it still has to write, Absent for none
    flushed,    \* flushedKeys: the keys whose dirty flag it will clear
    ret         \* the last reply any of them received

vars == <<cache, lru, tree, disk, closed, treeClosed, mu, pc, key, got, batch,
          flushed, ret>>

callVars  == <<key, got, batch, flushed>>
cacheVars == <<cache, lru>>
treeVars  == <<tree, disk, treeClosed>>
lockVars  == <<closed, mu>>

Items == [Keys -> Objects \cup {Absent}]

NoItems == [k \in Keys |-> Absent]

Present(f) == {k \in Keys : f[k] # Absent}

Dirty(k) == cache[k] # Absent /\ cache[k].dirty

DirtyKeys == {k \in Keys : Dirty(k)}

\* The object a caller finds under k: the cache hides the tree.
View(k) == IF cache[k] # Absent THEN cache[k].value ELSE tree[k]

Least(S) == CHOOSE k \in S : \A j \in S : k <= j

Answer(p, op, k, v) ==
    ret' = [proc |-> p, op |-> op, key |-> k, val |-> v]

Goto(p, label) == pc' = [pc EXCEPT ![p] = label]

-----------------------------------------------------------------------------
(* The LRU cache *)

Position(k) == CHOOSE i \in 1 .. Len(lru) : lru[i] = k

MoveToFront(k) ==
    [i \in 1 .. Len(lru) |->
        IF i = 1 THEN k ELSE IF i <= Position(k) THEN lru[i - 1] ELSE lru[i]]

\* Cache.Get on a cached key.
Touch(k) == lru' = MoveToFront(k) /\ UNCHANGED cache

CacheUpdate(k, e) ==
    /\ cache[k] # Absent
    /\ cache' = [cache EXCEPT ![k] = e]
    /\ lru' = MoveToFront(k)

CacheInsert(k, e) ==
    /\ cache[k] = Absent
    /\ Len(lru) < Capacity
    /\ cache' = [cache EXCEPT ![k] = e]
    /\ lru' = <<k>> \o lru

\* Fault: the victim leaves the list but not the map.
CacheEvictKeepsItem(k, e) ==
    /\ cache[k] = Absent
    /\ Len(lru) >= Capacity
    /\ cache' = [cache EXCEPT ![k] = e]
    /\ lru' = <<k>> \o SubSeq(lru, 1, Len(lru) - 1)

\* evictLRU drops the last entry of the list, whatever its dirty flag.
CacheEvict(k, e) ==
    /\ cache[k] = Absent
    /\ Len(lru) >= Capacity
    /\ cache' = [cache EXCEPT ![k] = e, ![lru[Len(lru)]] = Absent]
    /\ lru' = <<k>> \o SubSeq(lru, 1, Len(lru) - 1)

\* Cache.Set
CacheSet(k, e) == CacheUpdate(k, e) \/ CacheInsert(k, e) \/ CacheEvict(k, e)

-----------------------------------------------------------------------------
Init ==
    /\ disk \in [Keys -> Objects]
    /\ tree = disk
    /\ cache = NoItems
    /\ lru = <<>>
    /\ closed = FALSE
    /\ treeClosed = FALSE
    /\ mu = Nil
    /\ pc = [p \in Procs |-> "idle"]
    /\ key = [p \in Procs |-> Nil]
    /\ got = [p \in Procs |-> Nil]
    /\ batch = [p \in Procs |-> NoItems]
    /\ flushed = [p \in Procs |-> {}]
    /\ ret = [proc |-> Nil, op |-> "none", key |-> Nil, val |-> Nil]

\* A call begins: it reads `closed` under the read lock and gives the lock back.
Enter(p, op, label, k, items) ==
    /\ op \in Ops[p]
    /\ pc[p] = "idle"
    /\ mu = Nil
    /\ IF closed
       THEN /\ Answer(p, "closed", Nil, Nil)
            /\ UNCHANGED <<pc, callVars>>
       ELSE /\ Goto(p, label)
            /\ key' = [key EXCEPT ![p] = k]
            /\ batch' = [batch EXCEPT ![p] = items]
            /\ UNCHANGED <<got, flushed, ret>>
    /\ UNCHANGED <<cacheVars, treeVars, lockVars>>

\* The call of p returns; its locals are gone.
Return(p) ==
    /\ Goto(p, "idle")
    /\ key' = [key EXCEPT ![p] = Nil]
    /\ got' = [got EXCEPT ![p] = Nil]
    /\ batch' = [batch EXCEPT ![p] = NoItems]
    /\ flushed' = [flushed EXCEPT ![p] = {}]

-----------------------------------------------------------------------------
(* Get: cache, then tree, then fill the cache with what the tree held *)

BeginGet(p) == \E k \in Keys : Enter(p, "get", "getCache", k, NoItems)

GetCache(p) ==
    /\ pc[p] = "getCache"
    /\ IF cache[key[p]] # Absent
       THEN /\ Touch(key[p])
            /\ Answer(p, "get", key[p], cache[key[p]].value)
            /\ Return(p)
       ELSE /\ Goto(p, "getBacking")
            /\ UNCHANGED <<cacheVars, callVars, ret>>
    /\ UNCHANGED <<treeVars, lockVars>>

\* Whether a read of the tree fails: a closed tree refuses it, an open one may
\* meet an error of the database below.
ReadOutcomes == IF treeClosed THEN {TRUE} ELSE {FALSE, "read" \in Faults}

\* Every error of backing.Get, "not found" or not, becomes ErrNotFound.
GetBacking(p) ==
    /\ pc[p] = "getBacking"
    /\ \E fails \in ReadOutcomes :
         IF fails \/ tree[key[p]] = Nil
         THEN Answer(p, "get", key[p], Nil) /\ Return(p)
         ELSE /\ got' = [got EXCEPT ![p] = tree[key[p]]]
              /\ Goto(p, "getFill")
              /\ UNCHANGED <<key, batch, flushed, ret>>
    /\ UNCHANGED <<cacheVars, treeVars, lockVars>>

GetFill(p) ==
    /\ pc[p] = "getFill"
    /\ CacheSet(key[p], [value |-> got[p], dirty |-> FALSE])
    /\ Answer(p, "get", key[p], got[p])
    /\ Return(p)
    /\ UNCHANGED <<treeVars, lockVars>>

-----------------------------------------------------------------------------
(* Has and the iterators *)

BeginHas(p) == \E k \in Keys : Enter(p, "has", "hasCache", k, NoItems)

\* Fault: a cached deletion counts as an object.
HasCacheIgnoresDeletion(p) ==
    /\ pc[p] = "hasCache"
    /\ IF cache[key[p]] # Absent
       THEN /\ Touch(key[p])
            /\ Answer(p, "has", key[p], TRUE)
            /\ Return(p)
       ELSE /\ Goto(p, "hasBacking")
            /\ UNCHANGED <<cacheVars, callVars, ret>>
    /\ UNCHANGED <<treeVars, lockVars>>

HasCache(p) ==
    /\ pc[p] = "hasCache"
    /\ IF cache[key[p]] # Absent
       THEN /\ Touch(key[p])
            /\ Answer(p, "has", key[p], cache[key[p]].value # Nil)
            /\ Return(p)
       ELSE /\ Goto(p, "hasBacking")
            /\ UNCHANGED <<cacheVars, callVars, ret>>
    /\ UNCHANGED <<treeVars, lockVars>>

HasBacking(p) ==
    /\ pc[p] = "hasBacking"
    /\ \E fails \in ReadOutcomes :
         IF fails THEN Answer(p, "failed", Nil, Nil)
                  ELSE Answer(p, "has", key[p], tree[key[p]] # Nil)
    /\ Return(p)
    /\ UNCHANGED <<cacheVars, treeVars, lockVars>>

\* Iterator and ReverseIterator walk the tree and never look at the cache; a
\* scan is their visit to one key.
BeginScan(p) == \E k \in Keys : Enter(p, "scan", "scan", k, NoItems)

Scan(p) ==
    /\ pc[p] = "scan"
    /\ IF treeClosed THEN Answer(p, "failed", Nil, Nil)
                     ELSE Answer(p, "scan", key[p], tree[key[p]])
    /\ Return(p)
    /\ UNCHANGED <<cacheVars, treeVars, lockVars>>

-----------------------------------------------------------------------------
(* Set, Delete and their batches: dirty entries, one Cache.Set per key *)

BeginSet(p) ==
    \E k \in Keys, v \in Values :
        Enter(p, "set", "write", Nil, [NoItems EXCEPT ![k] = v])

BeginDelete(p) ==
    \E k \in Keys : Enter(p, "delete", "write", Nil, [NoItems EXCEPT ![k] = Nil])

BeginSetBatch(p) ==
    \E items \in [Keys -> Values \cup {Absent}] :
        items # NoItems /\ Enter(p, "setBatch", "write", Nil, items)

BeginDeleteBatch(p) ==
    \E items \in [Keys -> {Nil, Absent}] :
        items # NoItems /\ Enter(p, "deleteBatch", "write", Nil, items)

WriteItem(p) ==
    /\ pc[p] = "write"
    /\ \E k \in Present(batch[p]) :
         /\ CacheSet(k, [value |-> batch[p][k], dirty |-> TRUE])
         /\ Answer(p, "write", k, batch[p][k])
         /\ IF Present(batch[p]) = {k}
            THEN Return(p)
            ELSE /\ batch' = [batch EXCEPT ![p][k] = Absent]
                 /\ UNCHANGED <<pc, key, got, flushed>>
    /\ UNCHANGED <<treeVars, lockVars>>

-----------------------------------------------------------------------------
(* Flush: snapshot the dirty entries, write them in key order, save a      *)
(* version, clear the dirty flags.  An error ends it where it is.          *)

BeginFlush(p) ==
    /\ "flush" \in Ops[p]
    /\ pc[p] = "idle"
    /\ mu = Nil
    /\ IF closed
       THEN /\ Answer(p, "closed", Nil, Nil)
            /\ UNCHANGED <<pc, mu, callVars>>
       ELSE /\ mu' = p
            /\ Goto(p, IF DirtyKeys = {} THEN "flushSave" ELSE "flushWrite")
            /\ batch' = [batch EXCEPT ![p] =
                  [k \in Keys |-> IF Dirty(k) THEN cache[k].value ELSE Absent]]
            /\ UNCHANGED <<key, got, flushed, ret>>
    /\ UNCHANGED <<cacheVars, treeVars, closed>>

FlushFails(p) ==
    /\ Answer(p, "failed", Nil, Nil)
    /\ Return(p)
    /\ mu' = Nil
    /\ UNCHANGED <<cacheVars, treeVars, closed>>

\* Fault: deletions are not passed on to the tree.
FlushWriteSkipsDeletes(p) ==
    /\ pc[p] = "flushWrite"
    /\ LET k == Least(Present(batch[p])) IN
         /\ tree' = IF batch[p][k] = Nil THEN tree ELSE [tree EXCEPT ![k] = batch[p][k]]
         /\ batch' = [batch EXCEPT ![p][k] = Absent]
         /\ flushed' = [flushed EXCEPT ![p] = @ \cup {k}]
         /\ Goto(p, IF Present(batch[p]) = {k} THEN "flushSave" ELSE "flushWrite")
    /\ UNCHANGED <<cacheVars, disk, treeClosed, lockVars, key, got, ret>>

FlushWrite(p) ==
    /\ pc[p] = "flushWrite"
    /\ LET k == Least(Present(batch[p])) IN
         /\ tree' = [tree EXCEPT ![k] = batch[p][k]]
         /\ batch' = [batch EXCEPT ![p][k] = Absent]
         /\ flushed' = [flushed EXCEPT ![p] = @ \cup {k}]
         /\ Goto(p, IF Present(batch[p]) = {k} THEN "flushSave" ELSE "flushWrite")
    /\ UNCHANGED <<cacheVars, disk, treeClosed, lockVars, key, got, ret>>

FlushWriteFails(p) ==
    /\ pc[p] = "flushWrite"
    /\ "write" \in Faults
    /\ FlushFails(p)

FlushSave(p) ==
    /\ pc[p] = "flushSave"
    /\ disk' = tree
    /\ Goto(p, "flushClear")
    /\ UNCHANGED <<cacheVars, tree, treeClosed, lockVars, callVars, ret>>

\* Fault: a failed save is tried again from the start, without end.
FlushSaveRetries(p) ==
    /\ pc[p] = "flushSave"
    /\ "save" \in Faults
    /\ DirtyKeys # {}
    /\ batch' = [batch EXCEPT ![p] =
          [k \in Keys |-> IF Dirty(k) THEN cache[k].value ELSE Absent]]
    /\ Goto(p, "flushWrite")
    /\ UNCHANGED <<cacheVars, treeVars, lockVars, key, got, flushed, ret>>

FlushSaveFails(p) ==
    /\ pc[p] = "flushSave"
    /\ "save" \in Faults
    /\ FlushFails(p)

\* ClearDirtyFlag for one key, if the cache still holds it.
FlushClear(p) ==
    /\ pc[p] = "flushClear"
    /\ flushed[p] # {}
    /\ LET k == Least(flushed[p]) IN
         /\ cache' = IF cache[k] # Absent THEN [cache EXCEPT ![k].dirty = FALSE] ELSE cache
         /\ flushed' = [flushed EXCEPT ![p] = @ \ {k}]
    /\ UNCHANGED <<lru, treeVars, lockVars, pc, key, got, batch, ret>>

FlushReturn(p) ==
    /\ pc[p] = "flushClear"
    /\ flushed[p] = {}
    /\ Answer(p, "flush", Nil, Nil)
    /\ Return(p)
    /\ mu' = Nil
    /\ UNCHANGED <<cacheVars, treeVars, closed>>

-----------------------------------------------------------------------------
(* Close, and a crash *)

\* Fault: Close does not take s.mu.
BeginCloseUnlocked(p) ==
    /\ "close" \in Ops[p]
    /\ pc[p] = "idle"
    /\ ~closed
    /\ closed' = TRUE
    /\ cache' = NoItems
    /\ lru' = <<>>
    /\ Goto(p, "closeBacking")
    /\ UNCHANGED <<mu, treeVars, callVars, ret>>

BeginClose(p) ==
    /\ "close" \in Ops[p]
    /\ pc[p] = "idle"
    /\ mu = Nil
    /\ ~closed
    /\ closed' = TRUE
    /\ cache' = NoItems
    /\ lru' = <<>>
    /\ mu' = p
    /\ Goto(p, "closeBacking")
    /\ UNCHANGED <<treeVars, callVars, ret>>

CloseBacking(p) ==
    /\ pc[p] = "closeBacking"
    /\ treeClosed' = TRUE
    /\ Answer(p, "close", Nil, Nil)
    /\ Return(p)
    /\ mu' = Nil
    /\ UNCHANGED <<cacheVars, tree, disk, closed>>

\* The process dies, or is started again after a Close: NewIAVLStore loads the
\* latest saved version and NewCachedObjectStore starts with an empty cache.
Restart ==
    /\ cache' = NoItems
    /\ lru' = <<>>
    /\ tree' = disk
    /\ closed' = FALSE
    /\ treeClosed' = FALSE
    /\ mu' = Nil
    /\ pc' = [p \in Procs |-> "idle"]
    /\ key' = [p \in Procs |-> Nil]
    /\ got' = [p \in Procs |-> Nil]
    /\ batch' = [p \in Procs |-> NoItems]
    /\ flushed' = [p \in Procs |-> {}]
    /\ UNCHANGED <<disk, ret>>

-----------------------------------------------------------------------------
Begin(p) ==
    \/ BeginGet(p) \/ BeginHas(p) \/ BeginScan(p)
    \/ BeginSet(p) \/ BeginDelete(p) \/ BeginSetBatch(p) \/ BeginDeleteBatch(p)
    \/ BeginFlush(p) \/ BeginClose(p)

Step(p) ==
    \/ GetCache(p) \/ GetBacking(p) \/ GetFill(p)
    \/ HasCache(p) \/ HasBacking(p) \/ Scan(p)
    \/ WriteItem(p)
    \/ FlushWrite(p) \/ FlushWriteFails(p) \/ FlushSave(p) \/ FlushSaveFails(p)
    \/ FlushClear(p) \/ FlushReturn(p)
    \/ CloseBacking(p)

Next == (\E p \in Procs : Begin(p) \/ Step(p)) \/ Restart

Spec == Init /\ [][Next]_vars

\* A goroutine inside a call keeps running: nothing in these calls blocks.
FairSpec == Spec /\ \A p \in Procs : WF_vars(Step(p))

-----------------------------------------------------------------------------
(* Properties *)

Labels == {"idle", "getCache", "getBacking", "getFill", "hasCache", "hasBacking",
           "scan", "write", "flushWrite", "flushSave", "flushClear", "closeBacking"}

LookupLabels == {"getCache", "getBacking", "getFill", "hasCache", "hasBacking", "scan"}

ReplyOps == {"none", "get", "has", "scan", "write", "flush", "close", "closed", "failed"}

\* Every variable holds a value of its Go type; in particular a goroutine that
\* looks a key up has a key, and a flush that writes has something to write.
TypeOK ==
    /\ cache \in [Keys -> Entries \cup {Absent}]
    /\ lru \in Seq(Keys)
    /\ tree \in [Keys -> Objects]
    /\ disk \in [Keys -> Objects]
    /\ closed \in BOOLEAN
    /\ treeClosed \in BOOLEAN
    /\ mu \in Procs \cup {Nil}
    /\ pc \in [Procs -> Labels]
    /\ key \in [Procs -> Keys \cup {Nil}]
    /\ got \in [Procs -> Objects]
    /\ batch \in [Procs -> Items]
    /\ flushed \in [Procs -> SUBSET Keys]
    /\ ret \in [proc : Procs \cup {Nil}, op : ReplyOps, key : Keys \cup {Nil},
                val : Objects \cup BOOLEAN]
    /\ \A p \in Procs : pc[p] \in LookupLabels => key[p] \in Keys
    /\ \A p \in Procs : pc[p] = "flushWrite" => Present(batch[p]) # {}

\* The LRU list names every cached key exactly once and the cache never holds
\* more than Capacity entries, whatever goroutines do between two of its
\* operations (Cache.Set, Cache.Get, evictLRU).
LruListsCache ==
    /\ \A i, j \in 1 .. Len(lru) : lru[i] = lru[j] => i = j
    /\ \A k \in Keys : cache[k] # Absent <=> \E i \in 1 .. Len(lru) : lru[i] = k
    /\ Len(lru) <= Capacity

FlushLabels == {"flushWrite", "flushSave", "flushClear"}

\* s.mu makes Flush and Close exclusive: a goroutine inside either one holds the
\* lock, so no tree is closed under a flush and no two flushes mix their writes.
FlushExcludesClose ==
    /\ \A p \in Procs : pc[p] \in FlushLabels \cup {"closeBacking"} <=> mu = p
    /\ \A p \in Procs : pc[p] \in FlushLabels => ~closed /\ ~treeClosed

\* A key without a dirty entry has the same object in the cache, in the working
\* tree and on disk: a failed Flush leaves no half-written key that looks clean.
CleanIsSaved ==
    ~closed => \A k \in Keys : ~Dirty(k) => View(k) = tree[k] /\ tree[k] = disk[k]

\* A dirty entry stays dirty until the object it holds is on disk, so that a
\* later Flush still writes it; only Close and a crash give it up.  Eviction,
\* a cache fill, a second flush or an error may not.
DirtyUntilSaved ==
    [][\A k \in Keys : Dirty(k) /\ ~Dirty(k)' =>
          \/ disk'[k] = cache[k].value
          \/ closed'
          \/ Restart]_vars

\* Every call returns, on its error paths too.
CallsReturn == \A p \in Procs : pc[p] # "idle" ~> pc[p] = "idle"

\* Keys that a caller must still see as unflushed: the dirty ones, except those
\* whose flag a flush that has saved its version is about to clear.
Pending ==
    {k \in DirtyKeys : \A p \in Procs : pc[p] = "flushClear" => k \notin flushed[p]}

StoreView == IF closed THEN disk ELSE [k \in Keys |-> View(k)]

StorePending == IF closed THEN {} ELSE Pending

Store == INSTANCE ObjectStore WITH
    view <- StoreView, pending <- StorePending, open <- ~closed

\* The cached store implements ObjectStore: reads answer with the last write,
\* Flush makes everything durable at once, and a crash loses exactly what was
\* not flushed.
ImplementsObjectStore == Store!Spec

-----------------------------------------------------------------------------
(* The conditions under which the cached store keeps its promises *)

ReadOnlyOps == {"has", "scan"}

ReadOnlyLabels == {"idle", "hasCache", "hasBacking", "scan"}

\* At most one goroutine calls anything but Has and the iterators.
OneWriter ==
    \A p, q \in Procs : p = q \/ Ops[p] \subseteq ReadOnlyOps \/ Ops[q] \subseteq ReadOnlyOps

\* The cache can hold every key at once, so nothing is ever evicted.
Ample == Cardinality(Keys) <= Capacity

\* A Get that missed is about to fill in what the tree still holds.
FillIsFresh ==
    \A p \in Procs : pc[p] \in {"getBacking", "getFill"} =>
        /\ cache[key[p]] = Absent
        /\ pc[p] = "getFill" => got[p] = tree[key[p]] /\ got[p] # Nil

\* A flush that is writing has every dirty object either in its batch or in the
\* tree, and remembers the keys it wrote.
FlushCoversDirty ==
    \A p \in Procs : pc[p] \in {"flushWrite", "flushSave"} =>
        /\ \A k \in Keys :
             /\ Dirty(k) <=> batch[p][k] # Absent \/ k \in flushed[p]
             /\ batch[p][k] # Absent => batch[p][k] = cache[k].value
             /\ k \in flushed[p] /\ batch[p][k] = Absent => tree[k] = cache[k].value
        /\ pc[p] = "flushSave" => Present(batch[p]) = {}

\* A flush that has saved clears the flags of objects that are on disk.
ClearedIsSaved ==
    \A p \in Procs : pc[p] = "flushClear" =>
        /\ tree = disk
        /\ \A k \in Keys : Dirty(k) <=> k \in flushed[p]
        /\ \A k \in flushed[p] : tree[k] = cache[k].value

\* Under OneWriter and Ample, what the writer has read, snapshotted or saved is
\* still true when it acts on it: the inductive invariant of the proofs.
WriterInv ==
    /\ CleanIsSaved
    /\ FillIsFresh
    /\ FlushCoversDirty
    /\ ClearedIsSaved
    /\ \A p \in Procs : Ops[p] \subseteq ReadOnlyOps => pc[p] \in ReadOnlyLabels
    /\ \A p \in Procs : pc[p] \notin FlushLabels => flushed[p] = {}
    /\ \A p \in Procs : pc[p] \notin ReadOnlyLabels \cup {"closeBacking"} => ~closed

=============================================================================
