--------------------------- MODULE CachingKeyStore ---------------------------
(***************************************************************************)
(* CachingKeyStore (crypto/caching_keystore.go) over one of the backends   *)
(* of KeyBackends, called by several goroutines.  c.mu guards the cache    *)
(* and `closed`; the backend is called without it, so a call is a locked   *)
(* section, a backend operation and another locked section, and other      *)
(* calls run in between.  The process may crash; what the backend keeps    *)
(* outside the process is there at the next start.  The hit and miss       *)
(* counters are left out.                                                  *)
(***************************************************************************)
EXTENDS KeyBackends, Naturals, Sequences

CONSTANTS
    Procs,      \* goroutines
    OpsChoices, \* who calls which operation: a set of functions from Procs
    Capacity,   \* c.capacity
    Starts      \* the kinds of backend

OpKinds == {"load", "store", "delete", "list", "close", "invalidate", "repair", "crash"}

ASSUME CapacityAssumption == Capacity \in Nat \ {0}
ASSUME StartsAssumption == Starts \subseteq Kinds
ASSUME OpsAssumption == OpsChoices \subseteq [Procs -> SUBSET OpKinds]

VARIABLES
    backend,    \* the state of the backend
    cache,      \* c.cache: the key under each name, or None
    lru,        \* c.lru: most recently used first
    closed,     \* c.closed
    ops,        \* who calls which operation; fixed
    pc,         \* where each goroutine is
    name,       \* the name its call is about
    key,        \* the key it stores or has loaded
    elem,       \* the list element a cache hit has found, while it is in the list
    torn        \* a crash may have left an entry without its index; no repair since

cacheVars == <<cache, lru, elem>>
callVars == <<pc, name, key>>
fixed == <<ops, torn>>
vars == <<backend, cacheVars, closed, fixed, callVars>>

Labels == {"idle", "promote", "load", "fill", "store", "storeFill", "delete", "list"}

Cached == {n \in Names : cache[n] # None}

Init ==
    /\ backend \in {[kind |-> t, entries |-> e, index |-> IF t = "keychain" THEN {n \in Names : e[n] # None} ELSE {},
                     closed |-> FALSE] : t \in Starts, e \in [Names -> Keys \cup {None}]}
    /\ cache = [n \in Names |-> None]
    /\ lru = <<>>
    /\ closed = FALSE
    /\ ops \in OpsChoices
    /\ pc = [p \in Procs |-> "idle"]
    /\ name = [p \in Procs |-> None]
    /\ key = [p \in Procs |-> None]
    /\ elem = [p \in Procs |-> None]
    /\ torn = FALSE

\* p begins a call, with the name and the key it is about.
Enter(p, op, label, n, k) ==
    /\ op \in ops[p]
    /\ pc[p] = "idle"
    /\ ~closed
    /\ pc' = [pc EXCEPT ![p] = label]
    /\ name' = [name EXCEPT ![p] = n]
    /\ key' = [key EXCEPT ![p] = k]

Goto(p, label) == pc' = [pc EXCEPT ![p] = label]

Return(p) ==
    /\ Goto(p, "idle")
    /\ name' = [name EXCEPT ![p] = None]
    /\ key' = [key EXCEPT ![p] = None]

\* After Close every operation answers ErrKeyStoreClosed.
Refuse(p) ==
    /\ closed
    /\ pc[p] = "idle"
    /\ UNCHANGED vars

-----------------------------------------------------------------------------
(* The cache; each of these runs with c.mu held for writing *)

\* lru without the element of n
Without(n) ==
    IF \E i \in 1 .. Len(lru) : lru[i] = n
    THEN LET i == CHOOSE i \in 1 .. Len(lru) : lru[i] = n
         IN  [j \in 1 .. Len(lru) - 1 |-> IF j < i THEN lru[j] ELSE lru[j + 1]]
    ELSE lru

ToFront(n) == <<n>> \o Without(n)

\* The element of n is gone: MoveToFront on it does nothing from now on.
Forget(S) == elem' = [p \in Procs |-> IF elem[p] \in S THEN None ELSE elem[p]]

\* addToCache: a name that is cached gets the new key.
AddToCache(n, k) ==
    \/ /\ cache[n] # None
       /\ cache' = [cache EXCEPT ![n] = k]
       /\ lru' = ToFront(n)
       /\ UNCHANGED elem
    \/ /\ cache[n] = None
       /\ Cardinality(Cached) < Capacity
       /\ cache' = [cache EXCEPT ![n] = k]
       /\ lru' = <<n>> \o lru
       /\ UNCHANGED elem
    \/ /\ cache[n] = None
       /\ Cardinality(Cached) >= Capacity
       /\ LET victim == lru[Len(lru)]
          IN  /\ cache' = [cache EXCEPT ![n] = k, ![victim] = None]
              /\ lru' = <<n>> \o SubSeq(lru, 1, Len(lru) - 1)
              /\ Forget({victim})

\* removeFromCache
RemoveFromCache(n) ==
    /\ cache' = [cache EXCEPT ![n] = None]
    /\ lru' = Without(n)
    /\ Forget({n})

ClearCache ==
    /\ cache' = [n \in Names |-> None]
    /\ lru' = <<>>
    /\ Forget(Names)

-----------------------------------------------------------------------------
(* Load *)

LoadHit(p, n) ==
    /\ Enter(p, "load", "promote", n, None)
    /\ cache[n] # None
    /\ elem' = [elem EXCEPT ![p] = n]
    /\ UNCHANGED <<backend, cache, lru, closed, fixed>>

\* The key was copied under the read lock; the element is moved under the write
\* lock, if it is still in the list and the store is open.
PromoteElem(p) ==
    /\ pc[p] = "promote"
    /\ lru' = IF closed \/ elem[p] = None THEN lru ELSE ToFront(elem[p])
    /\ elem' = [elem EXCEPT ![p] = None]
    /\ Return(p)
    /\ UNCHANGED <<backend, cache, closed, fixed>>

LoadMiss(p, n) ==
    /\ Enter(p, "load", "load", n, None)
    /\ cache[n] = None
    /\ UNCHANGED <<backend, cacheVars, closed, fixed>>

BackendLoad(p) ==
    /\ pc[p] = "load"
    /\ \E r \in Load(backend, name[p]) :
         IF r \in Errors THEN Return(p)
         ELSE /\ key' = [key EXCEPT ![p] = r]
              /\ Goto(p, "fill")
              /\ UNCHANGED name
    /\ UNCHANGED <<backend, cacheVars, closed, fixed>>

\* Fault: `closed` is not looked at again before the cache is filled.
FillUnchecked(p) ==
    /\ pc[p] \in {"fill", "storeFill"}
    /\ AddToCache(name[p], key[p])
    /\ Return(p)
    /\ UNCHANGED <<backend, closed, fixed>>

\* The second locked section of Load and of Store.
Fill(p) ==
    /\ pc[p] \in {"fill", "storeFill"}
    /\ \/ closed /\ UNCHANGED cacheVars
       \/ ~closed /\ AddToCache(name[p], key[p])
    /\ Return(p)
    /\ UNCHANGED <<backend, closed, fixed>>

-----------------------------------------------------------------------------
(* Store, Delete, List *)

BeginStore(p, n, k) ==
    /\ Enter(p, "store", "store", n, k)
    /\ UNCHANGED <<backend, cacheVars, closed, fixed>>

BackendStore(p) ==
    /\ pc[p] = "store"
    /\ \E o \in Store(backend, name[p], key[p]) :
         /\ backend' = o.after
         /\ IF o.err # None THEN Return(p)
            ELSE Goto(p, "storeFill") /\ UNCHANGED <<name, key>>
    /\ UNCHANGED <<cacheVars, closed, fixed>>

\* Fault: Delete leaves the cached key alone.
BeginDeleteKeepsCache(p, n) ==
    /\ Enter(p, "delete", "delete", n, None)
    /\ UNCHANGED <<backend, cacheVars, closed, fixed>>

BeginDelete(p, n) ==
    /\ Enter(p, "delete", "delete", n, None)
    /\ RemoveFromCache(n)
    /\ UNCHANGED <<backend, closed, fixed>>

BackendDelete(p) ==
    /\ pc[p] = "delete"
    /\ \E o \in Delete(backend, name[p]) : backend' = o.after
    /\ Return(p)
    /\ UNCHANGED <<cacheVars, closed, fixed>>

BeginList(p) ==
    /\ Enter(p, "list", "list", None, None)
    /\ UNCHANGED <<backend, cacheVars, closed, fixed>>

\* The answer is List(backend), or an error.
BackendList(p) ==
    /\ pc[p] = "list"
    /\ Return(p)
    /\ UNCHANGED <<backend, cacheVars, closed, fixed>>

-----------------------------------------------------------------------------
(* Close, Invalidate, InvalidateAll, RepairIndex, crash *)

\* Close drops the cache and closes the backend, which wipes a memory store.
Close(p) ==
    /\ "close" \in ops[p]
    /\ pc[p] = "idle"
    /\ ~closed
    /\ closed' = TRUE
    /\ ClearCache
    /\ backend' = [Crashed(backend) EXCEPT !.closed = TRUE]
    /\ UNCHANGED <<fixed, callVars>>

\* Neither looks at `closed`.
Invalidate(p) ==
    /\ "invalidate" \in ops[p]
    /\ pc[p] = "idle"
    /\ ClearCache \/ \E n \in Names : RemoveFromCache(n)
    /\ UNCHANGED <<backend, closed, fixed, callVars>>

\* An operator repairs the index of the keychain.
Repair(p) ==
    /\ "repair" \in ops[p]
    /\ pc[p] = "idle"
    /\ backend.kind = "keychain"
    /\ ~backend.closed
    /\ \E o \in RepairIndex(backend, Names) :
         /\ backend' = o.after
         /\ torn' = (torn /\ (o.err # None \/ "probe" \in Faults))
    /\ UNCHANGED <<cacheVars, closed, ops, callVars>>

Crash(p) ==
    /\ "crash" \in ops[p]
    /\ backend' \in {[Crashed(b) EXCEPT !.closed = FALSE] :
                        b \in {backend} \cup (IF pc[p] = "store" THEN TornStores(backend, name[p], key[p]) ELSE {})
                                        \cup (IF pc[p] = "delete" THEN TornDeletes(backend, name[p]) ELSE {})}
    /\ ClearCache
    /\ closed' = FALSE
    /\ pc' = [q \in Procs |-> "idle"]
    /\ name' = [q \in Procs |-> None]
    /\ key' = [q \in Procs |-> None]
    /\ torn' = TRUE
    /\ UNCHANGED ops

-----------------------------------------------------------------------------
Step(p) ==
    \/ PromoteElem(p) \/ BackendLoad(p) \/ Fill(p) \/ BackendStore(p)
    \/ BackendDelete(p) \/ BackendList(p)

Call(p) ==
    \/ Refuse(p) \/ BeginList(p) \/ Close(p) \/ Invalidate(p) \/ Repair(p) \/ Crash(p)
    \/ \E n \in Names :
         \/ LoadHit(p, n) \/ LoadMiss(p, n) \/ BeginDelete(p, n)
         \/ \E k \in Keys : BeginStore(p, n, k)

Next == \E p \in Procs : Step(p) \/ Call(p)

Spec == Init /\ [][Next]_vars

-----------------------------------------------------------------------------
(* Properties *)

TypeOK ==
    /\ backend \in Backends
    /\ cache \in [Names -> Keys \cup {None}]
    /\ lru \in Seq(Names)
    /\ closed \in BOOLEAN
    /\ ops \in OpsChoices
    /\ pc \in [Procs -> Labels]
    /\ name \in [Procs -> Names \cup {None}]
    /\ key \in [Procs -> Keys \cup {None}]
    /\ elem \in [Procs -> Names \cup {None}]
    /\ torn \in BOOLEAN

\* The types hold, and the LRU list holds the cached names, each once and at most
\* c.capacity of them, although a hit moves an element it found under another
\* lock; and nothing is cached after Close, because a Load or a Store that Close
\* overtook in the backend looks at `closed` again before it fills the cache.
LruListsCache ==
    /\ TypeOK
    /\ Cached = {lru[i] : i \in 1 .. Len(lru)}
    /\ Cardinality(Cached) = Len(lru)
    /\ Len(lru) <= Capacity
    /\ closed => Cached = {}

\* No backend exchanges the key under a name for another one: Store refuses a
\* name that is taken, also one whose file was left half written by a crash.
NeverReplaced ==
    [][\A n \in Names : backend.entries[n] # None /\ backend'.entries[n] # None =>
          backend'.entries[n] = backend.entries[n]]_vars

\* While one goroutine at a time calls Load, Store and Delete, a cached key is
\* the key of the backend.
FreshForOneCaller ==
    (\E p \in Procs : \A q \in Procs \ {p} : ops[q] \cap {"load", "store", "delete"} = {}) =>
        \A n \in Cached : cache[n] = backend.entries[n]

\* The keychain index lists every key the keychain holds: Store undoes the
\* entry that it cannot list, and what a crash between the two leaves behind is
\* listed again by the next RepairIndex that is given its name.
KeysListed ==
    backend.kind = "keychain" /\ ~torn /\ "rollback" \notin Faults =>
        Entered(backend) \subseteq backend.index
=============================================================================
