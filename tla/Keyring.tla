------------------------------- MODULE Keyring -------------------------------
(***************************************************************************)
(* defaultKeyring (crypto/keyring.go): named signing keys in a             *)
(* SimpleKeyStore (crypto/memstore.go), with a cache of signers.           *)
(*                                                                         *)
(* Goroutines call the keyring concurrently.  kr.mu guards the cache and   *)
(* `closed`; the store locks itself and is used outside kr.mu, so between  *)
(* a look at the cache and the store operation that follows other calls    *)
(* run.  Sign holds the read lock and Close the write lock to the end.     *)
(* One action is one locked section or one store operation.                *)
(*                                                                         *)
(* A private key is a value; a signer is an object that holds one and can  *)
(* be zeroized.  A key generated or imported here is named by the number   *)
(* of the signer it came with.                                             *)
(***************************************************************************)
EXTENDS Naturals, FiniteSets, Sequences

CONSTANTS
    Names,          \* valid key names
    Procs,          \* goroutines
    CacheSizes,     \* the values of kr.maxCacheSize; 0 for every one that disables the cache
    MaxSigners,     \* bound on the signers created in a behaviour
    Faults,         \* store operations that may return an error
    Old,            \* a key that was in the store before
    Sealed,         \* an encrypted entry that was in the store before
    None            \* no key, no signer, no lock holder

FaultKinds == {"has", "get", "put", "delete", "list", "close"}

Keys == Nat \cup {Old, Sealed}

Errors == {"exists", "notFound", "invalidKey", "invalidPassword", "closed", "io"}

Signers == [key : Keys, zero : BOOLEAN]

ASSUME CacheSizesAssumption == CacheSizes \subseteq Nat
ASSUME SignersAssumption == MaxSigners \in Nat
ASSUME FaultsAssumption == Faults \subseteq FaultKinds
ASSUME NoneAssumption ==
    None \notin Keys \cup Names \cup Procs /\ Old # Sealed /\ {Old, Sealed} \cap Nat = {}

VARIABLES
    store,      \* MemoryStore.keys: the key under each name, or None
    cache,      \* kr.cache: the signer cached under each name, or None
    order,      \* kr.cacheOrder: oldest first
    maxCacheSize, \* kr.maxCacheSize; fixed
    signers,    \* every signer created
    closed,     \* kr.closed
    writer,     \* the goroutine that holds kr.mu for writing, or None
    pc,         \* where each goroutine is
    name,       \* the name its call is about
    sig,        \* the signer its call works with
    todo,       \* Close: the names still to delete
    closeErr,   \* Close has an error to report
    disturbed   \* another call was in progress when Close took the lock, or a Get failed

storeVars == <<store>>
cacheVars == <<cache, order, signers>>
callVars  == <<name, sig>>
closeVars == <<closed, writer, todo, closeErr, disturbed>>
vars == <<storeVars, cacheVars, callVars, closeVars, pc, maxCacheSize>>

Labels == {"idle", "has", "put", "load", "fill", "read", "delete", "signLoad", "signing",
           "closeList", "closeNext", "closeDelete"}

Cached == {n \in Names : cache[n] # None}

Stored == {n \in Names : store[n] # None}

Readers == {p \in Procs : pc[p] \in {"signLoad", "signing"}}

\* kr.mu can be taken for reading, for writing.
CanRLock == writer = None
CanLock == writer = None /\ Readers = {}

\* Bound: a call that may need a signer starts only while one is left for it.
SignersLeft ==
    Len(signers) + Cardinality({p \in Procs : pc[p] \in {"has", "load"}}) < MaxSigners

Goto(p, label) == pc' = [pc EXCEPT ![p] = label]

\* The call of p returns; its locals are gone.
Return(p) ==
    /\ Goto(p, "idle")
    /\ name' = [name EXCEPT ![p] = None]
    /\ sig' = [sig EXCEPT ![p] = None]

\* It returns an error; which one only the caller sees.
Fail(p, err) == err \in Errors /\ Return(p)

NewSigner(p, k) ==
    /\ signers' = Append(signers, [key |-> k, zero |-> FALSE])
    /\ sig' = [sig EXCEPT ![p] = Len(signers) + 1]

\* zeroizeSigner on the signers numbered in S
Zeroized(S) ==
    [i \in 1 .. Len(signers) |-> IF i \in S THEN [signers[i] EXCEPT !.zero = TRUE] ELSE signers[i]]

\* order without n
Without(n) ==
    IF \E i \in 1 .. Len(order) : order[i] = n
    THEN LET i == CHOOSE i \in 1 .. Len(order) : order[i] = n
         IN  [j \in 1 .. Len(order) - 1 |-> IF j < i THEN order[j] ELSE order[j + 1]]
    ELSE order

Init ==
    /\ store \in [Names -> {None, Old, Sealed}]
    /\ cache = [n \in Names |-> None]
    /\ order = <<>>
    /\ maxCacheSize \in CacheSizes
    /\ signers = <<>>
    /\ closed = FALSE
    /\ writer = None
    /\ pc = [p \in Procs |-> "idle"]
    /\ name = [p \in Procs |-> None]
    /\ sig = [p \in Procs |-> None]
    /\ todo = {}
    /\ closeErr = FALSE
    /\ disturbed = FALSE

\* A call takes the read lock, looks at `closed` and gives the lock back.
Enter(p, n, label) ==
    /\ pc[p] = "idle"
    /\ CanRLock
    /\ ~closed
    /\ Goto(p, label)
    /\ name' = [name EXCEPT ![p] = n]

\* Every method of a closed keyring, the second Close included, changes nothing.
Refuse(p) ==
    /\ pc[p] = "idle"
    /\ CanRLock
    /\ closed
    /\ UNCHANGED <<storeVars, cacheVars, callVars, closeVars, pc, maxCacheSize>>

-----------------------------------------------------------------------------
(* NewKey and ImportKey: Has, generate or parse (imported bytes may be no     *)
(* key), Put, fill the cache                                                  *)

BeginNewKey(p, n) ==
    /\ SignersLeft
    /\ Enter(p, n, "has")
    /\ UNCHANGED <<storeVars, cacheVars, sig, closeVars, maxCacheSize>>

HasKey(p) ==
    /\ pc[p] = "has"
    /\ \/ "has" \in Faults /\ Fail(p, "io") /\ UNCHANGED signers
       \/ store[name[p]] # None /\ Fail(p, "exists") /\ UNCHANGED signers
       \/ store[name[p]] = None /\ Fail(p, "invalidKey") /\ UNCHANGED signers
       \/ /\ store[name[p]] = None
          /\ NewSigner(p, Len(signers) + 1)
          /\ Goto(p, "put")
          /\ UNCHANGED name
    /\ UNCHANGED <<storeVars, cache, order, closeVars, maxCacheSize>>

\* Fault: Put with overwrite set.
PutKeyOverwriting(p) ==
    /\ pc[p] = "put"
    /\ store' = [store EXCEPT ![name[p]] = signers[sig[p]].key]
    /\ Goto(p, "fill")
    /\ UNCHANGED <<cacheVars, callVars, closeVars, maxCacheSize>>

\* store.Put(entry, false)
PutKey(p) ==
    /\ pc[p] = "put"
    /\ \/ /\ "put" \in Faults
          /\ Fail(p, "io")
          /\ UNCHANGED store
       \/ /\ store[name[p]] # None
          /\ Fail(p, "exists")
          /\ UNCHANGED store
       \/ /\ store[name[p]] = None
          /\ store' = [store EXCEPT ![name[p]] = signers[sig[p]].key]
          /\ Goto(p, "fill")
          /\ UNCHANGED callVars
    /\ UNCHANGED <<cacheVars, closeVars, maxCacheSize>>

-----------------------------------------------------------------------------
(* The cache of signers *)

\* moveToFront
Promote(n) ==
    /\ order' = Append(Without(n), n)
    /\ UNCHANGED <<cache, signers, maxCacheSize>>

\* How many of the oldest names the eviction loop takes off.
Evictions ==
    IF Cardinality(Cached) < maxCacheSize THEN 0
    ELSE LET over == Cardinality(Cached) + 1 - maxCacheSize
         IN  IF over <= Len(order) THEN over ELSE Len(order)

Insert(n, s) ==
    LET out == {order[i] : i \in 1 .. Evictions}
    IN  /\ signers' = Zeroized({cache[m] : m \in out})
        /\ cache' = [m \in Names |-> IF m = n THEN s ELSE IF m \in out THEN None ELSE cache[m]]
        /\ order' = Append(SubSeq(order, Evictions + 1, Len(order)), n)

\* addToCache, which does not look at `closed`; the call then returns its signer.
AddToCache(p) ==
    /\ pc[p] = "fill"
    /\ \/ /\ maxCacheSize = 0
          /\ UNCHANGED cacheVars
       \/ /\ maxCacheSize > 0
          /\ CanLock
          /\ cache[name[p]] # None
          /\ Promote(name[p])
       \/ /\ maxCacheSize > 0
          /\ CanLock
          /\ cache[name[p]] = None
          /\ Insert(name[p], sig[p])
    /\ Return(p)
    /\ UNCHANGED <<storeVars, closeVars, maxCacheSize>>

-----------------------------------------------------------------------------
(* GetKey, ExportKey, ListKeys *)

\* GetKey finds the signer in the cache and hands out the cached object itself.
GetCached(p, n) ==
    /\ pc[p] = "idle"
    /\ CanRLock
    /\ ~closed
    /\ cache[n] # None
    /\ UNCHANGED <<storeVars, cacheVars, callVars, closeVars, pc, maxCacheSize>>

BeginGet(p, n) ==
    /\ SignersLeft
    /\ Enter(p, n, "load")
    /\ cache[n] = None
    /\ UNCHANGED <<storeVars, cacheVars, sig, closeVars, maxCacheSize>>

\* store.Get and the signer made of the entry; an encrypted entry is no key.
LoadKey(p) ==
    /\ pc[p] = "load"
    /\ \/ "get" \in Faults /\ Fail(p, "io") /\ UNCHANGED signers
       \/ store[name[p]] = None /\ Fail(p, "notFound") /\ UNCHANGED signers
       \/ store[name[p]] = Sealed /\ Fail(p, "invalidKey") /\ UNCHANGED signers
       \/ /\ store[name[p]] \notin {None, Sealed}
          /\ NewSigner(p, store[name[p]])
          /\ Goto(p, "fill")
          /\ UNCHANGED name
    /\ UNCHANGED <<storeVars, cache, order, closeVars, maxCacheSize>>

BeginRead(p, n) ==
    /\ Enter(p, n, "read")
    /\ UNCHANGED <<storeVars, cacheVars, sig, closeVars, maxCacheSize>>

\* ExportKey: an encrypted entry needs its password.
ExportKey(p) ==
    /\ pc[p] = "read"
    /\ \/ "get" \in Faults /\ Fail(p, "io")
       \/ store[name[p]] = None /\ Fail(p, "notFound")
       \/ store[name[p]] = Sealed /\ Fail(p, "invalidPassword")
       \/ store[name[p]] # None /\ Return(p)
    /\ UNCHANGED <<storeVars, cacheVars, closeVars, maxCacheSize>>

\* ListKeys: the names are read from the store alone.
ListKeys(p) ==
    /\ pc[p] = "read"
    /\ \/ "list" \in Faults /\ Fail(p, "io")
       \/ Return(p)
    /\ UNCHANGED <<storeVars, cacheVars, closeVars, maxCacheSize>>

-----------------------------------------------------------------------------
(* DeleteKey: the cache first, the store after the lock is given back *)

\* Fault: the name stays in cacheOrder.
UncacheKeepsOrder(p, n) ==
    /\ pc[p] = "idle"
    /\ CanLock
    /\ ~closed
    /\ signers' = Zeroized({cache[n]})
    /\ cache' = [cache EXCEPT ![n] = None]
    /\ name' = [name EXCEPT ![p] = n]
    /\ Goto(p, "delete")
    /\ UNCHANGED <<storeVars, order, sig, closeVars, maxCacheSize>>

\* Fault: DeleteKey takes the lock for reading only.
UncacheUnderRLock(p, n) ==
    /\ pc[p] = "idle"
    /\ CanRLock
    /\ ~closed
    /\ signers' = Zeroized({cache[n]})
    /\ cache' = [cache EXCEPT ![n] = None]
    /\ order' = Without(n)
    /\ name' = [name EXCEPT ![p] = n]
    /\ Goto(p, "delete")
    /\ UNCHANGED <<storeVars, sig, closeVars, maxCacheSize>>

Uncache(p, n) ==
    /\ pc[p] = "idle"
    /\ CanLock
    /\ ~closed
    /\ signers' = Zeroized({cache[n]})
    /\ cache' = [cache EXCEPT ![n] = None]
    /\ order' = Without(n)
    /\ name' = [name EXCEPT ![p] = n]
    /\ Goto(p, "delete")
    /\ UNCHANGED <<storeVars, sig, closeVars, maxCacheSize>>

DeleteKey(p) ==
    /\ pc[p] = "delete"
    /\ \/ /\ "delete" \in Faults
          /\ Fail(p, "io")
          /\ UNCHANGED store
       \/ /\ store[name[p]] = None
          /\ Fail(p, "notFound")
          /\ UNCHANGED store
       \/ /\ store[name[p]] # None
          /\ store' = [store EXCEPT ![name[p]] = None]
          /\ Return(p)
    /\ UNCHANGED <<cacheVars, closeVars, maxCacheSize>>

-----------------------------------------------------------------------------
(* Sign: the read lock is held until the signature is made *)

BeginSign(p, n) ==
    /\ Enter(p, n, IF cache[n] # None THEN "signing" ELSE "signLoad")
    /\ sig' = [sig EXCEPT ![p] = cache[n]]
    /\ UNCHANGED <<storeVars, cacheVars, closeVars, maxCacheSize>>

SignCached(p) ==
    /\ pc[p] = "signing"
    /\ Return(p)
    /\ UNCHANGED <<storeVars, cacheVars, closeVars, maxCacheSize>>

\* Not cached: a signer of its own, zeroized before the call returns.
SignLoaded(p) ==
    /\ pc[p] = "signLoad"
    /\ \/ "get" \in Faults /\ Fail(p, "io")
       \/ store[name[p]] = None /\ Fail(p, "notFound")
       \/ store[name[p]] = Sealed /\ Fail(p, "invalidKey")
       \/ store[name[p]] \notin {None, Sealed} /\ Return(p)
    /\ UNCHANGED <<storeVars, cacheVars, closeVars, maxCacheSize>>

-----------------------------------------------------------------------------
(* Close: cache, then every key of the store, under the write lock *)

CloseCache(p) ==
    /\ pc[p] = "idle"
    /\ CanLock
    /\ ~closed
    /\ closed' = TRUE
    /\ writer' = p
    /\ signers' = Zeroized({cache[n] : n \in Cached})
    /\ cache' = [n \in Names |-> None]
    /\ order' = <<>>
    /\ disturbed' = (\E q \in Procs : pc[q] # "idle")
    /\ Goto(p, "closeList")
    /\ UNCHANGED <<storeVars, callVars, todo, closeErr, maxCacheSize>>

CloseList(p) ==
    /\ pc[p] = "closeList"
    /\ \/ /\ "list" \in Faults
          /\ closeErr' = TRUE
          /\ UNCHANGED todo
       \/ /\ todo' = Stored
          /\ UNCHANGED closeErr
    /\ Goto(p, "closeNext")
    /\ UNCHANGED <<storeVars, cacheVars, callVars, closed, writer, disturbed, maxCacheSize>>

\* Fault: a name that is skipped is not taken off the list.
CloseGetAgain(p) ==
    /\ pc[p] = "closeNext"
    /\ \E n \in todo :
         /\ name' = [name EXCEPT ![p] = n]
         /\ \/ store[n] = None /\ UNCHANGED <<todo, pc>>
            \/ store[n] # None /\ todo' = todo \ {n} /\ Goto(p, "closeDelete")
    /\ UNCHANGED <<storeVars, cacheVars, sig, closed, writer, closeErr, disturbed, maxCacheSize>>

\* store.Get of one listed name; an error only skips it.
CloseGet(p) ==
    /\ pc[p] = "closeNext"
    /\ \E n \in todo :
         /\ todo' = todo \ {n}
         /\ name' = [name EXCEPT ![p] = n]
         /\ \/ store[n] = None /\ UNCHANGED <<pc, disturbed>>
            \/ "get" \in Faults /\ disturbed' = TRUE /\ UNCHANGED pc
            \/ store[n] # None /\ Goto(p, "closeDelete") /\ UNCHANGED disturbed
    /\ UNCHANGED <<storeVars, cacheVars, sig, closed, writer, closeErr, maxCacheSize>>

\* Fault: the loop over the names ends with the first deletion.
CloseDeleteOnce(p) ==
    /\ pc[p] = "closeDelete"
    /\ store' = [store EXCEPT ![name[p]] = None]
    /\ todo' = {}
    /\ Goto(p, "closeNext")
    /\ UNCHANGED <<cacheVars, callVars, closed, writer, closeErr, disturbed, maxCacheSize>>

CloseDelete(p) ==
    /\ pc[p] = "closeDelete"
    /\ \/ /\ store[name[p]] = None \/ "delete" \in Faults
          /\ closeErr' = TRUE
          /\ UNCHANGED store
       \/ /\ store[name[p]] # None
          /\ store' = [store EXCEPT ![name[p]] = None]
          /\ UNCHANGED closeErr
    /\ Goto(p, "closeNext")
    /\ UNCHANGED <<cacheVars, callVars, closed, writer, todo, disturbed, maxCacheSize>>

\* The store is closed if it can be, and the errors are reported.
CloseEnd(p) ==
    /\ pc[p] = "closeNext"
    /\ todo = {}
    /\ closeErr' \in {closeErr, closeErr \/ "close" \in Faults}
    /\ Return(p)
    /\ writer' = None
    /\ UNCHANGED <<storeVars, cacheVars, closed, todo, disturbed, maxCacheSize>>

-----------------------------------------------------------------------------
\* A step of a call in progress.
Step(p) ==
    \/ HasKey(p) \/ PutKey(p) \/ AddToCache(p) \/ LoadKey(p)
    \/ ExportKey(p) \/ ListKeys(p) \/ DeleteKey(p) \/ SignCached(p) \/ SignLoaded(p)
    \/ CloseList(p) \/ CloseGet(p) \/ CloseDelete(p) \/ CloseEnd(p)

Call(p) ==
    \/ Refuse(p) \/ CloseCache(p)
    \/ \E n \in Names :
         \/ BeginNewKey(p, n) \/ GetCached(p, n) \/ BeginGet(p, n) \/ BeginRead(p, n)
         \/ Uncache(p, n) \/ BeginSign(p, n)

Next == \E p \in Procs : Step(p) \/ Call(p)

Spec == Init /\ [][Next]_vars

(* A call that has begun goes on.  Taking kr.mu for writing needs strong       *)
(* fairness: sync.RWMutex admits no new reader once a writer waits.            *)
FairSpec ==
    Spec /\ \A p \in Procs : WF_vars(Step(p)) /\ SF_vars(AddToCache(p))

-----------------------------------------------------------------------------
(* Properties *)

TypeOK ==
    /\ store \in [Names -> Keys \cup {None}]
    /\ cache \in [Names -> (1 .. Len(signers)) \cup {None}]
    /\ order \in Seq(Names)
    /\ maxCacheSize \in CacheSizes
    /\ signers \in Seq(Signers)
    /\ closed \in BOOLEAN
    /\ writer \in Procs \cup {None}
    /\ pc \in [Procs -> Labels]
    /\ name \in [Procs -> Names \cup {None}]
    /\ sig \in [Procs -> (1 .. Len(signers)) \cup {None}]
    /\ todo \subseteq Names
    /\ closeErr \in BOOLEAN
    /\ disturbed \in BOOLEAN

\* The types hold, and cacheOrder lists the cached names, each once, and never
\* more than maxCacheSize of them, whichever calls insert, promote, evict and
\* delete (addToCache, moveToFront, DeleteKey, Close).
CacheListed ==
    /\ TypeOK
    /\ \A n \in Names : cache[n] # None <=> \E i \in 1 .. Len(order) : order[i] = n
    /\ \A i, j \in 1 .. Len(order) : order[i] = order[j] => i = j
    /\ Len(order) <= maxCacheSize

\* A signature is never made with a key that eviction, DeleteKey or Close has
\* zeroized: Sign keeps the read lock from the look at the cache to the end.
SignsWithLiveKey ==
    \A p \in Procs : pc[p] = "signing" => sig[p] # None /\ ~signers[sig[p]].zero

\* A key under a name is never exchanged for another one: of two NewKey calls
\* that both saw Has answer no, the second Put is refused.
NeverReplaced ==
    [][\A n \in Names : store[n] # None /\ store'[n] # None => store'[n] = store[n]]_vars

\* A Close that no other call overlapped, that could read every key it listed and
\* that reports no error has emptied the store and left no cached signer with its
\* key.
CloseWipes ==
    closed /\ writer = None /\ ~closeErr /\ ~disturbed =>
        Stored = {} /\ Cached = {}

\* Every call returns: no goroutine waits for kr.mu for ever.
CallsReturn == \A p \in Procs : pc[p] # "idle" ~> pc[p] = "idle"

=============================================================================
