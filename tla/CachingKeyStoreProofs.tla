------------------------ MODULE CachingKeyStoreProofs ------------------------
(***************************************************************************)
(* Proofs about the caching key store, for any names, keys, goroutines,    *)
(* kinds of backend and faults, as long as a failing os.Stat does not hide *)
(* a key file that is there.                                               *)
(***************************************************************************)
EXTENDS CachingKeyStore, TLAPS

USE Zenon

StatWorks == "stat" \notin Faults

-----------------------------------------------------------------------------
(* What the operations of a backend do to its entries *)

\* A key file may be half written, an entry of another backend may not.
Whole(b) == b.kind # "file" => \A n \in Names : b.entries[n] # Partial

\* a differs from b in the entry of n and the index at most.
Touches(b, a, n) ==
    /\ a \in Backends /\ Whole(a)
    /\ a.kind = b.kind /\ a.closed = b.closed
    /\ \A m \in Names : m # n => a.entries[m] = b.entries[m]

\* A backend an operation leaves alone.
LEMMA SameTouches ==
    ASSUME NEW b \in Backends, Whole(b), NEW n \in Names
    PROVE  Touches(b, b, n)
  BY DEF Touches

\* An entry is written.
LEMMA WithTouches ==
    ASSUME NEW b \in Backends, Whole(b), NEW n \in Names,
           NEW k \in Keys \cup {None, Partial}, k = Partial => b.kind = "file"
    PROVE  Touches(b, With(b, n, k), n) /\ With(b, n, k).entries[n] = k
  BY NoneAssumption DEF With, Touches, Whole, Backends

\* The list of key names is written.
LEMMA IndexTouches ==
    ASSUME NEW b \in Backends, Whole(b), NEW n \in Names, NEW i \in SUBSET Names
    PROVE  Touches(b, [b EXCEPT !.index = i], n) /\ [b EXCEPT !.index = i].entries = b.entries
  BY DEF Touches, Whole, Backends

\* The outcome of a Store: the key is stored, or an error is reported; and a key
\* that is there stays if os.Stat can be relied on.
Stores(b, n, k, o) ==
    /\ Touches(b, o.after, n)
    /\ o.err = None => o.after.entries[n] = k
    /\ StatWorks /\ b.entries[n] # None => o.after.entries[n] = b.entries[n]

\* A Store that fails and changes nothing.
LEMMA ErrorStores ==
    ASSUME NEW b \in Backends, Whole(b), NEW n \in Names, NEW k \in Keys, NEW e \in Errors
    PROVE  Stores(b, n, k, Outcome(b, e))
  BY SameTouches, NoneAssumption DEF Stores, Outcome

\* Store, of every kind of backend and with every fault.
LEMMA StoreKeeps ==
    ASSUME NEW b \in Backends, Whole(b), NEW n \in Names, NEW k \in Keys,
           NEW o \in Store(b, n, k)
    PROVE  Stores(b, n, k, o)
  <1>1. CASE \E e \in Errors : o = Outcome(b, e)
    BY <1>1, ErrorStores
  <1>2. CASE o = Ok(With(b, n, k)) /\ (b.entries[n] = None \/ ~StatWorks)
    BY SMT, <1>2, WithTouches, NoneAssumption DEF Stores, Ok, Outcome
  <1>3. CASE o = Outcome(With(b, n, Partial), "io") /\ (b.entries[n] = None \/ ~StatWorks) /\ b.kind = "file"
    BY <1>3, WithTouches, NoneAssumption DEF Stores, Outcome, Errors
  <1>4. CASE b.closed
    BY <1>1, <1>4 DEF Store, Errors
  <1>5. CASE ~b.closed /\ b.kind = "memory"
    <2>1. o \in MemoryStore(b, n, k)
      BY <1>5 DEF Store
    <2> QED
      BY <1>1, <1>2, <2>1 DEF MemoryStore, Errors
  <1>6. CASE ~b.closed /\ b.kind = "file"
    <2>1. o \in FileStore(b, n, k)
      BY <1>6 DEF Store
    <2>2. \/ o = Outcome(b, "exists") \/ o = Outcome(b, "io")
          \/ /\ b.entries[n] = None \/ "stat" \in Faults
             /\ o = Ok(With(b, n, k)) \/ o = Outcome(With(b, n, Partial), "io")
      BY <2>1 DEF FileStore, If
    <2> QED
      BY <1>1, <1>2, <1>3, <1>6, <2>2 DEF Errors, StatWorks
  <1>7. CASE ~b.closed /\ b.kind = "keychain"
    <2> DEFINE w == With(b, n, k)
    <2>1. o \in KeychainStore(b, n, k)
      BY <1>7 DEF Store
    <2>2. \/ o = Outcome(b, "exists") \/ o = Outcome(b, "io")
          \/ /\ b.entries[n] = None
             /\ \E x \in AddToKeyList(w, n) : o = x \/ (o = Outcome(b, x.err) /\ x.err # None)
      BY <2>1 DEF KeychainStore, If
    <2>3. w \in Backends /\ Whole(w) /\ w.entries[n] = k /\ Touches(b, w, n)
      BY SMT, WithTouches, NoneAssumption DEF Touches
    <2> HIDE DEF w
    <2>4. ASSUME NEW x \in AddToKeyList(w, n), b.entries[n] = None
          PROVE  x.err \in {None, "io"} /\ Touches(b, x.after, n) /\ x.after.entries[n] = k
      <3> DEFINE v == [w EXCEPT !.index = w.index \cup Parts[n]]
      <3>1. w.index \cup Parts[n] \in SUBSET Names
        BY <2>3, PartsAssumption DEF Backends
      <3>2. Touches(w, v, n) /\ v.entries = w.entries
        BY <2>3, <3>1, IndexTouches
      <3> HIDE DEF v
      <3>3. x.err \in {None, "io"} /\ (x.after = w \/ x.after = v)
        BY SMT DEF AddToKeyList, If, Ok, Outcome, v
      <3>4. Touches(b, v, n)
        BY <2>3, <3>2 DEF Touches
      <3> QED
        BY <2>3, <3>2, <3>3, <3>4
    <2>5. CASE b.entries[n] = None /\ o \in AddToKeyList(w, n)
      BY <2>4, <2>5 DEF Stores
    <2> QED
      BY <1>1, <2>2, <2>4, <2>5 DEF Errors
  <1> QED
    BY <1>4, <1>5, <1>6, <1>7 DEF Backends, Kinds

\* Load answers with the entry, and only with one that is a key.
LEMMA LoadAnswers ==
    ASSUME NEW b \in Backends, Whole(b), NEW n \in Names, NEW r \in Load(b, n)
    PROVE  r \in Errors \/ (r \in Keys /\ r = b.entries[n])
  <1>1. b.entries[n] \in Keys \cup {None, Partial} /\ (b.kind # "file" => b.entries[n] # Partial)
    BY DEF Backends, Whole
  <1>2. CASE b.closed
    BY <1>2 DEF Load, Errors
  <1>3. CASE ~b.closed /\ b.kind = "memory"
    BY <1>1, <1>3 DEF Load, MemoryLoad, Errors
  <1>4. CASE ~b.closed /\ b.kind = "file"
    <2>1. r \in FileLoad(b, n)
      BY <1>4 DEF Load
    <2> QED
      BY <1>1, <2>1 DEF FileLoad, If, Errors
  <1>5. CASE ~b.closed /\ b.kind = "keychain"
    <2>1. r \in KeychainLoad(b, n)
      BY <1>5 DEF Load
    <2> QED
      BY <1>1, <1>5, <2>1 DEF KeychainLoad, If, Errors
  <1> QED
    BY <1>2, <1>3, <1>4, <1>5 DEF Backends, Kinds

\* Delete takes the entry away or leaves it.
LEMMA DeleteTakes ==
    ASSUME NEW b \in Backends, Whole(b), NEW n \in Names, NEW o \in Delete(b, n)
    PROVE  Touches(b, o.after, n) /\ o.after.entries[n] \in {None, b.entries[n]}
  <1> DEFINE w == With(b, n, None)
  <1>1. w \in Backends /\ Whole(w) /\ w.entries[n] = None /\ Touches(b, w, n)
    BY SMT, WithTouches, NoneAssumption DEF Touches
  <1>2. CASE o.after = b
    BY <1>2, SameTouches
  <1>3. CASE o.after = w
    BY <1>1, <1>3
  <1>4. CASE b.closed
    <2>1. o = Outcome(b, "closed")
      BY <1>4 DEF Delete
    <2> QED
      BY <1>2, <2>1 DEF Outcome
  <1>5. CASE ~b.closed /\ b.kind = "memory"
    <2>1. o \in MemoryDelete(b, n)
      BY <1>5 DEF Delete
    <2> QED
      BY SMT, <1>2, <1>3, <2>1 DEF MemoryDelete, Ok, Outcome
  <1>6. CASE ~b.closed /\ b.kind = "file"
    <2>1. o \in FileDelete(b, n)
      BY <1>6 DEF Delete
    <2> QED
      BY SMT, <1>2, <1>3, <2>1 DEF FileDelete, If, Ok, Outcome
  <1>7. CASE ~b.closed /\ b.kind = "keychain"
    <2> DEFINE v == [w EXCEPT !.index = w.index \ {n}]
    <2>1. o \in KeychainDelete(b, n)
      BY <1>7 DEF Delete
    <2>2. o.after = b \/ \E x \in RemoveFromKeyList(w, n) : o.after = x.after
      BY SMT, <2>1 DEF KeychainDelete, If, Ok, Outcome
    <2> HIDE DEF w
    <2>3. \A x \in RemoveFromKeyList(w, n) : x.after = w \/ x.after = v
      BY SMT DEF RemoveFromKeyList, If, Ok, Outcome
    <2>4. w.index \ {n} \in SUBSET Names
      BY <1>1 DEF Backends
    <2>5. Touches(w, v, n) /\ v.entries = w.entries
      BY <1>1, <2>4, IndexTouches
    <2> HIDE DEF v
    <2>6. Touches(b, v, n) /\ v.entries[n] = None
      BY <1>1, <2>5 DEF Touches
    <2> QED
      BY <1>2, <1>3, <2>2, <2>3, <2>6
  <1> QED
    BY <1>4, <1>5, <1>6, <1>7 DEF Backends, Kinds

\* A crash leaves a backend, with no new key under a name that had one.
LEMMA CrashKeeps ==
    ASSUME NEW b \in Backends, Whole(b), NEW c \in BOOLEAN
    PROVE  /\ [Crashed(b) EXCEPT !.closed = c] \in Backends
           /\ Whole([Crashed(b) EXCEPT !.closed = c])
           /\ \A n \in Names : [Crashed(b) EXCEPT !.closed = c].entries[n] \in {None, b.entries[n]}
  <1>1. CASE b.kind = "memory"
    <2> DEFINE e == [n \in Names |-> None]
    <2>1. Crashed(b) = [b EXCEPT !.entries = e]
      BY <1>1 DEF Crashed
    <2>2. e \in [Names -> Keys \cup {None, Partial}]
      OBVIOUS
    <2>3. /\ [Crashed(b) EXCEPT !.closed = c] \in Backends
          /\ [Crashed(b) EXCEPT !.closed = c].entries = e
      BY <2>1, <2>2 DEF Backends
    <2> QED
      BY <2>3, NoneAssumption DEF Whole
  <1>2. CASE b.kind # "memory"
    BY <1>2 DEF Crashed, Backends, Whole
  <1> QED
    BY <1>1, <1>2

\* A Store cut off by a crash touches only a name that had no entry.
LEMMA TornStoreKeeps ==
    ASSUME NEW b \in Backends, Whole(b), NEW n \in Names, NEW k \in Keys,
           NEW t \in TornStores(b, n, k)
    PROVE  Touches(b, t, n) /\ b.entries[n] = None
  <1>1. CASE b.kind = "memory"
    BY <1>1 DEF TornStores
  <1>2. CASE b.kind = "file"
    <2>1. t = With(b, n, Partial) /\ b.entries[n] = None
      BY <1>2 DEF TornStores
    <2> QED
      BY <1>2, <2>1, WithTouches
  <1>3. CASE b.kind = "keychain"
    <2>1. t = With(b, n, k) /\ b.entries[n] = None
      BY <1>3 DEF TornStores
    <2> QED
      BY <2>1, WithTouches, NoneAssumption
  <1> QED
    BY <1>1, <1>2, <1>3 DEF Backends, Kinds

\* A Delete cut off by a crash has taken the entry away.
LEMMA TornDeleteKeeps ==
    ASSUME NEW b \in Backends, Whole(b), NEW n \in Names, NEW t \in TornDeletes(b, n)
    PROVE  Touches(b, t, n) /\ t.entries[n] = None
  <1>1. t = With(b, n, None)
    BY DEF TornDeletes
  <1> QED
    BY SMT, <1>1, WithTouches, NoneAssumption

-----------------------------------------------------------------------------
(* The state between two steps *)

\* The types, without the list: what a call works with is there at each label.
Shape ==
    /\ backend \in Backends /\ Whole(backend)
    /\ cache \in [Names -> Keys \cup {None}]
    /\ closed \in BOOLEAN
    /\ ops \in OpsChoices
    /\ pc \in [Procs -> Labels]
    /\ name \in [Procs -> Names \cup {None}]
    /\ key \in [Procs -> Keys \cup {None}]
    /\ \A p \in Procs :
         /\ pc[p] \in {"load", "fill", "store", "storeFill", "delete"} => name[p] \in Names
         /\ pc[p] \in {"fill", "store", "storeFill"} => key[p] \in Keys

\* A new store has the shape.
LEMMA InitShape == Init => Shape
  <1> SUFFICES ASSUME Init PROVE Shape
    OBVIOUS
  <1>1. PICK t \in Starts, e \in [Names -> Keys \cup {None}] :
          backend = [kind |-> t, entries |-> e,
                     index |-> IF t = "keychain" THEN {n \in Names : e[n] # None} ELSE {},
                     closed |-> FALSE]
    BY SMT DEF Init
  <1>2. t \in Kinds
    BY StartsAssumption
  <1>3. (IF t = "keychain" THEN {n \in Names : e[n] # None} ELSE {}) \in SUBSET Names
    OBVIOUS
  <1>4. e \in [Names -> Keys \cup {None, Partial}]
    OBVIOUS
  <1>5. backend \in Backends /\ backend.entries = e
    BY <1>1, <1>2, <1>3, <1>4 DEF Backends
  <1>6. Whole(backend)
    BY <1>5, NoneAssumption DEF Whole
  <1>7. /\ cache \in [Names -> Keys \cup {None}] /\ closed \in BOOLEAN /\ ops \in OpsChoices
        /\ pc = [p \in Procs |-> "idle"]
        /\ name \in [Procs -> Names \cup {None}] /\ key \in [Procs -> Keys \cup {None}]
    <2>1. /\ cache = [n \in Names |-> None] /\ closed = FALSE /\ ops \in OpsChoices
          /\ pc = [p \in Procs |-> "idle"]
          /\ name = [p \in Procs |-> None] /\ key = [p \in Procs |-> None]
      BY SMT DEF Init
    <2> QED
      BY <2>1
  <1> QED
    BY <1>5, <1>6, <1>7 DEF Shape, Labels

\* What a crash may leave of the backend.
LEMMA CrashShape ==
    ASSUME Shape, NEW p \in Procs, Crash(p)
    PROVE  /\ backend' \in Backends /\ Whole(backend')
           /\ \A n \in Names : backend.entries[n] # None /\ backend'.entries[n] # None =>
                  backend'.entries[n] = backend.entries[n]
  <1>1. PICK b \in {backend} \cup (IF pc[p] = "store" THEN TornStores(backend, name[p], key[p]) ELSE {})
                            \cup (IF pc[p] = "delete" THEN TornDeletes(backend, name[p]) ELSE {}) :
              backend' = [Crashed(b) EXCEPT !.closed = FALSE]
    BY DEF Crash
  <1>2. /\ b \in Backends /\ Whole(b)
        /\ \A n \in Names : backend.entries[n] # None /\ b.entries[n] # None => b.entries[n] = backend.entries[n]
    <2>1. CASE b = backend
      BY <2>1 DEF Shape
    <2>2. CASE pc[p] = "store" /\ b \in TornStores(backend, name[p], key[p])
      <3>1. name[p] \in Names /\ key[p] \in Keys /\ key[p] # None
        BY <2>2, NoneAssumption DEF Shape
      <3> QED
        BY SMT, <2>2, <3>1, TornStoreKeeps DEF Shape, Touches
    <2>3. CASE pc[p] = "delete" /\ b \in TornDeletes(backend, name[p])
      <3>1. name[p] \in Names
        BY <2>3 DEF Shape
      <3> QED
        BY SMT, <2>3, <3>1, TornDeleteKeeps DEF Shape, Touches
    <2> QED
      BY <1>1, <2>1, <2>2, <2>3
  <1> QED
    BY <1>1, <1>2, CrashKeeps

\* RepairIndex writes the list of names and no entry.
LEMMA RepairShape ==
    ASSUME Shape, NEW p \in Procs, Repair(p)
    PROVE  backend' \in Backends /\ Whole(backend') /\ backend'.entries = backend.entries
  <1>1. PICK o \in RepairIndex(backend, Names) : backend' = o.after
    BY DEF Repair
  <1>2. o.after = backend \/ \E i \in SUBSET Names : o.after = [backend EXCEPT !.index = i]
    <2> DEFINE orphans == (Names \cap Entered(backend)) \ backend.index
               Pieces(S) == UNION {Parts[n] : n \in S}
    <2>1. ASSUME NEW S \in SUBSET orphans
          PROVE  (backend.index \cap Entered(backend)) \cup Pieces(S) \in SUBSET Names
      BY PartsAssumption DEF Entered
    <2>2. \/ o = Outcome(backend, "io")
          \/ \E S \in SUBSET orphans :
               o = Ok([backend EXCEPT !.index = (backend.index \cap Entered(backend)) \cup Pieces(S)])
      <3>1. \/ o \in If("getIndex", {Outcome(backend, "io")}) \/ o \in If("get", {Outcome(backend, "io")})
            \/ o \in If("setIndex", {Outcome(backend, "io")})
            \/ \E S \in IF "probe" \in Faults THEN SUBSET orphans ELSE {orphans} :
                 o = Ok([backend EXCEPT !.index = (backend.index \cap Entered(backend)) \cup Pieces(S)])
        BY <1>1 DEF RepairIndex
      <3> QED
        BY <3>1 DEF If
    <2> HIDE DEF orphans, Pieces
    <2>3. CASE o = Outcome(backend, "io")
      BY <2>3 DEF Outcome
    <2>4. ASSUME NEW S \in SUBSET orphans,
                 o = Ok([backend EXCEPT !.index = (backend.index \cap Entered(backend)) \cup Pieces(S)])
          PROVE  \E i \in SUBSET Names : o.after = [backend EXCEPT !.index = i]
      <3> DEFINE i == (backend.index \cap Entered(backend)) \cup Pieces(S)
      <3>1. i \in SUBSET Names
        BY <2>1
      <3> HIDE DEF i
      <3>2. o.after = [backend EXCEPT !.index = i]
        BY <2>4 DEF Ok, Outcome, i
      <3> QED
        BY <3>1, <3>2
    <2> QED
      BY <2>2, <2>3, <2>4
  <1> QED
    BY <1>1, <1>2 DEF Shape, Backends, Whole

\* What the operations of the cache do to it: at most one name gains a key.
LEMMA CacheShape ==
    ASSUME cache \in [Names -> Keys \cup {None}], NEW n \in Names, NEW k \in Keys,
           AddToCache(n, k) \/ RemoveFromCache(n) \/ ClearCache
    PROVE  /\ cache' \in [Names -> Keys \cup {None}]
           /\ \A m \in Names : m # n => cache'[m] \in {cache[m], None}
           /\ AddToCache(n, k) => cache'[n] \in {k, None}
           /\ ~AddToCache(n, k) => \A m \in Names : cache'[m] \in {cache[m], None}
  BY DEF AddToCache, RemoveFromCache, ClearCache

\* Every step keeps the shape.
LEMMA NextShape == Shape /\ [Next]_vars => Shape'
  <1> SUFFICES ASSUME Shape, [Next]_vars PROVE Shape'
    OBVIOUS
  <1> USE DEF Shape
  <1>1. CASE UNCHANGED vars
    BY <1>1 DEF vars, cacheVars, callVars, fixed, Whole
  <1>2. ASSUME NEW p \in Procs, PromoteElem(p) \/ BackendList(p) PROVE Shape'
    BY <1>2 DEF PromoteElem, BackendList, Return, Goto, Labels, cacheVars, fixed, Whole
  <1>3. ASSUME NEW p \in Procs, BackendLoad(p) PROVE Shape'
    <2>1. PICK r \in Load(backend, name[p]) :
            IF r \in Errors THEN Return(p)
            ELSE key' = [key EXCEPT ![p] = r] /\ Goto(p, "fill") /\ UNCHANGED name
      BY <1>3 DEF BackendLoad
    <2>2. r \in Errors \/ r \in Keys
      BY <1>3, LoadAnswers DEF BackendLoad
    <2> QED
      BY SMT, <1>3, <2>1, <2>2 DEF BackendLoad, Return, Goto, Labels, cacheVars, fixed, Whole
  <1>4. ASSUME NEW p \in Procs, Fill(p) PROVE Shape'
    <2>1. cache' \in [Names -> Keys \cup {None}]
      BY <1>4, CacheShape DEF Fill, cacheVars
    <2> QED
      BY <1>4, <2>1 DEF Fill, Return, Goto, Labels, fixed, Whole
  <1>5. ASSUME NEW p \in Procs, BackendStore(p) PROVE Shape'
    <2>1. PICK o \in Store(backend, name[p], key[p]) :
            /\ backend' = o.after
            /\ IF o.err # None THEN Return(p) ELSE Goto(p, "storeFill") /\ UNCHANGED <<name, key>>
      BY <1>5 DEF BackendStore
    <2>2. backend' \in Backends /\ Whole(backend')
      BY <1>5, <2>1, StoreKeeps DEF BackendStore, Stores, Touches
    <2> QED
      BY ZenonT(40), <1>5, <2>1, <2>2 DEF BackendStore, Return, Goto, Labels, cacheVars, fixed
  <1>6. ASSUME NEW p \in Procs, BackendDelete(p) PROVE Shape'
    <2>1. backend' \in Backends /\ Whole(backend')
      BY SMT, <1>6, DeleteTakes DEF BackendDelete, Touches
    <2> QED
      BY <1>6, <2>1 DEF BackendDelete, Return, Goto, Labels, cacheVars, fixed
  <1>7. ASSUME NEW p \in Procs, Refuse(p) \/ BeginList(p) PROVE Shape'
    BY <1>7 DEF Refuse, BeginList, Enter, Labels, vars, cacheVars, callVars, fixed, Whole
  <1>8. ASSUME NEW p \in Procs, Close(p) \/ Invalidate(p) PROVE Shape'
    <2>1. backend' \in Backends /\ Whole(backend')
      <3>1. CASE Close(p)
        BY <3>1, CrashKeeps DEF Close
      <3>2. CASE Invalidate(p)
        BY <3>2 DEF Invalidate, Whole
      <3> QED
        BY <1>8, <3>1, <3>2
    <2>2. cache' \in [Names -> Keys \cup {None}]
      BY <1>8 DEF Close, Invalidate, ClearCache, RemoveFromCache
    <2> QED
      BY <1>8, <2>1, <2>2 DEF Close, Invalidate, callVars, fixed
  <1>9. ASSUME NEW p \in Procs, Repair(p) PROVE Shape'
    BY <1>9, RepairShape DEF Repair, cacheVars, callVars
  <1>10. ASSUME NEW p \in Procs, Crash(p) PROVE Shape'
    BY <1>10, CrashShape DEF Crash, ClearCache, Labels
  <1>11. ASSUME NEW p \in Procs, NEW n \in Names,
                LoadHit(p, n) \/ LoadMiss(p, n) \/ (\E k \in Keys : BeginStore(p, n, k))
         PROVE  Shape'
    BY SMT, <1>11 DEF LoadHit, LoadMiss, BeginStore, Enter, Labels, cacheVars, fixed, Whole
  <1>12. ASSUME NEW p \in Procs, NEW n \in Names, BeginDelete(p, n) PROVE Shape'
    BY <1>12 DEF BeginDelete, RemoveFromCache, Enter, Labels, fixed, Whole
  <1> QED
    BY <1>1, <1>2, <1>3, <1>4, <1>5, <1>6, <1>7, <1>8, <1>9, <1>10, <1>11, <1>12
       DEF Next, Step, Call

\* Every reachable state has the shape.
LEMMA ShapeCorrect == Spec => []Shape
  BY InitShape, NextShape, PTL DEF Spec
-----------------------------------------------------------------------------
(* NeverReplaced *)

KeysKept ==
    \A n \in Names : backend.entries[n] # None /\ backend'.entries[n] # None =>
        backend'.entries[n] = backend.entries[n]

\* No step exchanges the entry of a name for another one.
LEMMA StepKeeps == StatWorks /\ Shape /\ [Next]_vars => KeysKept
  <1> SUFFICES ASSUME StatWorks, Shape, [Next]_vars PROVE KeysKept
    OBVIOUS
  <1> USE DEF KeysKept
  <1>1. CASE UNCHANGED backend
    BY <1>1
  <1>2. ASSUME NEW p \in Procs, BackendStore(p) PROVE KeysKept
    <2>1. name[p] \in Names /\ key[p] \in Keys /\ backend \in Backends /\ Whole(backend)
      BY <1>2 DEF BackendStore, Shape
    <2>2. PICK o \in Store(backend, name[p], key[p]) : backend' = o.after
      BY <1>2 DEF BackendStore
    <2> QED
      BY SMT, <2>1, <2>2, StoreKeeps DEF Stores, Touches
  <1>3. ASSUME NEW p \in Procs, BackendDelete(p) PROVE KeysKept
    <2>1. name[p] \in Names /\ backend \in Backends /\ Whole(backend)
      BY <1>3 DEF BackendDelete, Shape
    <2>2. PICK o \in Delete(backend, name[p]) : backend' = o.after
      BY <1>3 DEF BackendDelete
    <2> QED
      BY SMT, <2>1, <2>2, DeleteTakes DEF Touches
  <1>4. ASSUME NEW p \in Procs, Close(p) PROVE KeysKept
    BY <1>4, CrashKeeps DEF Close, Shape
  <1>5. ASSUME NEW p \in Procs, Repair(p) PROVE KeysKept
    BY <1>5, RepairShape
  <1>6. ASSUME NEW p \in Procs, Crash(p) PROVE KeysKept
    BY <1>6, CrashShape
  <1> QED
    BY <1>1, <1>2, <1>3, <1>4, <1>5, <1>6
       DEF Next, Step, Call, vars, PromoteElem, BackendLoad, Fill, BackendList, Refuse, BeginList,
           Invalidate, LoadHit, LoadMiss, BeginDelete, BeginStore

\* No sequence of calls, failures and crashes exchanges the key a backend holds
\* under a name for another one (Store of each backend refuses a taken name).
THEOREM KeysNeverReplaced == StatWorks => (Spec => NeverReplaced)
  <1> SUFFICES ASSUME StatWorks PROVE Spec => NeverReplaced
    OBVIOUS
  <1>1. Shape /\ [Next]_vars => [KeysKept]_vars
    BY StepKeeps
  <1> QED
    BY <1>1, ShapeCorrect, PTL DEF Spec, NeverReplaced, KeysKept

-----------------------------------------------------------------------------
(* FreshForOneCaller *)

OneCaller(p) == \A q \in Procs \ {p} : ops[q] \cap {"load", "store", "delete"} = {}

\* p alone loads, stores and deletes.  The cache agrees with the backend; so does
\* the key p is about to cache, unless Close overtook it; and a key p is about to
\* delete is not cached.
Fresh(p) ==
    /\ \A q \in Procs \ {p} : pc[q] \in {"idle", "list"}
    /\ \A n \in Names : cache[n] \in {None, backend.entries[n]}
    /\ closed => \A n \in Names : cache[n] = None
    /\ ~closed /\ pc[p] \in {"fill", "storeFill"} => key[p] = backend.entries[name[p]]
    /\ pc[p] = "delete" => cache[name[p]] = None

FreshInv == \A p \in Procs : OneCaller(p) => Fresh(p)

\* Nothing is cached at first.
LEMMA InitFresh == Init => FreshInv
  BY SMT DEF Init, FreshInv, Fresh

\* Any step keeps the cache fresh for p, while p alone loads, stores and deletes.
LEMMA StepFresh ==
    ASSUME StatWorks, Shape, Shape', [Next]_vars, NEW p \in Procs, OneCaller(p), Fresh(p)
    PROVE  Fresh(p)'
  <1> USE DEF Fresh
  <1>1. CASE UNCHANGED vars
    BY <1>1 DEF vars, cacheVars, callVars
  <1>2. ASSUME NEW q \in Procs, PromoteElem(q) \/ BackendList(q) PROVE Fresh(p)'
    BY SMT, <1>2 DEF PromoteElem, BackendList, Return, Goto, cacheVars, Shape
  <1>3. ASSUME NEW q \in Procs, BackendLoad(q) PROVE Fresh(p)'
    <2>1. q = p /\ name[p] \in Names
      BY <1>3 DEF BackendLoad, Shape
    <2>2. PICK r \in Load(backend, name[p]) :
            IF r \in Errors THEN Return(p)
            ELSE key' = [key EXCEPT ![p] = r] /\ Goto(p, "fill") /\ UNCHANGED name
      BY <1>3, <2>1 DEF BackendLoad
    <2>3. r \in Errors \/ r = backend.entries[name[p]]
      BY SMT, <2>1, LoadAnswers DEF Shape
    <2> QED
      BY SMT, <1>3, <2>1, <2>2, <2>3 DEF BackendLoad, Return, Goto, cacheVars, Shape
  <1>4. ASSUME NEW q \in Procs, Fill(q) PROVE Fresh(p)'
    <2>1. q = p /\ name[p] \in Names /\ key[p] \in Keys
      BY <1>4 DEF Fill, Shape
    <2>2. \A n \in Names : cache'[n] \in {None, backend.entries[n]}
      <3>1. CASE closed
        BY <1>4, <2>1, <3>1 DEF Fill, cacheVars
      <3>2. CASE ~closed
        <4>1. AddToCache(name[p], key[p]) /\ key[p] = backend.entries[name[p]]
          BY <1>4, <2>1, <3>2 DEF Fill
        <4> QED
          BY SMT, <2>1, <4>1, CacheShape DEF Shape
      <3> QED
        BY <3>1, <3>2
    <2> QED
      BY <1>4, <2>1, <2>2 DEF Fill, Return, Goto, cacheVars, Shape
  <1>5. ASSUME NEW q \in Procs, BackendStore(q) PROVE Fresh(p)'
    <2>1. q = p /\ name[p] \in Names /\ key[p] \in Keys
      BY <1>5 DEF BackendStore, Shape
    <2>2. PICK o \in Store(backend, name[p], key[p]) :
            /\ backend' = o.after
            /\ IF o.err # None THEN Return(p) ELSE Goto(p, "storeFill") /\ UNCHANGED <<name, key>>
      BY <1>5, <2>1 DEF BackendStore
    <2>3. /\ \A n \in Names : backend.entries[n] # None => backend'.entries[n] = backend.entries[n]
          /\ o.err = None => backend'.entries[name[p]] = key[p]
      <3>1. Stores(backend, name[p], key[p], o)
        BY <2>1, StoreKeeps DEF Shape
      <3> HIDE DEF Fresh
      <3> QED
        BY <2>1, <2>2, <3>1 DEF Stores, Touches
    <2> QED
      BY SMT, <1>5, <2>1, <2>2, <2>3 DEF BackendStore, Return, Goto, cacheVars, Shape
  <1>6. ASSUME NEW q \in Procs, BackendDelete(q) PROVE Fresh(p)'
    <2>1. q = p /\ name[p] \in Names
      BY <1>6 DEF BackendDelete, Shape
    <2>2. \A n \in Names : n # name[p] => backend'.entries[n] = backend.entries[n]
      <3> HIDE DEF Fresh
      <3>1. PICK o \in Delete(backend, name[p]) : backend' = o.after
        BY <1>6, <2>1 DEF BackendDelete
      <3>2. Touches(backend, backend', name[p])
        BY <2>1, <3>1, DeleteTakes DEF Shape
      <3> QED
        BY <3>2 DEF Touches
    <2> QED
      BY <1>6, <2>1, <2>2 DEF BackendDelete, Return, Goto, cacheVars, Shape
  <1>7. ASSUME NEW q \in Procs, Refuse(q) \/ BeginList(q) PROVE Fresh(p)'
    <2>1. CASE Refuse(q)
      BY <2>1 DEF Refuse, vars, cacheVars, callVars
    <2>2. CASE BeginList(q)
      <3>1. /\ UNCHANGED <<backend, cache, closed>>
            /\ pc' = [pc EXCEPT ![q] = "list"]
            /\ \A r \in Procs : r # q => name'[r] = name[r] /\ key'[r] = key[r]
        BY <2>2 DEF BeginList, Enter, cacheVars, Shape
      <3>2. pc \in [Procs -> Labels]
        BY DEF Shape
      <3> QED
        BY <3>1, <3>2
    <2> QED
      BY <1>7, <2>1, <2>2
  <1>8. ASSUME NEW q \in Procs, Close(q) PROVE Fresh(p)'
    BY <1>8 DEF Close, ClearCache, callVars, Shape
  <1>9. ASSUME NEW q \in Procs, Invalidate(q) PROVE Fresh(p)'
    <2>1. \A n \in Names : cache'[n] \in {None, cache[n]}
      BY <1>9, ZenonT(30) DEF Invalidate, ClearCache, RemoveFromCache, Shape
    <2> QED
      BY <1>9, <2>1 DEF Invalidate, callVars, Shape
  <1>10. ASSUME NEW q \in Procs, Repair(q) PROVE Fresh(p)'
    BY <1>10, RepairShape DEF Repair, cacheVars, callVars
  <1>11. ASSUME NEW q \in Procs, Crash(q) PROVE Fresh(p)'
    BY <1>11 DEF Crash, ClearCache
  <1>12. ASSUME NEW q \in Procs, NEW n \in Names,
                LoadHit(q, n) \/ LoadMiss(q, n) \/ (\E k \in Keys : BeginStore(q, n, k))
         PROVE  Fresh(p)'
    <2>1. q = p
      BY <1>12 DEF LoadHit, LoadMiss, BeginStore, Enter, OneCaller
    <2> QED
      BY SMT, <1>12, <2>1 DEF LoadHit, LoadMiss, BeginStore, Enter, cacheVars, Shape
  <1>13. ASSUME NEW q \in Procs, NEW n \in Names, BeginDelete(q, n) PROVE Fresh(p)'
    <2>1. q = p
      BY <1>13 DEF BeginDelete, Enter, OneCaller
    <2> QED
      BY <1>13, <2>1 DEF BeginDelete, RemoveFromCache, Enter, Shape
  <1> QED
    BY <1>1, <1>2, <1>3, <1>4, <1>5, <1>6, <1>7, <1>8, <1>9, <1>10, <1>11, <1>12, <1>13
       DEF Next, Step, Call

\* So every step keeps it fresh for whichever goroutine is the one caller.
LEMMA NextFresh == StatWorks /\ Shape /\ Shape' /\ FreshInv /\ [Next]_vars => FreshInv'
  <1> SUFFICES ASSUME StatWorks, Shape, Shape', FreshInv, [Next]_vars,
                      NEW p \in Procs, OneCaller(p)'
               PROVE  Fresh(p)'
    BY DEF FreshInv
  <1>1. ops' = ops
    BY DEF Next, Step, Call, vars, fixed, PromoteElem, BackendLoad, Fill, BackendStore, BackendDelete,
           BackendList, Refuse, BeginList, Close, Invalidate, Repair, Crash, LoadHit, LoadMiss,
           BeginDelete, BeginStore
  <1>2. OneCaller(p)
    BY <1>1 DEF OneCaller
  <1> QED
    BY <1>2, StepFresh DEF FreshInv

\* The cache never answers with a key the backend does not hold, whatever fails or
\* crashes, if one goroutine at a time calls Load, Store and Delete; others may
\* list, invalidate, repair and close meanwhile.
THEOREM CacheFresh == StatWorks => (Spec => []FreshForOneCaller)
  <1> SUFFICES ASSUME StatWorks PROVE Spec => []FreshForOneCaller
    OBVIOUS
  <1>1. Shape /\ Shape' /\ FreshInv /\ [Next]_vars => FreshInv'
    BY NextFresh
  <1>2. FreshInv => FreshForOneCaller
    BY DEF FreshInv, Fresh, OneCaller, FreshForOneCaller, Cached
  <1> QED
    BY <1>1, <1>2, InitFresh, ShapeCorrect, PTL DEF Spec

-----------------------------------------------------------------------------
(* KeysListed *)

\* No name has a comma in it, so that the index holds the names that were added.
CommaFree == \A n \in Names : Parts[n] = {n}

AllListed(b) == Entered(b) \subseteq b.index

\* The entry of n is written or taken away, and so is n from the index.
LEMMA EntryListed ==
    ASSUME NEW b \in Backends, AllListed(b), NEW n \in Names, NEW k \in Keys \cup {None, Partial},
           NEW i, b.index \ {n} \subseteq i, k = None \/ n \in i
    PROVE  AllListed([With(b, n, k) EXCEPT !.index = i])
  <1> DEFINE a == [With(b, n, k) EXCEPT !.index = i]
  <1>1. a.index = i /\ \A m \in Names : a.entries[m] = IF m = n THEN k ELSE b.entries[m]
    BY DEF With, Backends
  <1> HIDE DEF a
  <1>2. ASSUME NEW m \in Entered(a) PROVE m \in i
    <2>1. m \in Names /\ a.entries[m] # None
      BY DEF Entered
    <2>2. CASE m = n
      BY <1>1, <2>1, <2>2
    <2>3. CASE m # n
      BY <1>1, <2>1, <2>3 DEF AllListed, Entered
    <2> QED
      BY <2>2, <2>3
  <1> QED
    BY <1>1, <1>2 DEF AllListed, a

\* A Store that reports success has listed the name; one that cannot list it takes the
\* entry back.
LEMMA StoreListed ==
    ASSUME CommaFree, "rollback" \notin Faults, NEW b \in Backends, b.kind = "keychain",
           AllListed(b), NEW n \in Names, NEW k \in Keys, NEW o \in Store(b, n, k)
    PROVE  AllListed(o.after)
  <1>1. CASE o.after = b
    BY <1>1
  <1>2. CASE b.closed
    BY SMT, <1>1, <1>2 DEF Store, Outcome
  <1>3. CASE ~b.closed
    <2> DEFINE w == With(b, n, k)
               i == w.index \cup Parts[n]
    <2>1. o \in KeychainStore(b, n, k)
      BY <1>3 DEF Store
    <2>2. \/ o = Outcome(b, "exists") \/ o = Outcome(b, "io")
          \/ \E x \in AddToKeyList(w, n) : o = x /\ x.err = None
          \/ \E x \in AddToKeyList(w, n) : o = Outcome(b, x.err)
      BY <2>1 DEF KeychainStore, If
    <2>3. w.index = b.index /\ w \in Backends
      BY DEF With, Backends
    <2> HIDE DEF w
    <2>4. ASSUME NEW x \in AddToKeyList(w, n), x.err = None PROVE AllListed(x.after)
      <3>1. x = Ok(IF n \in w.index THEN w ELSE [w EXCEPT !.index = i])
        BY SMT, <2>4, NoneAssumption DEF AddToKeyList, If, Outcome, Errors
      <3>2. CASE n \in w.index
        <4>1. x.after = w
          BY <3>1, <3>2 DEF Ok, Outcome
        <4>2. w = [w EXCEPT !.index = b.index]
          BY <2>3 DEF Backends
        <4>3. AllListed([w EXCEPT !.index = b.index])
          BY <2>3, <3>2, EntryListed DEF w
        <4> QED
          BY <4>1, <4>2, <4>3
      <3>3. CASE n \notin w.index
        <4>1. x.after = [w EXCEPT !.index = i]
          BY <3>1, <3>3 DEF Ok, Outcome
        <4>2. b.index \ {n} \subseteq i /\ n \in i
          BY <2>3 DEF CommaFree
        <4> HIDE DEF i
        <4> QED
          BY SMT, <4>1, <4>2, EntryListed DEF w
      <3> QED
        BY <3>2, <3>3
    <2> QED
      BY SMT, <1>1, <2>2, <2>4 DEF Outcome
  <1> QED
    BY <1>2, <1>3 DEF Backends

\* A Delete takes the entry away first and then, if it can, the name.
LEMMA DeleteListed ==
    ASSUME NEW b \in Backends, b.kind = "keychain", AllListed(b), NEW n \in Names,
           NEW o \in Delete(b, n)
    PROVE  AllListed(o.after)
  <1>1. CASE o.after = b
    BY <1>1
  <1>2. CASE b.closed
    BY SMT, <1>1, <1>2 DEF Delete, Outcome
  <1>3. CASE ~b.closed
    <2> DEFINE w == With(b, n, None)
    <2>1. o \in KeychainDelete(b, n)
      BY <1>3 DEF Delete
    <2>2. o.after = b \/ \E x \in RemoveFromKeyList(w, n) : o.after = x.after
      BY SMT, <2>1 DEF KeychainDelete, If, Ok, Outcome
    <2>3. w.index = b.index /\ w \in Backends
      BY DEF With, Backends
    <2> HIDE DEF w
    <2>4. \A x \in RemoveFromKeyList(w, n) : x.after = w \/ x.after = [w EXCEPT !.index = w.index \ {n}]
      BY SMT DEF RemoveFromKeyList, If, Ok, Outcome
    <2>5. w = [w EXCEPT !.index = b.index]
      BY <2>3 DEF Backends
    <2>6. AllListed([w EXCEPT !.index = b.index])
      BY EntryListed DEF w
    <2>7. AllListed([w EXCEPT !.index = w.index \ {n}])
      BY <2>3, EntryListed DEF w
    <2> QED
      BY <1>1, <2>2, <2>4, <2>5, <2>6, <2>7
  <1> QED
    BY <1>2, <1>3 DEF Backends

\* RepairIndex keeps a complete index complete, and completes one if no probe fails.
LEMMA RepairListed ==
    ASSUME CommaFree, NEW b \in Backends, NEW o \in RepairIndex(b, Names),
           AllListed(b) \/ (o.err = None /\ "probe" \notin Faults)
    PROVE  AllListed(o.after)
  <1> DEFINE orphans == (Names \cap Entered(b)) \ b.index
             Pieces(S) == UNION {Parts[n] : n \in S}
             i(S) == (b.index \cap Entered(b)) \cup Pieces(S)
  <1>1. \/ o = Outcome(b, "io")
        \/ \E S \in IF "probe" \in Faults THEN SUBSET orphans ELSE {orphans} :
             o = Ok([b EXCEPT !.index = i(S)])
    BY DEF RepairIndex, If
  <1>2. CASE o = Outcome(b, "io")
    BY <1>2, NoneAssumption DEF Outcome, Errors
  <1>3. ASSUME NEW S \in IF "probe" \in Faults THEN SUBSET orphans ELSE {orphans},
               o = Ok([b EXCEPT !.index = i(S)])
        PROVE  AllListed(o.after)
    <2>1. S \subseteq Names /\ Pieces(S) = S
      <3>1. S \subseteq Names
        BY DEF Entered
      <3> QED
        BY SMT, <3>1 DEF CommaFree
    <2>2. Entered(b) \subseteq b.index \/ S = orphans
      BY <1>3 DEF AllListed
    <2>3. Entered(b) \subseteq i(S)
      BY <2>1, <2>2 DEF Entered
    <2> HIDE DEF i
    <2>4. o.after = [b EXCEPT !.index = i(S)]
      BY <1>3 DEF Ok, Outcome
    <2>5. o.after.index = i(S) /\ o.after.entries = b.entries
      BY <2>4 DEF Backends
    <2> QED
      BY <2>3, <2>5 DEF AllListed, Entered
  <1> QED
    BY <1>1, <1>2, <1>3

\* Every step keeps the keys listed.
LEMMA NextListed ==
    ASSUME CommaFree, Shape, KeysListed, [Next]_vars
    PROVE  KeysListed'
  <1> SUFFICES ASSUME backend'.kind = "keychain", ~torn', "rollback" \notin Faults
               PROVE  AllListed(backend')
    BY DEF KeysListed, AllListed
  <1>1. backend \in Backends /\ Whole(backend)
    BY DEF Shape
  <1>2. backend.kind = "keychain" /\ ~torn => AllListed(backend)
    BY DEF KeysListed, AllListed
  <1>3. CASE UNCHANGED <<backend, torn>>
    BY <1>2, <1>3 DEF AllListed
  <1>4. ASSUME NEW p \in Procs, BackendStore(p) PROVE AllListed(backend')
    <2>1. name[p] \in Names /\ key[p] \in Keys /\ torn' = torn
      BY <1>4 DEF BackendStore, Shape, fixed
    <2>2. PICK o \in Store(backend, name[p], key[p]) : backend' = o.after
      BY <1>4 DEF BackendStore
    <2>3. backend'.kind = backend.kind
      BY ZenonT(40), <1>1, <2>1, <2>2, StoreKeeps DEF Stores, Touches
    <2> QED
      BY <1>1, <1>2, <2>1, <2>2, <2>3, StoreListed
  <1>5. ASSUME NEW p \in Procs, BackendDelete(p) PROVE AllListed(backend')
    <2>1. name[p] \in Names /\ torn' = torn
      BY <1>5 DEF BackendDelete, Shape, fixed
    <2>2. PICK o \in Delete(backend, name[p]) : backend' = o.after
      BY <1>5 DEF BackendDelete
    <2>3. backend'.kind = backend.kind
      BY <1>1, <2>1, <2>2, DeleteTakes DEF Touches
    <2> QED
      BY <1>1, <1>2, <2>1, <2>2, <2>3, DeleteListed
  <1>6. ASSUME NEW p \in Procs, Close(p) PROVE AllListed(backend')
    <2>1. torn' = torn /\ backend' = [Crashed(backend) EXCEPT !.closed = TRUE]
      BY <1>6 DEF Close, fixed
    <2>2. CASE backend.kind = "memory"
      BY <1>1, <2>1, <2>2 DEF Crashed, Backends
    <2>3. CASE backend.kind # "memory"
      <3>1. /\ backend'.kind = backend.kind /\ backend'.entries = backend.entries
            /\ backend'.index = backend.index
        BY <1>1, <2>1, <2>3 DEF Crashed, Backends
      <3> QED
        BY <1>2, <2>1, <3>1 DEF AllListed, Entered
    <2> QED
      BY <2>2, <2>3
  <1>7. ASSUME NEW p \in Procs, Repair(p) PROVE AllListed(backend')
    <2>1. PICK o \in RepairIndex(backend, Names) :
            /\ backend' = o.after
            /\ torn' = (torn /\ (o.err # None \/ "probe" \in Faults))
      BY <1>7 DEF Repair
    <2>2. backend.kind = "keychain"
      BY <1>7 DEF Repair
    <2> QED
      BY <1>1, <1>2, <2>1, <2>2, RepairListed
  <1>8. ASSUME NEW p \in Procs, Crash(p) PROVE AllListed(backend')
    BY <1>8 DEF Crash
  <1> QED
    BY <1>3, <1>4, <1>5, <1>6, <1>7, <1>8
       DEF Next, Step, Call, vars, fixed, PromoteElem, BackendLoad, Fill, BackendList, Refuse,
           BeginList, Invalidate, LoadHit, LoadMiss, BeginDelete, BeginStore

\* The index of the keychain lists every key it holds, for any goroutines, keys, faults of
\* the keychain other than a failing rollback, and crashes, when no name has a comma in it:
\* Store undoes the entry it cannot list, Delete takes the entry before the name, and what
\* a crash leaves unlisted is listed by the first RepairIndex that succeeds.
THEOREM KeysAreListed == ASSUME CommaFree PROVE Spec => []KeysListed
  <1>1. Init => KeysListed
    <2> SUFFICES ASSUME Init, backend.kind = "keychain" PROVE Entered(backend) \subseteq backend.index
      BY DEF KeysListed
    <2>1. PICK t \in Starts, e \in [Names -> Keys \cup {None}] :
            backend = [kind |-> t, entries |-> e,
                       index |-> IF t = "keychain" THEN {n \in Names : e[n] # None} ELSE {},
                       closed |-> FALSE]
      BY SMT DEF Init
    <2>2. backend.index = {n \in Names : e[n] # None} /\ backend.entries = e
      BY <2>1
    <2> QED
      BY <2>2 DEF Entered
  <1>2. Shape /\ KeysListed /\ [Next]_vars => KeysListed'
    BY NextListed
  <1> QED
    BY <1>1, <1>2, ShapeCorrect, PTL DEF Spec

-----------------------------------------------------------------------------
(* LruListsCache *)

INSTANCE FiniteSetTheorems

\* q lists the names of S, each once.
Lists(q, S) ==
    /\ q \in Seq(Names)
    /\ \A i \in 1 .. Len(q) : q[i] \in S
    /\ \A n \in S : \E i \in 1 .. Len(q) : q[i] = n
    /\ \A i, j \in 1 .. Len(q) : q[i] = q[j] => i = j

\* Such a list is as long as the set is large.
LEMMA ListsCount ==
    ASSUME NEW q, NEW S, Lists(q, S)
    PROVE  Cardinality(S) = Len(q) /\ Len(q) \in Nat
  <1>1. Len(q) \in Nat
    BY SMT DEF Lists
  <1>2. PICK f : f = [i \in 1 .. Len(q) |-> q[i]]
    OBVIOUS
  <1>3. /\ f \in [1 .. Len(q) -> S] /\ DOMAIN f = 1 .. Len(q)
        /\ \A i \in 1 .. Len(q) : f[i] = q[i]
    BY <1>2 DEF Lists
  <1>4. IsInjective(f)
    BY <1>3 DEF IsInjective, Lists
  <1>5. f \in Bijection(1 .. Len(q), S)
    BY <1>3, <1>4 DEF Bijection, Injection, Surjection, Lists
  <1>6. ExistsBijection(1 .. Len(q), S)
    BY <1>5 DEF ExistsBijection
  <1>7. IsFiniteSet(1 .. Len(q)) /\ Cardinality(1 .. Len(q)) = Len(q)
    <2>1. 1 \in Int /\ Len(q) \in Int
      BY SMT, <1>1
    <2>2. /\ IsFiniteSet(1 .. Len(q))
          /\ Cardinality(1 .. Len(q)) = IF 1 > Len(q) THEN 0 ELSE Len(q) - 1 + 1
      BY <2>1, FS_Interval, Zenon
    <2> QED
      BY SMT, <1>1, <2>2
  <1> QED
    BY <1>1, <1>6, <1>7, FS_Bijection

\* A new element at the front.
LEMMA PushLists ==
    ASSUME NEW q, NEW S, Lists(q, S), NEW n \in Names, n \notin S
    PROVE  Lists(<<n>> \o q, S \cup {n}) /\ Len(<<n>> \o q) = Len(q) + 1
  <1> DEFINE r == <<n>> \o q
  <1>1. q \in Seq(Names) /\ Len(q) \in Nat
    BY SMT DEF Lists
  <1>2. r \in Seq(Names) /\ Len(r) = Len(q) + 1
    BY SMT, <1>1
  <1>3. r[1] = n /\ \A i \in 1 .. Len(q) : r[i + 1] = q[i]
    BY SMT, <1>1
  <1>4. \A i \in 1 .. Len(r) : i = 1 \/ (i - 1 \in 1 .. Len(q) /\ r[i] = q[i - 1])
    BY SMT, <1>1, <1>2
  <1> HIDE DEF r
  <1>5. \A i \in 1 .. Len(r) : r[i] \in S \cup {n}
    BY <1>3, <1>4 DEF Lists
  <1>6. \A m \in S \cup {n} : \E i \in 1 .. Len(r) : r[i] = m
    <2>1. 1 \in 1 .. Len(r) /\ \A i \in 1 .. Len(q) : i + 1 \in 1 .. Len(r)
      BY SMT, <1>1, <1>2
    <2>2. ASSUME NEW m \in S PROVE \E i \in 1 .. Len(r) : r[i] = m
      <3>1. PICK i \in 1 .. Len(q) : q[i] = m
        BY DEF Lists
      <3> QED
        BY <1>3, <2>1, <3>1
    <2> QED
      BY <1>3, <2>1, <2>2
  <1>7. \A i, j \in 1 .. Len(r) : r[i] = r[j] => i = j
    <2> SUFFICES ASSUME NEW i \in 1 .. Len(r), NEW j \in 1 .. Len(r), r[i] = r[j] PROVE i = j
      OBVIOUS
    <2>1. i \in Nat /\ j \in Nat
      BY SMT, <1>1, <1>2
    <2>5. \A k \in 1 .. Len(q) : q[k] # n
      BY DEF Lists
    <2>2. i # 1 => i - 1 \in 1 .. Len(q) /\ r[i] = q[i - 1] /\ r[i] # n
      BY <1>4, <2>5
    <2>3. j # 1 => j - 1 \in 1 .. Len(q) /\ r[j] = q[j - 1] /\ r[j] # n
      BY <1>4, <2>5
    <2>4. i # 1 /\ j # 1 => i - 1 = j - 1
      BY <2>2, <2>3 DEF Lists
    <2> QED
      BY SMT, <1>3, <2>1, <2>2, <2>3, <2>4
  <1> QED
    BY <1>2, <1>5, <1>6, <1>7 DEF Lists, r

\* The beginning of a list.
LEMMA Prefix ==
    ASSUME NEW T, NEW q \in Seq(T), NEW l \in 0 .. Len(q)
    PROVE  /\ SubSeq(q, 1, l) \in Seq(T)
           /\ Len(SubSeq(q, 1, l)) = l
           /\ \A i \in 1 .. l : SubSeq(q, 1, l)[i] = q[i]
  BY SMT

\* The last element taken off.
LEMMA PopLists ==
    ASSUME NEW q, NEW S, Lists(q, S), Len(q) > 0
    PROVE  /\ Lists(SubSeq(q, 1, Len(q) - 1), S \ {q[Len(q)]})
           /\ Len(SubSeq(q, 1, Len(q) - 1)) = Len(q) - 1
           /\ q[Len(q)] \in S
  <1> DEFINE r == SubSeq(q, 1, Len(q) - 1)
  <1>1. q \in Seq(Names) /\ Len(q) \in Nat /\ Len(q) \in 1 .. Len(q)
    BY SMT DEF Lists
  <1>2. r \in Seq(Names) /\ Len(r) = Len(q) - 1 /\ \A i \in 1 .. Len(r) : r[i] = q[i]
    <2>1. Len(q) - 1 \in 0 .. Len(q)
      BY SMT, <1>1
    <2> QED
      BY <1>1, <2>1, Prefix
  <1> HIDE DEF r
  <1>3. \A i \in 1 .. Len(r) : i \in 1 .. Len(q) /\ i # Len(q)
    BY SMT, <1>1, <1>2
  <1>4. \A i \in 1 .. Len(q) : i \in 1 .. Len(r) \/ i = Len(q)
    BY SMT, <1>1, <1>2
  <1>5. \A i \in 1 .. Len(r) : r[i] \in S \ {q[Len(q)]}
    BY <1>1, <1>2, <1>3 DEF Lists
  <1>6. \A n \in S \ {q[Len(q)]} : \E i \in 1 .. Len(r) : r[i] = n
    BY <1>2, <1>4 DEF Lists
  <1>7. \A i, j \in 1 .. Len(r) : r[i] = r[j] => i = j
    BY <1>2, <1>3 DEF Lists
  <1>8. q[Len(q)] \in S
    BY <1>1 DEF Lists
  <1> QED
    BY <1>2, <1>5, <1>6, <1>7, <1>8 DEF Lists, r

\* An element taken out of the middle.
LEMMA WithoutLists ==
    ASSUME NEW S, Lists(lru, S), NEW n \in Names
    PROVE  /\ Lists(Without(n), S \ {n})
           /\ Len(Without(n)) = IF n \in S THEN Len(lru) - 1 ELSE Len(lru)
  <1>1. CASE n \notin S
    <2>1. Without(n) = lru
      BY SMT, <1>1 DEF Without, Lists
    <2>2. S \ {n} = S
      BY <1>1
    <2> QED
      BY <1>1, <2>1, <2>2
  <1>2. CASE n \in S
    <2> DEFINE k == CHOOSE i \in 1 .. Len(lru) : lru[i] = n
               w == [j \in 1 .. Len(lru) - 1 |-> IF j < k THEN lru[j] ELSE lru[j + 1]]
    <2>1. Without(n) = w
      BY <1>2 DEF Without, Lists
    <2>2. k \in 1 .. Len(lru) /\ lru[k] = n
      BY <1>2 DEF Lists
    <2>3. Len(lru) \in Nat /\ \A i \in 1 .. Len(lru) : lru[i] \in Names
      BY SMT DEF Lists
    <2> HIDE DEF k
    <2>4. w \in Seq(Names) /\ Len(w) = Len(lru) - 1
      BY SMT, <2>2, <2>3
    <2>5. \A j \in 1 .. Len(w) : w[j] = IF j < k THEN lru[j] ELSE lru[j + 1]
      BY <2>4
    <2> HIDE DEF w
    <2>6. \A i, j \in 1 .. Len(w) : w[i] = w[j] => i = j
      <3> DEFINE At(j) == IF j < k THEN j ELSE j + 1
      <3>3. k \in Nat /\ k <= Len(lru)
        BY SMT, <2>2, <2>3
      <3>1. ASSUME NEW j \in 1 .. Len(w)
            PROVE  At(j) \in 1 .. Len(lru) /\ w[j] = lru[At(j)]
        <4>1. CASE j < k
          BY SMT, <2>3, <2>4, <2>5, <3>3, <4>1
        <4>2. CASE ~(j < k)
          BY SMT, <2>3, <2>4, <2>5, <3>3, <4>2
        <4> QED
          BY <4>1, <4>2
      <3>2. \A i, j \in 1 .. Len(w) : At(i) = At(j) => i = j
        BY SMT, <2>2, <2>3, <2>4
      <3> HIDE DEF At
      <3> QED
        BY SMTT(30), <3>1, <3>2 DEF Lists
    <2>7. \A i \in 1 .. Len(w) : w[i] \in S \ {n}
      BY SMT, <2>2, <2>3, <2>4, <2>5 DEF Lists
    <2>8. ASSUME NEW m \in S \ {n} PROVE \E i \in 1 .. Len(w) : w[i] = m
      <3>1. PICK j \in 1 .. Len(lru) : lru[j] = m
        BY DEF Lists
      <3>2. CASE j < k
        <4>1. j \in 1 .. Len(w) /\ w[j] = m
          BY SMT, <2>2, <2>3, <2>4, <2>5, <3>1, <3>2
        <4> QED
          BY <4>1
      <3>3. CASE j > k
        <4>1. j - 1 \in 1 .. Len(w) /\ ~(j - 1 < k) /\ (j - 1) + 1 = j
          BY SMT, <2>2, <2>3, <2>4, <3>3
        <4>2. w[j - 1] = m
          BY <2>5, <3>1, <4>1
        <4> QED
          BY <4>1, <4>2
      <3>4. j < k \/ j > k
        BY SMT, <2>2, <2>3, <3>1
      <3> QED
        BY <3>2, <3>3, <3>4
    <2> QED
      BY <1>2, <2>1, <2>4, <2>6, <2>7, <2>8 DEF Lists
  <1> QED
    BY <1>1, <1>2

\* The list is that of the cache, no longer than the capacity; an element that a hit
\* holds on to is in the list; and nothing is cached in a closed store.
LruInv ==
    /\ Lists(lru, Cached)
    /\ Len(lru) <= Capacity
    /\ elem \in [Procs -> Names \cup {None}]
    /\ \A p \in Procs : elem[p] # None => elem[p] \in Cached
    /\ closed => Cached = {}
    /\ torn \in BOOLEAN

\* Moving a cached name to the front.
LEMMA ToFrontLists ==
    ASSUME LruInv, NEW n \in Cached
    PROVE  Lists(ToFront(n), Cached) /\ Len(ToFront(n)) = Len(lru)
  <1>1. n \in Names
    BY DEF Cached
  <1>2. Lists(Without(n), Cached \ {n}) /\ Len(Without(n)) = Len(lru) - 1 /\ Len(lru) \in Nat
    BY <1>1, WithoutLists, ListsCount DEF LruInv
  <1>3. n \notin Cached \ {n} /\ (Cached \ {n}) \cup {n} = Cached
    OBVIOUS
  <1>4. Lists(ToFront(n), (Cached \ {n}) \cup {n}) /\ Len(ToFront(n)) = Len(Without(n)) + 1
    BY <1>1, <1>2, <1>3, PushLists DEF ToFront
  <1>5. Lists(ToFront(n), Cached)
    BY <1>3, <1>4
  <1>6. Len(ToFront(n)) = Len(lru)
    BY SMT, <1>2, <1>4
  <1> QED
    BY <1>5, <1>6

\* addToCache, with and without an eviction.
LEMMA AddLists ==
    ASSUME cache \in [Names -> Keys \cup {None}], LruInv, NEW n \in Names, NEW k \in Keys,
           AddToCache(n, k)
    PROVE  /\ Lists(lru', Cached') /\ Len(lru') <= Capacity
           /\ elem' \in [Procs -> Names \cup {None}]
           /\ \A p \in Procs : elem'[p] # None => elem'[p] \in Cached'
  <1>1. k # None /\ Capacity \in Nat /\ Capacity > 0
    BY SMT, NoneAssumption, CapacityAssumption
  <1>2. Cardinality(Cached) = Len(lru) /\ Len(lru) \in Nat /\ Len(lru) <= Capacity
    BY ListsCount DEF LruInv
  <1>3. CASE cache[n] # None
    <2>1. n \in Cached /\ cache' = [cache EXCEPT ![n] = k] /\ lru' = ToFront(n) /\ UNCHANGED elem
      BY <1>3 DEF AddToCache, Cached
    <2>2. Cached' = Cached
      BY <1>1, <2>1 DEF Cached
    <2> QED
      BY <1>2, <2>1, <2>2, ToFrontLists DEF LruInv
  <1>4. CASE cache[n] = None /\ Cardinality(Cached) < Capacity
    <2>1. cache' = [cache EXCEPT ![n] = k] /\ lru' = <<n>> \o lru /\ UNCHANGED elem
      BY SMT, <1>1, <1>2, <1>4 DEF AddToCache
    <2>2. Cached' = Cached \cup {n} /\ n \notin Cached
      BY <1>1, <1>4, <2>1 DEF Cached
    <2>3. Lists(lru', Cached') /\ Len(lru') = Len(lru) + 1
      BY <2>1, <2>2, PushLists DEF LruInv
    <2> QED
      BY SMT, <1>1, <1>2, <1>4, <2>1, <2>2, <2>3 DEF LruInv
  <1>5. CASE cache[n] = None /\ Cardinality(Cached) >= Capacity
    <2> DEFINE v == lru[Len(lru)]
    <2>1. /\ cache' = [cache EXCEPT ![n] = k, ![v] = None]
          /\ lru' = <<n>> \o SubSeq(lru, 1, Len(lru) - 1)
          /\ Forget({v})
      BY SMT, <1>1, <1>2, <1>5 DEF AddToCache
    <2>2. /\ Lists(SubSeq(lru, 1, Len(lru) - 1), Cached \ {v}) /\ v \in Cached
          /\ Len(SubSeq(lru, 1, Len(lru) - 1)) = Len(lru) - 1
      <3>1. Len(lru) > 0 /\ Lists(lru, Cached)
        BY SMT, <1>1, <1>2, <1>5 DEF LruInv
      <3> QED
        BY <3>1, PopLists
    <2>3. n \notin Cached /\ n # v
      BY <1>5, <2>2 DEF Cached
    <2> HIDE DEF v
    <2>4. Cached' = (Cached \ {v}) \cup {n}
      BY <1>1, <1>5, <2>1, <2>2, <2>3 DEF Cached
    <2>5. Lists(lru', Cached') /\ Len(lru') = (Len(lru) - 1) + 1
      BY SMT, <2>1, <2>2, <2>3, <2>4, PushLists
    <2>6. /\ elem' \in [Procs -> Names \cup {None}]
          /\ \A p \in Procs : elem'[p] # None => elem'[p] = elem[p] /\ elem'[p] # v
      BY <2>1 DEF Forget, LruInv
    <2> QED
      BY SMT, <1>2, <2>4, <2>5, <2>6 DEF LruInv
  <1> QED
    BY SMT, <1>1, <1>2, <1>3, <1>4, <1>5

\* removeFromCache
LEMMA RemoveLists ==
    ASSUME cache \in [Names -> Keys \cup {None}], LruInv, NEW n \in Names, RemoveFromCache(n)
    PROVE  /\ Lists(lru', Cached') /\ Len(lru') <= Capacity
           /\ elem' \in [Procs -> Names \cup {None}]
           /\ \A p \in Procs : elem'[p] # None => elem'[p] \in Cached'
           /\ Cached' \subseteq Cached
  <1>1. Cached' = Cached \ {n}
    BY DEF RemoveFromCache, Cached
  <1>2. Lists(lru', Cached \ {n}) /\ Len(lru') \in {Len(lru) - 1, Len(lru)}
    BY WithoutLists DEF LruInv, RemoveFromCache
  <1>3. Len(lru) \in Nat /\ Len(lru) <= Capacity /\ Capacity \in Nat
    BY ListsCount, CapacityAssumption DEF LruInv
  <1>4. Len(lru') <= Capacity
    BY SMT, <1>2, <1>3
  <1>5. /\ elem' \in [Procs -> Names \cup {None}]
        /\ \A p \in Procs : elem'[p] # None => elem'[p] = elem[p] /\ elem'[p] # n
    BY DEF RemoveFromCache, Forget, LruInv
  <1> QED
    BY <1>1, <1>2, <1>4, <1>5 DEF LruInv

\* An empty cache.
LEMMA ClearLists ==
    ASSUME cache' = [n \in Names |-> None], lru' = <<>>,
           elem' \in [Procs -> {None}]
    PROVE  /\ Lists(lru', Cached') /\ Len(lru') <= Capacity
           /\ elem' \in [Procs -> Names \cup {None}]
           /\ \A p \in Procs : elem'[p] # None => elem'[p] \in Cached'
           /\ Cached' = {}
  <1>1. Cached' = {}
    BY DEF Cached
  <1>2. <<>> \in Seq(Names) /\ Len(<<>>) = 0
    BY SMT
  <1>3. Lists(lru', Cached')
    BY SMT, <1>1, <1>2 DEF Lists
  <1> QED
    BY SMT, <1>1, <1>2, <1>3, CapacityAssumption

\* Every step keeps the list that of the cache.
LEMMA NextLru == Shape /\ LruInv /\ [Next]_vars => LruInv'
  <1> SUFFICES ASSUME Shape, LruInv, [Next]_vars PROVE LruInv'
    OBVIOUS
  <1>1. cache \in [Names -> Keys \cup {None}] /\ closed \in BOOLEAN
    BY DEF Shape
  \* The list and the cache stay, and no element is picked up.
  <1>2. CASE /\ UNCHANGED <<cache, lru, closed>> /\ torn' \in BOOLEAN
             /\ elem' \in [Procs -> Names \cup {None}]
             /\ \A p \in Procs : elem'[p] # None => elem'[p] \in Cached
    BY <1>2 DEF LruInv, Cached
  <1>3. CASE UNCHANGED <<cacheVars, closed>> /\ torn' \in BOOLEAN
    BY <1>2, <1>3 DEF LruInv, cacheVars
  <1>4. CASE ClearCache /\ torn' \in BOOLEAN
    <2>1. elem' \in [Procs -> {None}]
      BY <1>4 DEF ClearCache, Forget, LruInv
    <2> QED
      BY <1>4, <2>1, ClearLists DEF ClearCache, LruInv
  <1>5. ASSUME NEW n \in Names, RemoveFromCache(n), UNCHANGED <<closed, torn>> PROVE LruInv'
    BY <1>1, <1>5, RemoveLists DEF LruInv
  <1>6. torn \in BOOLEAN
    BY DEF LruInv
  <1>7. ASSUME NEW p \in Procs, PromoteElem(p) PROVE LruInv'
    <2>1. UNCHANGED <<cache, closed, torn>> /\ elem' = [elem EXCEPT ![p] = None]
      BY <1>7 DEF PromoteElem, fixed
    <2>2. /\ elem' \in [Procs -> Names \cup {None}]
          /\ \A q \in Procs : elem'[q] # None => elem'[q] \in Cached
      BY <2>1 DEF LruInv
    <2>3. CASE lru' = lru
      BY <1>2, <1>6, <2>1, <2>2, <2>3
    <2>4. CASE elem[p] # None /\ lru' = ToFront(elem[p])
      <3>1. elem[p] \in Cached
        BY <2>4 DEF LruInv
      <3>2. Lists(lru', Cached) /\ Len(lru') = Len(lru)
        BY <2>4, <3>1, ToFrontLists
      <3>3. Cached' = Cached
        BY <2>1 DEF Cached
      <3> QED
        BY <2>1, <2>2, <3>2, <3>3 DEF LruInv
    <2> QED
      BY <1>7, <2>3, <2>4 DEF PromoteElem
  <1>8. ASSUME NEW p \in Procs, Fill(p) PROVE LruInv'
    <2>1. UNCHANGED <<closed, torn>> /\ name[p] \in Names /\ key[p] \in Keys
      BY <1>8 DEF Fill, fixed, Shape
    <2>2. CASE UNCHANGED cacheVars
      BY <1>3, <1>6, <2>1, <2>2
    <2>3. CASE ~closed /\ AddToCache(name[p], key[p])
      <3>1. ~closed'
        BY <2>1, <2>3
      <3> QED
        BY <1>1, <1>6, <2>1, <2>3, <3>1, AddLists DEF LruInv
    <2> QED
      BY <1>8, <2>2, <2>3 DEF Fill
  <1>9. ASSUME NEW p \in Procs, Close(p) \/ Crash(p) PROVE LruInv'
    BY <1>4, <1>6, <1>9 DEF Close, Crash, fixed
  <1>10. ASSUME NEW p \in Procs, Invalidate(p) PROVE LruInv'
    BY <1>4, <1>5, <1>6, <1>10 DEF Invalidate, fixed
  <1>11. ASSUME NEW p \in Procs, NEW n \in Names, BeginDelete(p, n) PROVE LruInv'
    BY <1>5, <1>11 DEF BeginDelete, fixed
  <1>12. ASSUME NEW p \in Procs, NEW n \in Names, LoadHit(p, n) PROVE LruInv'
    <2>1. UNCHANGED <<cache, lru, closed, torn>> /\ n \in Cached /\ elem' = [elem EXCEPT ![p] = n]
      BY <1>12 DEF LoadHit, fixed, Cached
    <2> QED
      BY <1>2, <1>6, <2>1 DEF LruInv
  <1>13. ASSUME NEW p \in Procs, Repair(p) PROVE LruInv'
    <2>1. torn' \in BOOLEAN /\ UNCHANGED <<cacheVars, closed>>
      BY <1>6, <1>13 DEF Repair
    <2> QED
      BY <1>3, <2>1
  <1>14. CASE UNCHANGED <<cacheVars, closed, fixed>>
    BY <1>3, <1>6, <1>14 DEF fixed
  <1> QED
    BY <1>7, <1>8, <1>9, <1>10, <1>11, <1>12, <1>13, <1>14
       DEF Next, Step, Call, vars, BackendLoad, BackendStore, BackendDelete, BackendList, Refuse,
           BeginList, LoadMiss, BeginStore

\* The LRU list and the cache agree in every state, for any number of goroutines, names and
\* keys, any capacity, kind of backend, faults and crashes: an element that a hit found
\* under the read lock is moved under the write lock only while it is in the list, every
\* eviction and removal takes it off the list, and a Load or Store that Close overtook
\* caches nothing.
THEOREM ListsCache == Spec => []LruListsCache
  <1>1. Init => LruInv
    <2> SUFFICES ASSUME Init PROVE LruInv
      OBVIOUS
    <2>1. Cached = {} /\ lru = <<>> /\ <<>> \in Seq(Names) /\ Len(<<>>) = 0
      BY SMT DEF Init, Cached
    <2>2. Lists(lru, Cached)
      BY SMT, <2>1 DEF Lists
    <2>3. elem = [p \in Procs |-> None] /\ closed = FALSE /\ torn = FALSE
      BY DEF Init
    <2>4. Len(lru) <= Capacity
      BY SMT, <2>1, CapacityAssumption
    <2> QED
      BY <2>1, <2>2, <2>3, <2>4 DEF LruInv
  <1>2. Shape /\ LruInv => LruListsCache
    <2> SUFFICES ASSUME Shape, LruInv PROVE LruListsCache
      OBVIOUS
    <2>1. TypeOK
      BY DEF Shape, LruInv, TypeOK, Lists
    <2>2. Cached = {lru[i] : i \in 1 .. Len(lru)}
      BY SMT DEF LruInv, Lists
    <2>3. Cardinality(Cached) = Len(lru)
      BY ListsCount DEF LruInv
    <2> QED
      BY <2>1, <2>2, <2>3 DEF LruInv, LruListsCache
  <1> QED
    BY <1>1, <1>2, NextLru, ShapeCorrect, PTL DEF Spec
=============================================================================
