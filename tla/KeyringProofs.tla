---------------------------- MODULE KeyringProofs ----------------------------
(***************************************************************************)
(* Proofs about the keyring, for any names, goroutines, cache sizes and    *)
(* faults of the store, and any number of signers.                         *)
(***************************************************************************)
EXTENDS Keyring, FiniteSetTheorems, TLAPS

USE Zenon

-----------------------------------------------------------------------------
(* Types, and what a call works with at each label *)

NameLabels == {"has", "put", "load", "fill", "read", "delete", "signLoad", "signing", "closeDelete"}

TypeInv ==
    /\ TypeOK
    /\ \A p \in Procs : pc[p] \in NameLabels => name[p] \in Names
    /\ \A p \in Procs : pc[p] \in {"put", "fill"} => sig[p] # None

\* cacheOrder lists the cached names, each once, at most maxCacheSize of them.
Listed ==
    /\ \A n \in Names : cache[n] # None <=> \E i \in 1 .. Len(order) : order[i] = n
    /\ \A i, j \in 1 .. Len(order) : order[i] = order[j] => i = j
    /\ Len(order) <= maxCacheSize

\* zeroizeSigner changes no signer but those it is given.
LEMMA ZeroizedKeeps ==
    ASSUME TypeOK, NEW S
    PROVE  /\ Zeroized(S) \in Seq(Signers)
           /\ Len(Zeroized(S)) = Len(signers)
           /\ \A i \in 1 .. Len(signers) :
                Zeroized(S)[i].zero <=> (i \in S \/ signers[i].zero)
  <1>1. ASSUME NEW i \in 1 .. Len(signers)
        PROVE  /\ (IF i \in S THEN [signers[i] EXCEPT !.zero = TRUE] ELSE signers[i]) \in Signers
               /\ (IF i \in S THEN [signers[i] EXCEPT !.zero = TRUE] ELSE signers[i]).zero
                    <=> (i \in S \/ signers[i].zero)
    <2>1. signers[i] \in Signers
      BY SMT DEF TypeOK
    <2> QED
      BY <2>1 DEF Signers
  <1>2. Len(signers) \in Nat
    BY SMT DEF TypeOK
  <1> QED
    BY SMT, <1>1, <1>2 DEF Zeroized

\* Taking a name off cacheOrder leaves the others, in order.
LEMMA WithoutLists ==
    ASSUME order \in Seq(Names), \A i, j \in 1 .. Len(order) : order[i] = order[j] => i = j,
           NEW n \in Names
    PROVE  /\ Without(n) \in Seq(Names)
           /\ \A m \in Names : (\E i \in 1 .. Len(Without(n)) : Without(n)[i] = m) <=>
                                 (m # n /\ \E i \in 1 .. Len(order) : order[i] = m)
           /\ \A i, j \in 1 .. Len(Without(n)) : Without(n)[i] = Without(n)[j] => i = j
           /\ Len(Without(n)) = IF \E i \in 1 .. Len(order) : order[i] = n
                                THEN Len(order) - 1 ELSE Len(order)
  <1>1. CASE ~\E i \in 1 .. Len(order) : order[i] = n
    BY <1>1 DEF Without
  <1>2. CASE \E i \in 1 .. Len(order) : order[i] = n
    <2> DEFINE k == CHOOSE i \in 1 .. Len(order) : order[i] = n
               w == [j \in 1 .. Len(order) - 1 |-> IF j < k THEN order[j] ELSE order[j + 1]]
    <2>1. Without(n) = w
      BY <1>2 DEF Without
    <2>2. k \in 1 .. Len(order) /\ order[k] = n
      BY <1>2
    <2>3. Len(order) \in Nat /\ \A i \in 1 .. Len(order) : order[i] \in Names
      BY SMT
    <2> HIDE DEF k
    <2>4. w \in Seq(Names) /\ Len(w) = Len(order) - 1
      BY SMT, <2>2, <2>3
    <2>5. \A i, j \in 1 .. Len(w) : w[i] = w[j] => i = j
      BY SMT, <2>2, <2>3, <2>4
    <2>6. ASSUME NEW m \in Names, NEW i \in 1 .. Len(w), w[i] = m
          PROVE  m # n /\ \E j \in 1 .. Len(order) : order[j] = m
      BY SMT, <2>2, <2>3, <2>4, <2>6
    <2>7. ASSUME NEW m \in Names, m # n, NEW j \in 1 .. Len(order), order[j] = m
          PROVE  \E i \in 1 .. Len(w) : w[i] = m
      <3>1. CASE j < k
        <4>1. j \in 1 .. Len(w) /\ w[j] = m
          BY SMT, <2>2, <2>3, <2>4, <2>7, <3>1
        <4> QED
          BY <4>1
      <3>2. CASE j > k
        <4>1. j - 1 \in 1 .. Len(w) /\ ~(j - 1 < k) /\ (j - 1) + 1 = j
          BY SMT, <2>2, <2>3, <2>4, <3>2
        <4>2. w[j - 1] = m
          BY <2>4, <2>7, <4>1
        <4> QED
          BY <4>1, <4>2
      <3>3. j < k \/ j > k
        BY SMT, <2>2, <2>3, <2>7
      <3> QED
        BY <3>1, <3>2, <3>3
    <2> HIDE DEF w
    <2> QED
      BY <1>2, <2>1, <2>4, <2>5, <2>6, <2>7
  <1> QED
    BY <1>1, <1>2

\* cacheOrder is as long as the cache has entries.
LEMMA CachedCount ==
    ASSUME TypeOK, Listed
    PROVE  Cardinality(Cached) = Len(order)
  <1>1. Len(order) \in Nat
    BY SMT DEF TypeOK
  <1>2. [i \in 1 .. Len(order) |-> order[i]] \in Bijection(1 .. Len(order), Cached)
    <2> DEFINE f == [i \in 1 .. Len(order) |-> order[i]]
    <2>1. \A i \in 1 .. Len(order) : order[i] \in Cached
      BY SMT DEF TypeOK, Listed, Cached
    <2>2. f \in [1 .. Len(order) -> Cached] /\ DOMAIN f = 1 .. Len(order)
      BY <2>1
    <2>3. \A i \in 1 .. Len(order) : f[i] = order[i]
      OBVIOUS
    <2>4. \A n \in Cached : \E i \in 1 .. Len(order) : order[i] = n
      BY DEF Cached, Listed
    <2> HIDE DEF f
    <2>5. IsInjective(f)
      BY <2>2, <2>3 DEF IsInjective, Listed
    <2>6. f \in Injection(1 .. Len(order), Cached) /\ f \in Surjection(1 .. Len(order), Cached)
      BY <2>2, <2>3, <2>4, <2>5 DEF Injection, Surjection
    <2> QED
      BY <2>6 DEF Bijection, f
  <1>3. ExistsBijection(1 .. Len(order), Cached)
    BY <1>2 DEF ExistsBijection
  <1>4. IsFiniteSet(1 .. Len(order)) /\ Cardinality(1 .. Len(order)) = Len(order)
    <2>1. 1 \in Int /\ Len(order) \in Int
      BY SMT, <1>1
    <2>2. /\ IsFiniteSet(1 .. Len(order))
          /\ Cardinality(1 .. Len(order)) = IF 1 > Len(order) THEN 0 ELSE Len(order) - 1 + 1
      BY <2>1, FS_Interval, Zenon
    <2> QED
      BY SMT, <1>1, <2>2
  <1> QED
    BY <1>3, <1>4, FS_Bijection

\* Eviction makes room for one, and takes off names that are listed.
LEMMA EvictionsMakeRoom ==
    ASSUME TypeOK, Listed, maxCacheSize > 0
    PROVE  /\ Evictions \in 0 .. Len(order)
           /\ Len(order) - Evictions + 1 <= maxCacheSize
  <1>1. Len(order) \in Nat /\ maxCacheSize \in Nat /\ Len(order) <= maxCacheSize
    BY SMT, CacheSizesAssumption DEF TypeOK, Listed
  <1> QED
    BY SMT, <1>1, CachedCount DEF Evictions

\* What is left of a list when its first e elements are taken off.
LEMMA Suffix ==
    ASSUME NEW T, NEW q \in Seq(T), NEW e \in 0 .. Len(q)
    PROVE  /\ SubSeq(q, e + 1, Len(q)) \in Seq(T)
           /\ Len(SubSeq(q, e + 1, Len(q))) = Len(q) - e
           /\ \A i \in 1 .. Len(q) - e : SubSeq(q, e + 1, Len(q))[i] = q[i + e]
  BY SMT

\* Inserting a name that is not cached, with the evictions before it.
LEMMA InsertLists ==
    ASSUME TypeOK, Listed, maxCacheSize > 0, NEW n \in Names, cache[n] = None,
           NEW s \in 1 .. Len(signers), Insert(n, s)
    PROVE  /\ cache' \in [Names -> (1 .. Len(signers)) \cup {None}]
           /\ order' \in Seq(Names)
           /\ \A m \in Names : cache'[m] # None <=> \E i \in 1 .. Len(order') : order'[i] = m
           /\ \A i, j \in 1 .. Len(order') : order'[i] = order'[j] => i = j
           /\ Len(order') <= maxCacheSize
  <1> DEFINE e == Evictions
             r == SubSeq(order, e + 1, Len(order))
             out == {order[i] : i \in 1 .. e}
  <1>1. e \in 0 .. Len(order) /\ Len(order) - e + 1 <= maxCacheSize /\ Len(order) \in Nat
    BY SMT, EvictionsMakeRoom DEF TypeOK
  <1>2. /\ cache' = [m \in Names |-> IF m = n THEN s ELSE IF m \in out THEN None ELSE cache[m]]
        /\ order' = Append(r, n)
    BY DEF Insert
  <1> HIDE DEF e
  <1>3. r \in Seq(Names) /\ Len(r) = Len(order) - e /\ \A i \in 1 .. Len(r) : r[i] = order[i + e]
    <2>1. order \in Seq(Names)
      BY DEF TypeOK
    <2> QED
      BY <1>1, <2>1, Suffix
  <1> HIDE DEF r
  <1>4. /\ order' \in Seq(Names) /\ Len(order') = Len(r) + 1
        /\ order'[Len(r) + 1] = n
        /\ \A i \in 1 .. Len(r) : order'[i] = order[i + e] /\ i + e \in 1 .. Len(order)
    BY SMT, <1>1, <1>2, <1>3
  <1>5. \A i \in 1 .. Len(order) : order[i] # n
    BY DEF Listed
  <1>6. \A i, j \in 1 .. Len(order') : order'[i] = order'[j] => i = j
    <2> SUFFICES ASSUME NEW i \in 1 .. Len(order'), NEW j \in 1 .. Len(order'), order'[i] = order'[j]
                 PROVE  i = j
      OBVIOUS
    <2>1. CASE i \in 1 .. Len(r) /\ j \in 1 .. Len(r)
      <3>1. order[i + e] = order[j + e] /\ i + e \in 1 .. Len(order) /\ j + e \in 1 .. Len(order)
        BY <1>4, <2>1
      <3>2. i + e = j + e
        BY <3>1 DEF Listed
      <3> QED
        BY SMT, <1>1, <3>2
    <2>2. \A k \in 1 .. Len(r) : order'[k] # order'[Len(r) + 1]
      BY <1>4, <1>5
    <2>3. (i \in 1 .. Len(r) \/ i = Len(r) + 1) /\ (j \in 1 .. Len(r) \/ j = Len(r) + 1)
      BY SMT, <1>3, <1>4
    <2> QED
      BY <2>1, <2>2, <2>3
  <1>7. ASSUME NEW m \in Names
        PROVE  cache'[m] # None <=> \E i \in 1 .. Len(order') : order'[i] = m
    <2>1. CASE m = n
      <3>1. Len(r) + 1 \in 1 .. Len(order')
        BY SMT, <1>1, <1>3, <1>4
      <3>2. s # None
        BY SMT, NoneAssumption DEF Keys
      <3> QED
        BY <1>2, <1>4, <2>1, <3>1, <3>2
    <2>2. CASE m # n /\ m \in out
      <3>1. PICK k \in 1 .. e : order[k] = m
        BY <2>2
      <3>2. ASSUME NEW i \in 1 .. Len(order'), order'[i] = m PROVE FALSE
        <4>1. i \in 1 .. Len(r)
          BY SMT, <1>1, <1>3, <1>4, <2>2, <3>2
        <4>2. order[i + e] = order[k] /\ k \in 1 .. Len(order)
          BY SMT, <1>1, <1>4, <3>1, <3>2, <4>1
        <4>3. i + e = k
          BY <1>4, <4>1, <4>2 DEF Listed
        <4> QED
          BY SMT, <1>1, <3>1, <4>1, <4>3
      <3> QED
        BY <1>2, <2>2, <3>2
    <2>3. CASE m # n /\ m \notin out
      <3>1. cache'[m] = cache[m]
        BY <1>2, <2>3
      <3>2. ASSUME NEW k \in 1 .. Len(order), order[k] = m
            PROVE  \E i \in 1 .. Len(order') : order'[i] = m
        <4>1. k \notin 1 .. e
          BY <2>3, <3>2
        <4>2. k - e \in 1 .. Len(r) /\ (k - e) + e = k
          BY SMT, <1>1, <1>3, <4>1
        <4>3. order'[k - e] = m /\ k - e \in 1 .. Len(order')
          BY SMTT(30), <1>1, <1>3, <1>4, <3>2, <4>2
        <4> QED
          BY <4>3
      <3>3. ASSUME NEW i \in 1 .. Len(order'), order'[i] = m
            PROVE  \E k \in 1 .. Len(order) : order[k] = m
        <4>1. i \in 1 .. Len(r)
          BY SMT, <1>1, <1>3, <1>4, <2>3, <3>3
        <4> QED
          BY <1>4, <3>3, <4>1
      <3> QED
        BY <3>1, <3>2, <3>3 DEF Listed
    <2> QED
      BY <2>1, <2>2, <2>3
  <1>8. cache' \in [Names -> (1 .. Len(signers)) \cup {None}]
    BY <1>2 DEF TypeOK
  <1>9. Len(order') <= maxCacheSize
    BY <1>1, <1>3, <1>4
  <1> QED
    BY <1>4, <1>6, <1>7, <1>8, <1>9

\* moveToFront of a cached name.
LEMMA PromoteLists ==
    ASSUME TypeOK, Listed, NEW n \in Names, cache[n] # None, Promote(n)
    PROVE  /\ order' \in Seq(Names)
           /\ \A m \in Names : cache[m] # None <=> \E i \in 1 .. Len(order') : order'[i] = m
           /\ \A i, j \in 1 .. Len(order') : order'[i] = order'[j] => i = j
           /\ Len(order') = Len(order)
  <1> DEFINE w == Without(n)
  <1>1. /\ w \in Seq(Names)
        /\ \A m \in Names : (\E i \in 1 .. Len(w) : w[i] = m) <=> (m # n /\ cache[m] # None)
        /\ \A i, j \in 1 .. Len(w) : w[i] = w[j] => i = j
        /\ Len(w) = Len(order) - 1 /\ Len(order) \in Nat /\ Len(w) \in Nat
    BY SMTT(30), WithoutLists DEF TypeOK, Listed
  <1>2. order' = Append(w, n)
    BY DEF Promote
  <1> HIDE DEF w
  <1>3. /\ order' \in Seq(Names) /\ Len(order') = Len(w) + 1
        /\ order'[Len(w) + 1] = n
        /\ \A i \in 1 .. Len(w) : order'[i] = w[i]
    BY SMT, <1>1, <1>2
  <1>4. \A i \in 1 .. Len(w) : w[i] # n
    BY <1>1
  <1>5. \A i, j \in 1 .. Len(order') : order'[i] = order'[j] => i = j
    <2>1. \A i \in 1 .. Len(order') : i \in 1 .. Len(w) \/ i = Len(w) + 1
      BY SMT, <1>1, <1>3
    <2>2. \A k \in 1 .. Len(w) : order'[k] # order'[Len(w) + 1]
      BY <1>3, <1>4
    <2>3. \A i, j \in 1 .. Len(w) : order'[i] = order'[j] => i = j
      BY ZenonT(40), <1>1, <1>3
    <2> QED
      BY <2>1, <2>2, <2>3
  <1>6. ASSUME NEW m \in Names
        PROVE  cache[m] # None <=> \E i \in 1 .. Len(order') : order'[i] = m
    <2>1. CASE m = n
      <3>1. Len(w) + 1 \in 1 .. Len(order')
        BY SMT, <1>1, <1>3
      <3> QED
        BY <1>3, <2>1, <3>1
    <2>2. CASE m # n
      <3>1. \A i \in 1 .. Len(order') : order'[i] = m => i \in 1 .. Len(w)
        BY SMT, <1>1, <1>3, <2>2
      <3>2. \A i \in 1 .. Len(w) : i \in 1 .. Len(order')
        BY SMT, <1>1, <1>3
      <3>3. (\E i \in 1 .. Len(order') : order'[i] = m) <=> (\E i \in 1 .. Len(w) : w[i] = m)
        BY <1>3, <3>1, <3>2
      <3> QED
        BY <1>1, <2>2, <3>3
    <2> QED
      BY <2>1, <2>2
  <1>7. Len(order') = Len(order)
    BY SMT, <1>1, <1>3
  <1> QED
    BY <1>3, <1>5, <1>6, <1>7
-----------------------------------------------------------------------------
(* CacheListed *)

\* An empty cache has an empty list.
LEMMA InitListed == Init => TypeInv /\ Listed
  <1> SUFFICES ASSUME Init PROVE TypeInv /\ Listed
    OBVIOUS
  <1>1. store \in [Names -> Keys \cup {None}]
    BY DEF Init, Keys
  <1>2. /\ cache = [n \in Names |-> None] /\ order = <<>> /\ maxCacheSize \in CacheSizes /\ signers = <<>>
        /\ pc = [p \in Procs |-> "idle"] /\ name = [p \in Procs |-> None] /\ sig = [p \in Procs |-> None]
        /\ closed = FALSE /\ writer = None /\ todo = {} /\ closeErr = FALSE /\ disturbed = FALSE
    BY DEF Init
  <1>3. maxCacheSize \in Nat
    BY <1>2, CacheSizesAssumption
  <1>4. order \in Seq(Names) /\ signers \in Seq(Signers) /\ Len(order) = 0 /\ Len(order) <= maxCacheSize
    BY SMT, <1>2, <1>3
  <1>5. TypeOK
    BY <1>1, <1>2, <1>4 DEF TypeOK, Labels
  <1> QED
    BY SMT, <1>2, <1>4, <1>5 DEF TypeInv, Listed, NameLabels

\* A call that returns leaves no locals behind.
LEMMA ReturnType ==
    ASSUME TypeInv, NEW p \in Procs, Return(p), Len(signers') = Len(signers)
    PROVE  /\ pc' \in [Procs -> Labels]
           /\ name' \in [Procs -> Names \cup {None}]
           /\ sig' \in [Procs -> (1 .. Len(signers')) \cup {None}]
           /\ \A q \in Procs : pc'[q] \in NameLabels => name'[q] \in Names
           /\ \A q \in Procs : pc'[q] \in {"put", "fill"} => sig'[q] # None
  BY DEF TypeInv, TypeOK, Return, Goto, Labels, NameLabels

\* Has and Get end the call, or make a signer.
LEMMA NewSignerType ==
    ASSUME TypeInv, NEW p \in Procs, NEW k \in Keys, NEW label \in {"put", "fill"},
           name[p] \in Names, NewSigner(p, k), Goto(p, label), UNCHANGED name
    PROVE  /\ signers' \in Seq(Signers) /\ Len(signers') = Len(signers) + 1 /\ Len(signers) \in Nat
           /\ \A i \in 1 .. Len(signers) : signers'[i] = signers[i]
           /\ ~signers'[Len(signers) + 1].zero
           /\ cache \in [Names -> (1 .. Len(signers')) \cup {None}]
           /\ pc' \in [Procs -> Labels]
           /\ sig' \in [Procs -> (1 .. Len(signers')) \cup {None}]
           /\ \A q \in Procs : pc'[q] \in NameLabels => name'[q] \in Names
           /\ \A q \in Procs : pc'[q] \in {"put", "fill"} => sig'[q] # None
  <1>1. /\ signers' \in Seq(Signers) /\ Len(signers') = Len(signers) + 1 /\ Len(signers) \in Nat
        /\ \A i \in 1 .. Len(signers) : signers'[i] = signers[i]
        /\ signers'[Len(signers) + 1] = [key |-> k, zero |-> FALSE]
    BY SMT DEF NewSigner, TypeInv, TypeOK, Signers
  <1>2. 1 .. Len(signers) \subseteq 1 .. Len(signers') /\ Len(signers) + 1 \in 1 .. Len(signers')
    BY SMT, <1>1
  <1>3. Len(signers) + 1 # None
    BY SMT, <1>1, NoneAssumption DEF Keys
  <1>4. cache \in [Names -> (1 .. Len(signers')) \cup {None}]
    BY <1>2 DEF TypeInv, TypeOK
  <1>5. sig' \in [Procs -> (1 .. Len(signers')) \cup {None}]
    BY <1>2 DEF NewSigner, TypeInv, TypeOK
  <1>6. \A q \in Procs : pc'[q] \in {"put", "fill"} => sig'[q] # None
    BY <1>3 DEF NewSigner, Goto, TypeInv, TypeOK
  <1>7. pc' \in [Procs -> Labels] /\ \A q \in Procs : pc'[q] \in NameLabels => name'[q] \in Names
    BY DEF Goto, TypeInv, TypeOK, Labels
  <1> QED
    BY SMT, <1>1, <1>4, <1>5, <1>6, <1>7

\* Every step keeps types and list.
LEMMA NextListed == TypeInv /\ Listed /\ [Next]_vars => TypeInv' /\ Listed'
  <1> SUFFICES ASSUME TypeInv, Listed, [Next]_vars PROVE TypeInv' /\ Listed'
    OBVIOUS
  <1>1. CASE UNCHANGED vars
    BY <1>1 DEF TypeInv, TypeOK, Listed, vars, storeVars, cacheVars, callVars, closeVars
  \* The steps that only end a call.
  <1>2. ASSUME NEW p \in Procs,
               ExportKey(p) \/ ListKeys(p) \/ SignCached(p) \/ SignLoaded(p)
        PROVE  TypeInv' /\ Listed'
    <2>1. Return(p) /\ UNCHANGED <<storeVars, cacheVars, closeVars, maxCacheSize>>
      BY <1>2 DEF ExportKey, ListKeys, SignCached, SignLoaded, Fail
    <2> QED
      BY <2>1, ReturnType DEF TypeInv, TypeOK, Listed, storeVars, cacheVars, closeVars
  <1>3. ASSUME NEW p \in Procs, HasKey(p) \/ LoadKey(p) PROVE TypeInv' /\ Listed'
    <2>1. UNCHANGED <<storeVars, cache, order, closeVars, maxCacheSize>>
      BY <1>3 DEF HasKey, LoadKey
    <2>2. CASE Return(p) /\ UNCHANGED signers
      BY <2>1, <2>2, ReturnType DEF TypeInv, TypeOK, Listed, storeVars, closeVars
    <2>3. ASSUME NEW k \in Keys, NEW label \in {"put", "fill"},
                 NewSigner(p, k), Goto(p, label), UNCHANGED name
          PROVE  TypeInv' /\ Listed'
      <3>1. name[p] \in Names
        BY <1>3 DEF HasKey, LoadKey, TypeInv, NameLabels
      <3>2. Len(order') = Len(order) /\ UNCHANGED <<cache, order, maxCacheSize>>
        BY <2>1
      <3>3. Listed'
        BY <3>2 DEF Listed
      <3>4. /\ signers' \in Seq(Signers)
            /\ cache \in [Names -> (1 .. Len(signers')) \cup {None}]
            /\ pc' \in [Procs -> Labels]
            /\ sig' \in [Procs -> (1 .. Len(signers')) \cup {None}]
            /\ \A q \in Procs : pc'[q] \in NameLabels => name'[q] \in Names
            /\ \A q \in Procs : pc'[q] \in {"put", "fill"} => sig'[q] # None
        BY <2>3, <3>1, NewSignerType
      <3> QED
        BY <2>1, <2>3, <3>3, <3>4 DEF TypeInv, TypeOK, storeVars, closeVars
    <2>4. Len(signers) + 1 \in Keys
      BY SMT DEF TypeInv, TypeOK, Keys
    <2>5. LoadKey(p) /\ store[name[p]] # None => store[name[p]] \in Keys
      BY <1>3 DEF LoadKey, TypeInv, TypeOK, NameLabels
    <2> QED
      BY <1>3, <2>2, <2>3, <2>4, <2>5 DEF HasKey, LoadKey, Fail
  <1>4. ASSUME NEW p \in Procs, PutKey(p) PROVE TypeInv' /\ Listed'
    <2>1. UNCHANGED <<cacheVars, closeVars, maxCacheSize>>
      BY <1>4 DEF PutKey
    <2>2. CASE Return(p) /\ UNCHANGED store
      BY <2>1, <2>2, ReturnType DEF TypeInv, TypeOK, Listed, cacheVars, closeVars
    <2>3. CASE store' = [store EXCEPT ![name[p]] = signers[sig[p]].key] /\ Goto(p, "fill") /\ UNCHANGED callVars
      <3>1. sig[p] \in 1 .. Len(signers) /\ name[p] \in Names
        BY <1>4 DEF PutKey, TypeInv, TypeOK, NameLabels
      <3>2. signers[sig[p]] \in Signers
        BY SMT, <3>1 DEF TypeInv, TypeOK
      <3>3. store' \in [Names -> Keys \cup {None}]
        BY <2>3, <3>2 DEF TypeInv, TypeOK, Signers
      <3> QED
        BY SMT, <1>4, <2>1, <2>3, <3>1, <3>3
           DEF PutKey, TypeInv, TypeOK, Listed, Goto, Labels, NameLabels, cacheVars, closeVars, callVars
    <2> QED
      BY <1>4, <2>2, <2>3 DEF PutKey, Fail
  <1>5. ASSUME NEW p \in Procs, AddToCache(p) PROVE TypeInv' /\ Listed'
    <2>1. /\ Return(p) /\ UNCHANGED <<storeVars, closeVars, maxCacheSize>>
          /\ name[p] \in Names /\ sig[p] \in 1 .. Len(signers)
      BY <1>5 DEF AddToCache, TypeInv, TypeOK, NameLabels
    <2>2. CASE UNCHANGED cacheVars
      BY <2>1, <2>2, ReturnType DEF TypeInv, TypeOK, Listed, storeVars, cacheVars, closeVars
    <2>3. CASE cache[name[p]] # None /\ Promote(name[p])
      <3>1. UNCHANGED <<cache, signers>>
        BY <2>3 DEF Promote
      <3> QED
        BY <2>1, <2>3, <3>1, ReturnType, PromoteLists DEF TypeInv, TypeOK, Listed, storeVars, closeVars
    <2>4. CASE maxCacheSize > 0 /\ cache[name[p]] = None /\ Insert(name[p], sig[p])
      <3>1. signers' \in Seq(Signers) /\ Len(signers') = Len(signers)
        BY <2>4, ZeroizedKeeps DEF Insert, TypeInv
      <3> QED
        BY <2>1, <2>4, <3>1, ReturnType, InsertLists DEF TypeInv, TypeOK, Listed, storeVars, closeVars
    <2> QED
      BY <1>5, <2>2, <2>3, <2>4 DEF AddToCache
  <1>6. ASSUME NEW p \in Procs, DeleteKey(p) PROVE TypeInv' /\ Listed'
    <2>1. Return(p) /\ UNCHANGED <<cacheVars, closeVars, maxCacheSize>>
      BY <1>6 DEF DeleteKey, Fail
    <2>2. store' \in [Names -> Keys \cup {None}]
      BY <1>6 DEF DeleteKey, TypeInv, TypeOK
    <2> QED
      BY <2>1, <2>2, ReturnType DEF TypeInv, TypeOK, Listed, cacheVars, closeVars
  <1>7. ASSUME NEW p \in Procs, CloseList(p) \/ CloseGet(p) \/ CloseDelete(p) PROVE TypeInv' /\ Listed'
    <2>1. UNCHANGED <<cacheVars, sig, closed, writer, maxCacheSize>>
      BY <1>7 DEF CloseList, CloseGet, CloseDelete, callVars
    <2>2. CASE CloseList(p)
      BY <2>1, <2>2 DEF CloseList, TypeInv, TypeOK, Listed, Goto, Labels, NameLabels, Stored,
                        storeVars, cacheVars, callVars
    <2>3. CASE CloseGet(p)
      <3>1. PICK n \in todo :
              /\ todo' = todo \ {n}
              /\ name' = [name EXCEPT ![p] = n]
              /\ pc' = pc \/ pc' = [pc EXCEPT ![p] = "closeDelete"]
              /\ disturbed' = disturbed \/ disturbed' = TRUE
        BY <2>3 DEF CloseGet, Goto
      <3>2. n \in Names /\ UNCHANGED <<store, cache, order, signers, closeErr>>
        BY <2>3 DEF CloseGet, TypeInv, TypeOK, storeVars, cacheVars
      <3>3. TypeOK'
        BY <2>1, <3>1, <3>2 DEF TypeInv, TypeOK, Labels
      <3>4. /\ \A q \in Procs : pc'[q] \in NameLabels => name'[q] \in Names
            /\ \A q \in Procs : pc'[q] \in {"put", "fill"} => sig'[q] # None
        BY <2>1, <3>1, <3>2 DEF TypeInv, TypeOK, NameLabels
      <3> QED
        BY <2>1, <3>2, <3>3, <3>4 DEF TypeInv, Listed
    <2>4. CASE CloseDelete(p)
      BY <2>1, <2>4, ZenonT(30) DEF CloseDelete, TypeInv, TypeOK, Listed, Goto, Labels, NameLabels, cacheVars, callVars
    <2> QED
      BY <1>7, <2>2, <2>3, <2>4
  <1>8. ASSUME NEW p \in Procs, CloseEnd(p) PROVE TypeInv' /\ Listed'
    BY <1>8, ReturnType DEF CloseEnd, TypeInv, TypeOK, Listed, storeVars, cacheVars
  <1>9. ASSUME NEW p \in Procs, CloseCache(p) PROVE TypeInv' /\ Listed'
    <2>1. signers' \in Seq(Signers) /\ Len(signers') = Len(signers)
      BY <1>9, ZeroizedKeeps DEF CloseCache, TypeInv
    <2>2. /\ cache' = [n \in Names |-> None] /\ order' = <<>> /\ maxCacheSize' = maxCacheSize
          /\ closed' = TRUE /\ writer' = p /\ disturbed' \in BOOLEAN
          /\ pc' = [pc EXCEPT ![p] = "closeList"]
          /\ UNCHANGED <<store, name, sig, todo, closeErr>>
      BY <1>9 DEF CloseCache, Goto, storeVars, callVars
    <2>3. order' \in Seq(Names) /\ Len(order') = 0 /\ Len(order') <= maxCacheSize
      BY SMT, <2>2, CacheSizesAssumption DEF TypeInv, TypeOK
    <2> QED
      BY SMT, <2>1, <2>2, <2>3 DEF TypeInv, TypeOK, Listed, Labels, NameLabels
  <1>10. ASSUME NEW p \in Procs, NEW n \in Names,
                BeginNewKey(p, n) \/ BeginGet(p, n) \/ BeginRead(p, n) \/ BeginSign(p, n)
         PROVE  TypeInv' /\ Listed'
    <2>1. /\ UNCHANGED <<store, cache, order, signers, closed, writer, todo, closeErr, disturbed, maxCacheSize>>
          /\ name' = [name EXCEPT ![p] = n]
      BY <1>10 DEF BeginNewKey, BeginGet, BeginRead, BeginSign, Enter, storeVars, cacheVars, closeVars
    <2>2. \E label \in {"has", "load", "read", "signLoad", "signing"} : pc' = [pc EXCEPT ![p] = label]
      BY <1>10 DEF BeginNewKey, BeginGet, BeginRead, BeginSign, Enter, Goto
    <2>3. sig' = sig \/ sig' = [sig EXCEPT ![p] = cache[n]]
      BY <1>10 DEF BeginNewKey, BeginGet, BeginRead, BeginSign
    <2>4. TypeOK'
      BY SMT, <2>1, <2>2, <2>3 DEF TypeInv, TypeOK, Labels
    <2>5. /\ \A q \in Procs : pc'[q] \in NameLabels => name'[q] \in Names
          /\ \A q \in Procs : pc'[q] \in {"put", "fill"} => sig'[q] # None
      BY <2>1, <2>2, <2>3 DEF TypeInv, TypeOK, NameLabels
    <2> QED
      BY <2>1, <2>4, <2>5 DEF TypeInv, Listed
  <1>11. ASSUME NEW p \in Procs, NEW n \in Names, Uncache(p, n) PROVE TypeInv' /\ Listed'
    <2>1. signers' \in Seq(Signers) /\ Len(signers') = Len(signers)
      BY <1>11, ZeroizedKeeps DEF Uncache, TypeInv
    <2>2. /\ order' \in Seq(Names) /\ Len(order') <= maxCacheSize
          /\ \A m \in Names : (\E i \in 1 .. Len(order') : order'[i] = m) <=>
                                 (m # n /\ \E i \in 1 .. Len(order) : order[i] = m)
          /\ \A i, j \in 1 .. Len(order') : order'[i] = order'[j] => i = j
      <3>1. order' = Without(n) /\ maxCacheSize \in Nat /\ Len(order) \in Nat
        BY SMT, <1>11, CacheSizesAssumption DEF Uncache, TypeInv, TypeOK
      <3>2. Len(Without(n)) \in {Len(order), Len(order) - 1}
        BY WithoutLists DEF TypeInv, TypeOK, Listed
      <3> QED
        <4>1. /\ Without(n) \in Seq(Names)
              /\ \A m \in Names : (\E i \in 1 .. Len(Without(n)) : Without(n)[i] = m) <=>
                                    (m # n /\ \E i \in 1 .. Len(order) : order[i] = m)
              /\ \A i, j \in 1 .. Len(Without(n)) : Without(n)[i] = Without(n)[j] => i = j
          BY WithoutLists DEF TypeInv, TypeOK, Listed
        <4>2. Len(Without(n)) <= maxCacheSize
          BY SMT, <3>1, <3>2 DEF Listed
        <4> QED
          BY <3>1, <4>1, <4>2
    <2>3. /\ cache' = [cache EXCEPT ![n] = None] /\ name' = [name EXCEPT ![p] = n]
          /\ pc' = [pc EXCEPT ![p] = "delete"]
          /\ UNCHANGED <<store, sig, closed, writer, todo, closeErr, disturbed, maxCacheSize>>
      BY <1>11 DEF Uncache, Goto, storeVars, closeVars
    <2> QED
      BY SMT, <2>1, <2>2, <2>3 DEF TypeInv, TypeOK, Listed, Labels, NameLabels
  <1>12. ASSUME NEW p \in Procs, Refuse(p) \/ \E n \in Names : GetCached(p, n) PROVE TypeInv' /\ Listed'
    <2>1. UNCHANGED vars
      BY <1>12 DEF Refuse, GetCached, vars, storeVars, cacheVars, callVars, closeVars
    <2> QED
      BY <1>1, <2>1
  <1> QED
    BY <1>1, <1>2, <1>3, <1>4, <1>5, <1>6, <1>7, <1>8, <1>9, <1>10, <1>11, <1>12
       DEF Next, Step, Call

\* The two hold in every state.
LEMMA AlwaysListed == Spec => [](TypeInv /\ Listed)
  BY InitListed, NextListed, PTL DEF Spec

\* Types, and cacheOrder lists exactly the cached names, whichever calls insert,
\* promote, evict, delete and close (addToCache, moveToFront, DeleteKey, Close).
THEOREM OrderListsCache == Spec => []CacheListed
  <1>1. TypeInv /\ Listed => CacheListed
    BY DEF TypeInv, Listed, CacheListed
  <1> QED
    BY <1>1, AlwaysListed, PTL
-----------------------------------------------------------------------------
(* SignsWithLiveKey *)

Fills(p) == pc[p] \in {"put", "fill"}

\* The cached signers and those about to be cached are different objects, none of
\* them zeroized; so eviction and deletion of one name spare every other.
Live ==
    /\ \A n \in Names : cache[n] # None => ~signers[cache[n]].zero
    /\ \A m, n \in Names : cache[m] # None /\ cache[m] = cache[n] => m = n
    /\ \A p \in Procs : Fills(p) => ~signers[sig[p]].zero /\ \A n \in Names : cache[n] # sig[p]
    /\ \A p, q \in Procs : Fills(p) /\ Fills(q) /\ sig[p] = sig[q] => p = q
    /\ SignsWithLiveKey

\* Nobody signs at first.
LEMMA InitLive == Init => Live
  BY DEF Init, Live, Fills, SignsWithLiveKey

\* Zeroizing signers that are neither cached any more nor about to be, while
\* nobody signs.
LEMMA ZeroizeLive ==
    ASSUME TypeInv, TypeInv', Live, NEW S, signers' = Zeroized(S), CanLock,
           \A n \in Names : cache'[n] # None => cache'[n] \notin S,
           \A q \in Procs : Fills(q)' => Fills(q) /\ sig'[q] = sig[q] /\ sig[q] \notin S
                                          /\ \A n \in Names : cache'[n] # sig[q],
           \A n \in Names : cache'[n] # None => ~signers[cache'[n]].zero,
           \A m, n \in Names : cache'[m] # None /\ cache'[m] = cache'[n] => m = n,
           \A q \in Procs : pc'[q] = "signing" => pc[q] = "signing"
    PROVE  Live'
  <1>1. \A i \in 1 .. Len(signers) : i \notin S /\ ~signers[i].zero => ~signers'[i].zero
    BY ZeroizedKeeps DEF TypeInv
  <1>2. \A n \in Names : cache'[n] # None => cache'[n] \in 1 .. Len(signers)
    <2>1. Len(signers') = Len(signers)
      BY ZeroizedKeeps DEF TypeInv
    <2> QED
      BY <2>1 DEF TypeInv, TypeOK
  <1>3. \A q \in Procs : Fills(q) => sig[q] \in 1 .. Len(signers)
    BY DEF TypeInv, TypeOK, Fills
  <1>4. \A q \in Procs : pc'[q] # "signing"
    BY DEF CanLock, Readers
  <1>5. SignsWithLiveKey'
    BY <1>4 DEF SignsWithLiveKey
  <1>6. \A n \in Names : cache'[n] # None => ~signers'[cache'[n]].zero
    BY <1>1, <1>2
  <1>7. \A q \in Procs : Fills(q)' => ~signers'[sig'[q]].zero /\ \A n \in Names : cache'[n] # sig'[q]
    BY <1>1, <1>3 DEF Live
  <1>8. \A p, q \in Procs : Fills(p)' /\ Fills(q)' /\ sig'[p] = sig'[q] => p = q
    BY DEF Live
  <1> QED
    BY <1>5, <1>6, <1>7, <1>8 DEF Live

\* No step zeroizes a signer in use: it would need the write lock.
LEMMA NextLive == TypeInv /\ Listed /\ TypeInv' /\ Live /\ [Next]_vars => Live'
  <1> SUFFICES ASSUME TypeInv, Listed, TypeInv', Live, [Next]_vars PROVE Live'
    OBVIOUS
  \* Signers and cache stay, and no call comes to put, fill or sign.
  <1>1. ASSUME UNCHANGED <<cache, signers>>,
               \A q \in Procs : pc'[q] \in {"put", "fill", "signing"} =>
                  sig'[q] = sig[q] /\ (pc'[q] = pc[q] \/ (pc[q] = "put" /\ pc'[q] = "fill"))
        PROVE  Live'
    <2>1. \A q \in Procs : Fills(q)' => Fills(q) /\ sig'[q] = sig[q]
      BY <1>1 DEF Fills
    <2>2. SignsWithLiveKey'
      BY <1>1 DEF Live, SignsWithLiveKey
    <2>3. \A q \in Procs : Fills(q)' => ~signers'[sig'[q]].zero /\ \A n \in Names : cache'[n] # sig'[q]
      BY SMT, <1>1, <2>1 DEF Live
    <2>4. \A q, r \in Procs : Fills(q)' /\ Fills(r)' /\ sig'[q] = sig'[r] => q = r
      BY <2>1 DEF Live
    <2> QED
      BY <1>1, <2>2, <2>3, <2>4 DEF Live
  <1>T. /\ pc \in [Procs -> Labels]
        /\ sig \in [Procs -> (1 .. Len(signers)) \cup {None}]
        /\ cache \in [Names -> (1 .. Len(signers)) \cup {None}]
    BY DEF TypeInv, TypeOK
  <1> USE <1>T
  <1>2. CASE UNCHANGED vars
    BY <1>1, <1>2 DEF vars, cacheVars, callVars
  <1>3. ASSUME NEW p \in Procs,
               \/ ExportKey(p) \/ ListKeys(p) \/ SignCached(p) \/ SignLoaded(p) \/ DeleteKey(p)
               \/ CloseEnd(p)
        PROVE  Live'
    <2>1. Return(p) /\ UNCHANGED cacheVars
      BY <1>3 DEF ExportKey, ListKeys, SignCached, SignLoaded, DeleteKey, CloseEnd, Fail
    <2> QED
      BY <1>1, <2>1 DEF Return, Goto, cacheVars
  <1>4. ASSUME NEW p \in Procs, CloseList(p) \/ CloseGet(p) \/ CloseDelete(p) PROVE Live'
    <2>1. UNCHANGED <<cacheVars, sig>> /\ (UNCHANGED pc \/ Goto(p, "closeNext") \/ Goto(p, "closeDelete"))
      BY <1>4 DEF CloseList, CloseGet, CloseDelete, callVars
    <2> QED
      BY <1>1, <2>1 DEF Goto, cacheVars
  <1>5. ASSUME NEW p \in Procs, PutKey(p) PROVE Live'
    BY <1>1, <1>5, ZenonT(30) DEF PutKey, Fail, Return, Goto, cacheVars, callVars
  <1>6. ASSUME NEW p \in Procs, HasKey(p) \/ LoadKey(p) PROVE Live'
    <2>1. UNCHANGED cache /\ name[p] \in Names
      BY <1>6 DEF HasKey, LoadKey, NameLabels, TypeInv
    <2>2. CASE Return(p) /\ UNCHANGED signers
      BY <1>1, <2>1, <2>2 DEF Return, Goto
    <2>3. ASSUME NEW k \in Keys, NEW label \in {"put", "fill"},
                 NewSigner(p, k), Goto(p, label), UNCHANGED name
          PROVE  Live'
      <3> DEFINE s == Len(signers) + 1
      <3>1. /\ \A i \in 1 .. Len(signers) : signers'[i] = signers[i]
            /\ ~signers'[s].zero /\ s \notin 1 .. Len(signers)
            /\ sig' = [sig EXCEPT ![p] = s] /\ pc' = [pc EXCEPT ![p] = label] /\ s # None
        <4>1. signers \in Seq(Signers)
          BY DEF TypeInv, TypeOK
        <4>2. s \in Nat /\ s \notin 1 .. Len(signers)
          BY SMT, <4>1
        <4>3. s # None
          BY <4>2, NoneAssumption DEF Keys
        <4>4. [key |-> k, zero |-> FALSE] \in Signers
          BY DEF Signers
        <4>5. signers' = Append(signers, [key |-> k, zero |-> FALSE])
          BY <2>3 DEF NewSigner
        <4>6. signers'[s] = [key |-> k, zero |-> FALSE] /\ \A i \in 1 .. Len(signers) : signers'[i] = signers[i]
          BY SMT, <4>1, <4>4, <4>5
        <4> QED
          BY SMT, <2>3, <4>2, <4>3, <4>6 DEF NewSigner, Goto
      <3> HIDE DEF s
      <3>2. \A n \in Names : cache[n] # s
        BY <3>1
      <3>3. \A q \in Procs : q # p /\ (Fills(q) \/ pc[q] = "signing") => sig[q] \in 1 .. Len(signers)
        BY DEF Fills, Live, SignsWithLiveKey, TypeInv
      <3>4. SignsWithLiveKey'
        BY <3>1, <3>3 DEF Live, SignsWithLiveKey
      <3>5. \A n \in Names : cache'[n] # None => ~signers'[cache'[n]].zero
        BY <2>1, <3>1 DEF Live
      <3>6. \A q \in Procs : Fills(q)' => ~signers'[sig'[q]].zero /\ \A n \in Names : cache'[n] # sig'[q]
        BY <2>1, <3>1, <3>2, <3>3 DEF Live, Fills
      <3>7. \A q, r \in Procs : Fills(q)' /\ Fills(r)' /\ sig'[q] = sig'[r] => q = r
        <4>1. \A q \in Procs : q # p => (Fills(q)' <=> Fills(q)) /\ sig'[q] = sig[q]
          BY <3>1 DEF Fills
        <4>2. \A q \in Procs : q # p /\ Fills(q)' => sig'[q] # sig'[p]
          BY <3>1, <3>3, <4>1
        <4>3. \A q, r \in Procs : Fills(q) /\ Fills(r) /\ sig[q] = sig[r] => q = r
          BY DEF Live
        <4> QED
          BY <4>1, <4>2, <4>3
      <3> QED
        BY <2>1, <3>4, <3>5, <3>6, <3>7 DEF Live
    <2>4. Len(signers) + 1 \in Keys /\ (store[name[p]] # None => store[name[p]] \in Keys)
      <3>1. signers \in Seq(Signers) /\ store \in [Names -> Keys \cup {None}]
        BY DEF TypeInv, TypeOK
      <3> QED
        BY SMT, <2>1, <3>1 DEF Keys
    <2> QED
      BY <1>6, <2>2, <2>3, <2>4 DEF HasKey, LoadKey, Fail
  <1>7. ASSUME NEW p \in Procs, AddToCache(p) PROVE Live'
    <2>1. Return(p) /\ Fills(p) /\ name[p] \in Names /\ sig[p] \in 1 .. Len(signers)
      BY <1>7 DEF AddToCache, NameLabels, Fills, TypeInv
    <2>2. CASE UNCHANGED <<cache, signers>>
      BY <1>1, <2>1, <2>2 DEF Return, Goto
    <2>3. CASE maxCacheSize > 0 /\ CanLock /\ cache[name[p]] = None /\ Insert(name[p], sig[p])
      <3> DEFINE out == {order[i] : i \in 1 .. Evictions}
                 S == {cache[m] : m \in out}
      <3>1. /\ signers' = Zeroized(S)
            /\ cache' = [m \in Names |-> IF m = name[p] THEN sig[p] ELSE IF m \in out THEN None ELSE cache[m]]
        BY <2>3 DEF Insert
      <3>2. out \subseteq Names
        <4>1. Evictions \in 0 .. Len(order)
          BY <2>3, EvictionsMakeRoom DEF TypeInv
        <4>2. \A i \in 1 .. Len(order) : order[i] \in Names
          BY SMT DEF TypeInv, TypeOK
        <4>3. \A i \in 1 .. Evictions : i \in 1 .. Len(order)
          BY SMT, <4>1
        <4> QED
          BY <4>2, <4>3
      <3> HIDE DEF out
      <3>3. sig[p] # None
        BY SMT, <2>1, NoneAssumption DEF Keys
      <3>4. \A n \in Names : cache'[n] # None => cache'[n] \notin S /\ ~signers[cache'[n]].zero
        <4> SUFFICES ASSUME NEW n \in Names, cache'[n] # None
                     PROVE  cache'[n] \notin S /\ ~signers[cache'[n]].zero
          OBVIOUS
        <4>1. CASE n = name[p]
          <5>1. cache'[n] = sig[p]
            BY <3>1, <4>1
          <5>2. ~signers[sig[p]].zero /\ \A m \in Names : cache[m] # sig[p]
            BY <2>1 DEF Live
          <5> QED
            BY <3>2, <5>1, <5>2
        <4>2. CASE n # name[p]
          <5>1. cache'[n] = cache[n] /\ n \notin out /\ cache[n] # None
            BY <3>1, <4>2
          <5>2. ~signers[cache[n]].zero /\ \A m \in Names : cache[m] = cache[n] => m = n
            BY <5>1 DEF Live
          <5> QED
            BY <3>2, <5>1, <5>2
        <4> QED
          BY <4>1, <4>2
      <3>5. \A q \in Procs : Fills(q)' => q # p /\ Fills(q) /\ sig'[q] = sig[q]
        BY <2>1 DEF Return, Goto, Fills
      <3>6. \A q \in Procs : Fills(q)' => Fills(q) /\ sig'[q] = sig[q] /\ sig[q] \notin S
                                         /\ \A n \in Names : cache'[n] # sig[q]
        <4> SUFFICES ASSUME NEW q \in Procs, Fills(q)'
                     PROVE  sig[q] \notin S /\ \A n \in Names : cache'[n] # sig[q]
          BY <3>5
        <4>1. q # p /\ Fills(q) /\ sig[q] # None
          BY <3>5 DEF Fills, TypeInv
        <4>2. sig[q] # sig[p] /\ \A n \in Names : cache[n] # sig[q]
          BY <2>1, <4>1 DEF Live
        <4> QED
          BY <3>1, <3>2, <4>1, <4>2
      <3>7. \A m, n \in Names : cache'[m] # None /\ cache'[m] = cache'[n] => m = n
        BY <2>1, <3>1 DEF Live
      <3>8. \A q \in Procs : pc'[q] = "signing" => pc[q] = "signing"
        BY <2>1 DEF Return, Goto
      <3> HIDE DEF S
      <3> QED
        BY <2>3, <3>1, <3>4, <3>6, <3>7, <3>8, ZeroizeLive
    <2> QED
      BY <1>7, <2>2, <2>3 DEF AddToCache, Promote, cacheVars
  <1>8. ASSUME NEW p \in Procs, NEW n \in Names, Uncache(p, n) PROVE Live'
    <2>1. /\ CanLock /\ signers' = Zeroized({cache[n]}) /\ cache' = [cache EXCEPT ![n] = None]
          /\ pc' = [pc EXCEPT ![p] = "delete"] /\ sig' = sig
      BY <1>8 DEF Uncache, Goto
    <2>2. \A q \in Procs : Fills(q)' => Fills(q) /\ sig'[q] = sig[q] /\ sig[q] \notin {cache[n]}
                                       /\ \A m \in Names : cache'[m] # sig[q]
      BY <2>1 DEF Live, Fills, TypeInv
    <2>3. \A m \in Names : cache'[m] # None => cache'[m] \notin {cache[n]} /\ ~signers[cache'[m]].zero
      BY <2>1 DEF Live
    <2>4. \A k, m \in Names : cache'[k] # None /\ cache'[k] = cache'[m] => k = m
      BY <2>1 DEF Live
    <2>5. \A q \in Procs : pc'[q] = "signing" => pc[q] = "signing"
      BY <2>1
    <2> QED
      BY <2>1, <2>2, <2>3, <2>4, <2>5, ZeroizeLive
  <1>9. ASSUME NEW p \in Procs, CloseCache(p) PROVE Live'
    <2> DEFINE S == {cache[n] : n \in Cached}
    <2>1. /\ CanLock /\ signers' = Zeroized(S) /\ cache' = [n \in Names |-> None]
          /\ pc' = [pc EXCEPT ![p] = "closeList"] /\ sig' = sig
      BY <1>9 DEF CloseCache, Goto, callVars
    <2>2. \A q \in Procs : Fills(q)' => Fills(q) /\ sig'[q] = sig[q] /\ sig[q] \notin S
                                       /\ \A m \in Names : cache'[m] # sig[q]
      BY <2>1 DEF Live, Fills, Cached, TypeInv
    <2>3. \A m \in Names : cache'[m] = None
      BY <2>1
    <2>4. \A q \in Procs : pc'[q] = "signing" => pc[q] = "signing"
      BY <2>1
    <2> HIDE DEF S
    <2> QED
      BY <2>1, <2>2, <2>3, <2>4, ZeroizeLive
  <1>10. ASSUME NEW p \in Procs, NEW n \in Names,
                BeginNewKey(p, n) \/ BeginGet(p, n) \/ BeginRead(p, n)
         PROVE  Live'
    BY <1>1, <1>10 DEF BeginNewKey, BeginGet, BeginRead, Enter, Goto, cacheVars
  <1>11. ASSUME NEW p \in Procs, NEW n \in Names, BeginSign(p, n) PROVE Live'
    <2>1. /\ UNCHANGED <<cache, signers>>
          /\ pc' = [pc EXCEPT ![p] = IF cache[n] # None THEN "signing" ELSE "signLoad"]
          /\ sig' = [sig EXCEPT ![p] = cache[n]]
      BY <1>11 DEF BeginSign, Enter, Goto, cacheVars
    <2>2. \A q \in Procs : Fills(q)' => Fills(q) /\ sig'[q] = sig[q]
      BY <2>1 DEF Fills
    <2>3. SignsWithLiveKey'
      BY <2>1 DEF Live, SignsWithLiveKey
    <2> QED
      BY <2>1, <2>2, <2>3 DEF Live
  <1>12. ASSUME NEW p \in Procs, Refuse(p) \/ \E n \in Names : GetCached(p, n) PROVE Live'
    BY <1>1, <1>12 DEF Refuse, GetCached, cacheVars, callVars
  <1> QED
    BY <1>2, <1>3, <1>4, <1>5, <1>6, <1>7, <1>8, <1>9, <1>10, <1>11, <1>12
       DEF Next, Step, Call

\* No signature is made with a key that eviction, DeleteKey or Close has
\* zeroized, for any number of goroutines (Sign, addToCache, DeleteKey, Close).
THEOREM SignsLive == Spec => []SignsWithLiveKey
  <1>1. Live => SignsWithLiveKey
    BY DEF Live
  <1> QED
    BY <1>1, InitLive, NextLive, AlwaysListed, PTL DEF Spec
-----------------------------------------------------------------------------
(* NeverReplaced *)

\* A name keeps its key until it is deleted, however NewKey, ImportKey and
\* DeleteKey calls overlap (store.Put with overwrite unset).
THEOREM KeysNeverReplaced == Spec => NeverReplaced
  <1> DEFINE Kept == \A n \in Names : store[n] # None /\ store'[n] # None => store'[n] = store[n]
  <1>1. TypeInv /\ [Next]_vars => [Kept]_vars
    <2> SUFFICES ASSUME TypeInv, [Next]_vars PROVE Kept
      OBVIOUS
    <2>1. CASE UNCHANGED store
      BY <2>1
    <2>2. ASSUME NEW p \in Procs, PutKey(p) \/ DeleteKey(p) \/ CloseDelete(p) PROVE Kept
      BY <2>2 DEF PutKey, DeleteKey, CloseDelete, TypeInv, TypeOK, NameLabels
    <2>3. ASSUME NEW p \in Procs, Step(p) PROVE Kept
      BY <2>1, <2>2, <2>3
         DEF Step, storeVars, HasKey, AddToCache, LoadKey, ExportKey, ListKeys, SignCached,
             SignLoaded, CloseList, CloseGet, CloseEnd
    <2>4. ASSUME NEW p \in Procs, Call(p) PROVE UNCHANGED store
      BY <2>4 DEF Call, storeVars, Refuse, CloseCache, BeginNewKey, GetCached, BeginGet, BeginRead,
                  Uncache, BeginSign
    <2> QED
      BY <2>1, <2>3, <2>4 DEF Next, vars, storeVars
  <1> QED
    BY <1>1, AlwaysListed, PTL DEF Spec, NeverReplaced

-----------------------------------------------------------------------------
(* CloseWipes *)

CloseLabels == {"closeList", "closeNext", "closeDelete"}

\* What Close has still to do, when no other call was in progress as it began:
\* the keys that are left are on its list, or under the name it is about to delete.
Closing ==
    /\ ~closed => \A p \in Procs : pc[p] \notin CloseLabels
    /\ ~closed => writer = None
    /\ closed /\ ~disturbed =>
         /\ \A n \in Names : cache[n] = None
         /\ \A p \in Procs : p # writer => pc[p] = "idle"
         /\ writer # None => pc[writer] \in CloseLabels
         /\ ~closeErr =>
              /\ writer = None => Stored = {}
              /\ writer # None /\ pc[writer] = "closeNext" => Stored \subseteq todo
              /\ writer # None /\ pc[writer] = "closeDelete" => Stored \subseteq todo \cup {name[writer]}

\* Close has not begun at first.
LEMMA InitClosing == Init => Closing
  BY DEF Init, Closing, CloseLabels

\* Every step keeps what Close has reached.
LEMMA NextClosing == TypeInv /\ Closing /\ [Next]_vars => Closing'
  <1> SUFFICES ASSUME TypeInv, Closing, [Next]_vars PROVE Closing'
    OBVIOUS
  <1> USE DEF CloseLabels
  <1>1. CASE UNCHANGED vars
    BY <1>1 DEF Closing, Stored, vars, storeVars, cacheVars, callVars, closeVars
  \* The step of a call other than Close: it is none that Close waited out.
  <1>2. ASSUME NEW p \in Procs, pc[p] \notin CloseLabels, UNCHANGED closeVars,
               pc'[p] \notin CloseLabels, \A q \in Procs \ {p} : pc'[q] = pc[q],
               pc[p] # "idle" \/ ~closed
        PROVE  Closing'
    <2>1. ~closed \/ disturbed
      <3> SUFFICES ASSUME closed, ~disturbed PROVE FALSE
        OBVIOUS
      <3>1. p = writer
        BY <1>2 DEF Closing
      <3>2. p # None
        BY NoneAssumption
      <3> QED
        BY <1>2, <3>1, <3>2 DEF Closing
    <2> QED
      BY <1>2, <2>1 DEF Closing, closeVars
  <1> USE DEF TypeInv, TypeOK
  <1>3. ASSUME NEW p \in Procs,
               \/ HasKey(p) \/ PutKey(p) \/ AddToCache(p) \/ LoadKey(p) \/ ExportKey(p) \/ ListKeys(p)
               \/ DeleteKey(p) \/ SignCached(p) \/ SignLoaded(p)
        PROVE  Closing'
    <2>1. pc[p] \in {"has", "put", "fill", "load", "read", "delete", "signing", "signLoad"} /\ UNCHANGED closeVars
      BY <1>3 DEF HasKey, PutKey, AddToCache, LoadKey, ExportKey, ListKeys, DeleteKey, SignCached, SignLoaded
    <2>2. \E label \in {"idle", "put", "fill"} : Goto(p, label)
      BY <1>3 DEF HasKey, PutKey, AddToCache, LoadKey, ExportKey, ListKeys, DeleteKey, SignCached, SignLoaded,
                  Return, Fail
    <2> QED
      BY <1>2, <2>1, <2>2 DEF Goto
  <1>4. ASSUME NEW p \in Procs, NEW n \in Names,
               BeginNewKey(p, n) \/ BeginGet(p, n) \/ BeginRead(p, n) \/ Uncache(p, n) \/ BeginSign(p, n)
        PROVE  Closing'
    <2>1. pc[p] = "idle" /\ ~closed /\ UNCHANGED closeVars
      BY <1>4 DEF BeginNewKey, BeginGet, BeginRead, Uncache, BeginSign, Enter
    <2>2. \E label \in {"has", "load", "read", "delete", "signing", "signLoad"} : Goto(p, label)
      BY <1>4 DEF BeginNewKey, BeginGet, BeginRead, Uncache, BeginSign, Enter
    <2> QED
      BY <1>2, <2>1, <2>2 DEF Goto
  <1>5. ASSUME NEW p \in Procs, Refuse(p) \/ \E n \in Names : GetCached(p, n) PROVE Closing'
    <2>1. UNCHANGED vars
      BY <1>5 DEF Refuse, GetCached, vars, storeVars, cacheVars, callVars, closeVars
    <2> QED
      BY <1>1, <2>1
  <1>6. ASSUME NEW p \in Procs, CloseCache(p) PROVE Closing'
    BY <1>6, NoneAssumption DEF CloseCache, Goto, Closing, Stored
  <1>7. ASSUME NEW p \in Procs, CloseList(p) \/ CloseGet(p) \/ CloseDelete(p) \/ CloseEnd(p),
               closed, ~disturbed
        PROVE  p = writer /\ p # None
    <2>1. pc[p] \in CloseLabels /\ p # None
      BY <1>7, NoneAssumption DEF CloseList, CloseGet, CloseDelete, CloseEnd
    <2> QED
      BY <1>7, <2>1 DEF Closing
  <1>8. ASSUME NEW p \in Procs, CloseList(p) \/ CloseGet(p) \/ CloseDelete(p) \/ CloseEnd(p)
        PROVE  closed /\ closed' /\ (disturbed => disturbed')
    BY <1>8 DEF CloseList, CloseGet, CloseDelete, CloseEnd, Closing
  <1>9. ASSUME NEW p \in Procs, CloseList(p) PROVE Closing'
    BY <1>7, <1>8, <1>9 DEF CloseList, Goto, Closing, Stored, storeVars, cacheVars, callVars
  <1>10. ASSUME NEW p \in Procs, CloseGet(p) PROVE Closing'
    BY ZenonT(40), <1>7, <1>8, <1>10 DEF CloseGet, Goto, Closing, Stored, storeVars, cacheVars
  <1>11. ASSUME NEW p \in Procs, CloseDelete(p) PROVE Closing'
    <2>1. /\ pc[p] = "closeDelete" /\ pc' = [pc EXCEPT ![p] = "closeNext"]
          /\ UNCHANGED <<cache, name, closed, writer, todo, disturbed>>
      BY <1>11 DEF CloseDelete, Goto, cacheVars, callVars
    <2>2. closed /\ closed' /\ (~disturbed => p = writer /\ p # None)
      BY <1>7, <1>8, <1>11
    <2>3. ~closeErr' /\ ~disturbed => ~closeErr /\ store' = [store EXCEPT ![name[p]] = None]
      <3>1. \/ closeErr' = TRUE
            \/ store' = [store EXCEPT ![name[p]] = None] /\ UNCHANGED closeErr
        BY <1>11 DEF CloseDelete
      <3> QED
        BY <3>1
    <2>4. ~closeErr' /\ ~disturbed => Stored' \subseteq todo
      <3> SUFFICES ASSUME ~closeErr', ~disturbed PROVE Stored' \subseteq todo
        OBVIOUS
      <3>1. Stored \subseteq todo \cup {name[p]}
        BY <2>1, <2>2, <2>3 DEF Closing
      <3>2. \A n \in Names : store'[n] # None => n # name[p] /\ store[n] # None
        BY <2>3
      <3> QED
        BY <3>1, <3>2 DEF Stored
    <2> QED
      BY <2>1, <2>2, <2>4 DEF Closing
  <1>12. ASSUME NEW p \in Procs, CloseEnd(p) PROVE Closing'
    BY <1>7, <1>8, <1>12 DEF CloseEnd, Return, Goto, Closing, Stored, storeVars, cacheVars
  <1> QED
    BY <1>1, <1>3, <1>4, <1>5, <1>6, <1>9, <1>10, <1>11, <1>12 DEF Next, Step, Call

\* A Close that no other call overlapped, that could read every key it listed and
\* that reports no error leaves no key in the store and no signer in the cache.
THEOREM CloseEmpties == Spec => []CloseWipes
  <1>1. Closing => CloseWipes
    BY DEF Closing, CloseWipes, Cached
  <1> QED
    BY <1>1, InitClosing, NextClosing, AlwaysListed, PTL DEF Spec
=============================================================================
