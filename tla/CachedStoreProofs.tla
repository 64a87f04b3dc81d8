-------------------------- MODULE CachedStoreProofs --------------------------
(***************************************************************************)
(* Theorems about CachedStore, for every set of keys, values and           *)
(* goroutines, every cache capacity and every pattern of tree errors.      *)
(***************************************************************************)
EXTENDS CachedStore, WellFoundedInduction, TLAPS

USE Zenon

-----------------------------------------------------------------------------
(* The operators the model is built from *)

\* A nonempty set of keys has a least member, and Least finds it.
LEMMA LeastMember ==
    ASSUME NEW S \in SUBSET Keys, S # {}
    PROVE  Least(S) \in S
  <1> DEFINE R == OpToRel(<, Nat)
  <1>1. IsWellFoundedOn(R, Nat)
    BY NatLessThanWellFounded
  <1>2. \A x, y \in Nat : y < x => <<y, x>> \in R
    BY DEF OpToRel
  <1> HIDE DEF R
  <1>3. S \subseteq Nat
    BY KeysAssumption
  <1>4. PICK x \in S : \A y \in S : ~(<<y, x>> \in R)
    BY <1>1, <1>3, WFMin
  <1>5. ASSUME NEW y \in S PROVE x <= y
    <2>1. x \in Nat /\ y \in Nat
      BY <1>3
    <2>2. ~(y < x)
      BY <1>2, <1>4, <2>1
    <2> QED
      BY SMT, <2>1, <2>2
  <1> QED
    BY <1>5 DEF Least

\* A dirty key has a cache entry, so the snapshot a flush takes is a set of items.
LEMMA SnapshotType ==
    ASSUME cache \in [Keys -> Entries \cup {Absent}]
    PROVE  [k \in Keys |-> IF Dirty(k) THEN cache[k].value ELSE Absent] \in Items
  BY DEF Dirty, Items, Entries

\* Moving a key to the front keeps the list a list of keys of the same length.
LEMMA MoveToFrontType ==
    ASSUME lru \in Seq(Keys), NEW k \in Keys
    PROVE  MoveToFront(k) \in Seq(Keys) /\ Len(MoveToFront(k)) = Len(lru)
  BY SMT DEF MoveToFront

\* Cache.Set keeps the cache and its list well typed.
LEMMA CacheSetType ==
    ASSUME cache \in [Keys -> Entries \cup {Absent}], lru \in Seq(Keys),
           NEW k \in Keys, NEW e \in Entries, CacheSet(k, e)
    PROVE  cache' \in [Keys -> Entries \cup {Absent}] /\ lru' \in Seq(Keys)
  <1>1. CASE CacheUpdate(k, e)
    BY <1>1, MoveToFrontType DEF CacheUpdate
  <1>2. CASE CacheInsert(k, e)
    BY SMT, <1>2 DEF CacheInsert
  <1>3. CASE CacheEvict(k, e)
    <2>1. Len(lru) - 1 \in Nat /\ Len(lru) - 1 <= Len(lru)
      BY SMT, <1>3, CapacityAssumption DEF CacheEvict
    <2>2. SubSeq(lru, 1, Len(lru) - 1) \in Seq(Keys)
      BY SMT, <2>1
    <2>3. lru' \in Seq(Keys)
      BY SMT, <1>3, <2>2 DEF CacheEvict
    <2>4. cache' \in [Keys -> Entries \cup {Absent}]
      BY <1>3 DEF CacheEvict
    <2> QED
      BY <2>3, <2>4
  <1> QED
    BY <1>1, <1>2, <1>3 DEF CacheSet

-----------------------------------------------------------------------------
(* Type correctness, for any goroutines and any capacity *)

\* Beginning a call keeps the types when its key and its items have theirs.
LEMMA EnterType ==
    ASSUME TypeOK, NEW p \in Procs, NEW op, NEW label \in Labels \ {"flushWrite"},
           NEW k \in Keys \cup {Nil}, NEW items \in Items,
           label \in LookupLabels => k \in Keys,
           Enter(p, op, label, k, items)
    PROVE  TypeOK'
  <1>1. CASE closed
    BY SMT, <1>1 DEF TypeOK, Enter, Answer, callVars, cacheVars, treeVars, lockVars, ReplyOps,
                Objects
  <1>2. CASE ~closed
    <2>1. /\ pc' = [pc EXCEPT ![p] = label]
          /\ key' = [key EXCEPT ![p] = k]
          /\ batch' = [batch EXCEPT ![p] = items]
          /\ UNCHANGED <<got, flushed, ret, cache, lru, tree, disk, treeClosed, closed, mu>>
      BY <1>2 DEF Enter, Goto, cacheVars, treeVars, lockVars
    <2>2. /\ pc' \in [Procs -> Labels]
          /\ key' \in [Procs -> Keys \cup {Nil}]
          /\ batch' \in [Procs -> Items]
      BY <2>1 DEF TypeOK
    <2>3. \A q \in Procs : pc'[q] \in LookupLabels => key'[q] \in Keys
      BY <2>1 DEF TypeOK
    <2>4. \A q \in Procs : pc'[q] = "flushWrite" => Present(batch'[q]) # {}
      BY <2>1 DEF TypeOK
    <2> QED
      BY <2>1, <2>2, <2>3, <2>4 DEF TypeOK
  <1> QED
    BY <1>1, <1>2

\* Returning from a call keeps the types of the locals.
LEMMA ReturnType ==
    ASSUME TypeOK, NEW p \in Procs, Return(p)
    PROVE  /\ pc' \in [Procs -> Labels]
           /\ key' \in [Procs -> Keys \cup {Nil}]
           /\ got' \in [Procs -> Objects]
           /\ batch' \in [Procs -> Items]
           /\ flushed' \in [Procs -> SUBSET Keys]
           /\ \A q \in Procs : pc'[q] \in LookupLabels => key'[q] \in Keys
           /\ \A q \in Procs : pc'[q] = "flushWrite" => Present(batch'[q]) # {}
  BY DEF TypeOK, Return, Goto, Labels, LookupLabels, Objects, NoItems, Items

\* Every value a reply can carry is a reply.
LEMMA AnswerType ==
    ASSUME NEW p \in Procs, NEW op \in ReplyOps, NEW k \in Keys \cup {Nil},
           NEW v \in Objects \cup BOOLEAN, Answer(p, op, k, v)
    PROVE  ret' \in [proc : Procs \cup {Nil}, op : ReplyOps, key : Keys \cup {Nil},
                      val : Objects \cup BOOLEAN]
  BY DEF Answer

\* Beginning any call keeps the types.
LEMMA BeginType ==
    ASSUME TypeOK, NEW p \in Procs, Begin(p)
    PROVE  TypeOK'
  <1> USE DEF Labels, LookupLabels
  <1>1. NoItems \in Items
    BY DEF NoItems, Items
  <1>2. CASE BeginGet(p) \/ BeginHas(p) \/ BeginScan(p)
    BY <1>1, <1>2, EnterType DEF BeginGet, BeginHas, BeginScan
  <1>3. CASE BeginSet(p)
    <2>1. PICK k \in Keys, v \in Values :
            Enter(p, "set", "write", Nil, [NoItems EXCEPT ![k] = v])
      BY <1>3 DEF BeginSet
    <2>2. [NoItems EXCEPT ![k] = v] \in Items
      BY DEF NoItems, Items, Objects
    <2> QED
      BY <2>1, <2>2, EnterType
  <1>4. CASE BeginDelete(p)
    <2>1. PICK k \in Keys : Enter(p, "delete", "write", Nil, [NoItems EXCEPT ![k] = Nil])
      BY <1>4 DEF BeginDelete
    <2>2. [NoItems EXCEPT ![k] = Nil] \in Items
      BY DEF NoItems, Items, Objects
    <2> QED
      BY <2>1, <2>2, EnterType
  <1>5. CASE BeginSetBatch(p)
    <2>1. PICK items \in [Keys -> Values \cup {Absent}] :
            Enter(p, "setBatch", "write", Nil, items)
      BY <1>5 DEF BeginSetBatch
    <2>2. items \in Items
      BY DEF Items, Objects
    <2> QED
      BY <2>1, <2>2, EnterType
  <1>6. CASE BeginDeleteBatch(p)
    <2>1. PICK items \in [Keys -> {Nil, Absent}] :
            Enter(p, "deleteBatch", "write", Nil, items)
      BY <1>6 DEF BeginDeleteBatch
    <2>2. items \in Items
      BY DEF Items, Objects
    <2> QED
      BY <2>1, <2>2, EnterType
  <1>7. CASE BeginFlush(p)
    <2> DEFINE snap == [k \in Keys |-> IF Dirty(k) THEN cache[k].value ELSE Absent]
    <2>1. snap \in Items
      BY SnapshotType DEF TypeOK
    <2>2. DirtyKeys # {} => Present(snap) # {}
      BY SMT, ValuesAssumption DEF DirtyKeys, Present, Dirty, TypeOK, Entries
    <2> HIDE DEF snap
    <2>3. CASE closed
      BY SMT, <1>7, <2>3 DEF BeginFlush, TypeOK, Answer, callVars, cacheVars, treeVars,
                        ReplyOps, Objects
    <2>4. CASE ~closed
      <3>1. batch' = [batch EXCEPT ![p] = snap]
        BY <1>7, <2>4 DEF BeginFlush, snap
      <3>2. pc' = [pc EXCEPT ![p] = IF DirtyKeys = {} THEN "flushSave" ELSE "flushWrite"]
        BY <1>7, <2>4 DEF BeginFlush, Goto
      <3>3. /\ UNCHANGED <<key, got, flushed, ret, cache, lru, tree, disk, treeClosed, closed>>
            /\ mu' = p
        BY <1>7, <2>4 DEF BeginFlush, cacheVars, treeVars
      <3>4. pc' \in [Procs -> Labels] /\ batch' \in [Procs -> Items]
        BY <2>1, <3>1, <3>2 DEF TypeOK
      <3>5. \A q \in Procs : pc'[q] \in LookupLabels => key'[q] \in Keys
        BY <3>2, <3>3 DEF TypeOK
      <3>6. \A q \in Procs : pc'[q] = "flushWrite" => Present(batch'[q]) # {}
        BY <2>2, <3>1, <3>2 DEF TypeOK
      <3> QED
        BY <3>3, <3>4, <3>5, <3>6 DEF TypeOK
    <2> QED
      BY <2>3, <2>4
  <1>8. CASE BeginClose(p)
    BY SMT, <1>8 DEF BeginClose, TypeOK, Goto, NoItems, treeVars, callVars
  <1> QED
    BY <1>2, <1>3, <1>4, <1>5, <1>6, <1>7, <1>8 DEF Begin

\* Every step inside a call keeps the types.
LEMMA StepType ==
    ASSUME TypeOK, NEW p \in Procs, Step(p)
    PROVE  TypeOK'
  <1> USE DEF LookupLabels
  <1>1. CASE GetCache(p)
    <2>1. key[p] \in Keys
      BY <1>1 DEF GetCache, TypeOK
    <2>2. CASE cache[key[p]] # Absent
      <3>1. lru' \in Seq(Keys)
        BY <1>1, <2>1, <2>2, MoveToFrontType DEF GetCache, Touch, TypeOK
      <3>2. cache[key[p]].value \in Objects
        BY <2>1, <2>2 DEF TypeOK, Entries
      <3> QED
        BY <1>1, <2>1, <2>2, <3>1, <3>2, ReturnType, AnswerType
           DEF GetCache, Touch, TypeOK, treeVars, lockVars, ReplyOps
    <2>3. CASE cache[key[p]] = Absent
      BY <1>1, <2>1, <2>3
         DEF GetCache, TypeOK, Goto, Labels, cacheVars, callVars, treeVars, lockVars
    <2> QED
      BY <2>2, <2>3
  <1>2. CASE GetBacking(p)
    <2>1. key[p] \in Keys
      BY <1>2 DEF GetBacking, TypeOK
    <2>2. CASE Answer(p, "get", key[p], Nil) /\ Return(p)
      BY <1>2, <2>1, <2>2, ReturnType, AnswerType
         DEF GetBacking, TypeOK, cacheVars, treeVars, lockVars, ReplyOps, Objects
    <2>3. CASE /\ got' = [got EXCEPT ![p] = tree[key[p]]]
               /\ Goto(p, "getFill")
               /\ UNCHANGED <<key, batch, flushed, ret>>
      BY <1>2, <2>1, <2>3
         DEF GetBacking, TypeOK, Goto, Labels, cacheVars, treeVars, lockVars
    <2> QED
      BY <1>2, <2>2, <2>3 DEF GetBacking
  <1>3. CASE GetFill(p)
    <2>1. key[p] \in Keys /\ got[p] \in Objects
      BY <1>3 DEF GetFill, TypeOK
    <2>2. [value |-> got[p], dirty |-> FALSE] \in Entries
      BY <2>1 DEF Entries
    <2>3. cache' \in [Keys -> Entries \cup {Absent}] /\ lru' \in Seq(Keys)
      BY <1>3, <2>1, <2>2, CacheSetType DEF GetFill, TypeOK
    <2> QED
      BY <1>3, <2>1, <2>3, ReturnType, AnswerType
         DEF GetFill, TypeOK, treeVars, lockVars, ReplyOps
  <1>4. CASE HasCache(p)
    <2>1. key[p] \in Keys
      BY <1>4 DEF HasCache, TypeOK
    <2>2. CASE cache[key[p]] # Absent
      <3>1. lru' \in Seq(Keys)
        BY <1>4, <2>1, <2>2, MoveToFrontType DEF HasCache, Touch, TypeOK
      <3> QED
        BY <1>4, <2>1, <2>2, <3>1, ReturnType, AnswerType
           DEF HasCache, Touch, TypeOK, treeVars, lockVars, ReplyOps
    <2>3. CASE cache[key[p]] = Absent
      BY <1>4, <2>1, <2>3
         DEF HasCache, TypeOK, Goto, Labels, cacheVars, callVars, treeVars, lockVars
    <2> QED
      BY <2>2, <2>3
  <1>5. CASE HasBacking(p)
    <2>1. key[p] \in Keys
      BY <1>5 DEF HasBacking, TypeOK
    <2>2. Answer(p, "failed", Nil, Nil) \/ Answer(p, "has", key[p], tree[key[p]] # Nil)
      BY <1>5 DEF HasBacking
    <2> QED
      BY <1>5, <2>1, <2>2, ReturnType, AnswerType
         DEF HasBacking, TypeOK, cacheVars, treeVars, lockVars, ReplyOps, Objects
  <1>6. CASE Scan(p)
    <2>1. key[p] \in Keys /\ tree[key[p]] \in Objects
      BY <1>6 DEF Scan, TypeOK
    <2> QED
      BY <1>6, <2>1, ReturnType, AnswerType
         DEF Scan, TypeOK, cacheVars, treeVars, lockVars, ReplyOps, Objects
  <1>7. CASE WriteItem(p)
    <2>1. PICK k \in Present(batch[p]) :
            /\ CacheSet(k, [value |-> batch[p][k], dirty |-> TRUE])
            /\ Answer(p, "write", k, batch[p][k])
            /\ IF Present(batch[p]) = {k}
               THEN Return(p)
               ELSE /\ batch' = [batch EXCEPT ![p][k] = Absent]
                    /\ UNCHANGED <<pc, key, got, flushed>>
      BY <1>7 DEF WriteItem
    <2>2. k \in Keys /\ batch[p][k] \in Objects
      BY SMT, <2>1 DEF Present, TypeOK, Items
    <2>3. [value |-> batch[p][k], dirty |-> TRUE] \in Entries
      BY <2>2 DEF Entries
    <2>4. cache' \in [Keys -> Entries \cup {Absent}] /\ lru' \in Seq(Keys)
      BY <2>1, <2>2, <2>3, CacheSetType DEF TypeOK
    <2>5. UNCHANGED <<tree, disk, treeClosed, closed, mu>>
      BY <1>7 DEF WriteItem, treeVars, lockVars
    <2>6. CASE Return(p)
      BY <2>1, <2>2, <2>4, <2>5, <2>6, ReturnType, AnswerType DEF TypeOK, ReplyOps
    <2>7. CASE /\ batch' = [batch EXCEPT ![p][k] = Absent]
               /\ UNCHANGED <<pc, key, got, flushed>>
      <3>1. batch' \in [Procs -> Items]
        BY <2>7 DEF TypeOK, Items
      <3>2. \A q \in Procs : pc'[q] = "flushWrite" => Present(batch'[q]) # {}
        BY <1>7, <2>7 DEF TypeOK, WriteItem
      <3> QED
        BY <2>1, <2>2, <2>4, <2>5, <2>7, <3>1, <3>2, AnswerType DEF TypeOK, ReplyOps
    <2> QED
      BY <2>1, <2>6, <2>7
  <1>8. CASE FlushWrite(p)
    <2> DEFINE k == Least(Present(batch[p]))
    <2>1. k \in Present(batch[p])
      <3>1. Present(batch[p]) \in SUBSET Keys
        BY DEF Present
      <3>2. Present(batch[p]) # {}
        BY <1>8 DEF FlushWrite, TypeOK
      <3> QED
        BY <3>1, <3>2, LeastMember
    <2>2. /\ tree' = [tree EXCEPT ![k] = batch[p][k]]
          /\ batch' = [batch EXCEPT ![p][k] = Absent]
          /\ flushed' = [flushed EXCEPT ![p] = @ \cup {k}]
          /\ pc' = [pc EXCEPT ![p] = IF Present(batch[p]) = {k} THEN "flushSave" ELSE "flushWrite"]
          /\ UNCHANGED <<cache, lru, disk, treeClosed, closed, mu, key, got, ret>>
      BY <1>8 DEF FlushWrite, Goto, cacheVars, lockVars
    <2> HIDE DEF k
    <2>3. k \in Keys /\ batch[p][k] \in Objects
      BY SMT, <2>1 DEF Present, TypeOK, Items
    <2>4. /\ tree' \in [Keys -> Objects]
          /\ batch' \in [Procs -> Items]
          /\ flushed' \in [Procs -> SUBSET Keys]
          /\ pc' \in [Procs -> Labels]
      BY SMT, <2>2, <2>3 DEF TypeOK, Items, Labels
    <2>5. \A q \in Procs : pc'[q] \in LookupLabels => key'[q] \in Keys
      BY <2>2 DEF TypeOK
    <2>6. \A q \in Procs : pc'[q] = "flushWrite" => Present(batch'[q]) # {}
      <3>1. Present(batch[p]) # {k} => Present(batch'[p]) # {}
        BY SMT, <2>1, <2>2, <2>3 DEF Present, TypeOK, Items
      <3>2. \A q \in Procs : q # p => batch'[q] = batch[q] /\ pc'[q] = pc[q]
        BY <2>2 DEF TypeOK
      <3>3. pc'[p] = "flushWrite" => Present(batch[p]) # {k}
        BY <2>2 DEF TypeOK
      <3> QED
        BY <3>1, <3>2, <3>3 DEF TypeOK
    <2> QED
      BY <2>2, <2>4, <2>5, <2>6 DEF TypeOK
  <1>9. CASE FlushWriteFails(p) \/ FlushSaveFails(p)
    BY <1>9, ReturnType, AnswerType
       DEF FlushWriteFails, FlushSaveFails, FlushFails, TypeOK, cacheVars, treeVars, ReplyOps,
           Objects
  <1>10. CASE FlushSave(p)
    BY <1>10 DEF FlushSave, Goto, TypeOK, Labels, cacheVars, lockVars, callVars
  <1>11. CASE FlushClear(p)
    <2> DEFINE k == Least(flushed[p])
    <2>1. k \in Keys
      BY <1>11, LeastMember DEF FlushClear, TypeOK
    <2>2. cache' \in [Keys -> Entries \cup {Absent}]
      <3>1. cache' = IF cache[k] # Absent THEN [cache EXCEPT ![k].dirty = FALSE] ELSE cache
        BY <1>11 DEF FlushClear
      <3> HIDE DEF k
      <3>2. cache[k] # Absent => cache[k] \in Entries
        BY <2>1 DEF TypeOK
      <3>3. cache[k] \in Entries => [cache[k] EXCEPT !.dirty = FALSE] \in Entries
        BY DEF Entries
      <3> QED
        BY <2>1, <3>1, <3>2, <3>3 DEF TypeOK
    <2> QED
      BY <1>11, <2>2 DEF FlushClear, TypeOK, treeVars, lockVars
  <1>12. CASE FlushReturn(p)
    BY <1>12, ReturnType, AnswerType
       DEF FlushReturn, TypeOK, cacheVars, treeVars, ReplyOps, Objects
  <1>13. CASE CloseBacking(p)
    BY <1>13, ReturnType, AnswerType
       DEF CloseBacking, TypeOK, cacheVars, ReplyOps, Objects
  <1> QED
    BY <1>1, <1>2, <1>3, <1>4, <1>5, <1>6, <1>7, <1>8, <1>9, <1>10, <1>11, <1>12, <1>13
       DEF Step

\* TypeOK is inductive.
LEMMA TypeInductive == TypeOK /\ [Next]_vars => TypeOK'
  <1> SUFFICES ASSUME TypeOK, [Next]_vars PROVE TypeOK'
    OBVIOUS
  <1>1. CASE \E p \in Procs : Begin(p) \/ Step(p)
    BY <1>1, BeginType, StepType
  <1>2. CASE Restart
    <2>1. lru' \in Seq(Keys)
      BY SMT, <1>2 DEF Restart
    <2>2. /\ cache' \in [Keys -> Entries \cup {Absent}]
          /\ batch' \in [Procs -> Items]
      BY <1>2 DEF Restart, NoItems, Items
    <2> QED
      BY <1>2, <2>1, <2>2 DEF Restart, TypeOK, Labels, LookupLabels, Objects
  <1>3. CASE UNCHANGED vars
    BY <1>3 DEF vars, TypeOK
  <1> QED
    BY <1>1, <1>2, <1>3 DEF Next

\* The variables of the cached store keep their types (TypeOK), whatever
\* goroutines call and whatever fails.
THEOREM TypeCorrect == Spec => []TypeOK
  <1>1. Init => TypeOK
    <2> SUFFICES ASSUME Init PROVE TypeOK
      OBVIOUS
    <2>1. lru \in Seq(Keys)
      BY SMT DEF Init
    <2>2. cache \in [Keys -> Entries \cup {Absent}] /\ batch \in [Procs -> Items]
      BY DEF Init, NoItems, Items
    <2> QED
      BY <2>1, <2>2 DEF Init, TypeOK, Labels, LookupLabels, ReplyOps, Objects
  <1> QED
    BY <1>1, TypeInductive, PTL DEF Spec

-----------------------------------------------------------------------------
(* s.mu *)

\* FlushExcludesClose, strengthened by what Close has done when: a closed tree
\* belongs to a closed store, and `closed` is set before the tree is closed.
LockInv ==
    /\ FlushExcludesClose
    /\ \A p \in Procs : pc[p] = "closeBacking" => closed
    /\ treeClosed => closed

Exclusive == FlushLabels \cup {"closeBacking"}

\* A goroutine outside Flush and Close that stays outside them, and touches
\* neither the lock nor the closed flags, preserves LockInv.
LEMMA OutsideLock ==
    ASSUME TypeOK, LockInv, NEW p \in Procs, NEW label \in Labels \ Exclusive,
           pc[p] \notin Exclusive,
           pc' = [pc EXCEPT ![p] = label],
           UNCHANGED <<closed, treeClosed, mu>>
    PROVE  LockInv'
  BY DEF TypeOK, LockInv, FlushExcludesClose, FlushLabels, Exclusive, Labels

\* A goroutine that leaves Flush gives the lock back.
LEMMA LeaveFlush ==
    ASSUME TypeOK, LockInv, NEW p \in Procs, pc[p] \in FlushLabels,
           pc' = [pc EXCEPT ![p] = "idle"], mu' = Nil,
           UNCHANGED <<closed, treeClosed>>
    PROVE  LockInv'
  BY ProcsAssumption DEF TypeOK, LockInv, FlushExcludesClose, FlushLabels, Labels

\* A goroutine that moves on inside Flush keeps the lock.
LEMMA InsideFlush ==
    ASSUME TypeOK, LockInv, NEW p \in Procs, NEW label \in FlushLabels,
           pc[p] \in FlushLabels,
           pc' = [pc EXCEPT ![p] = label],
           UNCHANGED <<closed, treeClosed, mu>>
    PROVE  LockInv'
  BY DEF TypeOK, LockInv, FlushExcludesClose, FlushLabels, Labels

LEMMA EnterLock ==
    ASSUME TypeOK, LockInv, NEW p \in Procs, NEW op, NEW label \in Labels \ Exclusive,
           NEW k, NEW items, Enter(p, op, label, k, items)
    PROVE  LockInv'
  <1>1. CASE closed
    BY <1>1 DEF Enter, LockInv, FlushExcludesClose, lockVars, treeVars
  <1>2. CASE ~closed
    BY <1>2, OutsideLock DEF Enter, Goto, lockVars, treeVars, Exclusive, FlushLabels
  <1> QED
    BY <1>1, <1>2

\* LockInv is inductive.
LEMMA LockInductive == TypeOK /\ LockInv /\ [Next]_vars => LockInv'
  <1> SUFFICES ASSUME TypeOK, LockInv, [Next]_vars PROVE LockInv'
    OBVIOUS
  <1> USE DEF Labels, Exclusive, FlushLabels
  <1>1. ASSUME NEW p \in Procs, Begin(p) PROVE LockInv'
    <2>1. CASE \/ BeginGet(p) \/ BeginHas(p) \/ BeginScan(p) \/ BeginSet(p)
               \/ BeginDelete(p) \/ BeginSetBatch(p) \/ BeginDeleteBatch(p)
      BY <2>1, EnterLock DEF BeginGet, BeginHas, BeginScan, BeginSet, BeginDelete,
                             BeginSetBatch, BeginDeleteBatch
    <2>2. CASE BeginFlush(p)
      <3>1. CASE closed
        BY <2>2, <3>1 DEF BeginFlush, LockInv, FlushExcludesClose, treeVars
      <3>2. CASE ~closed
        <4>1. PICK label \in FlushLabels : pc' = [pc EXCEPT ![p] = label]
          BY <2>2, <3>2 DEF BeginFlush, Goto
        <4>2. mu = Nil /\ mu' = p /\ UNCHANGED <<closed, treeClosed>>
          BY <2>2, <3>2 DEF BeginFlush, treeVars
        <4> QED
          BY <3>2, <4>1, <4>2, ProcsAssumption DEF TypeOK, LockInv, FlushExcludesClose
      <3> QED
        BY <3>1, <3>2
    <2>3. CASE BeginClose(p)
      BY <2>3, ProcsAssumption
         DEF BeginClose, Goto, TypeOK, LockInv, FlushExcludesClose, treeVars
    <2> QED
      BY <1>1, <2>1, <2>2, <2>3 DEF Begin
  <1>2. ASSUME NEW p \in Procs, Step(p) PROVE LockInv'
    <2>1. CASE GetCache(p) \/ GetBacking(p) \/ GetFill(p)
      BY <2>1, OutsideLock
         DEF GetCache, GetBacking, GetFill, Return, Goto, treeVars, lockVars
    <2>2. CASE HasCache(p) \/ HasBacking(p) \/ Scan(p)
      BY <2>2, OutsideLock DEF HasCache, HasBacking, Scan, Return, Goto, treeVars, lockVars
    <2>3. CASE WriteItem(p)
      <3>1. UNCHANGED <<closed, treeClosed, mu>> /\ pc[p] = "write"
        BY <2>3 DEF WriteItem, treeVars, lockVars
      <3>2. Return(p) \/ UNCHANGED pc
        BY <2>3 DEF WriteItem
      <3>3. CASE Return(p)
        BY <3>1, <3>3, OutsideLock DEF Return, Goto
      <3>4. CASE UNCHANGED pc
        BY <3>1, <3>4 DEF LockInv, FlushExcludesClose
      <3> QED
        BY <3>2, <3>3, <3>4
    <2>4. CASE FlushWrite(p)
      BY <2>4, InsideFlush DEF FlushWrite, Goto, lockVars
    <2>5. CASE FlushSave(p)
      BY <2>5, InsideFlush DEF FlushSave, Goto, lockVars
    <2>6. CASE FlushClear(p)
      BY <2>6 DEF FlushClear, LockInv, FlushExcludesClose, treeVars, lockVars
    <2>7. CASE FlushWriteFails(p) \/ FlushSaveFails(p) \/ FlushReturn(p)
      BY <2>7, LeaveFlush
         DEF FlushWriteFails, FlushSaveFails, FlushReturn, FlushFails, Return, Goto, treeVars
    <2>8. CASE CloseBacking(p)
      BY <2>8, ProcsAssumption
         DEF CloseBacking, Return, Goto, TypeOK, LockInv, FlushExcludesClose
    <2> QED
      BY <1>2, <2>1, <2>2, <2>3, <2>4, <2>5, <2>6, <2>7, <2>8 DEF Step
  <1>3. CASE Restart
    BY <1>3, ProcsAssumption DEF Restart, LockInv, FlushExcludesClose
  <1>4. CASE UNCHANGED vars
    BY <1>4 DEF vars, LockInv, FlushExcludesClose
  <1> QED
    BY <1>1, <1>2, <1>3, <1>4 DEF Next

\* s.mu keeps Flush and Close apart (FlushExcludesClose) for any number of
\* goroutines, on every error path and after every crash.
THEOREM FlushAndCloseExclude == Spec => []FlushExcludesClose
  <1>1. Init => LockInv
    BY ProcsAssumption DEF Init, LockInv, FlushExcludesClose, FlushLabels
  <1>2. LockInv => FlushExcludesClose
    BY DEF LockInv
  <1> QED
    BY <1>1, <1>2, TypeCorrect, LockInductive, PTL DEF Spec

-----------------------------------------------------------------------------
(* The LRU list *)

\* s lists the keys of the set S, each exactly once.
Lists(s, S) ==
    /\ \A i, j \in 1 .. Len(s) : s[i] = s[j] => i = j
    /\ \A k \in Keys : k \in S <=> \E i \in 1 .. Len(s) : s[i] = k

LEMMA LruListsCacheMeans ==
    LruListsCache <=> Lists(lru, Present(cache)) /\ Len(lru) <= Capacity
  BY DEF LruListsCache, Lists, Present

\* Moving a listed key to the front lists the same keys.
LEMMA MoveToFrontLists ==
    ASSUME lru \in Seq(Keys), NEW S \in SUBSET Keys, Lists(lru, S), NEW k \in S
    PROVE  Lists(MoveToFront(k), S)
  <1> DEFINE n == Len(lru)
             pos == Position(k)
             m == MoveToFront(k)
  <1>1. pos \in 1 .. n /\ lru[pos] = k
    BY DEF Lists, Position
  <1>2. n \in Nat /\ lru \in [1 .. n -> Keys]
    BY SMT
  <1>3. Len(m) = n
    BY MoveToFrontType
  <1>4. \A i \in 1 .. n : m[i] = IF i = 1 THEN k ELSE IF i <= pos THEN lru[i - 1] ELSE lru[i]
    BY DEF MoveToFront
  <1>5. \A i, j \in 1 .. n : lru[i] = lru[j] => i = j
    BY DEF Lists
  <1> HIDE DEF n, pos, m
  <1>6. ASSUME NEW i \in 1 .. n, NEW j \in 1 .. n, m[i] = m[j] PROVE i = j
    <2> DEFINE at(x) == IF x = 1 THEN pos ELSE IF x <= pos THEN x - 1 ELSE x
    <2>1. \A x \in 1 .. n : at(x) \in 1 .. n /\ m[x] = lru[at(x)]
      BY SMT, <1>1, <1>2, <1>4
    <2>2. at(i) = at(j)
      BY SMT, <1>5, <1>6, <2>1
    <2> QED
      BY SMT, <1>1, <1>2, <2>2
  <1>7. ASSUME NEW j \in Keys PROVE j \in S <=> \E i \in 1 .. n : m[i] = j
    <2>1. j \in S <=> \E i \in 1 .. n : lru[i] = j
      BY DEF Lists, n
    <2>2. ASSUME NEW i \in 1 .. n PROVE \E x \in 1 .. n : m[x] = lru[i]
      <3>1. CASE i < pos
        <4>1. i + 1 \in 1 .. n /\ m[i + 1] = lru[i]
          BY SMT, <1>1, <1>2, <1>4, <3>1
        <4> QED
          BY <4>1
      <3>2. CASE i = pos
        BY SMT, <1>1, <1>2, <1>4, <3>2
      <3>3. CASE i > pos
        BY SMT, <1>1, <1>2, <1>4, <3>3
      <3> QED
        BY SMT, <1>1, <1>2, <3>1, <3>2, <3>3
    <2>3. ASSUME NEW i \in 1 .. n PROVE \E x \in 1 .. n : lru[x] = m[i]
      <3>1. CASE i = 1
        BY <1>1, <1>4, <3>1
      <3>2. CASE i # 1 /\ i <= pos
        <4>1. i - 1 \in 1 .. n /\ m[i] = lru[i - 1]
          BY SMT, <1>1, <1>2, <1>4, <3>2
        <4> QED
          BY <4>1
      <3>3. CASE i > pos
        BY SMT, <1>1, <1>2, <1>4, <3>3
      <3> QED
        BY SMT, <1>1, <1>2, <3>1, <3>2, <3>3
    <2> QED
      BY <2>1, <2>2, <2>3
  <1> QED
    BY <1>3, <1>6, <1>7 DEF Lists, m

\* Pushing a key that is not listed in front of the list lists it too.
LEMMA PushFrontLists ==
    ASSUME NEW s \in Seq(Keys), NEW S \in SUBSET Keys, Lists(s, S),
           NEW k \in Keys, k \notin S
    PROVE  Lists(<<k>> \o s, S \cup {k})
  <1> DEFINE t == <<k>> \o s
             n == Len(s)
  <1>1. /\ n \in Nat
        /\ Len(t) = n + 1
        /\ t[1] = k
        /\ \A i \in 2 .. n + 1 : t[i] = s[i - 1]
    BY SMT
  <1>2. \A i \in 1 .. n : s[i] \in Keys /\ s[i] # k
    BY SMT DEF Lists
  <1> HIDE DEF t, n
  <1>3. ASSUME NEW i \in 1 .. n + 1, NEW j \in 1 .. n + 1, t[i] = t[j] PROVE i = j
    <2>1. CASE i = 1 \/ j = 1
      BY SMT, <1>1, <1>2, <1>3, <2>1
    <2>2. CASE i # 1 /\ j # 1
      <3>1. i - 1 \in 1 .. n /\ j - 1 \in 1 .. n /\ s[i - 1] = s[j - 1]
        BY SMT, <1>1, <1>3, <2>2
      <3>2. i - 1 = j - 1
        BY <3>1 DEF Lists, n
      <3> QED
        BY SMT, <1>1, <3>2
    <2> QED
      BY <2>1, <2>2
  <1>4. ASSUME NEW j \in Keys
        PROVE j \in S \cup {k} <=> \E i \in 1 .. n + 1 : t[i] = j
    <2>1. j \in S <=> \E i \in 1 .. n : s[i] = j
      BY DEF Lists, n
    <2>2. \A i \in 1 .. n : i + 1 \in 2 .. n + 1 /\ t[i + 1] = s[i]
      BY SMT, <1>1
    <2>3. \A i \in 1 .. n + 1 : i = 1 \/ (i \in 2 .. n + 1 /\ i - 1 \in 1 .. n)
      BY SMT, <1>1
    <2>4. 1 \in 1 .. n + 1 /\ \A i \in 2 .. n + 1 : i \in 1 .. n + 1
      BY SMT, <1>1
    <2>5. ASSUME j \in S \cup {k} PROVE \E i \in 1 .. n + 1 : t[i] = j
      <3>1. CASE j = k
        BY <1>1, <2>4, <3>1
      <3>2. CASE j \in S
        <4>1. PICK i \in 1 .. n : s[i] = j
          BY <2>1, <3>2
        <4>2. i + 1 \in 1 .. n + 1 /\ t[i + 1] = j
          BY <2>2, <2>4, <4>1
        <4> QED
          BY <4>2
      <3> QED
        BY <2>5, <3>1, <3>2
    <2>6. ASSUME NEW i \in 1 .. n + 1, t[i] = j PROVE j \in S \cup {k}
      <3>1. CASE i = 1
        BY <1>1, <2>6, <3>1
      <3>2. CASE i # 1
        <4>1. i \in 2 .. n + 1 /\ i - 1 \in 1 .. n
          BY <2>3, <3>2
        <4>2. s[i - 1] = j
          BY <1>1, <2>6, <4>1
        <4> QED
          BY <2>1, <4>1, <4>2
      <3> QED
        BY <3>1, <3>2
    <2> QED
      BY <2>5, <2>6
  <1> QED
    BY <1>1, <1>3, <1>4 DEF Lists, t

\* Dropping the last key of a list lists the others.
LEMMA DropLastLists ==
    ASSUME NEW s \in Seq(Keys), NEW S \in SUBSET Keys, Lists(s, S), Len(s) > 0
    PROVE  Lists(SubSeq(s, 1, Len(s) - 1), S \ {s[Len(s)]})
  <1> DEFINE n == Len(s)
             t == SubSeq(s, 1, n - 1)
  <1>1. /\ n \in Nat /\ n > 0
        /\ Len(t) = n - 1
        /\ \A i \in 1 .. n - 1 : t[i] = s[i]
    <2>1. PICK m \in Nat : m = n - 1 /\ n \in Nat /\ n > 0
      BY SMT
    <2>2. CASE m = 0
      BY SMT, <2>1, <2>2
    <2>3. CASE m \in 1 .. n
      BY SMT, <2>1, <2>3
    <2> QED
      BY SMT, <2>1, <2>2, <2>3
  <1>2. \A i, j \in 1 .. n : s[i] = s[j] => i = j
    BY DEF Lists
  <1>3. \A k \in Keys : k \in S <=> \E i \in 1 .. n : s[i] = k
    BY DEF Lists
  <1> HIDE DEF n, t
  <1>4. \A i, j \in 1 .. n - 1 : t[i] = t[j] => i = j
    BY SMT, <1>1, <1>2
  <1>5. ASSUME NEW k \in Keys
        PROVE  k \in S \ {s[n]} <=> \E i \in 1 .. n - 1 : t[i] = k
    <2>1. \A i \in 1 .. n : i \in 1 .. n - 1 \/ i = n
      BY SMT, <1>1
    <2>2. \A i \in 1 .. n - 1 : i \in 1 .. n /\ i # n
      BY SMT, <1>1
    <2>3. n \in 1 .. n
      BY SMT, <1>1
    <2> QED
      BY <1>1, <1>2, <1>3, <2>1, <2>2, <2>3
  <1> QED
    BY <1>1, <1>4, <1>5 DEF Lists, t, n

\* Cache.Set keeps the list in step with the entries and within the capacity.
LEMMA CacheSetLists ==
    ASSUME TypeOK, LruListsCache, NEW k \in Keys, NEW e \in Entries, CacheSet(k, e)
    PROVE  LruListsCache'
  <1> DEFINE S == Present(cache)
  <1>1. /\ S \in SUBSET Keys
        /\ Lists(lru, S)
        /\ lru \in Seq(Keys) /\ Len(lru) \in Nat /\ Len(lru) <= Capacity
    BY SMT, LruListsCacheMeans DEF Present, TypeOK
  <1>2. e # Absent
    BY ValuesAssumption
  <1>3. SUFFICES Lists(lru', Present(cache)') /\ (Len(lru) <= Capacity)'
    BY LruListsCacheMeans DEF LruListsCache, Lists, Present
  <1>4. CASE CacheUpdate(k, e)
    <2>1. Present(cache)' = S /\ k \in S
      BY <1>2, <1>4 DEF CacheUpdate, Present, TypeOK
    <2>2. lru' = MoveToFront(k)
      BY <1>4 DEF CacheUpdate
    <2> HIDE DEF S
    <2> QED
      BY <1>1, <2>1, <2>2, MoveToFrontLists, MoveToFrontType
  <1>5. CASE CacheInsert(k, e)
    <2>1. Present(cache)' = S \cup {k} /\ k \notin S
      BY <1>2, <1>5 DEF CacheInsert, Present, TypeOK
    <2>2. lru' = <<k>> \o lru /\ Len(lru) < Capacity
      BY <1>5 DEF CacheInsert
    <2>3. Len(lru') = Len(lru) + 1
      BY SMT, <1>1, <2>2
    <2> HIDE DEF S
    <2>4. Lists(lru', S \cup {k})
      BY <1>1, <2>1, <2>2, PushFrontLists
    <2> QED
      BY SMT, <1>1, <2>1, <2>2, <2>3, <2>4, CapacityAssumption
  <1>6. CASE CacheEvict(k, e)
    <2> DEFINE last == lru[Len(lru)]
               rest == SubSeq(lru, 1, Len(lru) - 1)
    <2>1. Len(lru) = Capacity /\ Len(lru) > 0
      BY SMT, <1>1, <1>6, CapacityAssumption DEF CacheEvict
    <2>2. last \in S /\ last # k /\ k \notin S
      <3>1. Len(lru) \in 1 .. Len(lru) /\ last \in Keys
        BY SMT, <1>1, <2>1
      <3> QED
        BY <1>1, <1>6, <3>1 DEF CacheEvict, Lists, Present
    <2>3. Present(cache)' = (S \ {last}) \cup {k}
      BY <1>2, <1>6, <2>2 DEF CacheEvict, Present, TypeOK
    <2>4. lru' = <<k>> \o rest
      BY <1>6 DEF CacheEvict
    <2>5. rest \in Seq(Keys) /\ Len(rest) = Len(lru) - 1
      BY SMT, <1>1, <2>1
    <2> HIDE DEF S
    <2>6. Lists(rest, S \ {last})
      BY <1>1, <2>1, DropLastLists
    <2> HIDE DEF last, rest
    <2>7. S \ {last} \in SUBSET Keys /\ k \notin S \ {last}
      BY <1>1, <2>2
    <2>8. Lists(lru', (S \ {last}) \cup {k})
      BY <2>4, <2>5, <2>6, <2>7, PushFrontLists
    <2>9. Len(lru') = Len(lru)
      BY SMT, <1>1, <2>4, <2>5
    <2> QED
      BY <1>1, <2>3, <2>8, <2>9
  <1> QED
    BY <1>4, <1>5, <1>6 DEF CacheSet

\* Cache.Get keeps the list in step with the entries.
LEMMA TouchLists ==
    ASSUME TypeOK, LruListsCache, NEW k \in Keys, cache[k] # Absent, Touch(k)
    PROVE  LruListsCache'
  <1>1. /\ Present(cache) \in SUBSET Keys
        /\ Lists(lru, Present(cache))
        /\ lru \in Seq(Keys) /\ Len(lru) <= Capacity
        /\ k \in Present(cache)
    BY LruListsCacheMeans DEF Present, TypeOK
  <1>2. Lists(lru', Present(cache)) /\ Len(lru') <= Capacity
    BY <1>1, MoveToFrontLists, MoveToFrontType DEF Touch
  <1> QED
    BY <1>2 DEF Touch, LruListsCache, Lists, Present

\* LruListsCache is inductive.
LEMMA LruInductive == TypeOK /\ LruListsCache /\ [Next]_vars => LruListsCache'
  <1> SUFFICES ASSUME TypeOK, LruListsCache, [Next]_vars PROVE LruListsCache'
    OBVIOUS
  <1>1. CASE UNCHANGED <<cache, lru>>
    BY SMT, <1>1 DEF LruListsCache
  <1>2. CASE cache' = NoItems /\ lru' = <<>>
    BY SMT, <1>2, CapacityAssumption DEF LruListsCache, NoItems
  <1>3. ASSUME NEW p \in Procs, Begin(p) PROVE LruListsCache'
    BY <1>1, <1>2, <1>3
       DEF Begin, BeginGet, BeginHas, BeginScan, BeginSet, BeginDelete, BeginSetBatch,
           BeginDeleteBatch, BeginFlush, BeginClose, Enter, cacheVars
  <1>4. ASSUME NEW p \in Procs, Step(p) PROVE LruListsCache'
    <2>1. CASE GetCache(p)
      BY <1>1, <2>1, TouchLists DEF GetCache, cacheVars, TypeOK, LookupLabels
    <2>2. CASE HasCache(p)
      BY <1>1, <2>2, TouchLists DEF HasCache, cacheVars, TypeOK, LookupLabels
    <2>3. CASE GetFill(p)
      <3>1. key[p] \in Keys /\ [value |-> got[p], dirty |-> FALSE] \in Entries
        BY <2>3 DEF GetFill, TypeOK, LookupLabels, Entries
      <3> QED
        BY <2>3, <3>1, CacheSetLists DEF GetFill
    <2>4. CASE WriteItem(p)
      <3>1. PICK k \in Present(batch[p]) :
              CacheSet(k, [value |-> batch[p][k], dirty |-> TRUE])
        BY <2>4 DEF WriteItem
      <3>2. k \in Keys /\ batch[p][k] \in Objects
        BY SMT, <3>1 DEF Present, TypeOK, Items
      <3>3. [value |-> batch[p][k], dirty |-> TRUE] \in Entries
        BY <3>2 DEF Entries
      <3> QED
        BY <3>1, <3>2, <3>3, CacheSetLists
    <2>5. CASE FlushClear(p)
      <3> DEFINE k == Least(flushed[p])
      <3>1. k \in Keys
        BY <2>5, LeastMember DEF FlushClear, TypeOK
      <3>2. cache' = IF cache[k] # Absent THEN [cache EXCEPT ![k].dirty = FALSE] ELSE cache
        BY <2>5 DEF FlushClear
      <3>3. lru' = lru
        BY <2>5 DEF FlushClear
      <3> HIDE DEF k
      <3>4. cache[k] # Absent => [cache[k] EXCEPT !.dirty = FALSE] \in Entries
        <4>1. cache[k] \in Entries \cup {Absent}
          BY <3>1 DEF TypeOK
        <4> QED
          BY <4>1 DEF Entries
      <3>5. \A j \in Keys : cache'[j] # Absent <=> cache[j] # Absent
        BY <3>1, <3>2, <3>4, ValuesAssumption DEF TypeOK
      <3> QED
        BY <3>3, <3>5 DEF LruListsCache
    <2>6. CASE \/ GetBacking(p) \/ HasBacking(p) \/ Scan(p) \/ FlushWrite(p)
               \/ FlushWriteFails(p) \/ FlushSave(p) \/ FlushSaveFails(p)
               \/ FlushReturn(p) \/ CloseBacking(p)
      BY <1>1, <2>6
         DEF GetBacking, HasBacking, Scan, FlushWrite, FlushWriteFails, FlushSave,
             FlushSaveFails, FlushReturn, FlushFails, CloseBacking, cacheVars
    <2> QED
      BY <1>4, <2>1, <2>2, <2>3, <2>4, <2>5, <2>6 DEF Step
  <1>5. CASE Restart
    BY <1>2, <1>5 DEF Restart
  <1>6. CASE UNCHANGED vars
    BY <1>1, <1>6 DEF vars
  <1> QED
    BY <1>3, <1>4, <1>5, <1>6 DEF Next

\* The LRU list names every cached key once and never outgrows the capacity
\* (LruListsCache), for every capacity and any goroutines.
THEOREM LruCorrect == Spec => []LruListsCache
  <1>1. Init => LruListsCache
    BY SMT, CapacityAssumption DEF Init, LruListsCache, NoItems
  <1> QED
    BY <1>1, TypeCorrect, LruInductive, PTL DEF Spec

-----------------------------------------------------------------------------
(* One writer and an ample cache.  CachedStore keeps the promises of       *)
(* ObjectStore when one goroutine does the writing (OneWriter) and the     *)
(* cache can hold every key (Ample).  Without either condition it does     *)
(* not: see the runs store_eviction and store_fill_race.                   *)


\* No list of different keys is longer than the cache: what Ample says of lists.
Roomy ==
    \A s \in Seq(Keys) :
        (\A i, j \in 1 .. Len(s) : s[i] = s[j] => i = j) => Len(s) <= Capacity

\* A cache that can hold every key evicts nothing.
LEMMA NoEviction ==
    ASSUME TypeOK, LruListsCache, Roomy, NEW k \in Keys, NEW e \in Entries, CacheSet(k, e)
    PROVE  cache' = [cache EXCEPT ![k] = e]
  <1>1. CASE CacheEvict(k, e)
    <2> DEFINE f == <<k>> \o lru
    <2>1. lru \in Seq(Keys) /\ Len(f) = Len(lru) + 1 /\ f \in Seq(Keys)
      BY SMT DEF TypeOK
    <2>2. Lists(lru, Present(cache)) /\ k \notin Present(cache)
      BY <1>1, LruListsCacheMeans DEF CacheEvict, Present
    <2>3. Lists(f, Present(cache) \cup {k})
      BY <2>1, <2>2, PushFrontLists DEF Present
    <2> HIDE DEF f
    <2>4. Len(f) <= Capacity
      BY <2>1, <2>3 DEF Lists, Roomy
    <2>5. Len(lru) >= Capacity
      BY <1>1 DEF CacheEvict
    <2> QED
      BY SMT, <2>1, <2>4, <2>5, CapacityAssumption
  <1> QED
    BY <1>1 DEF CacheSet, CacheUpdate, CacheInsert

\* A goroutine outside the read-only calls is the writer: the others are inside
\* read-only calls or idle.
LEMMA OthersOnlyRead ==
    ASSUME OneWriter, WriterInv, NEW p \in Procs, ~(Ops[p] \subseteq ReadOnlyOps)
    PROVE  \A q \in Procs : q # p => pc[q] \in ReadOnlyLabels
  BY DEF OneWriter, WriterInv

Same(p) ==
    \A q \in Procs : q # p =>
        /\ pc'[q] = pc[q]
        /\ key'[q] = key[q]
        /\ got'[q] = got[q]
        /\ batch'[q] = batch[q]
        /\ flushed'[q] = flushed[q]

QuietLabels == ReadOnlyLabels \cup {"getCache", "write"}

\* A step that changes no object, and ends outside a lookup's second half and
\* outside Flush, disturbs nothing.
LEMMA QuietStep ==
    ASSUME TypeOK, WriterInv, NEW p \in Procs, Same(p),
           UNCHANGED <<cache, tree, disk, closed>>,
           pc'[p] \in QuietLabels, flushed'[p] = {},
           Ops[p] \subseteq ReadOnlyOps => pc'[p] \in ReadOnlyLabels,
           pc'[p] \in {"getCache", "write"} => ~closed
    PROVE  WriterInv'
  <1> USE DEF QuietLabels, ReadOnlyLabels, FlushLabels
  <1>1. CleanIsSaved'
    BY DEF WriterInv, CleanIsSaved, Dirty, View
  <1>2. FillIsFresh'
    BY SMT DEF WriterInv, FillIsFresh, Same
  <1>3. FlushCoversDirty'
    BY SMT DEF WriterInv, FlushCoversDirty, Same, Dirty, Present
  <1>4. ClearedIsSaved'
    BY SMT DEF WriterInv, ClearedIsSaved, Same, Dirty
  <1>5. \A q \in Procs : Ops[q] \subseteq ReadOnlyOps => pc'[q] \in ReadOnlyLabels
    BY DEF WriterInv, Same
  <1>6. \A q \in Procs : pc'[q] \notin FlushLabels => flushed'[q] = {}
    BY DEF WriterInv, Same
  <1>7. \A q \in Procs : pc'[q] \notin ReadOnlyLabels \cup {"closeBacking"} => ~closed'
    BY DEF WriterInv, Same
  <1> QED
    BY <1>1, <1>2, <1>3, <1>4, <1>5, <1>6, <1>7 DEF WriterInv

\* Return touches the locals of its goroutine only.
LEMMA ReturnSame ==
    ASSUME TypeOK, NEW p \in Procs, Return(p)
    PROVE  Same(p) /\ pc'[p] = "idle" /\ flushed'[p] = {}
  BY DEF TypeOK, Return, Goto, Same

LEMMA QuietReturn ==
    ASSUME TypeOK, WriterInv, NEW p \in Procs, Return(p),
           UNCHANGED <<cache, tree, disk, closed>>
    PROVE  WriterInv'
  BY ReturnSame, QuietStep DEF QuietLabels, ReadOnlyLabels

LEMMA QuietEnter ==
    ASSUME TypeOK, WriterInv, NEW p \in Procs, NEW op \in OpKinds, NEW label \in QuietLabels,
           NEW k, NEW items, Enter(p, op, label, k, items),
           op \in ReadOnlyOps => label \in ReadOnlyLabels
    PROVE  WriterInv'
  <1>1. /\ UNCHANGED <<cache, tree, disk, closed>>
        /\ pc[p] = "idle" /\ op \in Ops[p]
    BY DEF Enter, cacheVars, treeVars, lockVars
  <1>2. flushed[p] = {}
    BY <1>1 DEF WriterInv, FlushLabels
  <1>3. CASE closed
    BY <1>1, <1>2, <1>3, QuietStep
       DEF Enter, callVars, Same, QuietLabels, ReadOnlyLabels, TypeOK
  <1>4. CASE ~closed
    <2>1. Same(p) /\ pc'[p] = label /\ flushed'[p] = {}
      BY <1>2, <1>4 DEF Enter, Goto, Same, TypeOK
    <2> QED
      BY <1>1, <1>4, <2>1, QuietStep
  <1> QED
    BY <1>3, <1>4

\* A step of the writer that is inside neither half of a flush nor a lookup
\* afterwards has to re-establish only what relates cache, tree and disk.
LEMMA WriterStep ==
    ASSUME TypeOK, OneWriter, WriterInv, NEW p \in Procs, ~(Ops[p] \subseteq ReadOnlyOps), Same(p),
           CleanIsSaved',
           pc'[p] \in {"idle", "write", "closeBacking"}, flushed'[p] = {},
           pc'[p] = "write" => ~closed'
    PROVE  WriterInv'
  <1>1. \A q \in Procs : q # p => pc'[q] \in ReadOnlyLabels /\ pc'[q] = pc[q] /\ flushed'[q] = flushed[q]
    BY OthersOnlyRead DEF Same
  <1> USE <1>1 DEF ReadOnlyLabels, FlushLabels
  <1>2. FillIsFresh' /\ FlushCoversDirty' /\ ClearedIsSaved'
    BY DEF FillIsFresh, FlushCoversDirty, ClearedIsSaved
  <1>3. \A q \in Procs : Ops[q] \subseteq ReadOnlyOps => pc'[q] \in ReadOnlyLabels
    BY DEF WriterInv
  <1>4. \A q \in Procs : pc'[q] \notin FlushLabels => flushed'[q] = {}
    BY DEF WriterInv
  <1>5. \A q \in Procs : pc'[q] \notin ReadOnlyLabels \cup {"closeBacking"} => ~closed'
    OBVIOUS
  <1> QED
    BY <1>2, <1>3, <1>4, <1>5 DEF WriterInv

\* A goroutine outside the read-only calls is not a read-only one.
LEMMA IsWriter ==
    ASSUME WriterInv, NEW p \in Procs, pc[p] \notin ReadOnlyLabels
    PROVE  ~(Ops[p] \subseteq ReadOnlyOps)
  BY DEF WriterInv

\* Writing a dirty entry leaves the clean keys as they are.
LEMMA WriteItemKeeps ==
    ASSUME TypeOK, LruListsCache, OneWriter, Roomy, WriterInv, NEW p \in Procs, WriteItem(p)
    PROVE  WriterInv'
  <1>1. PICK k \in Present(batch[p]) :
          /\ CacheSet(k, [value |-> batch[p][k], dirty |-> TRUE])
          /\ IF Present(batch[p]) = {k}
             THEN Return(p)
             ELSE /\ batch' = [batch EXCEPT ![p][k] = Absent]
                  /\ UNCHANGED <<pc, key, got, flushed>>
    BY DEF WriteItem
  <1> DEFINE e == [value |-> batch[p][k], dirty |-> TRUE]
  <1>2. k \in Keys /\ e \in Entries
    BY SMT, <1>1 DEF Present, TypeOK, Items, Entries
  <1>3. cache' = [cache EXCEPT ![k] = e]
    BY <1>1, <1>2, NoEviction
  <1>4. pc[p] = "write" /\ UNCHANGED <<tree, disk, closed>>
    BY DEF WriteItem, treeVars, lockVars
  <1>5. flushed[p] = {} /\ ~closed /\ ~(Ops[p] \subseteq ReadOnlyOps)
    BY <1>4, IsWriter DEF WriterInv, FlushLabels, ReadOnlyLabels
  <1>6. CleanIsSaved'
    <2>1. \A j \in Keys : j # k => cache'[j] = cache[j]
      BY <1>3 DEF TypeOK
    <2>2. cache'[k] = e /\ e.dirty /\ e # Absent
      BY <1>2, <1>3, ValuesAssumption DEF TypeOK
    <2> HIDE DEF e
    <2> QED
      BY <1>2, <1>4, <2>1, <2>2 DEF WriterInv, CleanIsSaved, Dirty, View
  <1>7. Same(p) /\ pc'[p] \in {"idle", "write"} /\ flushed'[p] = {}
    <2>1. CASE Return(p)
      BY <2>1, ReturnSame
    <2>2. CASE /\ batch' = [batch EXCEPT ![p][k] = Absent]
               /\ UNCHANGED <<pc, key, got, flushed>>
      BY <1>4, <1>5, <2>2 DEF Same, TypeOK
    <2> QED
      BY <1>1, <2>1, <2>2
  <1> QED
    BY <1>4, <1>5, <1>6, <1>7, WriterStep

\* Filling the cache after a miss puts in what the tree holds.
LEMMA GetFillKeeps ==
    ASSUME TypeOK, LruListsCache, OneWriter, Roomy, WriterInv, NEW p \in Procs, GetFill(p)
    PROVE  WriterInv'
  <1> DEFINE k == key[p]
             e == [value |-> got[p], dirty |-> FALSE]
  <1>1. pc[p] = "getFill" /\ CacheSet(k, e) /\ Return(p) /\ UNCHANGED <<tree, disk, closed>>
    BY DEF GetFill, treeVars, lockVars
  <1>2. k \in Keys /\ e \in Entries
    BY <1>1 DEF TypeOK, LookupLabels, Entries
  <1>3. cache' = [cache EXCEPT ![k] = e]
    BY <1>1, <1>2, NoEviction
  <1>4. cache[k] = Absent /\ e.value = tree[k] /\ ~e.dirty
    BY <1>1 DEF WriterInv, FillIsFresh
  <1>5. cache'[k] = e /\ \A j \in Keys : j # k => cache'[j] = cache[j]
    BY <1>2, <1>3 DEF TypeOK
  <1>6. e # Absent
    BY <1>2, ValuesAssumption
  <1> HIDE DEF e, k
  <1>7. CleanIsSaved'
    BY <1>1, <1>2, <1>4, <1>5, <1>6 DEF WriterInv, CleanIsSaved, Dirty, View
  <1> QED
    BY <1>1, <1>7, ReturnSame, WriterStep, IsWriter DEF ReadOnlyLabels

\* A miss, and the read of the tree that follows it.
LEMMA LookupKeeps ==
    ASSUME TypeOK, OneWriter, WriterInv, NEW p \in Procs, GetCache(p) \/ GetBacking(p)
    PROVE  WriterInv'
  <1>1. /\ UNCHANGED <<cache, tree, disk, closed>>
        /\ pc[p] \in {"getCache", "getBacking"}
    BY DEF GetCache, GetBacking, Touch, cacheVars, treeVars, lockVars
  <1>2. CASE Return(p)
    BY <1>1, <1>2, QuietReturn
  <1>3. CASE ~Return(p)
    <2>1. ~(Ops[p] \subseteq ReadOnlyOps) /\ ~closed /\ flushed[p] = {}
      BY <1>1, IsWriter DEF ReadOnlyLabels, WriterInv, FlushLabels
    <2>2. Same(p) /\ flushed'[p] = {} /\ pc'[p] \in {"getBacking", "getFill"}
      BY <1>3, <2>1 DEF GetCache, GetBacking, Goto, Same, TypeOK, callVars
    <2>3. /\ cache[key'[p]] = Absent
          /\ pc'[p] = "getFill" => got'[p] = tree[key'[p]] /\ got'[p] # Nil
      BY SMT, <1>1, <1>3 DEF GetCache, GetBacking, Goto, TypeOK, callVars, WriterInv, FillIsFresh
    <2>4. \A q \in Procs : q # p => pc'[q] \in ReadOnlyLabels /\ pc'[q] = pc[q] /\ flushed'[q] = flushed[q]
      BY <2>1, <2>2, OthersOnlyRead DEF Same
    <2> USE DEF ReadOnlyLabels, FlushLabels
    <2>5. CleanIsSaved'
      BY <1>1 DEF WriterInv, CleanIsSaved, Dirty, View
    <2>6. FillIsFresh'
      BY <1>1, <2>3, <2>4 DEF FillIsFresh
    <2>7. FlushCoversDirty' /\ ClearedIsSaved'
      BY <2>2, <2>4 DEF FlushCoversDirty, ClearedIsSaved
    <2>8. \A q \in Procs : Ops[q] \subseteq ReadOnlyOps => pc'[q] \in ReadOnlyLabels
      BY <2>1, <2>4
    <2>9. \A q \in Procs : pc'[q] \notin FlushLabels => flushed'[q] = {}
      BY <2>2, <2>4 DEF WriterInv
    <2>10. \A q \in Procs : pc'[q] \notin ReadOnlyLabels \cup {"closeBacking"} => ~closed'
      BY <1>1, <2>1, <2>4
    <2> QED
      BY <2>5, <2>6, <2>7, <2>8, <2>9, <2>10 DEF WriterInv
  <1> QED
    BY <1>2, <1>3

\* A step of the writer inside Flush: what is left to show about the invariant.
LEMMA FlushStep ==
    ASSUME TypeOK, OneWriter, WriterInv, NEW p \in Procs, ~(Ops[p] \subseteq ReadOnlyOps), Same(p),
           ~closed', pc'[p] \in FlushLabels, CleanIsSaved',
           pc'[p] \in {"flushWrite", "flushSave"} =>
               /\ \A k \in Keys :
                    /\ Dirty(k)' <=> batch'[p][k] # Absent \/ k \in flushed'[p]
                    /\ batch'[p][k] # Absent => batch'[p][k] = cache'[k].value
                    /\ k \in flushed'[p] /\ batch'[p][k] = Absent => tree'[k] = cache'[k].value
               /\ pc'[p] = "flushSave" => Present(batch'[p]) = {},
           pc'[p] = "flushClear" =>
               /\ tree' = disk'
               /\ \A k \in Keys : Dirty(k)' <=> k \in flushed'[p]
               /\ \A k \in flushed'[p] : tree'[k] = cache'[k].value
    PROVE  WriterInv'
  <1>1. \A q \in Procs : q # p => pc'[q] \in ReadOnlyLabels /\ pc'[q] = pc[q] /\ flushed'[q] = flushed[q]
    BY OthersOnlyRead DEF Same
  <1> USE DEF ReadOnlyLabels, FlushLabels
  <1>2. FillIsFresh'
    BY <1>1 DEF FillIsFresh
  <1>3. FlushCoversDirty'
    BY ZenonT(40), <1>1 DEF FlushCoversDirty, Present
  <1>4. ClearedIsSaved'
    BY <1>1 DEF ClearedIsSaved
  <1>5. \A q \in Procs : Ops[q] \subseteq ReadOnlyOps => pc'[q] \in ReadOnlyLabels
    BY <1>1
  <1>6. \A q \in Procs : pc'[q] \notin FlushLabels => flushed'[q] = {}
    BY <1>1 DEF WriterInv
  <1>7. \A q \in Procs : pc'[q] \notin ReadOnlyLabels \cup {"closeBacking"} => ~closed'
    BY <1>1
  <1> QED
    BY <1>2, <1>3, <1>4, <1>5, <1>6, <1>7 DEF WriterInv

\* The snapshot holds exactly the dirty objects.
LEMMA BeginFlushKeeps ==
    ASSUME TypeOK, OneWriter, WriterInv, NEW p \in Procs, BeginFlush(p)
    PROVE  WriterInv'
  <1>1. /\ UNCHANGED <<cache, tree, disk, closed>>
        /\ pc[p] = "idle" /\ "flush" \in Ops[p] /\ flushed[p] = {}
    BY DEF BeginFlush, cacheVars, treeVars, WriterInv, FlushLabels
  <1>2. CASE closed
    BY <1>1, <1>2, QuietStep
       DEF BeginFlush, callVars, Same, QuietLabels, ReadOnlyLabels, TypeOK
  <1>3. CASE ~closed
    <2> DEFINE snap == [k \in Keys |-> IF Dirty(k) THEN cache[k].value ELSE Absent]
               label == IF DirtyKeys = {} THEN "flushSave" ELSE "flushWrite"
    <2>1. /\ batch' = [batch EXCEPT ![p] = snap]
          /\ pc' = [pc EXCEPT ![p] = label]
          /\ UNCHANGED <<key, got, flushed>>
      BY <1>3 DEF BeginFlush, Goto
    <2>2. \A k \in Keys : /\ snap[k] # Absent <=> Dirty(k)
                          /\ Dirty(k) => snap[k] = cache[k].value
      BY ValuesAssumption DEF TypeOK, Dirty, Entries
    <2>3. label \in {"flushSave", "flushWrite"} /\ (label = "flushSave" => Present(snap) = {})
      BY <2>2 DEF Present, DirtyKeys
    <2> HIDE DEF snap, label
    <2>4. Same(p) /\ pc'[p] = label /\ batch'[p] = snap /\ flushed'[p] = {}
      BY <1>1, <2>1 DEF Same, TypeOK
    <2>5. CleanIsSaved' /\ \A k \in Keys : Dirty(k)' <=> Dirty(k)
      BY <1>1 DEF WriterInv, CleanIsSaved, Dirty, View
    <2> QED
      BY <1>1, <1>3, <2>2, <2>3, <2>4, <2>5, FlushStep DEF FlushLabels, ReadOnlyOps
  <1> QED
    BY <1>2, <1>3

\* Writing one key of the batch into the tree.
LEMMA FlushWriteKeeps ==
    ASSUME TypeOK, OneWriter, WriterInv, NEW p \in Procs, FlushWrite(p)
    PROVE  WriterInv'
  <1> DEFINE k == Least(Present(batch[p]))
             label == IF Present(batch[p]) = {k} THEN "flushSave" ELSE "flushWrite"
  <1>1. k \in Keys /\ batch[p][k] # Absent
    <2>1. Present(batch[p]) \in SUBSET Keys /\ Present(batch[p]) # {}
      BY DEF Present, FlushWrite, TypeOK
    <2> QED
      BY <2>1, LeastMember DEF Present
  <1>2. /\ pc[p] = "flushWrite"
        /\ tree' = [tree EXCEPT ![k] = batch[p][k]]
        /\ batch' = [batch EXCEPT ![p][k] = Absent]
        /\ flushed' = [flushed EXCEPT ![p] = @ \cup {k}]
        /\ pc' = [pc EXCEPT ![p] = label]
        /\ UNCHANGED <<cache, disk, closed, key, got>>
    BY DEF FlushWrite, Goto, cacheVars, lockVars
  <1>3. label \in {"flushSave", "flushWrite"} /\ (label = "flushSave" => Present(batch[p]) = {k})
    OBVIOUS
  <1> HIDE DEF k, label
  <1>4. ~closed /\ ~(Ops[p] \subseteq ReadOnlyOps)
    BY <1>2, IsWriter DEF WriterInv, ReadOnlyLabels
  <1>5. /\ Same(p) /\ pc'[p] = label
        /\ flushed'[p] = flushed[p] \cup {k}
        /\ \A j \in Keys : batch'[p][j] = IF j = k THEN Absent ELSE batch[p][j]
        /\ \A j \in Keys : tree'[j] = IF j = k THEN batch[p][k] ELSE tree[j]
    BY <1>1, <1>2 DEF Same, TypeOK, Items
  <1>6. \A j \in Keys :
          /\ Dirty(j) <=> batch[p][j] # Absent \/ j \in flushed[p]
          /\ batch[p][j] # Absent => batch[p][j] = cache[j].value
          /\ j \in flushed[p] /\ batch[p][j] = Absent => tree[j] = cache[j].value
    BY <1>2 DEF WriterInv, FlushCoversDirty
  <1>7. \A j \in Keys : Dirty(j)' <=> Dirty(j)
    BY <1>2 DEF Dirty
  <1>8. CleanIsSaved'
    BY SMTT(30), <1>1, <1>2, <1>4, <1>5, <1>6, <1>7 DEF WriterInv, CleanIsSaved, View, Dirty
  <1>9. \A j \in Keys :
          /\ Dirty(j)' <=> batch'[p][j] # Absent \/ j \in flushed'[p]
          /\ batch'[p][j] # Absent => batch'[p][j] = cache'[j].value
          /\ j \in flushed'[p] /\ batch'[p][j] = Absent => tree'[j] = cache'[j].value
    BY SMT, <1>1, <1>2, <1>5, <1>6, <1>7
  <1>10. label = "flushSave" => Present(batch'[p]) = {}
    BY <1>1, <1>3, <1>5 DEF Present
  <1> QED
    BY <1>2, <1>3, <1>4, <1>5, <1>8, <1>9, <1>10, FlushStep DEF FlushLabels

\* Saving the version.
LEMMA FlushSaveKeeps ==
    ASSUME TypeOK, OneWriter, WriterInv, NEW p \in Procs, FlushSave(p)
    PROVE  WriterInv'
  <1>1. /\ pc[p] = "flushSave" /\ pc' = [pc EXCEPT ![p] = "flushClear"]
        /\ disk' = tree
        /\ UNCHANGED <<cache, tree, closed, key, got, batch, flushed>>
    BY DEF FlushSave, Goto, cacheVars, lockVars, callVars
  <1>2. ~closed /\ ~(Ops[p] \subseteq ReadOnlyOps)
    BY <1>1, IsWriter DEF WriterInv, ReadOnlyLabels
  <1>3. Same(p) /\ pc'[p] = "flushClear"
    BY <1>1 DEF Same, TypeOK
  <1>4. \A k \in Keys :
          /\ batch[p][k] = Absent
          /\ Dirty(k) <=> k \in flushed[p]
          /\ k \in flushed[p] => tree[k] = cache[k].value
    BY <1>1 DEF WriterInv, FlushCoversDirty, Present
  <1>5. \A k \in Keys : Dirty(k)' <=> Dirty(k)
    BY <1>1 DEF Dirty
  <1>6. CleanIsSaved'
    BY <1>1, <1>2, <1>5 DEF WriterInv, CleanIsSaved, View
  <1>7. flushed[p] \subseteq Keys
    BY DEF TypeOK
  <1> QED
    BY <1>1, <1>2, <1>3, <1>4, <1>5, <1>6, <1>7, FlushStep DEF FlushLabels

\* Clearing one dirty flag.
LEMMA FlushClearKeeps ==
    ASSUME TypeOK, OneWriter, WriterInv, NEW p \in Procs, FlushClear(p)
    PROVE  WriterInv' /\ \A k \in Keys : Dirty(k) /\ ~Dirty(k)' => disk[k] = cache[k].value
  <1>1. PICK k \in Keys : k = Least(flushed[p]) /\ k \in flushed[p]
    BY LeastMember DEF FlushClear, TypeOK
  <1>2. /\ pc[p] = "flushClear"
        /\ cache' = IF cache[k] # Absent THEN [cache EXCEPT ![k].dirty = FALSE] ELSE cache
        /\ flushed' = [flushed EXCEPT ![p] = @ \ {k}]
        /\ UNCHANGED <<tree, disk, closed, pc, key, got, batch>>
    BY <1>1 DEF FlushClear, treeVars, lockVars
  <1>3. ~closed /\ ~(Ops[p] \subseteq ReadOnlyOps)
    BY <1>2, IsWriter DEF WriterInv, ReadOnlyLabels
  <1>4. /\ tree = disk
        /\ \A j \in Keys : Dirty(j) <=> j \in flushed[p]
        /\ \A j \in flushed[p] : tree[j] = cache[j].value
    BY <1>2 DEF WriterInv, ClearedIsSaved
  <1>5. cache[k] # Absent /\ cache[k] \in Entries
    BY <1>1, <1>4 DEF Dirty, TypeOK
  <1>6. /\ cache'[k] = [cache[k] EXCEPT !.dirty = FALSE]
        /\ \A j \in Keys : j # k => cache'[j] = cache[j]
    BY <1>1, <1>2, <1>5 DEF TypeOK
  <1>7. /\ cache'[k] \in Entries /\ ~cache'[k].dirty /\ cache'[k].value = cache[k].value
    BY <1>5, <1>6 DEF Entries
  <1>8. /\ ~Dirty(k)'
        /\ \A j \in Keys : j # k => (Dirty(j)' <=> Dirty(j))
    <2>1. ~Dirty(k)'
      BY <1>7 DEF Dirty
    <2>2. ASSUME NEW j \in Keys, j # k PROVE Dirty(j)' <=> Dirty(j)
      <3>1. cache'[j] = cache[j]
        BY <1>6, <2>2
      <3> QED
        BY <3>1 DEF Dirty
    <2> QED
      BY <2>1, <2>2
  <1>9. Same(p) /\ pc'[p] = "flushClear" /\ flushed'[p] = flushed[p] \ {k}
    BY <1>2 DEF Same, TypeOK
  <1>10. cache'[k] # Absent
    BY <1>7, ValuesAssumption
  <1>11. CleanIsSaved'
    BY SMTT(30), <1>1, <1>2, <1>3, <1>4, <1>6, <1>7, <1>8, <1>10 DEF WriterInv, CleanIsSaved, View
  <1>12. flushed[p] \subseteq Keys
    BY DEF TypeOK
  <1>13. WriterInv'
    <2>1. \A j \in Keys : Dirty(j)' <=> j \in flushed'[p]
      BY <1>1, <1>4, <1>8, <1>9
    <2>2. \A j \in flushed'[p] : tree'[j] = cache'[j].value
      BY <1>2, <1>4, <1>6, <1>9, <1>12
    <2>3. tree' = disk' /\ ~closed'
      BY <1>2, <1>3, <1>4
    <2> QED
      BY <1>3, <1>9, <1>11, <2>1, <2>2, <2>3, FlushStep DEF FlushLabels
  <1> QED
    BY <1>1, <1>4, <1>8, <1>13

\* WriterInv is inductive under OneWriter and Roomy.
LEMMA WriterInductive ==
    ASSUME OneWriter, Roomy
    PROVE  TypeOK /\ LockInv /\ LruListsCache /\ WriterInv /\ [Next]_vars => WriterInv'
  <1> SUFFICES ASSUME TypeOK, LockInv, LruListsCache, WriterInv, [Next]_vars PROVE WriterInv'
    OBVIOUS
  <1>1. ASSUME NEW p \in Procs, Begin(p) PROVE WriterInv'
    <2>1. CASE \/ BeginGet(p) \/ BeginHas(p) \/ BeginScan(p) \/ BeginSet(p)
               \/ BeginDelete(p) \/ BeginSetBatch(p) \/ BeginDeleteBatch(p)
      BY <2>1, QuietEnter
         DEF BeginGet, BeginHas, BeginScan, BeginSet, BeginDelete, BeginSetBatch,
             BeginDeleteBatch, QuietLabels, ReadOnlyLabels, ReadOnlyOps, OpKinds
    <2>2. CASE BeginFlush(p)
      BY <2>2, BeginFlushKeeps
    <2>3. CASE BeginClose(p)
      <3>1. /\ ~(Ops[p] \subseteq ReadOnlyOps) /\ flushed[p] = {}
            /\ closed' /\ pc' = [pc EXCEPT ![p] = "closeBacking"]
            /\ UNCHANGED <<key, got, batch, flushed>>
        BY <2>3 DEF BeginClose, Goto, callVars, ReadOnlyOps, WriterInv, FlushLabels
      <3>2. Same(p) /\ pc'[p] = "closeBacking" /\ flushed'[p] = {}
        BY <3>1 DEF Same, TypeOK
      <3>3. CleanIsSaved'
        BY <3>1 DEF CleanIsSaved
      <3> QED
        BY <3>1, <3>2, <3>3, WriterStep
    <2> QED
      BY <1>1, <2>1, <2>2, <2>3 DEF Begin
  <1>2. ASSUME NEW p \in Procs, Step(p) PROVE WriterInv'
    <2>1. CASE GetCache(p) \/ GetBacking(p)
      BY <2>1, LookupKeeps
    <2>2. CASE GetFill(p)
      BY <2>2, GetFillKeeps
    <2>3. CASE HasCache(p)
      <3>1. UNCHANGED <<cache, tree, disk, closed>> /\ pc[p] = "hasCache"
        BY <2>3 DEF HasCache, Touch, cacheVars, treeVars, lockVars
      <3>2. CASE Return(p)
        BY <3>1, <3>2, QuietReturn
      <3>3. CASE ~Return(p)
        <4>1. Same(p) /\ pc'[p] = "hasBacking" /\ flushed'[p] = {}
          BY <2>3, <3>1, <3>3 DEF HasCache, Goto, callVars, Same, TypeOK, WriterInv, FlushLabels
        <4> QED
          BY <3>1, <4>1, QuietStep DEF QuietLabels, ReadOnlyLabels
      <3> QED
        BY <3>2, <3>3
    <2>4. CASE HasBacking(p) \/ Scan(p)
      BY <2>4, QuietReturn DEF HasBacking, Scan, cacheVars, treeVars, lockVars
    <2>5. CASE WriteItem(p)
      BY <2>5, WriteItemKeeps
    <2>6. CASE FlushWrite(p)
      BY <2>6, FlushWriteKeeps
    <2>7. CASE FlushSave(p)
      BY <2>7, FlushSaveKeeps
    <2>8. CASE FlushClear(p)
      BY <2>8, FlushClearKeeps
    <2>9. CASE FlushWriteFails(p) \/ FlushSaveFails(p) \/ FlushReturn(p)
      BY <2>9, QuietReturn
         DEF FlushWriteFails, FlushSaveFails, FlushFails, FlushReturn, cacheVars, treeVars
    <2>10. CASE CloseBacking(p)
      BY <2>10, QuietReturn DEF CloseBacking, cacheVars
    <2> QED
      BY <1>2, <2>1, <2>2, <2>3, <2>4, <2>5, <2>6, <2>7, <2>8, <2>9, <2>10 DEF Step
  <1>3. CASE Restart
    <2>1. /\ \A k \in Keys : cache'[k] = Absent
          /\ tree' = disk /\ disk' = disk
          /\ \A q \in Procs : pc'[q] = "idle" /\ flushed'[q] = {}
      BY <1>3 DEF Restart, NoItems
    <2> QED
      BY <2>1 DEF WriterInv, CleanIsSaved, FillIsFresh, FlushCoversDirty, ClearedIsSaved,
                  Dirty, View, ReadOnlyLabels, FlushLabels
  <1>4. CASE UNCHANGED vars
    BY SMTT(30), <1>4 DEF vars, WriterInv, CleanIsSaved, FillIsFresh, FlushCoversDirty, ClearedIsSaved,
                Dirty, View, Present
  <1> QED
    BY <1>1, <1>2, <1>3, <1>4 DEF Next

LEMMA WriterInit == Init => WriterInv
  BY ZenonT(40) DEF Init, WriterInv, CleanIsSaved, FillIsFresh, FlushCoversDirty, ClearedIsSaved, NoItems,
         Dirty, View, ReadOnlyLabels, FlushLabels

\* LockInv is an invariant.
LEMMA LockCorrect == Spec => []LockInv
  <1>1. Init => LockInv
    BY ProcsAssumption DEF Init, LockInv, FlushExcludesClose, FlushLabels
  <1> QED
    BY <1>1, TypeCorrect, LockInductive, PTL DEF Spec

\* Replacing one entry by a dirty one, or an absent one by any, cleans no key.
LEMMA EntryStaysDirty ==
    ASSUME TypeOK, NEW k \in Keys, NEW e \in Entries, cache' = [cache EXCEPT ![k] = e],
           e.dirty \/ cache[k] = Absent
    PROVE  \A j \in Keys : Dirty(j) => Dirty(j)'
  <1> SUFFICES ASSUME NEW j \in Keys, Dirty(j) PROVE Dirty(j)'
    OBVIOUS
  <1>1. CASE j = k
    <2>1. cache'[j] = e /\ e # Absent /\ e.dirty
      BY <1>1, ValuesAssumption DEF TypeOK, Dirty
    <2> QED
      BY <2>1 DEF Dirty
  <1>2. CASE j # k
    <2>1. cache'[j] = cache[j]
      BY <1>2 DEF TypeOK
    <2> QED
      BY <2>1 DEF Dirty
  <1> QED
    BY <1>1, <1>2

\* Only a flush that has saved, a Close or a crash turns a dirty key clean.
LEMMA DirtyStep ==
    ASSUME OneWriter, Roomy, TypeOK, LruListsCache, WriterInv, [Next]_vars,
           NEW k \in Keys, Dirty(k), ~Dirty(k)'
    PROVE  disk'[k] = cache[k].value \/ closed' \/ Restart
  <1>1. cache' # cache
    BY DEF Dirty
  <1>2. ASSUME NEW p \in Procs, Begin(p) PROVE closed'
    <2>1. CASE BeginClose(p)
      BY <2>1 DEF BeginClose
    <2>2. CASE ~BeginClose(p)
      BY <1>1, <1>2, <2>2
         DEF Begin, BeginGet, BeginHas, BeginScan, BeginSet, BeginDelete, BeginSetBatch,
             BeginDeleteBatch, BeginFlush, Enter, cacheVars
    <2> QED
      BY <2>1, <2>2
  <1>3. ASSUME NEW p \in Procs, Step(p) PROVE disk'[k] = cache[k].value
    <2>1. CASE GetFill(p)
      <3>1. key[p] \in Keys /\ [value |-> got[p], dirty |-> FALSE] \in Entries
        BY <2>1 DEF GetFill, TypeOK, LookupLabels, Entries
      <3>2. cache' = [cache EXCEPT ![key[p]] = [value |-> got[p], dirty |-> FALSE]]
        BY <2>1, <3>1, NoEviction DEF GetFill
      <3>3. cache[key[p]] = Absent
        BY <2>1 DEF GetFill, WriterInv, FillIsFresh
      <3> QED
        BY <3>1, <3>2, <3>3, EntryStaysDirty
    <2>2. CASE WriteItem(p)
      <3>1. PICK j \in Present(batch[p]) :
              CacheSet(j, [value |-> batch[p][j], dirty |-> TRUE])
        BY <2>2 DEF WriteItem
      <3>2. j \in Keys /\ [value |-> batch[p][j], dirty |-> TRUE] \in Entries
        BY SMT, <3>1 DEF Present, TypeOK, Items, Entries
      <3>3. cache' = [cache EXCEPT ![j] = [value |-> batch[p][j], dirty |-> TRUE]]
        BY <3>1, <3>2, NoEviction
      <3> QED
        BY <3>2, <3>3, EntryStaysDirty
    <2>3. CASE FlushClear(p)
      BY <2>3, FlushClearKeeps DEF FlushClear, treeVars
    <2>4. CASE ~(GetFill(p) \/ WriteItem(p) \/ FlushClear(p))
      BY <1>1, <1>3, <2>4
         DEF Step, GetCache, GetBacking, HasCache, HasBacking, Scan, Touch, FlushWrite,
             FlushWriteFails, FlushSave, FlushSaveFails, FlushFails, FlushReturn,
             CloseBacking, cacheVars
    <2> QED
      BY <2>1, <2>2, <2>3, <2>4
  <1>4. CASE UNCHANGED vars
    BY <1>1, <1>4 DEF vars
  <1> QED
    BY <1>2, <1>3, <1>4 DEF Next

-----------------------------------------------------------------------------
(* The refinement *)

\* A key that is not pending has the same object in the view and in the tree.
LEMMA NotPendingIsSaved ==
    ASSUME WriterInv, ~closed, NEW k \in Keys, k \notin Pending
    PROVE  View(k) = tree[k]
  <1>1. CASE ~Dirty(k)
    BY <1>1 DEF WriterInv, CleanIsSaved
  <1>2. CASE Dirty(k)
    <2>1. PICK q \in Procs : pc[q] = "flushClear" /\ k \in flushed[q]
      BY <1>2 DEF Pending, DirtyKeys
    <2> QED
      BY <1>2, <2>1 DEF WriterInv, ClearedIsSaved, View, Dirty
  <1> QED
    BY <1>1, <1>2

\* A step that leaves cache, tree, disk and `closed` alone, and no flush's
\* clearing half, leaves the abstract store alone.
LEMMA ViewUnchanged ==
    ASSUME UNCHANGED <<cache, tree, disk, closed>>,
           \A q \in Procs : /\ pc'[q] = "flushClear" <=> pc[q] = "flushClear"
                            /\ pc[q] = "flushClear" => flushed'[q] = flushed[q]
    PROVE  UNCHANGED <<StoreView, disk, StorePending, ~closed>>
  BY DEF StoreView, StorePending, Pending, DirtyKeys, Dirty, View

\* A call that returns, or moves on, outside the clearing half of a flush.
LEMMA OutsideClear ==
    ASSUME TypeOK, NEW p \in Procs, Same(p), pc[p] # "flushClear", pc'[p] # "flushClear",
           UNCHANGED <<cache, tree, disk, closed>>
    PROVE  UNCHANGED <<StoreView, disk, StorePending, ~closed>>
  BY ViewUnchanged DEF Same

\* The abstract steps, spelled out over the variables of the cached store.
LEMMA AbstractSteps ==
    /\ \A p \in Procs, k \in Keys :
         /\ ~closed /\ Answer(p, "get", k, StoreView[k])
         /\ UNCHANGED <<StoreView, disk, StorePending, ~closed>>
         => Store!Next
    /\ \A p \in Procs, k \in Keys, b \in BOOLEAN :
         /\ ~closed /\ Answer(p, "has", k, b) /\ (k \notin StorePending => b = (StoreView[k] # Nil))
         /\ UNCHANGED <<StoreView, disk, StorePending, ~closed>>
         => Store!Next
    /\ \A p \in Procs, k \in Keys, v \in Objects :
         /\ ~closed /\ Answer(p, "scan", k, v) /\ (k \notin StorePending => v = StoreView[k])
         /\ UNCHANGED <<StoreView, disk, StorePending, ~closed>>
         => Store!Next
    /\ \A p \in Procs, op \in {"flush", "failed"} :
         /\ Answer(p, op, Nil, Nil)
         /\ UNCHANGED <<StoreView, disk, StorePending, ~closed>>
         => Store!Next
    /\ \A p \in Procs, op \in {"has", "scan", "close", "closed", "failed"},
          k \in Keys \cup {Nil}, v \in Objects \cup BOOLEAN :
         /\ closed /\ Answer(p, op, k, v)
         /\ UNCHANGED <<StoreView, disk, StorePending, ~closed>>
         => Store!Next
<1>1. \A p \in Procs, k \in Keys :
           /\ ~closed /\ Answer(p, "get", k, StoreView[k])
           /\ UNCHANGED <<StoreView, disk, StorePending, ~closed>>
           => Store!Next
  BY DEF Store!Next, Store!Get, Store!Answer, Store!Reply, Store!Objects, Answer, Objects
<1>2. \A p \in Procs, k \in Keys, b \in BOOLEAN :
           /\ ~closed /\ Answer(p, "has", k, b) /\ (k \notin StorePending => b = (StoreView[k] # Nil))
           /\ UNCHANGED <<StoreView, disk, StorePending, ~closed>>
           => Store!Next
  BY DEF Store!Next, Store!Has, Store!Answer, Store!Reply, Store!Objects, Answer, Objects
<1>3. \A p \in Procs, k \in Keys, v \in Objects :
           /\ ~closed /\ Answer(p, "scan", k, v) /\ (k \notin StorePending => v = StoreView[k])
           /\ UNCHANGED <<StoreView, disk, StorePending, ~closed>>
           => Store!Next
  BY DEF Store!Next, Store!Scan, Store!Answer, Store!Reply, Store!Objects, Answer, Objects
<1>4. \A p \in Procs, op \in {"flush", "failed"} :
           /\ Answer(p, op, Nil, Nil)
           /\ UNCHANGED <<StoreView, disk, StorePending, ~closed>>
           => Store!Next
  BY DEF Store!Next, Store!Acknowledge, Store!Answer, Store!Reply, Store!Objects, Answer, Objects
<1>5. \A p \in Procs, op \in {"has", "scan", "close", "closed", "failed"},
            k \in Keys \cup {Nil}, v \in Objects \cup BOOLEAN :
           /\ closed /\ Answer(p, op, k, v)
           /\ UNCHANGED <<StoreView, disk, StorePending, ~closed>>
           => Store!Next
  BY DEF Store!Next, Store!Late, Store!Answer, Store!Reply, Store!Objects, Answer, Objects
<1> QED
  BY <1>1, <1>2, <1>3, <1>4, <1>5

Refined == Store!Next \/ UNCHANGED Store!vars

LEMMA StutterMeans ==
    UNCHANGED <<StoreView, disk, StorePending, ~closed>> /\ UNCHANGED ret => Refined
  BY DEF Refined, Store!vars

\* Beginning a call is invisible, or tells the caller that the store is closed.
LEMMA EnterRefines ==
    ASSUME TypeOK, NEW p \in Procs, NEW op, NEW label \in Labels \ {"flushClear"},
           NEW k, NEW items, Enter(p, op, label, k, items)
    PROVE  Refined
  <1>1. pc[p] = "idle" /\ UNCHANGED <<cache, tree, disk, closed>>
    BY DEF Enter, cacheVars, treeVars, lockVars
  <1>2. CASE closed
    <2>1. Answer(p, "closed", Nil, Nil) /\ UNCHANGED <<pc, flushed>>
      BY <1>2 DEF Enter, callVars
    <2>2. UNCHANGED <<StoreView, disk, StorePending, ~closed>>
      BY <1>1, <2>1, ViewUnchanged
    <2> QED
      BY <1>2, <2>1, <2>2, AbstractSteps DEF Refined, Objects
  <1>3. CASE ~closed
    <2>1. Same(p) /\ pc'[p] = label /\ UNCHANGED ret
      BY <1>3 DEF Enter, Goto, Same, TypeOK
    <2>2. UNCHANGED <<StoreView, disk, StorePending, ~closed>>
      BY <1>1, <2>1, OutsideClear
    <2> QED
      BY <2>1, <2>2, StutterMeans
  <1> QED
    BY <1>2, <1>3

LEMMA BeginRefines ==
    ASSUME TypeOK, NEW p \in Procs, Begin(p)
    PROVE  Refined
  <1>1. CASE \/ BeginGet(p) \/ BeginHas(p) \/ BeginScan(p) \/ BeginSet(p)
             \/ BeginDelete(p) \/ BeginSetBatch(p) \/ BeginDeleteBatch(p)
    BY <1>1, EnterRefines
       DEF BeginGet, BeginHas, BeginScan, BeginSet, BeginDelete, BeginSetBatch,
           BeginDeleteBatch, Labels
  <1>2. CASE BeginFlush(p)
    <2>1. pc[p] = "idle" /\ UNCHANGED <<cache, tree, disk, closed>>
      BY <1>2 DEF BeginFlush, cacheVars, treeVars
    <2>2. CASE closed
      <3>1. Answer(p, "closed", Nil, Nil) /\ UNCHANGED <<pc, flushed>>
        BY <1>2, <2>2 DEF BeginFlush, callVars
      <3>2. UNCHANGED <<StoreView, disk, StorePending, ~closed>>
        BY <2>1, <3>1, ViewUnchanged
      <3> QED
        BY <2>2, <3>1, <3>2, AbstractSteps DEF Refined, Objects
    <2>3. CASE ~closed
      <3>1. Same(p) /\ pc'[p] \in {"flushSave", "flushWrite"} /\ UNCHANGED ret
        BY <1>2, <2>3 DEF BeginFlush, Goto, Same, TypeOK
      <3>2. UNCHANGED <<StoreView, disk, StorePending, ~closed>>
        BY <2>1, <3>1, OutsideClear
      <3> QED
        BY <3>1, <3>2, StutterMeans
    <2> QED
      BY <2>2, <2>3
  <1>3. CASE BeginClose(p)
    <2>1. ~closed /\ closed' /\ UNCHANGED <<disk, ret>>
      BY <1>3 DEF BeginClose, treeVars
    <2>2. StoreView' = disk /\ StorePending' = {}
      BY <2>1 DEF StoreView, StorePending
    <2>3. Store!Close
      BY <2>1, <2>2 DEF Store!Close
    <2> QED
      BY <2>3 DEF Refined, Store!Next
  <1> QED
    BY <1>1, <1>2, <1>3 DEF Begin

\* A Get answers with the view.
LEMMA GetRefines ==
    ASSUME TypeOK, LockInv, LruListsCache, OneWriter, Roomy, WriterInv, "read" \notin Faults,
           NEW p \in Procs, GetCache(p) \/ GetBacking(p) \/ GetFill(p)
    PROVE  Refined
  <1>1. /\ key[p] \in Keys
        /\ ~closed /\ UNCHANGED <<tree, disk, closed>>
        /\ pc[p] \in {"getCache", "getBacking", "getFill"}
    BY DEF GetCache, GetBacking, GetFill, TypeOK, LookupLabels, WriterInv, ReadOnlyLabels,
           treeVars, lockVars
  <1>2. StoreView[key[p]] = View(key[p])
    BY <1>1 DEF StoreView
  <1>3. CASE GetCache(p)
    <2>1. UNCHANGED cache
      BY <1>3 DEF GetCache, Touch, cacheVars
    <2>2. CASE cache[key[p]] # Absent
      <3>1. Answer(p, "get", key[p], StoreView[key[p]])
        BY <1>2, <1>3, <2>2 DEF GetCache, View
      <3>2. Return(p)
        BY <1>3, <2>2 DEF GetCache
      <3>3. UNCHANGED <<StoreView, disk, StorePending, ~closed>>
        BY <1>1, <2>1, <3>2, ReturnSame, OutsideClear
      <3> QED
        BY <1>1, <3>1, <3>3, AbstractSteps DEF Refined
    <2>3. CASE cache[key[p]] = Absent
      <3>1. Same(p) /\ pc'[p] = "getBacking" /\ UNCHANGED ret
        BY <1>3, <2>3 DEF GetCache, Goto, callVars, Same, TypeOK
      <3> QED
        BY <1>1, <2>1, <3>1, OutsideClear, StutterMeans
    <2> QED
      BY <2>2, <2>3
  <1>4. CASE GetBacking(p)
    <2>1. UNCHANGED cache /\ View(key[p]) = tree[key[p]]
      BY <1>4 DEF GetBacking, cacheVars, WriterInv, FillIsFresh, View
    <2>2. ~treeClosed
      BY <1>1 DEF LockInv
    <2>3. CASE tree[key[p]] = Nil
      <3>1. Answer(p, "get", key[p], StoreView[key[p]]) /\ Return(p)
        BY <1>2, <1>4, <2>1, <2>3 DEF GetBacking
      <3>2. UNCHANGED <<StoreView, disk, StorePending, ~closed>>
        BY <1>1, <2>1, <3>1, ReturnSame, OutsideClear
      <3> QED
        BY <1>1, <3>1, <3>2, AbstractSteps DEF Refined
    <2>4. CASE tree[key[p]] # Nil
      <3>1. Same(p) /\ pc'[p] = "getFill" /\ UNCHANGED ret
        BY <1>4, <2>2, <2>4 DEF GetBacking, ReadOutcomes, Goto, Same, TypeOK
      <3> QED
        BY <1>1, <2>1, <3>1, OutsideClear, StutterMeans
    <2> QED
      BY <2>3, <2>4
  <1>5. CASE GetFill(p)
    <2>1. PICK k \in Keys : k = key[p]
      BY <1>1
    <2>2. PICK e \in Entries : e = [value |-> got[p], dirty |-> FALSE]
      BY DEF TypeOK, Entries
    <2>3. cache' = [cache EXCEPT ![k] = e]
      BY <1>5, <2>1, <2>2, NoEviction DEF GetFill
    <2>4. cache[k] = Absent /\ e.value = tree[k] /\ ~e.dirty /\ e # Absent
      BY <1>5, <2>1, <2>2, ValuesAssumption DEF GetFill, WriterInv, FillIsFresh
    <2>5. cache'[k] = e /\ \A j \in Keys : j # k => cache'[j] = cache[j]
      BY <2>3 DEF TypeOK
    <2>6. \A j \in Keys : View(j)' = View(j) /\ (Dirty(j)' <=> Dirty(j))
      BY <1>1, <2>4, <2>5 DEF View, Dirty
    <2>7. Return(p) /\ Answer(p, "get", k, tree[k])
      BY <1>5, <2>1, <2>2, <2>4 DEF GetFill
    <2>8. \A q \in Procs : /\ pc'[q] = "flushClear" <=> pc[q] = "flushClear"
                           /\ pc[q] = "flushClear" => flushed'[q] = flushed[q]
      BY <1>1, <2>7, ReturnSame DEF Same
    <2>9. UNCHANGED <<StoreView, disk, StorePending, ~closed>>
      BY <1>1, <2>6, <2>8 DEF StoreView, StorePending, Pending, DirtyKeys
    <2>10. StoreView[k] = tree[k]
      BY <1>2, <2>1, <2>4 DEF View
    <2> QED
      BY <1>1, <2>7, <2>9, <2>10, AbstractSteps DEF Refined
  <1> QED
    BY <1>3, <1>4, <1>5

\* Has and the iterators answer with the view for every key that is not pending.
LEMMA ReadOnlyRefines ==
    ASSUME TypeOK, LockInv, WriterInv, "read" \notin Faults,
           NEW p \in Procs, HasCache(p) \/ HasBacking(p) \/ Scan(p)
    PROVE  Refined
  <1>1. /\ key[p] \in Keys
        /\ UNCHANGED <<cache, tree, disk, closed>>
        /\ pc[p] \in {"hasCache", "hasBacking", "scan"}
    BY DEF HasCache, HasBacking, Scan, TypeOK, LookupLabels, treeVars, lockVars, cacheVars, Touch
  <1>2. PICK k \in Keys : k = key[p]
    BY <1>1
  <1>3. ~closed => StoreView[k] = View(k) /\ StorePending = Pending
    BY DEF StoreView, StorePending
  <1>4. ~closed /\ k \notin StorePending => StoreView[k] = tree[k]
    BY <1>3, NotPendingIsSaved
  <1>5. ~closed => ~treeClosed
    BY DEF LockInv
  <1>6. tree[k] \in Objects
    BY DEF TypeOK
  <1>7. Return(p) => UNCHANGED <<StoreView, disk, StorePending, ~closed>>
    BY <1>1, ReturnSame, OutsideClear
  <1>8. CASE HasCache(p) /\ cache[k] = Absent
    <2>1. Same(p) /\ pc'[p] = "hasBacking" /\ UNCHANGED ret
      BY <1>2, <1>8 DEF HasCache, Goto, callVars, Same, TypeOK
    <2> QED
      BY <1>1, <2>1, OutsideClear, StutterMeans
  <1>9. CASE HasCache(p) /\ cache[k] # Absent
    <2>1. PICK b \in BOOLEAN : b = (cache[k].value # Nil)
      OBVIOUS
    <2>2. Return(p) /\ Answer(p, "has", k, b)
      BY <1>2, <1>9, <2>1 DEF HasCache
    <2>3. ~closed => b = (StoreView[k] # Nil)
      BY <1>3, <1>9, <2>1 DEF View
    <2> QED
      BY <1>7, <2>2, <2>3, AbstractSteps DEF Refined
  <1>10. CASE HasBacking(p)
    <2>1. PICK b \in BOOLEAN : b = (tree[k] # Nil)
      OBVIOUS
    <2>2. Return(p)
      BY <1>10 DEF HasBacking
    <2>3. Answer(p, "has", k, b) \/ Answer(p, "failed", Nil, Nil)
      BY <1>2, <1>10, <2>1 DEF HasBacking
    <2>4. ~closed => (k \notin StorePending => b = (StoreView[k] # Nil))
      BY <1>4, <2>1
    <2>5. CASE Answer(p, "failed", Nil, Nil)
      BY <1>7, <2>2, <2>5, AbstractSteps DEF Refined
    <2>6. CASE Answer(p, "has", k, b)
      BY <1>7, <2>2, <2>4, <2>6, AbstractSteps DEF Refined
    <2> QED
      BY <2>3, <2>5, <2>6
  <1>11. CASE Scan(p)
    <2>1. Return(p)
      BY <1>11 DEF Scan
    <2>2. Answer(p, "scan", k, tree[k]) \/ Answer(p, "failed", Nil, Nil)
      BY <1>2, <1>11 DEF Scan
    <2>3. CASE Answer(p, "failed", Nil, Nil)
      BY <1>7, <2>1, <2>3, AbstractSteps DEF Refined
    <2>4. CASE Answer(p, "scan", k, tree[k])
      BY <1>4, <1>6, <1>7, <2>1, <2>4, AbstractSteps DEF Refined
    <2> QED
      BY <2>2, <2>3, <2>4
  <1> QED
    BY <1>2, <1>8, <1>9, <1>10, <1>11

\* Each Cache.Set of a write is one write of the abstract store.
LEMMA WriteRefines ==
    ASSUME TypeOK, LockInv, LruListsCache, OneWriter, Roomy, WriterInv,
           NEW p \in Procs, WriteItem(p)
    PROVE  Refined
  <1>1. /\ pc[p] = "write" /\ ~closed /\ UNCHANGED <<tree, disk, closed>>
    BY DEF WriteItem, WriterInv, ReadOnlyLabels, treeVars, lockVars
  <1>2. PICK k \in Present(batch[p]) :
          /\ CacheSet(k, [value |-> batch[p][k], dirty |-> TRUE])
          /\ Answer(p, "write", k, batch[p][k])
          /\ Return(p) \/ UNCHANGED <<pc, key, got, flushed>>
    BY DEF WriteItem
  <1>3. k \in Keys /\ batch[p][k] \in Objects
    BY SMT, <1>2 DEF Present, TypeOK, Items
  <1>4. PICK e \in Entries : e = [value |-> batch[p][k], dirty |-> TRUE]
    BY <1>3 DEF Entries
  <1>5. cache' = [cache EXCEPT ![k] = e]
    BY <1>2, <1>3, <1>4, NoEviction
  <1>6. /\ cache'[k] = e /\ e # Absent /\ e.dirty /\ e.value = batch[p][k]
        /\ \A j \in Keys : j # k => cache'[j] = cache[j]
    BY <1>3, <1>4, <1>5, ValuesAssumption DEF TypeOK
  <1>7. /\ View(k)' = batch[p][k] /\ Dirty(k)'
        /\ \A j \in Keys : j # k => View(j)' = View(j) /\ (Dirty(j)' <=> Dirty(j))
    BY <1>1, <1>6 DEF View, Dirty
  <1>8. \A q \in Procs : pc[q] # "flushClear" /\ pc'[q] # "flushClear"
    <2>1. \A q \in Procs : q = p \/ pc[q] \in ReadOnlyLabels
      BY <1>1, IsWriter, OthersOnlyRead DEF ReadOnlyLabels
    <2>2. \A q \in Procs : pc[q] # "flushClear"
      BY <1>1, <2>1 DEF ReadOnlyLabels
    <2> QED
      BY <1>2, <2>2 DEF Return, Goto, TypeOK
  <1>9. StorePending' = StorePending \cup {k}
    <2>1. \A j : j \in StorePending <=> j \in Keys /\ Dirty(j)
      BY <1>1, <1>8 DEF StorePending, Pending, DirtyKeys
    <2>2. \A j : j \in StorePending' <=> j \in Keys /\ Dirty(j)'
      BY <1>1, <1>8 DEF StorePending, Pending, DirtyKeys
    <2> QED
      BY <1>3, <1>7, <2>1, <2>2
  <1>10. StoreView' = [StoreView EXCEPT ![k] = batch[p][k]]
    <2>1. StoreView = [j \in Keys |-> View(j)]
      BY <1>1 DEF StoreView
    <2>2. StoreView' = [j \in Keys |-> View(j)']
      BY <1>1 DEF StoreView
    <2> QED
      BY <1>3, <1>7, <2>1, <2>2
  <1>11. Store!Write(p, k, batch[p][k])
    BY <1>1, <1>2, <1>9, <1>10 DEF Store!Write, Store!Answer, Store!Reply, Answer
  <1> QED
    BY <1>3, <1>11 DEF Refined, Store!Next, Store!Objects, Objects

\* Of the steps of a flush, saving the version is the abstract flush; the
\* others are invisible or bring its caller the reply.
LEMMA FlushRefines ==
    ASSUME TypeOK, LockInv, OneWriter, WriterInv, NEW p \in Procs,
           \/ FlushWrite(p) \/ FlushWriteFails(p) \/ FlushSave(p)
           \/ FlushSaveFails(p) \/ FlushClear(p) \/ FlushReturn(p)
    PROVE  Refined
  <1>1. pc[p] \in FlushLabels /\ ~closed /\ UNCHANGED closed
    BY DEF FlushWrite, FlushWriteFails, FlushSave, FlushSaveFails, FlushClear, FlushReturn,
           FlushFails, FlushLabels, lockVars, WriterInv, ReadOnlyLabels
  <1>2. \A q \in Procs : q # p => pc[q] # "flushClear"
    BY <1>1, IsWriter, OthersOnlyRead DEF ReadOnlyLabels, FlushLabels
  <1>3. CASE FlushWriteFails(p) \/ FlushSaveFails(p)
    <2>1. /\ Answer(p, "failed", Nil, Nil) /\ Return(p) /\ pc[p] # "flushClear"
          /\ UNCHANGED <<cache, tree, disk, closed>>
      BY <1>3 DEF FlushWriteFails, FlushSaveFails, FlushFails, cacheVars, treeVars
    <2> QED
      BY <2>1, ReturnSame, OutsideClear, AbstractSteps DEF Refined
  <1>4. CASE FlushWrite(p)
    <2>1. PICK k \in Present(batch[p]) : k = Least(Present(batch[p]))
      <3>1. Present(batch[p]) \in SUBSET Keys /\ Present(batch[p]) # {}
        BY <1>4 DEF FlushWrite, TypeOK, Present
      <3> QED
        BY <3>1, LeastMember
    <2>2. /\ k \in Keys /\ Dirty(k) /\ cache[k] # Absent
          /\ pc[p] = "flushWrite" /\ UNCHANGED <<cache, disk, ret>>
          /\ tree' = [tree EXCEPT ![k] = batch[p][k]]
          /\ Same(p) /\ pc'[p] # "flushClear"
      <3>1. k \in Keys /\ Dirty(k) /\ cache[k] # Absent /\ pc[p] = "flushWrite"
        BY <1>4 DEF FlushWrite, Present, WriterInv, FlushCoversDirty, Dirty
      <3>2. tree' = [tree EXCEPT ![k] = batch[p][k]] /\ UNCHANGED <<cache, disk, ret>>
        BY <1>4, <2>1 DEF FlushWrite, cacheVars
      <3>3. Same(p) /\ pc'[p] # "flushClear"
        BY <1>4, <2>1 DEF FlushWrite, Goto, Same, TypeOK
      <3> QED
        BY <3>1, <3>2, <3>3
    <2>3. \A j \in Keys : View(j)' = View(j)
      BY <2>2 DEF View, TypeOK
    <2>4. \A q \in Procs : pc[q] # "flushClear" /\ pc'[q] # "flushClear"
      BY <1>2, <2>2 DEF Same
    <2>5. UNCHANGED <<StoreView, disk, StorePending, ~closed>>
      BY <1>1, <2>2, <2>3, <2>4 DEF StoreView, StorePending, Pending, DirtyKeys, Dirty
    <2> QED
      BY <2>2, <2>5, StutterMeans
  <1>5. CASE FlushSave(p)
    <2>1. /\ pc[p] = "flushSave" /\ pc' = [pc EXCEPT ![p] = "flushClear"]
          /\ disk' = tree /\ UNCHANGED <<cache, tree, flushed, ret>>
      BY <1>5 DEF FlushSave, Goto, cacheVars, callVars
    <2>2. \A j \in Keys : /\ Dirty(j) <=> j \in flushed[p]
                          /\ j \in flushed[p] => tree[j] = cache[j].value
      BY <2>1 DEF WriterInv, FlushCoversDirty, Present
    <2>3. \A j \in Keys : View(j) = tree[j]
      BY <1>1, <2>2 DEF WriterInv, CleanIsSaved, View, Dirty
    <2>4. StoreView = tree
      BY <1>1, <2>3 DEF StoreView, TypeOK
    <2>5. StoreView' = StoreView
      BY <1>1, <2>1 DEF StoreView, View
    <2>6. pc'[p] = "flushClear"
      BY <2>1 DEF TypeOK
    <2>7. StorePending' = {}
      BY <1>1, <2>1, <2>2, <2>6 DEF StorePending, Pending, DirtyKeys, Dirty
    <2>8. Store!Flush
      BY <1>1, <2>1, <2>4, <2>5, <2>7 DEF Store!Flush
    <2> QED
      BY <2>8 DEF Refined, Store!Next
  <1>6. CASE FlushClear(p)
    <2>1. PICK k \in flushed[p] : k = Least(flushed[p])
      <3>1. flushed[p] \in SUBSET Keys /\ flushed[p] # {}
        BY <1>6 DEF FlushClear, TypeOK
      <3> QED
        BY <3>1, LeastMember
    <2>2. /\ k \in Keys /\ pc[p] = "flushClear"
          /\ cache' = IF cache[k] # Absent THEN [cache EXCEPT ![k].dirty = FALSE] ELSE cache
          /\ flushed' = [flushed EXCEPT ![p] = @ \ {k}]
          /\ UNCHANGED <<tree, disk, pc, ret>>
      BY <1>6, <2>1 DEF FlushClear, treeVars, TypeOK
    <2>3. \A j \in Keys : Dirty(j) <=> j \in flushed[p]
      BY <2>2 DEF WriterInv, ClearedIsSaved
    <2>4. cache[k] # Absent /\ cache[k] \in Entries
      BY <2>1, <2>2, <2>3 DEF Dirty, TypeOK
    <2>5. /\ cache'[k] = [value |-> cache[k].value, dirty |-> FALSE]
          /\ \A j \in Keys : j # k => cache'[j] = cache[j]
      BY <2>2, <2>4 DEF TypeOK, Entries
    <2>6. [value |-> cache[k].value, dirty |-> FALSE] # Absent
      <3>1. [value |-> cache[k].value, dirty |-> FALSE] \in Entries
        BY <2>4 DEF Entries
      <3> QED
        BY <3>1, ValuesAssumption
    <2>7. /\ View(k)' = View(k) /\ ~Dirty(k)'
          /\ \A j \in Keys : j # k => View(j)' = View(j) /\ (Dirty(j)' <=> Dirty(j))
      BY SMT, <2>2, <2>4, <2>5, <2>6 DEF View, Dirty
    <2>8. flushed'[p] = flushed[p] \ {k}
      BY <2>2 DEF TypeOK
    <2>9. StorePending = {}
      BY <1>1, <2>2, <2>3 DEF StorePending, Pending, DirtyKeys
    <2>10. \A j \in Keys : Dirty(j)' => j \in flushed'[p]
      BY <2>3, <2>7, <2>8
    <2>11. StorePending' = {}
      BY <1>1, <2>2, <2>10 DEF StorePending, Pending, DirtyKeys
    <2>12. StoreView' = StoreView
      BY <1>1, <2>2, <2>7 DEF StoreView
    <2> QED
      BY <1>1, <2>2, <2>9, <2>11, <2>12, StutterMeans
  <1>7. CASE FlushReturn(p)
    <2>1. /\ pc[p] = "flushClear" /\ flushed[p] = {} /\ Answer(p, "flush", Nil, Nil)
          /\ Return(p) /\ UNCHANGED <<cache, tree, disk>>
      BY <1>7 DEF FlushReturn, cacheVars, treeVars
    <2>2. \A j \in Keys : ~Dirty(j) /\ ~Dirty(j)'
      BY <2>1 DEF WriterInv, ClearedIsSaved, Dirty
    <2>3. StorePending = {} /\ StorePending' = {}
      BY <1>1, <2>2 DEF StorePending, Pending, DirtyKeys
    <2>4. StoreView' = StoreView
      BY <1>1, <2>1 DEF StoreView, View
    <2>5. UNCHANGED <<StoreView, disk, StorePending, ~closed>>
      BY <1>1, <2>1, <2>3, <2>4
    <2> QED
      BY <2>1, <2>5, AbstractSteps DEF Refined
  <1> QED
    BY <1>3, <1>4, <1>5, <1>6, <1>7

LEMMA StepRefines ==
    ASSUME TypeOK, LockInv, LruListsCache, OneWriter, Roomy, WriterInv, "read" \notin Faults,
           [Next]_vars
    PROVE  [Store!Next]_(Store!vars)
  <1>1. ASSUME NEW p \in Procs, CloseBacking(p)
        PROVE  Refined
    <2>1. closed /\ pc[p] = "closeBacking"
      BY <1>1 DEF CloseBacking, LockInv
    <2>2. Answer(p, "close", Nil, Nil) /\ Return(p) /\ UNCHANGED <<cache, tree, disk, closed>>
      BY <1>1 DEF CloseBacking, cacheVars
    <2> QED
      BY <2>1, <2>2, ReturnSame, OutsideClear, AbstractSteps DEF Refined, Objects
  <1>2. CASE Restart
    <2>1. closed' = FALSE /\ cache' = NoItems /\ tree' = disk /\ UNCHANGED <<disk, ret>>
      BY <1>2 DEF Restart
    <2>2. \A k \in Keys : ~Dirty(k)' /\ View(k)' = disk[k]
      BY <2>1 DEF Dirty, View, NoItems
    <2>3. StorePending' = {}
      BY <2>1, <2>2 DEF StorePending, Pending, DirtyKeys
    <2>4. StoreView' = disk
      BY <2>1, <2>2 DEF StoreView, TypeOK
    <2>5. Store!Restart
      BY <2>1, <2>3, <2>4 DEF Store!Restart
    <2> QED
      BY <2>5 DEF Store!Next
  <1>3. CASE UNCHANGED vars
    <2>1. UNCHANGED <<cache, tree, disk, closed, pc, flushed, ret>>
      BY <1>3 DEF vars
    <2> QED
      BY <2>1, ViewUnchanged, StutterMeans DEF Refined
  <1>4. CASE \E p \in Procs : Begin(p) \/ Step(p)
    BY <1>1, <1>4, BeginRefines, GetRefines, ReadOnlyRefines, WriteRefines, FlushRefines
       DEF Step, Refined
  <1> QED
    BY <1>2, <1>3, <1>4 DEF Next

LEMMA InitRefines == Init => Store!Init
  <1> SUFFICES ASSUME Init PROVE Store!Init
    OBVIOUS
  <1>1. \A k \in Keys : ~Dirty(k) /\ View(k) = disk[k]
    BY DEF Init, Dirty, View, NoItems
  <1>2. StoreView = disk
    BY <1>1 DEF Init, StoreView
  <1>3. StorePending = {}
    BY <1>1 DEF Init, StorePending, Pending, DirtyKeys
  <1> QED
    BY <1>2, <1>3 DEF Init, Store!Init, Store!Reply, Store!Objects, Objects

-----------------------------------------------------------------------------
(* The theorems under OneWriter and Ample *)

INSTANCE FiniteSetTheorems

\* A list of different keys is an injection into Keys, so the cache has room for it.
LEMMA AmpleIsRoomy == Ample => Roomy
  <1> SUFFICES ASSUME Ample, NEW s \in Seq(Keys), \A i, j \in 1 .. Len(s) : s[i] = s[j] => i = j
               PROVE  Len(s) <= Capacity
    BY DEF Roomy
  <1>1. PICK n \in Nat : n = Len(s)
    BY SMT
  <1>2. s \in Injection(1 .. n, Keys)
    BY SMT, <1>1 DEF Injection, IsInjective
  <1>3. Cardinality(1 .. n) <= Cardinality(Keys)
    BY <1>2, FS_Injection, KeysAssumption
  <1>4. Cardinality(1 .. n) = n
    BY SMTT(30), FS_Interval
  <1>5. Cardinality(Keys) \in Nat
    BY FS_CardinalityType, KeysAssumption
  <1> QED
    BY SMTT(30), <1>1, <1>3, <1>4, <1>5, CapacityAssumption DEF Ample

\* With one writer and an ample cache, WriterInv always holds: in particular a
\* key that is not dirty is the same in the cache, the tree and on disk.
THEOREM WriterCorrect ==
    ASSUME OneWriter, Ample
    PROVE  Spec => []WriterInv
  <1>1. TypeOK /\ LockInv /\ LruListsCache /\ WriterInv /\ [Next]_vars => WriterInv'
    BY AmpleIsRoomy, WriterInductive
  <1> QED
    BY <1>1, WriterInit, TypeCorrect, LockCorrect, LruCorrect, PTL DEF Spec

\* With one writer and an ample cache no acknowledged write is dropped: a dirty
\* entry stays dirty until its object is on disk (DirtyUntilSaved).
THEOREM NoWriteDropped ==
    ASSUME OneWriter, Ample
    PROVE  Spec => DirtyUntilSaved
  <1>1. TypeOK /\ LruListsCache /\ WriterInv /\ [Next]_vars =>
          [\A k \in Keys : Dirty(k) /\ ~Dirty(k)' =>
              \/ disk'[k] = cache[k].value
              \/ closed'
              \/ Restart]_vars
    BY AmpleIsRoomy, DirtyStep
  <1> QED
    BY <1>1, TypeCorrect, LruCorrect, WriterCorrect, PTL DEF Spec, DirtyUntilSaved

\* When one goroutine writes, the cache holds every key and the database reads
\* without error, the cached store is an ObjectStore: a Get answers with the last
\* Set or Delete, Flush makes all of them durable in one step or not at all, and
\* a crash loses exactly what was not flushed.
THEOREM StoreRefinement ==
    ASSUME OneWriter, Ample, "read" \notin Faults
    PROVE  Spec => ImplementsObjectStore
  <1>1. Init => Store!Init
    BY InitRefines
  <1>2. TypeOK /\ LockInv /\ LruListsCache /\ WriterInv /\ [Next]_vars
          => [Store!Next]_(Store!vars)
    BY AmpleIsRoomy, StepRefines
  <1>3. Spec => []TypeOK /\ []LockInv /\ []LruListsCache /\ []WriterInv
    BY TypeCorrect, LockCorrect, LruCorrect, WriterCorrect
  <1> QED
    BY <1>1, <1>2, <1>3, PTL DEF Spec, ImplementsObjectStore, Store!Spec
=============================================================================
