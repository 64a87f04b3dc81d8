----------------------------- MODULE FoldLemmas -----------------------------
(***************************************************************************)
(* Induction over finite sets and natural numbers, and what the folds of   *)
(* the community modules compute, for the proofs of the other modules.     *)
(*                                                                         *)
(* The induction theorems of the library take a predicate as a parameter,  *)
(* which the provers cannot instantiate.  Here the predicate is a set, and *)
(* an induction is a least counterexample: the strict subset ordering is   *)
(* well founded on the subsets of a finite set.                            *)
(***************************************************************************)
EXTENDS Functions, FiniteSetTheorems, TLAPS

(* Least elements and induction *)

\* A non-empty family of subsets of a finite set has a member without a smaller one.
LEMMA LeastSet ==
  ASSUME NEW S, IsFiniteSet(S), NEW F \in SUBSET SUBSET S, F # {}
  PROVE  \E X \in F : \A Y \in F : Y \subseteq X => Y = X
  <1>1. FiniteSubsetsOf(S) = SUBSET S
    BY FS_FiniteSubsetsOfFinite
  <1>2. PICK X \in F : \A Y \in F : ~(<<Y, X>> \in StrictSubsetOrdering(S))
    BY <1>1, FS_StrictSubsetOrderingWellFounded, WFMin
  <1>3. ASSUME NEW Y \in F, Y \subseteq X PROVE Y = X
    <2>1. Y # X => <<Y, X>> \in StrictSubsetOrdering(S)
      BY <1>3 DEF StrictSubsetOrdering
    <2> QED
      BY <1>2, <2>1
  <1> QED
    BY <1>3

\* A family of subsets of a finite set that holds the empty set and, with a set, every
\* set one element larger, holds them all.
LEMMA SubsetInduction ==
  ASSUME NEW S, IsFiniteSet(S), NEW F, {} \in F,
         \A T \in SUBSET S, x \in S : T \in F /\ x \notin T => T \cup {x} \in F
  PROVE  SUBSET S \subseteq F
  <1> SUFFICES ASSUME NEW U \in SUBSET S, U \notin F PROVE FALSE
    OBVIOUS
  <1> DEFINE B == {T \in SUBSET S : T \notin F}
  <1>1. B \in SUBSET SUBSET S /\ B # {}
    OBVIOUS
  <1> HIDE DEF B
  <1>2. PICK X \in B : \A Y \in B : Y \subseteq X => Y = X
    BY <1>1, LeastSet
  <1>3. X \in SUBSET S /\ X \notin F /\ X # {}
    BY DEF B
  <1>4. PICK x \in X : TRUE
    BY <1>3
  <1>5. X \ {x} \in SUBSET S /\ X \ {x} # X /\ X \ {x} \subseteq X /\ x \in S /\ x \notin X \ {x}
    BY <1>3, <1>4
  <1>6. X \ {x} \in F
    BY <1>2, <1>5 DEF B
  <1>7. (X \ {x}) \cup {x} = X
    BY <1>4
  <1>8. (X \ {x}) \cup {x} \in F
    BY <1>5, <1>6
  <1> QED
    BY <1>3, <1>7, <1>8

\* A non-empty set of natural numbers has a least member.
LEMMA LeastNat ==
  ASSUME NEW T \in SUBSET Nat, T # {}
  PROVE  \E n \in T : \A m \in T : n <= m
  <1>1. PICK t \in T : TRUE
    OBVIOUS
  <1> DEFINE F == {1 .. n : n \in {m \in T : m <= t}}
  <1>2. IsFiniteSet(1 .. t)
    BY FS_Interval
  <1>3. F \in SUBSET SUBSET (1 .. t) /\ F # {}
    <2>1. t \in Nat /\ 1 .. t \in F
      OBVIOUS
    <2>2. ASSUME NEW n \in T, n <= t PROVE 1 .. n \subseteq 1 .. t
      BY <2>2
    <2> QED
      BY <2>1, <2>2
  <1>a. \A X \in F : \E n \in T : n <= t /\ X = 1 .. n
    OBVIOUS
  <1>b. \A n \in T : n <= t => 1 .. n \in F
    OBVIOUS
  <1> DEFINE D == 1 .. t
  <1>c. IsFiniteSet(D) /\ F \in SUBSET SUBSET D /\ F # {}
    BY <1>2, <1>3
  <1> HIDE DEF F, D
  <1>4. PICK X \in F : \A Y \in F : Y \subseteq X => Y = X
    BY <1>c, LeastSet
  <1>5. PICK n \in T : n <= t /\ X = 1 .. n
    BY <1>a
  <1>6. ASSUME NEW m \in T, m < n PROVE FALSE
    <2>1. n \in Nat /\ m \in Nat /\ t \in Nat /\ m <= t
      BY <1>5, <1>6
    <2>2. 1 .. m \in F
      BY <2>1, <1>b
    <2>3. 1 .. m \subseteq 1 .. n
      BY <2>1, <1>6
    <2>4. 1 .. m = 1 .. n
      BY <2>2, <2>3, <1>4, <1>5
    <2> QED
      BY <2>1, <2>4, <1>6
  <1>7. \A m \in T : n <= m
    BY <1>5, <1>6
  <1> QED
    BY <1>7

\* A set that holds 0 and, with a natural number, its successor holds them all.
LEMMA NatSetInduction ==
  ASSUME NEW S, 0 \in S, \A n \in Nat : n \in S => n + 1 \in S
  PROVE  Nat \subseteq S
  <1> SUFFICES ASSUME NEW u \in Nat, u \notin S PROVE FALSE
    OBVIOUS
  <1> DEFINE B == {n \in Nat : n \notin S}
  <1>1. B \in SUBSET Nat /\ B # {}
    OBVIOUS
  <1> HIDE DEF B
  <1>2. PICK n \in B : \A m \in B : n <= m
    BY <1>1, LeastNat
  <1>3. n \in Nat /\ n \notin S /\ n # 0
    BY DEF B
  <1>4. n - 1 \in Nat /\ n - 1 \notin B
    BY <1>2, <1>3
  <1>5. (n - 1) + 1 \in S
    BY <1>4 DEF B
  <1> QED
    BY <1>3, <1>5

\* h is a recursion over the numbers up to n: G[k] makes the value at k from the one before it.
Recurses(h, n, V, base, G) ==
  /\ h \in [0 .. n -> V]
  /\ h[0] = base
  /\ \A k \in 1 .. n : h[k] = G[k][h[k - 1]]

\* There is a recursion up to every number.
LEMMA Recursion ==
  ASSUME NEW V, NEW base \in V, NEW n \in Nat, NEW G, \A k \in 1 .. n, v \in V : G[k][v] \in V
  PROVE  \E h : Recurses(h, n, V, base, G)
  <1> DEFINE Solves(h, m) == Recurses(h, m, V, base, G)
             S == {m \in Nat : m <= n => \E h : Solves(h, m)}
  <1>1. 0 \in S
    <2>1. Solves([k \in 0 .. 0 |-> base], 0)
      BY DEF Recurses
    <2> QED
      BY <2>1
  <1>2. ASSUME NEW m \in Nat, m \in S PROVE m + 1 \in S
    <2> SUFFICES ASSUME m + 1 <= n PROVE \E h : Solves(h, m + 1)
      OBVIOUS
    <2>1. PICK h : Solves(h, m)
      BY <1>2
    <2>a. /\ h \in [0 .. m -> V] /\ h[0] = base
          /\ \A k \in 1 .. m : h[k] = G[k][h[k - 1]]
      BY <2>1 DEF Recurses
    <2> DEFINE g == [k \in 0 .. (m + 1) |-> IF k = m + 1 THEN G[k][h[m]] ELSE h[k]]
    <2>2. h[m] \in V /\ m + 1 \in 1 .. n /\ G[m + 1][h[m]] \in V
      BY <2>a
    <2>3. \A k \in 0 .. m : g[k] = h[k] /\ h[k] \in V
      BY <2>a
    <2>4. g[m + 1] = G[m + 1][h[m]]
      OBVIOUS
    <2>5. g \in [0 .. (m + 1) -> V]
      <3>1. ASSUME NEW k \in 0 .. (m + 1) PROVE g[k] \in V
        <4>1. k = m + 1 \/ k \in 0 .. m
          OBVIOUS
        <4> HIDE DEF g
        <4> QED
          BY <4>1, <2>2, <2>3, <2>4
      <3> QED
        BY <3>1
    <2>6. g[0] = base
      BY <2>a, <2>3
    <2>7. ASSUME NEW k \in 1 .. (m + 1) PROVE g[k] = G[k][g[k - 1]]
      <3>1. CASE k = m + 1
        BY <3>1, <2>3, <2>4
      <3>2. CASE k \in 1 .. m
        BY <3>2, <2>a, <2>3
      <3> QED
        BY <3>1, <3>2
    <2> HIDE DEF g
    <2>8. Solves(g, m + 1)
      BY <2>5, <2>6, <2>7 DEF Recurses
    <2> QED
      BY <2>8
  <1> HIDE DEF S
  <1>3. Nat \subseteq S
    BY <1>1, <1>2, NatSetInduction
  <1>4. \E h : Solves(h, n)
    BY <1>3 DEF S
  <1> QED
    BY <1>4

-----------------------------------------------------------------------------
(* Folds *)

\* h folds the subsets of S: the element that c takes from a set first, then the rest of it.
IsFold(h, S, V, base, c, G) ==
  /\ h \in [SUBSET S -> V]
  /\ h[{}] = base
  /\ \A s \in SUBSET S : s # {} => h[s] = G[c[s]][h[s \ {c[s]}]]

\* Two folds agree on the sets that both fold.
LEMMA FoldUnique ==
  ASSUME NEW S, IsFiniteSet(S), NEW V, NEW base \in V, NEW G, NEW c,
         \A s \in SUBSET S : s # {} => c[s] \in s,
         NEW T \in SUBSET S, NEW U \in SUBSET S, NEW h, NEW k,
         IsFold(h, T, V, base, c, G), IsFold(k, U, V, base, c, G)
  PROVE  \A s : s \subseteq T /\ s \subseteq U => h[s] = k[s]
  <1> SUFFICES ASSUME NEW u \in SUBSET (T \cap U), h[u] # k[u] PROVE FALSE
    OBVIOUS
  <1> DEFINE B == {s \in SUBSET (T \cap U) : h[s] # k[s]}
  <1>1. B \in SUBSET SUBSET S /\ B # {}
    OBVIOUS
  <1>2. \A s : s \in B <=> s \in SUBSET S /\ s \subseteq T /\ s \subseteq U /\ h[s] # k[s]
    OBVIOUS
  <1> HIDE DEF B
  <1>3. PICK X \in B : \A Y \in B : Y \subseteq X => Y = X
    BY <1>1, LeastSet
  <1>4. X # {}
    BY <1>2 DEF IsFold
  <1>5. c[X] \in X
    BY <1>2, <1>4
  <1> DEFINE Y == X \ {c[X]}
  <1>6. Y \in SUBSET S /\ Y \subseteq T /\ Y \subseteq U /\ Y \subseteq X /\ Y # X
    BY <1>2, <1>5
  <1>7. h[Y] = k[Y]
    BY <1>2, <1>3, <1>6
  <1>8. h[X] = G[c[X]][h[Y]]
    BY <1>2, <1>4 DEF IsFold
  <1>9. k[X] = G[c[X]][k[Y]]
    BY <1>2, <1>4 DEF IsFold
  <1> QED
    BY <1>2, <1>7, <1>8, <1>9

\* There is a fold over every finite set: the recursion of MapThenFoldSet is well founded.
LEMMA FoldExists ==
  ASSUME NEW S, IsFiniteSet(S), NEW V, NEW base \in V, NEW G, NEW c,
         \A x \in S, v \in V : G[x][v] \in V,
         \A s \in SUBSET S : s # {} => c[s] \in s
  PROVE  \E h : IsFold(h, S, V, base, c, G)
  <1> DEFINE Has(T) == \E h : IsFold(h, T, V, base, c, G)
             B == {T \in SUBSET S : ~Has(T)}
  <1>1. \A T : T \in B <=> T \in SUBSET S /\ ~Has(T)
    OBVIOUS
  <1> SUFFICES ASSUME B # {} PROVE FALSE
    BY <1>1
  <1>2. B \in SUBSET SUBSET S
    OBVIOUS
  <1> HIDE DEF B, Has
  <1>3. PICK X \in B : \A Y \in B : Y \subseteq X => Y = X
    BY <1>2, LeastSet
  <1>4. X \in SUBSET S
    BY <1>1
  <1> DEFINE Rest(s) == s \ {c[s]}
             f(s) == CHOOSE h : IsFold(h, s, V, base, c, G)
             k == [s \in SUBSET X |-> IF s = {} THEN base ELSE G[c[s]][f(Rest(s))[Rest(s)]]]
  <1>5. ASSUME NEW s \in SUBSET X, s # X PROVE IsFold(f(s), s, V, base, c, G)
    <2>1. s \in SUBSET S /\ s \notin B
      BY <1>3, <1>4, <1>5
    <2>2. \E h : IsFold(h, s, V, base, c, G)
      BY <2>1, <1>1 DEF Has
    <2> QED
      BY <2>2
  <1>6. ASSUME NEW s \in SUBSET X, s # {}
        PROVE  /\ c[s] \in s /\ c[s] \in S /\ Rest(s) \in SUBSET X /\ Rest(s) # X
               /\ Rest(s) \in SUBSET S /\ Rest(s) # s
    BY <1>4, <1>6
  <1> HIDE DEF f
  <1>7. ASSUME NEW s \in SUBSET X, s # {} PROVE f(Rest(s))[Rest(s)] \in V
    <2>1. IsFold(f(Rest(s)), Rest(s), V, base, c, G)
      BY <1>5, <1>6, <1>7
    <2> QED
      BY <2>1 DEF IsFold
  <1>8. \A s \in SUBSET X : s # {} => k[s] = G[c[s]][f(Rest(s))[Rest(s)]]
    OBVIOUS
  <1>9. k \in [SUBSET X -> V]
    <2>1. ASSUME NEW s \in SUBSET X PROVE k[s] \in V
      <3>1. CASE s = {}
        BY <3>1
      <3>2. CASE s # {}
        BY <1>6, <1>7, <3>2
      <3> QED
        BY <3>1, <3>2
    <2> HIDE DEF Rest
    <2> QED
      BY <2>1
  <1>10. k[{}] = base
    OBVIOUS
  <1> HIDE DEF k
  <1>11. ASSUME NEW t \in SUBSET X, t # X PROVE f(t)[t] = k[t]
    <2>1. IsFold(f(t), t, V, base, c, G)
      BY <1>5, <1>11
    <2>2. CASE t = {}
      BY <2>1, <2>2, <1>10 DEF IsFold
    <2>3. CASE t # {}
      <3> DEFINE r == Rest(t)
      <3>1. r \in SUBSET X /\ r # X /\ r \in SUBSET S /\ r \subseteq t
        BY <1>6, <2>3
      <3>2. IsFold(f(r), r, V, base, c, G)
        BY <1>5, <3>1
      <3>3. t \in SUBSET S
        BY <1>4
      <3> HIDE DEF r
      <3>5. f(t)[r] = f(r)[r]
        BY <2>1, <3>1, <3>2, <3>3, FoldUnique
      <3>6. f(t)[t] = G[c[t]][f(t)[r]]
        BY <2>1, <2>3 DEF IsFold, r
      <3>7. k[t] = G[c[t]][f(r)[r]]
        BY <1>8, <2>3 DEF r
      <3> QED
        BY <3>5, <3>6, <3>7
    <2> QED
      BY <2>2, <2>3
  <1>12. ASSUME NEW s \in SUBSET X, s # {} PROVE k[s] = G[c[s]][k[Rest(s)]]
    BY <1>6, <1>8, <1>11, <1>12
  <1>13. IsFold(k, X, V, base, c, G)
    BY <1>9, <1>10, <1>12 DEF IsFold
  <1> QED
    BY <1>13, <1>1 DEF Has

-----------------------------------------------------------------------------
(* Sums *)

\* The choices and the additions of SumFunctionOnSet.
SumPick(D) == [s \in SUBSET D |-> CHOOSE x \in s : TRUE]
SumPlus(f, D) == [x \in D |-> [v \in Nat |-> f[x] + v]]

\* The element a sum takes from a set is one of the set.
LEMMA SumPickInside ==
  ASSUME NEW D, NEW s \in SUBSET D, s # {}
  PROVE  SumPick(D)[s] = (CHOOSE x \in s : TRUE) /\ SumPick(D)[s] \in s
  <1>1. (CHOOSE x \in s : TRUE) \in s
    OBVIOUS
  <1> QED
    BY <1>1 DEF SumPick

\* SumFunctionOnSet is such a fold.
LEMMA SumFold ==
  ASSUME NEW D, IsFiniteSet(D), NEW f, \A x \in D : f[x] \in Nat, NEW T \in SUBSET D
  PROVE  \E h : /\ IsFold(h, T, Nat, 0, SumPick(D), SumPlus(f, D))
                /\ SumFunctionOnSet(f, T) = h[T]
  <1> DEFINE c == SumPick(D)
             G == SumPlus(f, D)
  <1>1. IsFiniteSet(T)
    BY FS_Subset
  <1>2. \A s \in SUBSET T : s # {} => c[s] \in s /\ c[s] = CHOOSE x \in s : TRUE
    <2>1. ASSUME NEW s \in SUBSET T, s # {} PROVE c[s] \in s /\ c[s] = CHOOSE x \in s : TRUE
      <3>1. s \in SUBSET D
        OBVIOUS
      <3> QED
        BY <3>1, <2>1, SumPickInside
    <2> QED
      BY <2>1
  <1>3. \A x \in T, v \in Nat : G[x][v] = f[x] + v /\ G[x][v] \in Nat
    <2>1. ASSUME NEW x \in T, NEW v \in Nat PROVE G[x][v] = f[x] + v /\ G[x][v] \in Nat
      <3>1. x \in D /\ f[x] \in Nat
        OBVIOUS
      <3>2. G[x][v] = f[x] + v
        BY <3>1 DEF SumPlus
      <3> QED
        BY <3>1, <3>2
    <2> QED
      BY <2>1
  <1> HIDE DEF c, G
  <1>4. PICK k : IsFold(k, T, Nat, 0, c, G)
    <2>1. \A x \in T, v \in Nat : G[x][v] \in Nat
      BY <1>3
    <2>2. \A s \in SUBSET T : s # {} => c[s] \in s
      BY <1>2
    <2> QED
      BY <1>1, <2>1, <2>2, FoldExists
  <1> DEFINE Body(h) == [s \in SUBSET T |-> IF s = {} THEN 0
                           ELSE f[CHOOSE x \in s : TRUE] + h[s \ {CHOOSE x \in s : TRUE}]]
  <1>5. k = Body(k)
    <2>1. ASSUME NEW s \in SUBSET T PROVE k[s] = Body(k)[s]
      <3>1. CASE s = {}
        BY <3>1, <1>4 DEF IsFold
      <3>2. CASE s # {}
        <4>1. c[s] \in T /\ s \ {c[s]} \in SUBSET T
          BY <1>2, <3>2
        <4>2. k[s \ {c[s]}] \in Nat
          BY <4>1, <1>4 DEF IsFold
        <4>3. k[s] = f[c[s]] + k[s \ {c[s]}]
          BY <4>1, <4>2, <1>3, <1>4, <3>2 DEF IsFold
        <4> QED
          BY <4>3, <1>2, <3>2
      <3> QED
        BY <3>1, <3>2
    <2>2. k = [s \in SUBSET T |-> k[s]]
      BY <1>4 DEF IsFold
    <2> QED
      BY <2>1, <2>2
  <1> DEFINE iter == CHOOSE h : h = Body(h)
  <1>6. iter = Body(iter)
    BY <1>5
  <1>7. SumFunctionOnSet(f, T) = iter[T]
    BY DEF SumFunctionOnSet, FoldFunctionOnSet, MapThenFoldSet
  <1>8. /\ DOMAIN iter = SUBSET T /\ iter[{}] = 0 /\ iter = [s \in SUBSET T |-> iter[s]]
        /\ \A s \in SUBSET T : s # {} => iter[s] = f[c[s]] + iter[s \ {c[s]}]
    <2> HIDE DEF iter
    <2>1. iter = [s \in DOMAIN iter |-> iter[s]] /\ DOMAIN iter = SUBSET T
      BY <1>6
    <2>2. iter[{}] = 0
      BY <1>6
    <2>3. ASSUME NEW s \in SUBSET T, s # {} PROVE iter[s] = f[c[s]] + iter[s \ {c[s]}]
      BY <1>6, <1>2, <2>3
    <2> QED
      BY <2>1, <2>2, <2>3
  <1> HIDE DEF iter
  <1>9. \A s \in SUBSET T : iter[s] \in Nat
    <2> DEFINE B == {s \in SUBSET T : iter[s] \notin Nat}
    <2>1. \A s : s \in B <=> s \in SUBSET T /\ iter[s] \notin Nat
      OBVIOUS
    <2>2. SUFFICES ASSUME B # {} PROVE FALSE
      BY <2>1
    <2>3. B \in SUBSET SUBSET T
      OBVIOUS
    <2>a. iter[{}] = 0
      BY <1>8
    <2>b. \A s \in SUBSET T : s # {} => iter[s] = f[c[s]] + iter[s \ {c[s]}]
      BY <1>8
    <2> HIDE DEF B, Body
    <2>4. PICK X \in B : \A Y \in B : Y \subseteq X => Y = X
      BY <2>2, <2>3, <1>1, LeastSet
    <2>5. X \in SUBSET T /\ X # {} /\ ~(iter[X] \in Nat)
      <3>1. X \in SUBSET T /\ ~(iter[X] \in Nat)
        BY <2>1
      <3>2. iter[{}] \in Nat
        BY <2>a
      <3> QED
        BY <3>1, <3>2
    <2>6. c[X] \in X /\ f[c[X]] \in Nat /\ X \ {c[X]} \subseteq X /\ X \ {c[X]} # X
      BY <2>5, <1>2
    <2>7. iter[X \ {c[X]}] \in Nat
      BY <2>1, <2>4, <2>5, <2>6
    <2> QED
      <3>1. iter[X] = f[c[X]] + iter[X \ {c[X]}]
        BY <2>5, <2>b
      <3>2. f[c[X]] + iter[X \ {c[X]}] \in Nat
        BY <2>6, <2>7
      <3> QED
        BY <3>1, <3>2, <2>5
  <1>10. IsFold(iter, T, Nat, 0, c, G)
    <2>1. iter \in [SUBSET T -> Nat]
      BY <1>8, <1>9
    <2>2. ASSUME NEW s \in SUBSET T, s # {} PROVE iter[s] = G[c[s]][iter[s \ {c[s]}]]
      <3>1. c[s] \in T /\ s \ {c[s]} \in SUBSET T
        BY <1>2, <2>2
      <3> QED
        BY <3>1, <2>2, <1>8, <1>9, <1>3
    <2> QED
      BY <2>1, <2>2, <1>8 DEF IsFold
  <1> QED
    BY <1>7, <1>10 DEF c, G

\* Over the subsets of a finite set D, SumFunctionOnSet(f, _) is 0 for the empty set and f[x] more
\* for a set with x than for the set without it, whichever element the fold takes first.
LEMMA SumOnSet ==
  ASSUME NEW D, IsFiniteSet(D), NEW f, \A x \in D : f[x] \in Nat
  PROVE  /\ SumFunctionOnSet(f, {}) = 0
         /\ \A T \in SUBSET D : SumFunctionOnSet(f, T) \in Nat
         /\ \A T \in SUBSET D : \A x \in T :
              SumFunctionOnSet(f, T) = f[x] + SumFunctionOnSet(f, T \ {x})
  <1> DEFINE c == SumPick(D)
             G == SumPlus(f, D)
  <1>1. \A s \in SUBSET D : s # {} => c[s] \in s
    BY SumPickInside
  <1>2. ASSUME NEW x \in D, NEW v \in Nat PROVE G[x][v] = f[x] + v
    BY DEF SumPlus
  <1> HIDE DEF c, G
  <1>3. PICK h : IsFold(h, D, Nat, 0, c, G) /\ SumFunctionOnSet(f, D) = h[D]
    BY SumFold DEF c, G
  <1>4. ASSUME NEW T \in SUBSET D PROVE SumFunctionOnSet(f, T) = h[T] /\ h[T] \in Nat
    <2>1. PICK k : IsFold(k, T, Nat, 0, c, G) /\ SumFunctionOnSet(f, T) = k[T]
      BY SumFold DEF c, G
    <2>2. D \in SUBSET D /\ 0 \in Nat /\ T \subseteq D
      OBVIOUS
    <2>3. IsFold(h, D, Nat, 0, c, G) /\ IsFold(k, T, Nat, 0, c, G)
      BY <1>3, <2>1
    <2>4. k[T] = h[T]
      BY <1>1, <2>2, <2>3, FoldUnique
    <2> QED
      BY <2>1, <2>4, <1>3 DEF IsFold
  <1>5. h[{}] = 0
    BY <1>3 DEF IsFold
  <1>6. ASSUME NEW s \in SUBSET D, s # {} PROVE h[s] = f[c[s]] + h[s \ {c[s]}]
    <2>1. c[s] \in D /\ s \ {c[s]} \in SUBSET D
      BY <1>1, <1>6
    <2>2. h[s \ {c[s]}] \in Nat
      BY <2>1, <1>4
    <2> QED
      BY <2>1, <2>2, <1>2, <1>3, <1>6 DEF IsFold
  <1>7. \A T \in SUBSET D : \A x \in T : h[T] = f[x] + h[T \ {x}]
    <2> DEFINE B == {T \in SUBSET D : \E x \in T : h[T] # f[x] + h[T \ {x}]}
    <2>1. \A T : T \in B <=> T \in SUBSET D /\ \E x \in T : h[T] # f[x] + h[T \ {x}]
      OBVIOUS
    <2>2. SUFFICES ASSUME B # {} PROVE FALSE
      BY <2>1
    <2>3. B \in SUBSET SUBSET D
      OBVIOUS
    <2> HIDE DEF B
    <2>4. PICK X \in B : \A Y \in B : Y \subseteq X => Y = X
      BY <2>2, <2>3, LeastSet
    <2>5. PICK x \in X : h[X] # f[x] + h[X \ {x}]
      BY <2>1
    <2> DEFINE y == c[X]
    <2>6. X \in SUBSET D /\ X # {} /\ y \in X /\ x \in D /\ y \in D
      BY <2>1, <1>1
    <2>7. h[X] = f[y] + h[X \ {y}]
      BY <2>6, <1>6
    <2> HIDE DEF y
    <2>8. y # x
      BY <2>5, <2>7
    <2>9. \A Y \in SUBSET D : Y \subseteq X /\ Y # X => \A z \in Y : h[Y] = f[z] + h[Y \ {z}]
      BY <2>1, <2>4
    <2>10. h[X \ {y}] = f[x] + h[(X \ {y}) \ {x}]
      BY <2>6, <2>8, <2>9
    <2>11. h[X \ {x}] = f[y] + h[(X \ {x}) \ {y}]
      BY <2>6, <2>8, <2>9
    <2>12. (X \ {x}) \ {y} = (X \ {y}) \ {x}
      OBVIOUS
    <2>13. f[x] \in Nat /\ f[y] \in Nat /\ h[(X \ {y}) \ {x}] \in Nat
      BY <2>6, <1>4
    <2> DEFINE a == h[(X \ {y}) \ {x}]
    <2>14. h[X] = f[y] + (f[x] + a) /\ h[X \ {x}] = f[y] + a /\ h[X] # f[x] + h[X \ {x}]
      BY <2>5, <2>7, <2>10, <2>11, <2>12
    <2>15. a \in Nat
      BY <2>13
    <2> HIDE DEF a
    <2> QED
      BY <2>13, <2>14, <2>15
  <1>8. SumFunctionOnSet(f, {}) = 0
    <2>1. {} \in SUBSET D
      OBVIOUS
    <2> QED
      BY <2>1, <1>4, <1>5
  <1>9. ASSUME NEW T \in SUBSET D, NEW x \in T
        PROVE  SumFunctionOnSet(f, T) = f[x] + SumFunctionOnSet(f, T \ {x})
    <2>1. T \ {x} \in SUBSET D
      OBVIOUS
    <2> QED
      BY <2>1, <1>4, <1>7
  <1> QED
    BY <1>4, <1>8, <1>9

\* Taking any one element out of the whole set.
LEMMA SumRemove ==
  ASSUME NEW D, IsFiniteSet(D), NEW f, \A x \in D : f[x] \in Nat, NEW x \in D
  PROVE  /\ SumFunctionOnSet(f, D) = f[x] + SumFunctionOnSet(f, D \ {x})
         /\ SumFunctionOnSet(f, D) \in Nat
         /\ SumFunctionOnSet(f, D \ {x}) \in Nat
  <1>1. PICK T \in SUBSET D : T = D
    OBVIOUS
  <1>2. x \in T /\ D \ {x} \in SUBSET D
    BY <1>1
  <1>3. /\ SumFunctionOnSet(f, T) = f[x] + SumFunctionOnSet(f, T \ {x})
        /\ SumFunctionOnSet(f, T) \in Nat
    BY <1>2, SumOnSet
  <1>4. SumFunctionOnSet(f, D \ {x}) \in Nat
    BY <1>2, SumOnSet
  <1> QED
    BY <1>1, <1>3, <1>4

\* Functions that agree have the same sum.
LEMMA SumSame ==
  ASSUME NEW D, IsFiniteSet(D), NEW f, NEW g,
         \A x \in D : f[x] \in Nat /\ f[x] = g[x]
  PROVE  SumFunctionOnSet(f, D) = SumFunctionOnSet(g, D)
  <1> DEFINE F == {T \in SUBSET D : SumFunctionOnSet(f, T) = SumFunctionOnSet(g, T)}
  <1>1. /\ \A x \in D : g[x] \in Nat
        /\ \A x \in D : f[x] \in Nat
    OBVIOUS
  <1>2. {} \in F
    BY <1>1, SumOnSet
  <1>3. ASSUME NEW T \in SUBSET D, NEW x \in D, T \in F, x \notin T PROVE T \cup {x} \in F
    <2> DEFINE U == T \cup {x}
    <2>1. U \in SUBSET D /\ x \in U /\ U \ {x} = T
      BY <1>3
    <2> HIDE DEF U
    <2>2. /\ SumFunctionOnSet(f, U) = f[x] + SumFunctionOnSet(f, T)
          /\ SumFunctionOnSet(g, U) = g[x] + SumFunctionOnSet(g, T)
      BY <1>1, <2>1, SumOnSet
    <2>3. SumFunctionOnSet(f, U) = SumFunctionOnSet(g, U)
      BY <2>2, <1>3
    <2> QED
      BY <2>1, <2>3 DEF U
  <1> HIDE DEF F
  <1>4. SUBSET D \subseteq F
    BY <1>2, <1>3, SubsetInduction
  <1> QED
    BY <1>4 DEF F

\* The sum over a part is at most the sum over the whole.
LEMMA SumMonotone ==
  ASSUME NEW D, IsFiniteSet(D), NEW f, \A x \in D : f[x] \in Nat, NEW T \in SUBSET D
  PROVE  SumFunctionOnSet(f, T) <= SumFunctionOnSet(f, D)
  <1> DEFINE S == D \ T
             F == {U \in SUBSET S : SumFunctionOnSet(f, T) <= SumFunctionOnSet(f, T \cup U)}
  <1>1. SumFunctionOnSet(f, T) \in Nat /\ T \cup {} = T
    BY SumOnSet
  <1>2. {} \in F
    BY <1>1
  <1>3. ASSUME NEW U \in SUBSET S, NEW x \in S, U \in F, x \notin U PROVE U \cup {x} \in F
    <2> DEFINE W == T \cup (U \cup {x})
    <2>1. /\ W \in SUBSET D /\ x \in W /\ W \ {x} = T \cup U /\ T \cup U \in SUBSET D
          /\ U \cup {x} \in SUBSET S /\ x \in D
      BY <1>3
    <2>2. SumFunctionOnSet(f, T) <= SumFunctionOnSet(f, T \cup U)
      BY <1>3
    <2> HIDE DEF W
    <2>3. /\ SumFunctionOnSet(f, W) = f[x] + SumFunctionOnSet(f, T \cup U)
          /\ f[x] \in Nat /\ SumFunctionOnSet(f, T \cup U) \in Nat
      BY <2>1, SumOnSet
    <2>4. SumFunctionOnSet(f, T) <= SumFunctionOnSet(f, W)
      BY <1>1, <2>2, <2>3
    <2> QED
      BY <2>1, <2>4 DEF W
  <1>4. IsFiniteSet(S)
    BY FS_Subset
  <1>5. S \in SUBSET S /\ T \cup S = D
    OBVIOUS
  <1> HIDE DEF F, S
  <1>6. SUBSET S \subseteq F
    BY <1>2, <1>3, <1>4, SubsetInduction
  <1> QED
    BY <1>5, <1>6 DEF F

\* Two of the summands are at most the sum.
LEMMA SumOfTwo ==
  ASSUME NEW D, IsFiniteSet(D), NEW f, \A x \in D : f[x] \in Nat,
         NEW x \in D, NEW y \in D, x # y
  PROVE  /\ SumFunctionOnSet(f, D) = f[x] + f[y] + SumFunctionOnSet(f, (D \ {x}) \ {y})
         /\ SumFunctionOnSet(f, (D \ {x}) \ {y}) \in Nat
  <1>1. /\ D \in SUBSET D /\ D \ {x} \in SUBSET D /\ (D \ {x}) \ {y} \in SUBSET D
        /\ y \in D \ {x}
    OBVIOUS
  <1>2. SumFunctionOnSet(f, D) = f[x] + SumFunctionOnSet(f, D \ {x})
    BY SumRemove
  <1>3. SumFunctionOnSet(f, D \ {x}) = f[y] + SumFunctionOnSet(f, (D \ {x}) \ {y})
    BY <1>1, SumOnSet
  <1>4. SumFunctionOnSet(f, (D \ {x}) \ {y}) \in Nat
    BY <1>1, SumOnSet
  <1> DEFINE r == SumFunctionOnSet(f, (D \ {x}) \ {y})
  <1>5. SumFunctionOnSet(f, D) = f[x] + (f[y] + r) /\ f[x] \in Nat /\ f[y] \in Nat /\ r \in Nat
    BY <1>2, <1>3, <1>4
  <1> HIDE DEF r
  <1>6. f[x] + (f[y] + r) = f[x] + f[y] + r
    BY <1>5
  <1> QED
    BY <1>5, <1>6 DEF r

\* What one summand loses and another gains leaves the sum as it was.
LEMMA SumMoves ==
  ASSUME NEW D, IsFiniteSet(D), NEW f, \A x \in D : f[x] \in Nat,
         NEW g, \A x \in D : g[x] \in Nat,
         NEW x \in D, NEW y \in D, x # y, f[x] + f[y] = g[x] + g[y],
         \A z \in D : z # x /\ z # y => f[z] = g[z]
  PROVE  SumFunctionOnSet(f, D) = SumFunctionOnSet(g, D)
  <1> DEFINE R == (D \ {x}) \ {y}
  <1>1. R \in SUBSET D /\ \A z \in R : f[z] \in Nat /\ f[z] = g[z]
    OBVIOUS
  <1>2. IsFiniteSet(R)
    BY <1>1, FS_Subset
  <1> HIDE DEF R
  <1>3. SumFunctionOnSet(f, R) = SumFunctionOnSet(g, R)
    BY <1>1, <1>2, SumSame
  <1>4. SumFunctionOnSet(f, D) = f[x] + f[y] + SumFunctionOnSet(f, R)
    BY SumOfTwo DEF R
  <1>5. SumFunctionOnSet(g, D) = g[x] + g[y] + SumFunctionOnSet(g, R)
    BY SumOfTwo DEF R
  <1> QED
    BY <1>3, <1>4, <1>5
=============================================================================
