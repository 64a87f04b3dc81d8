------------------------- MODULE AuthorizationProofs -------------------------
(***************************************************************************)
(* Proofs about VerifyAuthorization, for any accounts, authorities, trees  *)
(* of delegations and recursion limit, with accounts changing meanwhile:   *)
(* the recursion is bounded, and an account that is accepted is satisfied  *)
(* by the keys that have signed.                                           *)
(***************************************************************************)
EXTENDS Authorization, FoldLemmas, TLAPS

USE Zenon

IsFrame(f) ==
    f = [node |-> f.node, account |-> f.account, authority |-> f.authority,
         total |-> f.total, todo |-> f.todo]

\* st is a stack of calculateWeight with the accounts in vis marked: the frame at
\* depth i - 1 is number i, and no account has two frames.
Frames(st, vis) ==
    /\ Len(st) \in Nat
    /\ st = [i \in 1 .. Len(st) |-> st[i]]
    /\ \A i \in 1 .. Len(st) :
         IsFrame(st[i]) /\ st[i].node \in Seq(Accounts) /\ Len(st[i].node) = i - 1
    /\ \A i, j \in 1 .. Len(st) : st[i].account = st[j].account => i = j
    /\ vis = {st[i].account : i \in 1 .. Len(st)}
    /\ IsFiniteSet(vis) /\ Cardinality(vis) = Len(st)
    /\ Len(st) <= MaxRecursionDepth + 1

\* What becomes of a frame when one of its fields is assigned.
LEMMA FrameAssigned ==
    ASSUME NEW f, IsFrame(f), NEW x
    PROVE  /\ IsFrame([f EXCEPT !.todo = x]) /\ IsFrame([f EXCEPT !.total = x])
           /\ [f EXCEPT !.todo = x].node = f.node /\ [f EXCEPT !.total = x].node = f.node
           /\ [f EXCEPT !.todo = x].account = f.account /\ [f EXCEPT !.total = x].account = f.account
           /\ [f EXCEPT !.todo = x].authority = f.authority /\ [f EXCEPT !.total = x].authority = f.authority
           /\ [f EXCEPT !.todo = x].total = f.total /\ [f EXCEPT !.total = x].todo = f.todo
           /\ [f EXCEPT !.todo = x].todo = x /\ [f EXCEPT !.total = x].total = x
  <1>1. PICK n, a, u, t, d :
          f = [node |-> n, account |-> a, authority |-> u, total |-> t, todo |-> d]
    BY DEF IsFrame
  <1> QED
    BY SMT, <1>1 DEF IsFrame

\* Before the first frame and after the last nothing is marked.
LEMMA EmptyFrames == Frames(<<>>, {})
  BY SMT, FS_EmptySet, BoundsAssumption DEF Frames

\* A frame is pushed for an account that is not marked.
LEMMA PushFrames ==
    ASSUME NEW st, NEW vis, Frames(st, vis), NEW n, n \notin vis,
           NEW f, IsFrame(f), f.account = n, f.node \in Seq(Accounts),
           Len(f.node) = Len(st), Len(f.node) <= MaxRecursionDepth
    PROVE  Frames(Append(st, f), vis \cup {n})
  <1> DEFINE S == {st[i] : i \in 1 .. Len(st)} \cup {f}
             new == Append(st, f)
  <1>1. st \in Seq(S) /\ Len(st) \in Nat
    BY SMTT(30) DEF Frames
  <1> HIDE DEF S
  <1>2. /\ Len(new) = Len(st) + 1 /\ new \in Seq(S)
        /\ new[Len(st) + 1] = f
        /\ \A i \in 1 .. Len(st) : new[i] = st[i]
    <2>1. f \in S
      BY DEF S
    <2> QED
      BY SMT, <1>1, <2>1
  <1> HIDE DEF new
  <1>3. \A i \in 1 .. Len(new) : i \in 1 .. Len(st) \/ i = Len(st) + 1
    BY SMT, <1>1, <1>2
  <1>4. new = [i \in 1 .. Len(new) |-> new[i]] /\ Len(new) \in Nat
    BY SMT, <1>1, <1>2
  <1>5. \A i \in 1 .. Len(new) : IsFrame(new[i]) /\ new[i].node \in Seq(Accounts) /\ Len(new[i].node) = i - 1
    BY SMT, <1>1, <1>2, <1>3 DEF Frames
  <1>6. \A i \in 1 .. Len(st) : new[i].account # n
    BY SMT, <1>2 DEF Frames
  <1>7. \A i, j \in 1 .. Len(new) : new[i].account = new[j].account => i = j
    BY <1>1, <1>2, <1>3, <1>6 DEF Frames
  <1>8. vis \cup {n} = {new[i].account : i \in 1 .. Len(new)}
    <2>1. Len(st) + 1 \in 1 .. Len(new) /\ 1 .. Len(st) \subseteq 1 .. Len(new)
      BY SMT, <1>1, <1>2
    <2>2. vis = {st[i].account : i \in 1 .. Len(st)}
      BY DEF Frames
    <2> QED
      BY SMT, <1>2, <1>3, <2>1, <2>2
  <1>9. IsFiniteSet(vis \cup {n}) /\ Cardinality(vis \cup {n}) = Len(new)
    <2>1. IsFiniteSet(vis) /\ Cardinality(vis) = Len(st)
      BY DEF Frames
    <2>2. IsFiniteSet(vis \cup {n}) /\ Cardinality(vis \cup {n}) = Cardinality(vis) + 1
      BY <2>1, FS_AddElement, Zenon
    <2> QED
      BY <1>2, <2>1, <2>2
  <1>10. Len(new) <= MaxRecursionDepth + 1
    BY SMT, <1>1, <1>2, BoundsAssumption
  <1> QED
    BY <1>4, <1>5, <1>7, <1>8, <1>9, <1>10 DEF Frames, new

\* A frame is exchanged for one of the same node and account.
LEMMA SetFrame ==
    ASSUME NEW st, NEW vis, Frames(st, vis), NEW k \in 1 .. Len(st),
           NEW f, IsFrame(f), f.account = st[k].account, f.node = st[k].node
    PROVE  Frames([st EXCEPT ![k] = f], vis)
  <1> DEFINE new == [st EXCEPT ![k] = f]
  <1>1. Len(st) \in Nat /\ DOMAIN st = 1 .. Len(st)
    BY DEF Frames
  <1>2. DOMAIN new = 1 .. Len(st) /\ new = [i \in 1 .. Len(st) |-> IF i = k THEN f ELSE st[i]]
    BY <1>1 DEF Frames
  <1>3. Len(new) = Len(st)
    BY SMT, <1>1, <1>2
  <1>4. \A i \in 1 .. Len(st) : new[i].account = st[i].account /\ new[i].node = st[i].node /\ IsFrame(new[i])
    BY <1>2 DEF Frames
  <1> HIDE DEF new
  <1>5. vis = {new[i].account : i \in 1 .. Len(new)}
    <2>1. vis = {st[i].account : i \in 1 .. Len(st)}
      BY DEF Frames
    <2> QED
      BY <1>3, <1>4, <2>1
  <1>6. new = [i \in 1 .. Len(new) |-> new[i]]
    BY <1>2, <1>3
  <1> QED
    BY <1>1, <1>3, <1>4, <1>5, <1>6 DEF Frames, new

\* The last frame returns and its account is unmarked.
LEMMA PopFrames ==
    ASSUME NEW st, NEW vis, Frames(st, vis), Len(st) > 0
    PROVE  Frames(Front(st), vis \ {st[Len(st)].account}) /\ Len(Front(st)) = Len(st) - 1
           /\ \A i \in 1 .. Len(st) - 1 : Front(st)[i] = st[i]
  <1> DEFINE S == {st[i] : i \in 1 .. Len(st)}
             new == Front(st)
             n == st[Len(st)].account
  <1>1. st \in Seq(S) /\ Len(st) \in Nat
    BY SMT DEF Frames
  <1> HIDE DEF S
  <1>2. new \in Seq(S) /\ Len(new) = Len(st) - 1 /\ \A i \in 1 .. Len(st) - 1 : new[i] = st[i]
    <2>1. new = SubSeq(st, 1, Len(st) - 1)
      BY DEF Front
    <2> HIDE DEF new
    <2>2. Len(st) - 1 \in 0 .. Len(st)
      BY SMT, <1>1
    <2> DEFINE m == Len(st) - 1
    <2>3. m \in 0 .. Len(st) /\ new = SubSeq(st, 1, m)
      BY <2>1, <2>2
    <2> HIDE DEF m
    <2>4. new \in Seq(S) /\ Len(new) = m
      BY SMT, <1>1, <2>3
    <2>5. \A i \in 1 .. m : new[i] = st[i]
      BY SMT, <1>1, <2>3
    <2> QED
      BY <2>4, <2>5 DEF m
  <1> HIDE DEF new
  <1>3. new = [i \in 1 .. Len(new) |-> new[i]] /\ Len(new) \in Nat
    BY SMT, <1>1, <1>2
  <1>4. \A i \in 1 .. Len(new) : i \in 1 .. Len(st) /\ new[i] = st[i] /\ i # Len(st)
    BY SMT, <1>1, <1>2
  <1>5. vis \ {n} = {new[i].account : i \in 1 .. Len(new)}
    <2>1. vis = {st[i].account : i \in 1 .. Len(st)}
      BY DEF Frames
    <2>2. \A i \in 1 .. Len(st) : i # Len(st) => i \in 1 .. Len(new)
      BY SMT, <1>1, <1>2
    <2>3. \A i \in 1 .. Len(st) : st[i].account = n => i = Len(st)
      BY SMT, <1>1 DEF Frames
    <2> QED
      BY <1>4, <2>1, <2>2, <2>3
  <1>6. n \in vis
    <2>1. Len(st) \in 1 .. Len(st)
      BY SMT, <1>1
    <2> QED
      BY <2>1 DEF Frames
  <1>7. IsFiniteSet(vis \ {n}) /\ Cardinality(vis \ {n}) = Len(new)
    <2>1. IsFiniteSet(vis) /\ Cardinality(vis) = Len(st)
      BY DEF Frames
    <2>2. IsFiniteSet(vis \ {n}) /\ Cardinality(vis \ {n}) = Cardinality(vis) - 1
      BY <1>6, <2>1, FS_RemoveElement, Zenon
    <2> QED
      BY <1>2, <2>1, <2>2
  <1>8. Len(new) <= MaxRecursionDepth + 1
    BY SMT, <1>1, <1>2, BoundsAssumption DEF Frames
  <1>9. \A i, j \in 1 .. Len(new) : new[i].account = new[j].account => i = j
    BY <1>4 DEF Frames
  <1>10. \A i \in 1 .. Len(new) : IsFrame(new[i]) /\ new[i].node \in Seq(Accounts) /\ Len(new[i].node) = i - 1
    BY <1>4 DEF Frames
  <1> QED
    BY <1>2, <1>3, <1>5, <1>7, <1>8, <1>9, <1>10 DEF Frames, new
-----------------------------------------------------------------------------
Stacked ==
    /\ Frames(stack, visited)
    /\ root = Nil => stack = <<>> /\ visited = {}

\* calculateWeight refuses the account or pushes a frame for it.
LEMMA EnterFrames ==
    ASSUME NEW st, Frames(st, visited), NEW tree, NEW node \in Seq(Accounts), NEW n \in Accounts, NEW a,
           Len(node) = Len(st), Enter(st, tree, node, n, a)
    PROVE  Frames(stack', visited')
  <1>1. CASE stack' = <<>> /\ visited' = {}
    BY <1>1, EmptyFrames
  <1>2. CASE ~(stack' = <<>> /\ visited' = {})
    <2> DEFINE f == [node |-> node, account |-> n, authority |-> a,
                     total |-> KeyWeight(tree[node], a).total, todo |-> Children(tree, node)]
    <2>1. ~(Len(node) > MaxRecursionDepth) /\ n \notin visited
          /\ visited' = visited \cup {n} /\ stack' = Append(st, f)
      BY <1>2 DEF Enter, Reject
    <2>2. IsFrame(f) /\ f.account = n /\ f.node = node
      BY DEF IsFrame
    <2> HIDE DEF f
    <2>3. Len(node) <= MaxRecursionDepth
      BY SMT, <2>1, BoundsAssumption
    <2> QED
      BY <2>1, <2>2, <2>3, PushFrames
  <1> QED
    BY <1>1, <1>2

\* Every step of the verification, of the coordinator and of other goroutines
\* keeps the stack well formed.
LEMMA NextStacked == Stacked /\ [Next]_vars => Stacked'
  <1> SUFFICES ASSUME Stacked, [Next]_vars PROVE Stacked'
    OBVIOUS
  <1>1. CASE UNCHANGED <<stack, visited, root>>
    BY <1>1 DEF Stacked
  <1>2. ASSUME NEW n \in Accounts, NEW below, CapabilityVerify(n, below) PROVE Stacked'
    <2>1. root' = n /\ n # Nil /\ stack = <<>> /\ visited = {}
      BY <1>2, NilAssumption DEF CapabilityVerify, VerifyAuthorization, Stacked
    <2>2. Frames(stack', visited')
      <3>1. CASE Reject("signature")
        BY <3>1, EmptyFrames DEF Reject
      <3>2. CASE Enter(<<>>, Complete(below), <<>>, n, accounts[n])
        <4>1. <<>> \in Seq(Accounts) /\ Frames(<<>>, visited)
          BY SMT, <2>1, EmptyFrames
        <4> QED
          BY <3>2, <4>1, EnterFrames
      <3> QED
        BY <1>2, <3>1, <3>2 DEF CapabilityVerify, VerifyAuthorization
    <2> QED
      BY <2>1, <2>2 DEF Stacked
  <1>3. ASSUME stack # <<>> PROVE Len(stack) \in Nat /\ Len(stack) > 0 /\ IsFrame(Top)
    <2>1. Len(stack) \in Nat /\ stack = [i \in 1 .. Len(stack) |-> stack[i]]
      BY DEF Stacked, Frames
    <2>2. Len(stack) > 0
      BY SMT, <1>3, <2>1
    <2> QED
      BY SMT, <2>1, <2>2 DEF Stacked, Frames, Top
  <1>4. ASSUME NEW n \in Accounts, Delegate(n) PROVE Stacked'
    <2> DEFINE k == Len(stack)
               f == [Top EXCEPT !.todo = Top.todo \ {n}]
               rest == [stack EXCEPT ![k] = f]
    <2>1. stack # <<>> /\ UNCHANGED root
      BY <1>4 DEF Delegate
    <2>2. k \in 1 .. Len(stack) /\ Top = stack[k] /\ IsFrame(Top)
      BY SMT, <1>3, <2>1 DEF Top
    <2>3. IsFrame(f) /\ f.node = Top.node /\ f.account = Top.account
      <3>1. \A x : /\ IsFrame([Top EXCEPT !.todo = x]) /\ [Top EXCEPT !.todo = x].node = Top.node
                    /\ [Top EXCEPT !.todo = x].account = Top.account
        <4>1. PICK t : t = Top
          OBVIOUS
        <4>2. IsFrame(t)
          BY <2>2, <4>1
        <4>3. \A x : /\ IsFrame([t EXCEPT !.todo = x]) /\ [t EXCEPT !.todo = x].node = t.node
                      /\ [t EXCEPT !.todo = x].account = t.account
          BY ZenonT(40), <4>2, FrameAssigned
        <4> QED
          BY <4>1, <4>3
      <3> QED
        BY <3>1
    <2>4. [stack EXCEPT ![Len(stack)].todo = @ \ {n}] = rest
      BY <2>2
    <2> HIDE DEF f
    <2>5. Frames(rest, visited) /\ Len(rest) = Len(stack)
      <3>1. Frames(rest, visited)
        BY <2>2, <2>3, SetFrame DEF Stacked
      <3>2. DOMAIN rest = DOMAIN stack
        OBVIOUS
      <3>3. DOMAIN rest = 1 .. Len(rest) /\ DOMAIN stack = 1 .. Len(stack) /\ Len(rest) \in Nat
        BY <3>1, <1>3, <2>1 DEF Stacked, Frames
      <3> QED
        BY SMT, <1>3, <2>1, <3>1, <3>2, <3>3
    <2>6. Append(Top.node, n) \in Seq(Accounts) /\ Len(Append(Top.node, n)) = Len(stack)
      <3>1. Top.node \in Seq(Accounts) /\ Len(Top.node) = Len(stack) - 1 /\ Len(stack) \in Nat
        BY <2>2, <1>3, <2>1 DEF Stacked, Frames
      <3> DEFINE t == Top.node
      <3> HIDE DEF t
      <3>2. t \in Seq(Accounts) => Append(t, n) \in Seq(Accounts) /\ Len(Append(t, n)) = Len(t) + 1
        BY SMT
      <3> QED
        BY SMT, <3>1, <3>2 DEF t
    <2> HIDE DEF rest, k
    <2>7. Frames(stack', visited')
      <3>1. CASE stack' = rest /\ UNCHANGED visited
        BY <2>5, <3>1
      <3>2. CASE Reject("getter")
        BY <3>2, EmptyFrames DEF Reject
      <3>3. CASE Enter(rest, auth, Append(Top.node, n), n, GetAccount(n))
        BY <2>5, <2>6, <3>3, EnterFrames
      <3> QED
        BY <1>4, <2>4, <3>1, <3>2, <3>3 DEF Delegate
    <2> QED
      BY <2>1, <2>7 DEF Stacked
  <1>5. ASSUME Return PROVE Stacked'
    <2>1. Len(stack) > 1 /\ Len(stack) \in Nat /\ UNCHANGED root /\ stack # <<>>
      BY SMT, <1>5 DEF Return, Stacked, Frames
    <2> DEFINE k == Len(stack) - 1
    <2>2. /\ Frames(Front(stack), visited \ {Top.account}) /\ Len(Front(stack)) = k
          /\ k \in 1 .. k /\ k \in 1 .. Len(stack) /\ Front(stack)[k] = stack[k]
      <3>1. Frames(stack, visited) /\ Len(stack) > 0
        BY SMT, <2>1 DEF Stacked
      <3>2. /\ Frames(Front(stack), visited \ {Top.account}) /\ Len(Front(stack)) = Len(stack) - 1
            /\ \A i \in 1 .. Len(stack) - 1 : Front(stack)[i] = stack[i]
        BY <3>1, PopFrames DEF Top
      <3>3. k \in 1 .. k /\ k \in 1 .. Len(stack)
        BY SMT, <2>1
      <3> QED
        BY <3>2, <3>3
    <2>3. ASSUME NEW x PROVE Frames([Front(stack) EXCEPT ![k].total = x], visited \ {Top.account})
      <3> DEFINE c == stack[k]
                 f == [c EXCEPT !.total = x]
      <3>1. IsFrame(c)
        BY <2>2 DEF Stacked, Frames
      <3> HIDE DEF c
      <3>2. IsFrame(f) /\ f.node = c.node /\ f.account = c.account
        BY ZenonT(40), <3>1, FrameAssigned
      <3> HIDE DEF f
      <3>3. Frames([Front(stack) EXCEPT ![k] = f], visited \ {Top.account})
        BY <2>2, <3>2, SetFrame DEF c
      <3>4. [Front(stack) EXCEPT ![k].total = x] = [Front(stack) EXCEPT ![k] = f]
        BY <2>2 DEF c, f
      <3> QED
        BY <3>3, <3>4
    <2>4. \/ stack' = <<>> /\ visited' = {}
          \/ \E w : /\ stack' = [Front(stack) EXCEPT ![k].total = Front(stack)[k].total + w]
                   /\ visited' = visited \ {Top.account}
      BY <1>5 DEF Return, Reject
    <2> HIDE DEF k
    <2>5. Frames(stack', visited')
      BY <2>3, <2>4, EmptyFrames
    <2> QED
      BY <2>1, <2>2, <2>5 DEF Stacked
  <1>6. ASSUME Decide PROVE Stacked'
    <2>1. Len(stack) = 1 /\ stack' = <<>> /\ visited' = visited \ {Top.account} /\ UNCHANGED root
      BY <1>6 DEF Decide
    <2>2. visited' = {}
      <3>1. visited = {stack[i].account : i \in 1 .. 1} /\ Top = stack[1]
        BY <2>1 DEF Stacked, Frames, Top
      <3>2. 1 .. 1 = {1}
        BY SMT
      <3> QED
        BY <2>1, <3>1, <3>2
    <2> QED
      BY <2>1, <2>2, EmptyFrames DEF Stacked
  <1> QED
    BY <1>1, <1>2, <1>4, <1>5, <1>6
       DEF Next, vars, verifyVars, AddSignature, ImportSignature, SignWithSigner, Reset, CreateAccount,
           UpdateAccount, DeleteAccount, Change

\* Neither a cycle of delegations nor a deep tree of authorizations makes
\* calculateWeight recurse past MaxRecursionDepth, and an account is marked just
\* while it has a frame, whatever other goroutines do to the accounts meanwhile.
THEOREM MarkedAreInProgress == Spec => []MarkedInProgress
  <1>1. Init => Stacked
    BY EmptyFrames DEF Init, Stacked
  <1>2. Stacked => MarkedInProgress
    BY DEF Stacked, Frames, MarkedInProgress
  <1> QED
    BY <1>1, <1>2, NextStacked, PTL DEF Spec

-----------------------------------------------------------------------------
(* Weights *)

\* The first loop of calculateWeight: what it keeps from one signature to the next.
Counts == [err : Errors \cup {Nil}, total : Nat, seen : SUBSET PubKeys]

\* While there is no error the total is the weight of the keys seen, and all of them
\* are keys in K.
Tally(r, a, K) ==
    /\ r \in Counts
    /\ r.err = Nil => r.seen \subseteq K /\ r.total = SumFunctionOnSet(a.keys, r.seen)

\* A signature is refused, is passed over or adds the weight of a key not seen before.
LEMMA CountTally ==
    ASSUME NEW a, IsAuthority(a), NEW K \in SUBSET DOMAIN a.keys, NEW r, Tally(r, a, K),
           NEW s \in Sigs, HasKey(a, s.key) /\ Verify(s) => s.key \in K
    PROVE  Tally(Count(r, s, a), a, K)
  <1>1. s.key \in PubKeys /\ r \in Counts
    BY DEF Sigs, Tally
  <1>2. PICK e \in Errors \cup {Nil}, t \in Nat, n \in SUBSET PubKeys :
          r = [err |-> e, total |-> t, seen |-> n]
    BY <1>1 DEF Counts
  <1>3. CASE Count(r, s, a) = r
    BY <1>3
  <1>4. ASSUME NEW x \in Errors PROVE Tally([r EXCEPT !.err = x], a, K)
    <2>1. [r EXCEPT !.err = x] = [err |-> x, total |-> t, seen |-> n] /\ x # Nil
      BY SMT, <1>2, NilAssumption
    <2> QED
      BY <2>1 DEF Tally, Counts
  <1>5. ASSUME HasKey(a, s.key), Verify(s), ~(s.key \in r.seen), r.err = Nil
        PROVE  Tally([err |-> Nil, total |-> r.total + a.keys[s.key], seen |-> r.seen \cup {s.key}], a, K)
    <2> DEFINE k == s.key
               m == n \cup {k}
               w == a.keys[k]
    <2>1. r.total = t /\ r.seen = n
      BY <1>2
    <2>2. k \in DOMAIN a.keys /\ w \in Nat /\ k \in K
      BY <1>5 DEF HasKey, IsAuthority
    <2>3. n \subseteq K /\ t = SumFunctionOnSet(a.keys, n) /\ ~(k \in n)
      BY <1>2, <1>5 DEF Tally
    <2> HIDE DEF k
    <2>4. m \in SUBSET DOMAIN a.keys /\ k \in m /\ m \ {k} = n
      BY <2>2, <2>3
    <2> HIDE DEF m
    <2>5. SumFunctionOnSet(a.keys, m) = w + SumFunctionOnSet(a.keys, n)
      BY SMT, <2>4, SumOnSet DEF IsAuthority
    <2>6. t + w = SumFunctionOnSet(a.keys, m) /\ t + w \in Nat
      BY SMT, <2>2, <2>3, <2>5
    <2>7. m \subseteq K /\ m \in SUBSET PubKeys
      BY <1>1, <2>2, <2>3 DEF m, k
    <2>8. Tally([err |-> Nil, total |-> t + w, seen |-> m], a, K)
      BY <2>6, <2>7 DEF Tally, Counts
    <2> QED
      BY <2>1, <2>8 DEF m, k
  <1> QED
    BY <1>3, <1>4, <1>5 DEF Count, Errors

\* The loop over a list of signatures: r[i] is what it has kept after i of them.
LEMMA KeyWeightSteps ==
    ASSUME NEW sigs \in Seq(Sigs), NEW a, IsAuthority(a)
    PROVE  \E r : /\ r[0] = [err |-> Nil, total |-> 0, seen |-> {}]
                  /\ \A i \in 1 .. Len(sigs) : r[i] = Count(r[i - 1], sigs[i], a)
                  /\ KeyWeight(sigs, a) = r[Len(sigs)]
  <1> DEFINE base == [err |-> Nil, total |-> 0, seen |-> {}]
  <1>1. PICK n \in Nat : n = Len(sigs)
    BY SMT
  <1> DEFINE G == [i \in 1 .. n |-> [v \in Counts |-> Count(v, sigs[i], a)]]
  <1>2. base \in Counts
    BY DEF Counts
  <1>3. ASSUME NEW i \in 1 .. n, NEW v \in Counts PROVE G[i][v] = Count(v, sigs[i], a) /\ G[i][v] \in Counts
    <2>1. G[i][v] = Count(v, sigs[i], a) /\ sigs[i] \in Sigs
      BY SMT, <1>1
    <2>2. Count(v, sigs[i], a) \in Counts
      <3> HIDE DEF G, base
      <3> DEFINE s == sigs[i]
      <3>1. PICK e \in Errors \cup {Nil}, t \in Nat, m \in SUBSET PubKeys :
              v = [err |-> e, total |-> t, seen |-> m]
        BY DEF Counts
      <3>2. \A x \in Errors : [v EXCEPT !.err = x] = [err |-> x, total |-> t, seen |-> m]
        BY SMT, <3>1
      <3>3. \A x \in Errors : [v EXCEPT !.err = x] \in Counts
        BY <3>2 DEF Counts
      <3>4. s.key \in PubKeys /\ v.total = t /\ v.seen = m
        BY <2>1, <3>1 DEF Sigs
      <3>5. HasKey(a, s.key) => a.keys[s.key] \in Nat
        BY DEF HasKey, IsAuthority
      <3>6. HasKey(a, s.key) => [err |-> Nil, total |-> v.total + a.keys[s.key], seen |-> v.seen \cup {s.key}] \in Counts
        <4>1. HasKey(a, s.key) => t + a.keys[s.key] \in Nat
          BY SMT, <3>5
        <4>2. m \cup {s.key} \in SUBSET PubKeys
          BY <3>4
        <4> QED
          BY <3>4, <4>1, <4>2 DEF Counts
      <3> QED
        BY <3>3, <3>6 DEF Count, Errors
    <2> QED
      BY <2>1, <2>2
  <1> HIDE DEF base, G
  <1> DEFINE Body(h) == [i \in 0 .. n |-> IF i = 0 THEN base ELSE Count(h[i - 1], sigs[i], a)]
             r == CHOOSE h : h = Body(h)
  <1>4. PICK h : Recurses(h, n, Counts, base, G)
    <2>1. \A i \in 1 .. n, v \in Counts : G[i][v] \in Counts
      BY <1>3
    <2> QED
      BY <1>2, <2>1, Recursion
  <1>5. h = Body(h)
    <2>1. \A i \in 1 .. n : i - 1 \in 0 .. n /\ h[i - 1] \in Counts /\ h[i] = Count(h[i - 1], sigs[i], a)
      BY SMT, <1>3, <1>4 DEF Recurses
    <2> QED
      BY SMT, <1>4, <2>1 DEF Recurses
  <1>6. r = Body(r)
    BY <1>5
  <1>7. KeyWeight(sigs, a) = r[n]
    BY <1>1 DEF KeyWeight, base
  <1> HIDE DEF r
  <1>8. r[0] = base /\ \A i \in 1 .. n : r[i] = Count(r[i - 1], sigs[i], a)
    BY SMT, <1>6
  <1> QED
    BY <1>1, <1>7, <1>8 DEF base

\* Without an error the loop returns the weight of some of the keys that have signed,
\* each counted once.
LEMMA KeyWeightBound ==
    ASSUME NEW sigs \in Seq(Sigs), NEW a, IsAuthority(a)
    PROVE  /\ KeyWeight(sigs, a).err \in Errors \cup {Nil}
           /\ KeyWeight(sigs, a).err = Nil =>
                /\ KeyWeight(sigs, a).total \in Nat
                /\ KeyWeight(sigs, a).total <= SumFunctionOnSet(a.keys, DOMAIN a.keys \cap GetSignedPubKeys(sigs))
  <1> DEFINE K == DOMAIN a.keys \cap GetSignedPubKeys(sigs)
             n == Len(sigs)
  <1>1. PICK r : /\ r[0] = [err |-> Nil, total |-> 0, seen |-> {}]
                 /\ \A i \in 1 .. n : r[i] = Count(r[i - 1], sigs[i], a)
                 /\ KeyWeight(sigs, a) = r[n]
    BY KeyWeightSteps
  <1>2. n \in Nat /\ K \in SUBSET DOMAIN a.keys /\ IsFiniteSet(DOMAIN a.keys)
        /\ \A x \in DOMAIN a.keys : a.keys[x] \in Nat
    BY SMT DEF IsAuthority
  <1>3. \A i \in 1 .. n : sigs[i] \in Sigs /\ (HasKey(a, sigs[i].key) /\ Verify(sigs[i]) => sigs[i].key \in K)
    BY SMT DEF GetSignedPubKeys, Range, HasKey
  <1> HIDE DEF K
  <1> DEFINE P == {i \in Nat : i <= n => Tally(r[i], a, K)}
  <1>4. 0 \in P
    <2>1. SumFunctionOnSet(a.keys, {}) = 0
      BY <1>2, SumOnSet
    <2>2. Tally(r[0], a, K)
      BY SMT, <1>1, <2>1 DEF Tally, Counts
    <2> QED
      BY <2>2
  <1>5. ASSUME NEW i \in Nat, i \in P PROVE i + 1 \in P
    <2>1. CASE i + 1 <= n
      <3>1. i + 1 \in 1 .. n /\ (i + 1) - 1 = i /\ i <= n
        BY SMT, <1>2, <2>1
      <3>2. r[i + 1] = Count(r[i], sigs[i + 1], a)
        BY <1>1, <3>1
      <3>3. Tally(r[i], a, K)
        BY <1>5, <3>1
      <3>4. Tally(r[i + 1], a, K)
        BY <1>2, <1>3, <3>1, <3>2, <3>3, CountTally
      <3> QED
        BY SMT, <3>4
    <2>2. CASE ~(i + 1 <= n)
      BY SMT, <2>2
    <2> QED
      BY <2>1, <2>2
  <1>6. n \in P
    <2> HIDE DEF P
    <2> QED
      BY <1>2, <1>4, <1>5, NatSetInduction
  <1>7. Tally(r[n], a, K)
    BY SMT, <1>2, <1>6
  <1>8. r[n].err \in Errors \cup {Nil}
    BY <1>7 DEF Tally, Counts
  <1>9. IsFiniteSet(K) /\ \A x \in K : a.keys[x] \in Nat
    BY <1>2, FS_Subset
  <1>10. ASSUME r[n].err = Nil PROVE r[n].total \in Nat /\ r[n].total <= SumFunctionOnSet(a.keys, K)
    <2>1. r[n].seen \subseteq K /\ r[n].total = SumFunctionOnSet(a.keys, r[n].seen) /\ r[n].total \in Nat
      BY <1>7, <1>10 DEF Tally, Counts
    <2>2. SumFunctionOnSet(a.keys, r[n].seen) <= SumFunctionOnSet(a.keys, K)
      BY <2>1, <1>9, SumMonotone
    <2> QED
      BY <2>1, <2>2
  <1> QED
    BY <1>1, <1>8, <1>10 DEF K

-----------------------------------------------------------------------------
(* AcceptedIsSatisfied *)

\* In this section past are the authorities of each account since the verification began,
\* and sat the accounts satisfied.  The keys that have signed anywhere in tree:
Signers(tree) == UNION {GetSignedPubKeys(tree[node]) : node \in DOMAIN tree}

KeySum(a, K) == SumFunctionOnSet(a.keys, DOMAIN a.keys \cap K)

AccountSum(a, S) == SumFunctionOnSet(a.accounts, DOMAIN a.accounts \cap S)

\* The frame f has counted keys that have signed and satisfied accounts, none of them in X.
Sound(f, X, tree, past, sat) ==
    /\ f.account \in Accounts /\ f.authority \in past[f.account] /\ IsAuthority(f.authority)
    /\ f.todo \subseteq Children(tree, f.node)
    /\ f.total \in Nat
    /\ f.total <= KeySum(f.authority, Signers(tree)) + AccountSum(f.authority, sat \ X)

\* The delegated accounts that frame i has not counted yet: those to come, and the one
\* whose frame is above it.
Pending(st, i) == IF i < Len(st) THEN st[i].todo \cup {st[i + 1].account} ELSE st[i].todo

Backed(st, first, tree, past, sat) ==
    /\ \A i \in 1 .. Len(st) : Sound(st[i], Pending(st, i), tree, past, sat)
    /\ \A i \in 1 .. Len(st) : i < Len(st) =>
         st[i + 1].account \in DOMAIN st[i].authority.accounts /\ ~(st[i + 1].account \in st[i].todo)
    /\ Len(st) > 0 => st[1].account = first

\* Every frame is sound, under authorities that the accounts have had.
SoundInv ==
    /\ Stacked
    /\ signatures \in Seq(Sigs)
    /\ DOMAIN accounts = Accounts /\ DOMAIN had = Accounts
    /\ \A n \in Accounts : accounts[n] = Nil \/ IsAuthority(accounts[n])
    /\ root = Nil => verdict = Nil
    /\ root # Nil => /\ \A node \in DOMAIN auth : auth[node] \in Seq(Sigs)
                     /\ \A n \in Accounts : accounts[n] = Nil \/ accounts[n] \in had[n]
    /\ Backed(stack, root, auth, had, Satisfied)
    /\ verdict = "ok" => root \in Satisfied

\* Weights are natural numbers; more accounts have more weight; one account has its own.
LEMMA Sums ==
    ASSUME NEW a, IsAuthority(a)
    PROVE  /\ \A K : KeySum(a, K) \in Nat
           /\ \A S : AccountSum(a, S) \in Nat
           /\ \A S, T : S \subseteq T => AccountSum(a, S) <= AccountSum(a, T) /\ KeySum(a, S) <= KeySum(a, T)
           /\ \A S : \A n \in DOMAIN a.accounts : n \in S => AccountSum(a, S) = a.accounts[n] + AccountSum(a, S \ {n})
  <1> DEFINE D == DOMAIN a.accounts
             E == DOMAIN a.keys
             f == a.accounts
             g == a.keys
  <1>1. /\ IsFiniteSet(D) /\ \A n \in D : f[n] \in Nat
        /\ IsFiniteSet(E) /\ \A k \in E : g[k] \in Nat
    BY DEF IsAuthority
  <1> HIDE DEF D, E, f, g
  <1>2. ASSUME NEW S PROVE SumFunctionOnSet(f, D \cap S) \in Nat /\ SumFunctionOnSet(g, E \cap S) \in Nat
    <2>1. D \cap S \in SUBSET D /\ E \cap S \in SUBSET E
      OBVIOUS
    <2> QED
      BY <1>1, <2>1, SumOnSet
  <1>3. ASSUME NEW S, NEW T, S \subseteq T
        PROVE  /\ SumFunctionOnSet(f, D \cap S) <= SumFunctionOnSet(f, D \cap T)
               /\ SumFunctionOnSet(g, E \cap S) <= SumFunctionOnSet(g, E \cap T)
    <2> DEFINE A == D \cap S
               B == D \cap T
               F == E \cap S
               G == E \cap T
    <2>1. A \in SUBSET B /\ B \in SUBSET D /\ F \in SUBSET G /\ G \in SUBSET E
      BY <1>3
    <2> HIDE DEF A, B, F, G
    <2>2. /\ IsFiniteSet(B) /\ \A n \in B : f[n] \in Nat
          /\ IsFiniteSet(G) /\ \A k \in G : g[k] \in Nat
      BY <1>1, <2>1, FS_Subset
    <2>3. SumFunctionOnSet(f, A) <= SumFunctionOnSet(f, B)
      BY <2>1, <2>2, SumMonotone
    <2>4. SumFunctionOnSet(g, F) <= SumFunctionOnSet(g, G)
      BY <2>1, <2>2, SumMonotone
    <2> QED
      BY <2>3, <2>4 DEF A, B, F, G
  <1>4. ASSUME NEW S, NEW n \in D, n \in S
        PROVE  SumFunctionOnSet(f, D \cap S) = f[n] + SumFunctionOnSet(f, D \cap (S \ {n}))
    <2> DEFINE A == D \cap S
    <2>1. A \in SUBSET D /\ n \in A /\ A \ {n} = D \cap (S \ {n})
      BY <1>4
    <2> HIDE DEF A
    <2>2. SumFunctionOnSet(f, A) = f[n] + SumFunctionOnSet(f, A \ {n})
      BY SMT, <1>1, <2>1, SumOnSet
    <2> QED
      BY <2>1, <2>2 DEF A
  <1> QED
    BY <1>2, <1>3, <1>4 DEF KeySum, AccountSum, D, E, f, g

\* A frame stays sound when fewer accounts are pending, or more are satisfied.
LEMMA SoundMore ==
    ASSUME NEW f, NEW X, NEW tree, NEW past, NEW sat, Sound(f, X, tree, past, sat),
           NEW g, g.node = f.node, g.account = f.account, g.authority = f.authority, g.total = f.total,
           g.todo \subseteq f.todo, NEW Y, NEW past2, NEW sat2,
           \A n \in Accounts : past[n] \subseteq past2[n], sat \ X \subseteq sat2 \ Y
    PROVE  Sound(g, Y, tree, past2, sat2)
  <1>1. /\ AccountSum(f.authority, sat \ X) <= AccountSum(f.authority, sat2 \ Y)
        /\ AccountSum(f.authority, sat \ X) \in Nat /\ AccountSum(f.authority, sat2 \ Y) \in Nat
        /\ KeySum(f.authority, Signers(tree)) \in Nat /\ f.total \in Nat
    BY Sums DEF Sound
  <1>2. f.total <= KeySum(f.authority, Signers(tree)) + AccountSum(f.authority, sat \ X)
    BY DEF Sound
  <1>3. f.total <= KeySum(f.authority, Signers(tree)) + AccountSum(f.authority, sat2 \ Y)
    BY SMT, <1>1, <1>2
  <1> QED
    BY <1>3 DEF Sound

\* It stays sound when a satisfied account that was pending is counted.
LEMMA SoundCounted ==
    ASSUME NEW f, NEW X, NEW tree, NEW past, NEW sat,
           NEW m, m \in sat, ~(m \in X), m \in DOMAIN f.authority.accounts,
           Sound(f, X \cup {m}, tree, past, sat),
           NEW g, g.node = f.node, g.account = f.account, g.authority = f.authority, g.todo = f.todo,
           g.total = f.total + f.authority.accounts[m]
    PROVE  Sound(g, X, tree, past, sat)
  <1> DEFINE a == f.authority
             w == a.accounts[m]
             old == AccountSum(a, sat \ (X \cup {m}))
             new == AccountSum(a, sat \ X)
  <1>1. IsAuthority(a) /\ f.total \in Nat /\ w \in Nat
    BY DEF Sound, IsAuthority
  <1>2. (sat \ X) \ {m} = sat \ (X \cup {m}) /\ m \in sat \ X
    OBVIOUS
  <1>3. new = w + old /\ old \in Nat /\ KeySum(a, Signers(tree)) \in Nat
    <2> DEFINE S == sat \ X
    <2>1. m \in DOMAIN a.accounts /\ m \in S /\ S \ {m} = sat \ (X \cup {m})
      BY <1>2
    <2> HIDE DEF a, S
    <2>2. AccountSum(a, S) = a.accounts[m] + AccountSum(a, S \ {m})
      BY SMT, <1>1, <2>1, Sums
    <2>3. AccountSum(a, S \ {m}) \in Nat /\ KeySum(a, Signers(tree)) \in Nat
      BY <1>1, Sums
    <2> QED
      BY <2>1, <2>2, <2>3 DEF S
  <1>4. f.total <= KeySum(a, Signers(tree)) + old
    BY DEF Sound
  <1>5. f.total + w <= KeySum(a, Signers(tree)) + new /\ f.total + w \in Nat
    BY SMT, <1>1, <1>3, <1>4
  <1> QED
    BY <1>5 DEF Sound

\* The stack stays as it is, with more accounts satisfied.
LEMMA BackedMore ==
    ASSUME NEW st, NEW first, NEW tree, NEW past, NEW sat, Backed(st, first, tree, past, sat),
           NEW past2, NEW sat2, \A n \in Accounts : past[n] \subseteq past2[n], sat \subseteq sat2
    PROVE  Backed(st, first, tree, past2, sat2)
  <1>1. ASSUME NEW i \in 1 .. Len(st) PROVE Sound(st[i], Pending(st, i), tree, past2, sat2)
    <2>1. Sound(st[i], Pending(st, i), tree, past, sat)
      BY DEF Backed
    <2>2. sat \ Pending(st, i) \subseteq sat2 \ Pending(st, i)
      OBVIOUS
    <2> QED
      BY SMT, <2>1, <2>2, SoundMore
  <1> QED
    BY <1>1 DEF Backed

\* The last frame has passed over an account that has no weight for it.
LEMMA BackedSkip ==
    ASSUME NEW st, NEW first, NEW tree, NEW past, NEW sat, Backed(st, first, tree, past, sat),
           NEW k \in Nat, Len(st) = k, k > 0,
           NEW new, Len(new) = k, \A i \in 1 .. k : i < k => new[i] = st[i],
           new[k].node = st[k].node, new[k].account = st[k].account, new[k].authority = st[k].authority,
           new[k].total = st[k].total, new[k].todo \subseteq st[k].todo
    PROVE  Backed(new, first, tree, past, sat)
  <1>1. \A i \in 1 .. k : new[i].account = st[i].account
    BY SMT
  <1>2. ASSUME NEW i \in 1 .. k, i < k
        PROVE  Sound(new[i], Pending(new, i), tree, past, sat)
               /\ new[i + 1].account \in DOMAIN new[i].authority.accounts /\ ~(new[i + 1].account \in new[i].todo)
    <2>1. new[i] = st[i] /\ i + 1 \in 1 .. k
      BY SMT, <1>2
    <2>2. Pending(new, i) = Pending(st, i)
      BY <1>1, <1>2, <2>1 DEF Pending
    <2> QED
      BY <1>1, <1>2, <2>1, <2>2 DEF Backed
  <1>3. Sound(new[k], Pending(new, k), tree, past, sat)
    <2>1. Pending(new, k) = new[k].todo /\ Pending(st, k) = st[k].todo /\ k \in 1 .. k
      BY SMT DEF Pending
    <2>2. Sound(st[k], st[k].todo, tree, past, sat)
      BY <2>1 DEF Backed
    <2>3. sat \ st[k].todo \subseteq sat \ new[k].todo /\ \A n \in Accounts : past[n] \subseteq past[n]
      OBVIOUS
    <2> QED
      BY SMT, <2>1, <2>2, <2>3, SoundMore
  <1>4. 1 \in 1 .. k /\ new[1].account = first
    BY SMT, <1>1 DEF Backed
  <1>5. \A i \in 1 .. k : i < k \/ i = k
    BY SMT
  <1> QED
    BY <1>2, <1>3, <1>4, <1>5 DEF Backed

\* The last frame has called calculateWeight for n, and n is pending.
LEMMA BackedCall ==
    ASSUME NEW st, NEW first, NEW tree, NEW past, NEW sat, Backed(st, first, tree, past, sat),
           NEW k \in Nat, Len(st) = k, k > 0,
           NEW new, Len(new) = k + 1, \A i \in 1 .. k : i < k => new[i] = st[i],
           new[k].node = st[k].node, new[k].account = st[k].account, new[k].authority = st[k].authority,
           new[k].total = st[k].total,
           NEW n \in st[k].todo, new[k].todo = st[k].todo \ {n}, n \in DOMAIN st[k].authority.accounts,
           new[k + 1].account = n, Sound(new[k + 1], new[k + 1].todo, tree, past, sat)
    PROVE  Backed(new, first, tree, past, sat)
  <1>1. \A i \in 1 .. k : new[i].account = st[i].account
    BY SMT
  <1>2. ASSUME NEW i \in 1 .. k, i < k
        PROVE  Sound(new[i], Pending(new, i), tree, past, sat)
               /\ new[i + 1].account \in DOMAIN new[i].authority.accounts /\ ~(new[i + 1].account \in new[i].todo)
    <2>1. new[i] = st[i] /\ i + 1 \in 1 .. k /\ i < Len(new)
      BY SMT, <1>2
    <2>2. Pending(new, i) = Pending(st, i)
      BY <1>1, <1>2, <2>1 DEF Pending
    <2> QED
      BY <1>1, <1>2, <2>1, <2>2 DEF Backed
  <1>3. Sound(new[k], Pending(new, k), tree, past, sat)
    <2>a. (st[k].todo \ {n}) \cup {n} = st[k].todo /\ k < k + 1
      BY SMT
    <2>b. Pending(new, k) = (st[k].todo \ {n}) \cup {n}
      BY <2>a DEF Pending
    <2>1. Pending(new, k) = st[k].todo /\ Pending(st, k) = st[k].todo /\ k \in 1 .. k
      BY SMT, <2>a, <2>b DEF Pending
    <2>2. Sound(st[k], st[k].todo, tree, past, sat)
      BY SMT, <2>1 DEF Backed
    <2>3. sat \ st[k].todo \subseteq sat \ st[k].todo /\ \A x \in Accounts : past[x] \subseteq past[x]
          /\ new[k].todo \subseteq st[k].todo
      OBVIOUS
    <2> QED
      BY SMTT(30), <2>1, <2>2, <2>3, SoundMore
  <1>4. Sound(new[k + 1], Pending(new, k + 1), tree, past, sat)
    BY SMT DEF Pending
  <1>5. 1 \in 1 .. k /\ new[1].account = first
    BY SMT, <1>1 DEF Backed
  <1>6. new[k + 1].account \in DOMAIN new[k].authority.accounts /\ ~(new[k + 1].account \in new[k].todo)
    OBVIOUS
  <1>7. \A i \in 1 .. Len(new) : (i \in 1 .. k /\ i < k) \/ i = k \/ i = k + 1
    BY SMT
  <1> QED
    BY SMTT(30), <1>2, <1>3, <1>4, <1>5, <1>6, <1>7 DEF Backed

\* A frame has returned to its caller, which has counted its account or not.
LEMMA BackedReturn ==
    ASSUME NEW st, NEW first, NEW tree, NEW past, NEW sat, Backed(st, first, tree, past, sat),
           NEW k \in Nat, Len(st) = k + 1, k > 0,
           NEW new, Len(new) = k, \A i \in 1 .. k : i < k => new[i] = st[i],
           new[k].node = st[k].node, new[k].account = st[k].account, new[k].authority = st[k].authority,
           new[k].todo = st[k].todo,
           \/ new[k].total = st[k].total + 0
           \/ st[k + 1].account \in sat /\ new[k].total = st[k].total + st[k].authority.accounts[st[k + 1].account]
    PROVE  Backed(new, first, tree, past, sat)
  <1> DEFINE m == st[k + 1].account
  <1>1. \A i \in 1 .. k : new[i].account = st[i].account
    BY SMT
  <1>2. ASSUME NEW i \in 1 .. k, i < k
        PROVE  Sound(new[i], Pending(new, i), tree, past, sat)
               /\ new[i + 1].account \in DOMAIN new[i].authority.accounts /\ ~(new[i + 1].account \in new[i].todo)
    <2>1. new[i] = st[i] /\ i + 1 \in 1 .. k /\ i < Len(st) /\ i \in 1 .. Len(st)
      BY SMT, <1>2
    <2>2. Pending(new, i) = Pending(st, i)
      BY <1>1, <1>2, <2>1 DEF Pending
    <2> QED
      BY <1>1, <1>2, <2>1, <2>2 DEF Backed
  <1>3. Sound(new[k], Pending(new, k), tree, past, sat)
    <2>1. /\ Pending(new, k) = st[k].todo /\ Pending(st, k) = st[k].todo \cup {m}
          /\ k \in 1 .. Len(st) /\ k < Len(st)
      BY SMT DEF Pending
    <2>2. /\ Sound(st[k], st[k].todo \cup {m}, tree, past, sat)
          /\ m \in DOMAIN st[k].authority.accounts /\ ~(m \in st[k].todo)
      BY <2>1 DEF Backed
    <2>3. CASE m \in sat /\ new[k].total = st[k].total + st[k].authority.accounts[m]
      <3> DEFINE f == st[k]
                 g == new[k]
                 X == st[k].todo
      <3>1. /\ m \in sat /\ ~(m \in X) /\ m \in DOMAIN f.authority.accounts
            /\ Sound(f, X \cup {m}, tree, past, sat)
            /\ g.node = f.node /\ g.account = f.account /\ g.authority = f.authority /\ g.todo = f.todo
            /\ g.total = f.total + f.authority.accounts[m]
        BY <2>2, <2>3
      <3> HIDE DEF f, g, X, m
      <3>2. Sound(g, X, tree, past, sat)
        BY <3>1, SoundCounted
      <3> QED
        BY <2>1, <3>2 DEF g, X
    <2>4. CASE new[k].total = st[k].total + 0
      <3>1. st[k].total + 0 = st[k].total
        BY SMT, <2>2 DEF Sound
      <3>2. sat \ (st[k].todo \cup {m}) \subseteq sat \ st[k].todo /\ \A x \in Accounts : past[x] \subseteq past[x]
            /\ new[k].todo \subseteq st[k].todo
        OBVIOUS
      <3> HIDE DEF m
      <3> QED
        BY SMTT(30), <2>1, <2>2, <2>4, <3>1, <3>2, SoundMore
    <2> QED
      BY <2>3, <2>4
  <1>4. 1 \in 1 .. k /\ new[1].account = first
    BY SMT, <1>1 DEF Backed
  <1>5. \A i \in 1 .. k : i < k \/ i = k
    BY SMT
  <1> QED
    BY <1>2, <1>3, <1>4, <1>5 DEF Backed

\* An account is satisfied under an authority that it has had and that the satisfied accounts meet.
LEMMA MetSatisfied ==
    ASSUME NEW n \in Accounts, NEW a, a \in had[n], IsAuthority(a),
           KeySum(a, Signers(auth)) + AccountSum(a, Satisfied) >= a.threshold
    PROVE  n \in Satisfied
  <1> SUFFICES ASSUME NEW S \in SUBSET Accounts, Closed(S) PROVE n \in S
    BY DEF Satisfied
  <1>1. Satisfied \subseteq S
    BY DEF Satisfied
  <1>2. /\ AccountSum(a, Satisfied) <= AccountSum(a, S) /\ AccountSum(a, Satisfied) \in Nat
        /\ AccountSum(a, S) \in Nat /\ KeySum(a, Signers(auth)) \in Nat /\ a.threshold \in Nat
    <2>1. a.threshold \in Nat
      BY DEF IsAuthority
    <2> QED
      BY <1>1, <2>1, Sums
  <1>3. KeySum(a, Signers(auth)) + AccountSum(a, S) >= a.threshold
    BY SMT, <1>2
  <1>4. Met(a, S)
    BY <1>3 DEF Met, KeySum, AccountSum, SignedKeys, Signers
  <1> QED
    BY <1>4 DEF Closed

\* An account that is satisfied stays so while the accounts get other authorities.
LEMMA SatisfiedGrows ==
    ASSUME auth' = auth, \A n \in Accounts : had[n] \subseteq had'[n]
    PROVE  Satisfied \subseteq Satisfied'
  <1>1. SignedKeys' = SignedKeys
    BY DEF SignedKeys
  <1>2. \A S : Closed(S)' => Closed(S)
    <2> SUFFICES ASSUME NEW S, Closed(S)', NEW n \in Accounts, NEW a \in had[n], Met(a, S) PROVE n \in S
      BY DEF Closed
    <2>1. a \in had'[n]
      OBVIOUS
    <2>2. Met(a, S)'
      BY <1>1 DEF Met
    <2> QED
      BY <2>1, <2>2 DEF Closed
  <1> QED
    BY <1>1, <1>2 DEF Satisfied

\* The frame of calculateWeight for a node.
NewFrame(tree, node, n, a) ==
    [node |-> node, account |-> n, authority |-> a, total |-> KeyWeight(tree[node], a).total,
     todo |-> Children(tree, node)]

\* The signatures of the node are counted without an error.
Countable(tree, node, a) == KeyWeight(tree[node], a).err = Nil

\* calculateWeight refuses the account or pushes a frame for it.
LEMMA EnterCases ==
    ASSUME NEW st, NEW tree, NEW node, NEW n, NEW a, Enter(st, tree, node, n, a),
           tree[node] \in Seq(Sigs), IsAuthority(a)
    PROVE  \/ stack' = <<>> /\ verdict' \in Errors
           \/ verdict' = verdict /\ stack' = Append(st, NewFrame(tree, node, n, a)) /\ Countable(tree, node, a)
  <1>1. KeyWeight(tree[node], a).err \in Errors \cup {Nil}
    BY KeyWeightBound
  <1> QED
    BY <1>1 DEF Enter, Reject, Errors, NewFrame, Countable

\* It has counted the signatures of the node it is entered for.
LEMMA NewFrameSound ==
    ASSUME NEW tree, NEW node \in DOMAIN tree, NEW n \in Accounts, NEW a, Countable(tree, node, a),
           tree[node] \in Seq(Sigs), NEW past, a \in past[n], IsAuthority(a),
           NEW sat
    PROVE  Sound(NewFrame(tree, node, n, a), Children(tree, node), tree, past, sat)
  <1> DEFINE w == KeyWeight(tree[node], a)
             f == NewFrame(tree, node, n, a)
  <1>1. w.total \in Nat /\ w.total <= SumFunctionOnSet(a.keys, DOMAIN a.keys \cap GetSignedPubKeys(tree[node]))
    BY KeyWeightBound DEF Countable
  <1>2. /\ f.account = n /\ f.authority = a /\ f.node = node /\ f.total = w.total
        /\ f.todo = Children(tree, node)
    BY DEF NewFrame
  <1> HIDE DEF w, f
  <1>a. GetSignedPubKeys(tree[node]) \subseteq Signers(tree)
    BY DEF Signers
  <1>3. KeySum(a, GetSignedPubKeys(tree[node])) <= KeySum(a, Signers(tree))
        /\ KeySum(a, GetSignedPubKeys(tree[node])) \in Nat /\ KeySum(a, Signers(tree)) \in Nat
        /\ AccountSum(a, sat \ f.todo) \in Nat
    BY <1>a, Sums
  <1>4. w.total <= KeySum(a, GetSignedPubKeys(tree[node]))
    BY <1>1 DEF KeySum
  <1>5. w.total <= KeySum(a, Signers(tree)) + AccountSum(a, sat \ f.todo)
    BY SMT, <1>1, <1>3, <1>4
  <1>6. Sound(f, f.todo, tree, past, sat)
    BY <1>1, <1>2, <1>5 DEF Sound
  <1> QED
    BY <1>2, <1>6 DEF f

\* Its account and what it has to do.
LEMMA NewFrameFields ==
    ASSUME NEW tree, NEW node, NEW n, NEW a
    PROVE  NewFrame(tree, node, n, a).account = n /\ NewFrame(tree, node, n, a).todo = Children(tree, node)
  BY DEF NewFrame

\* The elements of a stack with a frame pushed.
LEMMA Pushed ==
    ASSUME NEW st, Len(st) \in Nat, st = [i \in 1 .. Len(st) |-> st[i]], NEW f
    PROVE  /\ Len(Append(st, f)) = Len(st) + 1 /\ Append(st, f)[Len(st) + 1] = f
           /\ \A i \in 1 .. Len(st) : Append(st, f)[i] = st[i]
  <1> DEFINE S == {st[i] : i \in 1 .. Len(st)} \cup {f}
  <1>1. st \in Seq(S) /\ f \in S
    BY SMT
  <1> HIDE DEF S
  <1> QED
    BY SMT, <1>1

\* Nothing on the stack is sound.
LEMMA BackedEmpty ==
    ASSUME NEW first, NEW tree, NEW past, NEW sat
    PROVE  Backed(<<>>, first, tree, past, sat)
  <1>1. Len(<<>>) = 0
    OBVIOUS
  <1> QED
    BY SMT, <1>1 DEF Backed

\* The part of the invariant that is not about the stack.
Records ==
    /\ signatures \in Seq(Sigs)
    /\ DOMAIN accounts = Accounts /\ DOMAIN had = Accounts
    /\ \A n \in Accounts : accounts[n] = Nil \/ IsAuthority(accounts[n])
    /\ root = Nil => verdict = Nil
    /\ root # Nil => /\ \A node \in DOMAIN auth : auth[node] \in Seq(Sigs)
                     /\ \A n \in Accounts : accounts[n] = Nil \/ accounts[n] \in had[n]

\* The authorization that is verified has the signatures of the coordinator at its root.
LEMMA CompleteTree ==
    ASSUME NEW below \in Delegations, signatures \in Seq(Sigs)
    PROVE  /\ <<>> \in DOMAIN Complete(below) /\ Complete(below)[<<>>] = signatures
           /\ \A node \in DOMAIN Complete(below) : Complete(below)[node] \in Seq(Sigs)
  BY DelegationsAssumption DEF Complete

\* A verification begins.
LEMMA VerifySound ==
    ASSUME SoundInv, NEW n \in Accounts, NEW below \in Delegations, CapabilityVerify(n, below)
    PROVE  /\ Records'
           /\ Backed(stack', root', auth', had', Satisfied')
           /\ verdict' # "ok"
  <1>1. /\ accounts[n] # Nil /\ root = Nil /\ verdict = Nil /\ auth' = Complete(below) /\ root' = n
        /\ had' = [a \in Accounts |-> {accounts[a]} \ {Nil}] /\ accounts' = accounts /\ signatures' = signatures
    BY DEF CapabilityVerify, VerifyAuthorization, SoundInv
  <1>2. /\ <<>> \in DOMAIN auth' /\ auth'[<<>>] \in Seq(Sigs)
        /\ \A node \in DOMAIN auth' : auth'[node] \in Seq(Sigs)
    BY <1>1, CompleteTree DEF SoundInv
  <1>3. Records'
    <2>1. \A m \in Accounts : accounts'[m] = Nil \/ accounts'[m] \in had'[m]
      BY <1>1
    <2>2. root' # Nil
      BY <1>1, NilAssumption
    <2> QED
      BY <1>1, <1>2, <2>1, <2>2 DEF SoundInv, Records
  <1>4. IsAuthority(accounts[n]) /\ accounts[n] \in had'[n]
    BY <1>1 DEF SoundInv
  <1>5. PICK tree, node : tree = auth' /\ node = <<>>
    OBVIOUS
  <1>6. CASE Reject("signature")
    BY <1>3, <1>6, BackedEmpty DEF Reject
  <1>7. CASE Enter(<<>>, tree, node, n, accounts[n])
    <2> DEFINE f == NewFrame(tree, node, n, accounts[n])
    <2>1. \/ stack' = <<>> /\ verdict' \in Errors
          \/ verdict' = verdict /\ stack' = Append(<<>>, f) /\ Countable(tree, node, accounts[n])
      BY <1>2, <1>4, <1>5, <1>7, EnterCases
    <2>2. CASE stack' = <<>> /\ verdict' \in Errors
      BY <2>2, <1>3, BackedEmpty DEF Errors
    <2>3. ASSUME verdict' = verdict, stack' = Append(<<>>, f), Countable(tree, node, accounts[n])
          PROVE  Backed(stack', root', auth', had', Satisfied') /\ verdict' # "ok"
      <3>a. f.account = n /\ Sound(f, f.todo, auth', had', Satisfied')
        <4>1. Sound(f, Children(tree, node), tree, had', Satisfied')
          BY <1>2, <1>4, <1>5, <2>3, NewFrameSound
        <4>2. f.account = n /\ f.todo = Children(tree, node)
          BY SMT, NewFrameFields
        <4> QED
          BY <1>5, <4>1, <4>2
      <3> HIDE DEF f
      <3>1. Len(stack') = 1 /\ stack'[1] = f
        BY SMT, <2>3
      <3>2. Pending(stack', 1) = f.todo
        BY SMT, <3>1 DEF Pending
      <3>3. \A i \in 1 .. 1 : i = 1 /\ ~(i < 1)
        BY SMT
      <3>4. Nil # "ok"
        BY NilAssumption
      <3> QED
        BY <1>1, <2>3, <3>a, <3>1, <3>2, <3>3, <3>4 DEF Backed
    <2> QED
      BY <1>3, <2>1, <2>2, <2>3
  <1> QED
    BY <1>1, <1>5, <1>6, <1>7 DEF CapabilityVerify, VerifyAuthorization

\* A delegated account is looked up, passed over or refused.
LEMMA DelegateSound ==
    ASSUME SoundInv, NEW n \in Accounts, Delegate(n)
    PROVE  /\ Backed(stack', root, auth, had, Satisfied)
           /\ verdict' = verdict \/ verdict' \in Errors
  <1> DEFINE k == Len(stack)
             f == stack[k]
             g == [f EXCEPT !.todo = f.todo \ {n}]
             rest == [stack EXCEPT ![k] = g]
  <1>1. k \in Nat /\ k > 0 /\ k \in 1 .. k /\ stack = [i \in 1 .. k |-> stack[i]] /\ Top = f /\ IsFrame(f)
    <2>1. stack # <<>> /\ k \in Nat /\ stack = [i \in 1 .. k |-> stack[i]]
      BY DEF Delegate, SoundInv, Stacked, Frames
    <2>2. k > 0 /\ k \in 1 .. k
      BY SMT, <2>1
    <2> QED
      BY <2>1, <2>2 DEF SoundInv, Stacked, Frames, Top
  <1>2. /\ g.node = f.node /\ g.account = f.account /\ g.authority = f.authority /\ g.total = f.total
        /\ g.todo = f.todo \ {n}
    <2>1. PICK t : t = f
      OBVIOUS
    <2>2. IsFrame(t)
      BY <1>1, <2>1
    <2>3. \A x : /\ [t EXCEPT !.todo = x].node = t.node /\ [t EXCEPT !.todo = x].account = t.account
                 /\ [t EXCEPT !.todo = x].authority = t.authority /\ [t EXCEPT !.todo = x].total = t.total
                 /\ [t EXCEPT !.todo = x].todo = x
      BY SMT, <2>2, FrameAssigned
    <2> QED
      BY <2>1, <2>3, Zenon
  <1>3. /\ rest = [stack EXCEPT ![Len(stack)].todo = @ \ {n}]
        /\ rest = [i \in 1 .. k |-> rest[i]] /\ rest[k] = g /\ \A i \in 1 .. k : i < k => rest[i] = stack[i]
    <2>1. DOMAIN stack = 1 .. k /\ k \in DOMAIN stack
      BY <1>1
    <2>2. rest = [stack EXCEPT ![Len(stack)].todo = @ \ {n}]
      BY <2>1
    <2> HIDE DEF g
    <2>3. rest = [i \in 1 .. k |-> rest[i]] /\ rest[k] = g
      BY <2>1
    <2>4. \A i \in 1 .. k : i < k => rest[i] = stack[i]
      BY SMT, <2>1, <1>1
    <2> QED
      BY <2>2, <2>3, <2>4
  <1>4. Len(rest) = k
    <2>1. DOMAIN rest = 1 .. k
      BY <1>1
    <2> HIDE DEF rest
    <2> QED
      BY SMT, <1>1, <1>3, <2>1
  <1>5. /\ Backed(stack, root, auth, had, Satisfied) /\ n \in f.todo
        /\ Sound(f, f.todo, auth, had, Satisfied)
    <2>1. Pending(stack, k) = f.todo
      BY SMT, <1>1 DEF Pending
    <2> QED
      BY <1>1, <2>1 DEF SoundInv, Backed, Delegate
  <1>6. root # Nil
    BY <1>1 DEF SoundInv, Stacked, Delegate
  <1> HIDE DEF g, rest
  <1>7. CASE ~HasAccount(Top.authority, n)
    <2>1. stack' = rest /\ verdict' = verdict
      BY <1>3, <1>7 DEF Delegate
    <2>2. Backed(rest, root, auth, had, Satisfied)
      <3>1. g.todo \subseteq f.todo
        BY <1>2
      <3> QED
        BY <1>1, <1>2, <1>3, <1>4, <1>5, <3>1, BackedSkip
    <2> QED
      BY <2>1, <2>2
  <1>8. CASE HasAccount(Top.authority, n) /\ GetAccount(n) = Nil
    <2>1. stack' = <<>> /\ verdict' = "getter"
      BY <1>8 DEF Delegate, Reject
    <2> QED
      BY <2>1, BackedEmpty DEF Errors
  <1>9. CASE HasAccount(Top.authority, n) /\ GetAccount(n) # Nil
    <2> DEFINE node == Append(Top.node, n)
    <2>1. Enter(rest, auth, node, n, accounts[n])
      BY <1>3, <1>9 DEF Delegate, GetAccount
    <2>2. node \in DOMAIN auth
      BY <1>1, <1>5 DEF Sound, Children
    <2>3. auth[node] \in Seq(Sigs) /\ accounts[n] \in had[n] /\ IsAuthority(accounts[n])
      BY <1>6, <1>9, <2>2 DEF SoundInv, GetAccount
    <2> HIDE DEF node
    <2> DEFINE h == NewFrame(auth, node, n, accounts[n])
    <2>5. \/ stack' = <<>> /\ verdict' \in Errors
          \/ verdict' = verdict /\ stack' = Append(rest, h) /\ Countable(auth, node, accounts[n])
      BY <2>1, <2>3, EnterCases
    <2>6. CASE stack' = <<>> /\ verdict' \in Errors
      BY <2>6, BackedEmpty
    <2>7. ASSUME stack' = Append(rest, h), Countable(auth, node, accounts[n])
          PROVE  Backed(stack', root, auth, had, Satisfied)
      <3>a. h.account = n /\ Sound(h, h.todo, auth, had, Satisfied)
        <4>1. Sound(h, Children(auth, node), auth, had, Satisfied)
          BY <2>2, <2>3, <2>7, NewFrameSound
        <4>2. h.account = n /\ h.todo = Children(auth, node)
          BY SMT, NewFrameFields
        <4> QED
          BY <4>1, <4>2
      <3> HIDE DEF h
      <3> DEFINE new == Append(rest, h)
      <3>1. Len(new) = k + 1 /\ new[k + 1] = h /\ \A i \in 1 .. k : new[i] = rest[i]
        <4>1. Len(rest) \in Nat /\ rest = [i \in 1 .. Len(rest) |-> rest[i]]
          BY <1>1, <1>3, <1>4
        <4>2. /\ Len(Append(rest, h)) = Len(rest) + 1 /\ Append(rest, h)[Len(rest) + 1] = h
              /\ \A i \in 1 .. Len(rest) : Append(rest, h)[i] = rest[i]
          BY SMT, <4>1, Pushed
        <4> QED
          BY <1>4, <4>2
      <3> HIDE DEF new
      <3>2. /\ new[k].node = f.node /\ new[k].account = f.account /\ new[k].authority = f.authority
            /\ new[k].total = f.total /\ new[k].todo = f.todo \ {n}
            /\ \A i \in 1 .. k : i < k => new[i] = stack[i]
        BY <1>1, <1>2, <1>3, <3>1
      <3>3. n \in DOMAIN f.authority.accounts
        BY <1>1, <1>9 DEF HasAccount
      <3>4. Backed(new, root, auth, had, Satisfied)
        BY <1>1, <1>5, <3>a, <3>1, <3>2, <3>3, BackedCall
      <3> QED
        BY <2>7, <3>4 DEF new
    <2> QED
      BY <2>5, <2>6, <2>7
  <1> QED
    BY <1>7, <1>8, <1>9

\* A sound frame that has nothing to do and has reached its threshold is of a satisfied account.
LEMMA ReachedSatisfied ==
    ASSUME NEW f, Sound(f, f.todo, auth, had, Satisfied), f.todo = {}, f.total >= f.authority.threshold
    PROVE  f.account \in Satisfied
  <1> DEFINE a == f.authority
  <1>1. f.account \in Accounts /\ a \in had[f.account] /\ IsAuthority(a) /\ f.total \in Nat /\ a.threshold \in Nat
    BY DEF Sound, IsAuthority
  <1>2. Satisfied \ f.todo = Satisfied
    OBVIOUS
  <1>3. f.total <= KeySum(a, Signers(auth)) + AccountSum(a, Satisfied)
    BY <1>2 DEF Sound
  <1>4. KeySum(a, Signers(auth)) \in Nat /\ AccountSum(a, Satisfied) \in Nat
    BY <1>1, Sums
  <1>5. KeySum(a, Signers(auth)) + AccountSum(a, Satisfied) >= a.threshold
    BY SMTT(30), <1>1, <1>3, <1>4
  <1> HIDE DEF a
  <1> QED
    BY <1>1, <1>5, MetSatisfied

\* The last frame of a sound stack.
LEMMA TopSound ==
    ASSUME SoundInv, Len(stack) > 0
    PROVE  Len(stack) \in Nat /\ Sound(Top, Top.todo, auth, had, Satisfied) /\ IsFrame(Top)
  <1>1. Len(stack) \in Nat /\ Len(stack) \in 1 .. Len(stack)
    BY SMT DEF SoundInv, Stacked, Frames
  <1>2. Pending(stack, Len(stack)) = Top.todo
    BY SMT, <1>1 DEF Pending, Top
  <1> QED
    BY SMTT(30), <1>1, <1>2 DEF SoundInv, Backed, Top, Stacked, Frames

\* A delegated frame returns.
LEMMA ReturnSound ==
    ASSUME SoundInv, Return
    PROVE  /\ Backed(stack', root, auth, had, Satisfied)
           /\ verdict' = verdict \/ verdict' \in Errors
  <1> DEFINE k == Len(stack) - 1
             c == stack[k]
             Total(w) == c.total + w
             new(w) == [Front(stack) EXCEPT ![k].total = Total(w)]
             Due(w) == w = 0 \/ (Top.account \in Satisfied /\ w = c.authority.accounts[Top.account])
  <1>1. Len(stack) \in Nat /\ Len(stack) > 1 /\ Top.todo = {} /\ Frames(stack, visited)
        /\ Backed(stack, root, auth, had, Satisfied)
    BY DEF Return, SoundInv, Stacked, Frames
  <1>2. k \in Nat /\ k > 0 /\ Len(stack) = k + 1 /\ k \in 1 .. k /\ k \in 1 .. Len(stack) /\ Top = stack[k + 1]
    BY SMT, <1>1 DEF Top
  <1>3. /\ Len(Front(stack)) = k /\ \A i \in 1 .. k : Front(stack)[i] = stack[i]
        /\ Front(stack) = [i \in 1 .. k |-> Front(stack)[i]]
    <2>1. Frames(Front(stack), visited \ {stack[Len(stack)].account}) /\ Len(Front(stack)) = Len(stack) - 1
          /\ \A i \in 1 .. Len(stack) - 1 : Front(stack)[i] = stack[i]
      <3>1. Len(stack) > 0
        BY SMT, <1>1
      <3> QED
        BY <1>1, <3>1, PopFrames
    <2> QED
      BY <2>1 DEF Frames
  <1>4. ASSUME NEW w, Due(w) PROVE Backed(new(w), root, auth, had, Satisfied)
    <2> DEFINE g == [c EXCEPT !.total = Total(w)]
               st == new(w)
    <2>1. /\ g.node = c.node /\ g.account = c.account /\ g.authority = c.authority /\ g.todo = c.todo
          /\ g.total = Total(w)
      <3>1. PICK t : t = c
        OBVIOUS
      <3>2. IsFrame(t)
        BY <1>1, <1>2, <3>1 DEF Frames
      <3>3. \A x : /\ [t EXCEPT !.total = x].node = t.node /\ [t EXCEPT !.total = x].account = t.account
                   /\ [t EXCEPT !.total = x].authority = t.authority /\ [t EXCEPT !.total = x].todo = t.todo
                   /\ [t EXCEPT !.total = x].total = x
        BY SMT, <3>2, FrameAssigned
      <3> QED
        BY <3>1, <3>3, Zenon
    <2>2. st = [Front(stack) EXCEPT ![k] = g]
      BY <1>2, <1>3
    <2> HIDE DEF g, c, st
    <2>a. DOMAIN Front(stack) = 1 .. k
      BY <1>3
    <2>b. st = [i \in 1 .. k |-> st[i]] /\ DOMAIN st = 1 .. k /\ st[k] = g
      BY <1>2, <2>2, <2>a
    <2>c. \A i \in 1 .. k : i < k => st[i] = Front(stack)[i]
      <3> DEFINE u == Front(stack)
      <3>1. DOMAIN u = 1 .. k /\ st = [u EXCEPT ![k] = g] /\ k \in Nat
        BY <1>2, <2>2, <2>a
      <3> HIDE DEF u, k
      <3> QED
        BY SMT, <3>1 DEF u
    <2>3. /\ st = [i \in 1 .. k |-> st[i]] /\ DOMAIN st = 1 .. k
          /\ st[k] = g /\ \A i \in 1 .. k : i < k => st[i] = stack[i]
      BY <1>3, <2>b, <2>c
    <2>4. Len(st) = k
      BY SMTT(30), <1>2, <2>3
    <2> HIDE DEF k
    <2>5. \/ g.total = c.total + 0
          \/ stack[k + 1].account \in Satisfied /\ g.total = c.total + c.authority.accounts[stack[k + 1].account]
      BY SMTT(30), <1>2, <1>4, <2>1
    <2>6. Backed(st, root, auth, had, Satisfied)
      BY <1>1, <1>2, <2>1, <2>3, <2>4, <2>5, BackedReturn, SMTT(20) DEF c
    <2> QED
      BY <2>6 DEF st, c
  <1>5. Top.total >= Top.authority.threshold => Top.account \in Satisfied
    <2>1. Sound(Top, Top.todo, auth, had, Satisfied)
      BY SMT, <1>1, TopSound
    <2> QED
      BY <1>1, <2>1, ReachedSatisfied
  <1>6. CASE stack' = <<>> /\ verdict' = "overflow"
    BY <1>6, BackedEmpty DEF Errors
  <1>7. \/ stack' = <<>> /\ verdict' = "overflow"
        \/ /\ verdict' = verdict
           /\ stack' = new(IF Top.total >= Top.authority.threshold THEN c.authority.accounts[Top.account] ELSE 0)
    <2>1. Front(stack)[k].total = c.total
      BY <1>2, <1>3
    <2> QED
      BY <2>1 DEF Return, Reject
  <1> HIDE DEF k, c, new
  <1>8. CASE /\ verdict' = verdict
             /\ stack' = new(IF Top.total >= Top.authority.threshold THEN c.authority.accounts[Top.account] ELSE 0)
    <2>1. PICK w : w = IF Top.total >= Top.authority.threshold THEN c.authority.accounts[Top.account] ELSE 0
      OBVIOUS
    <2>2. Due(w)
      BY <1>5, <2>1
    <2> HIDE DEF Due
    <2>3. Backed(new(w), root, auth, had, Satisfied)
      BY <1>4, <2>2
    <2> QED
      BY <1>8, <2>1, <2>3
  <1> QED
    BY <1>6, <1>7, <1>8

\* The weight of the root is held against the threshold.
LEMMA DecideSound ==
    ASSUME SoundInv, Decide
    PROVE  /\ Backed(stack', root, auth, had, Satisfied)
           /\ verdict' = "ok" => root \in Satisfied
  <1>1. Len(stack) = 1 /\ Top.todo = {} /\ stack' = <<>> /\ Top = stack[1]
    BY DEF Decide, Top
  <1>2. Sound(Top, Top.todo, auth, had, Satisfied) /\ Top.account = root
    BY SMT, <1>1, TopSound DEF SoundInv, Backed
  <1>3. ASSUME verdict' = "ok" PROVE root \in Satisfied
    <2>1. ~(Top.total < Top.authority.threshold)
      BY <1>3 DEF Decide
    <2>2. Top.total \in Nat /\ Top.authority.threshold \in Nat
      BY <1>2 DEF Sound, IsAuthority
    <2>3. Top.total >= Top.authority.threshold
      BY SMT, <2>1, <2>2
    <2> QED
      BY <1>1, <1>2, <2>3, ReachedSatisfied
  <1> QED
    BY <1>1, <1>3, BackedEmpty

\* Another goroutine changes an account: what it was is remembered, what it is was noted.
LEMMA ChangeRecords ==
    ASSUME SoundInv, NEW n \in Accounts, NEW a, a = Nil \/ IsAuthority(a), Change(n, a)
    PROVE  Records' /\ \A m \in Accounts : had[m] \subseteq had'[m]
  <1>1. /\ accounts' = [accounts EXCEPT ![n] = a] /\ had' = [had EXCEPT ![n] = @ \cup ({a} \ {Nil})]
        /\ DOMAIN accounts = Accounts /\ DOMAIN had = Accounts
        /\ UNCHANGED <<signatures, auth, root, verdict>>
    BY DEF Change, SoundInv, verifyVars
  <1>2. \A m \in Accounts : /\ had[m] \subseteq had'[m]
                            /\ accounts'[m] = Nil \/ IsAuthority(accounts'[m])
                            /\ accounts[m] \in had[m] => accounts'[m] = Nil \/ accounts'[m] \in had'[m]
                            /\ accounts[m] = Nil => accounts'[m] = Nil \/ accounts'[m] \in had'[m]
    BY <1>1 DEF SoundInv
  <1>3. DOMAIN accounts' = Accounts /\ DOMAIN had' = Accounts
    BY <1>1
  <1> QED
    BY <1>1, <1>2, <1>3 DEF SoundInv, Records

\* The authority that CreateAccount gives an account.
LEMMA NewAuthorityTyped ==
    ASSUME NEW k \in PubKeys
    PROVE  IsAuthority(NewAuthority(k))
  <1> DEFINE a == NewAuthority(k)
  <1>1. a.threshold = 1 /\ a.keys = [x \in {k} |-> 1] /\ a.accounts = [x \in {} |-> 0]
    BY DEF NewAuthority
  <1> HIDE DEF a
  <1>2. DOMAIN a.keys = {k} /\ DOMAIN a.accounts = {} /\ a.keys[k] = 1
    BY <1>1
  <1>3. IsFiniteSet({k}) /\ IsFiniteSet({})
    BY FS_Singleton, FS_EmptySet
  <1>4. IsAuthority(a)
    BY SMT, <1>1, <1>2, <1>3 DEF IsAuthority
  <1> QED
    BY <1>4 DEF a

\* Every step keeps the frames sound, and an accepted account satisfied.
LEMMA NextSound == SoundInv /\ [Next]_vars => SoundInv'
  <1> SUFFICES ASSUME SoundInv, [Next]_vars PROVE SoundInv'
    OBVIOUS
  <1>1. Stacked' /\ Records
    BY NextStacked DEF SoundInv, Records
  <1>2. ASSUME Records', auth' = auth, root' = root, \A n \in Accounts : had[n] \subseteq had'[n],
               Backed(stack', root, auth, had, Satisfied), verdict' = "ok" => root \in Satisfied
        PROVE  SoundInv'
    <2>1. Satisfied \subseteq Satisfied'
      BY <1>2, SatisfiedGrows
    <2>2. Backed(stack', root, auth, had', Satisfied')
      <3>1. PICK st, sat, sat2, past2 : st = stack' /\ sat = Satisfied /\ sat2 = Satisfied' /\ past2 = had'
        OBVIOUS
      <3>2. Backed(st, root, auth, past2, sat2)
        BY <1>2, <2>1, <3>1, BackedMore
      <3> QED
        BY <3>1, <3>2
    <2> QED
      BY <1>1, <1>2, <2>1, <2>2 DEF SoundInv, Records
  <1>3. Backed(stack, root, auth, had, Satisfied) /\ (verdict = "ok" => root \in Satisfied)
    BY DEF SoundInv
  <1>4. ASSUME UNCHANGED <<accounts, verifyVars, had>>, signatures' \in Seq(Sigs) PROVE SoundInv'
    <2>1. Records' /\ auth' = auth /\ root' = root /\ stack' = stack /\ verdict' = verdict /\ had' = had
      BY <1>1, <1>4 DEF Records, verifyVars
    <2> QED
      BY <1>2, <1>3, <2>1
  <1>5. ASSUME NEW s \in Sigs, AddSignature(s) PROVE SoundInv'
    <2>1. signatures' \in Seq(Sigs)
      BY SMT, <1>5 DEF AddSignature, SoundInv
    <2> QED
      BY <1>4, <1>5, <2>1 DEF AddSignature
  <1>6. ASSUME NEW k \in PubKeys, SignWithSigner(k) PROVE SoundInv'
    <2>1. [key |-> k, good |-> TRUE] \in Sigs
      BY DEF Sigs
    <2> QED
      BY <1>5, <1>6, <2>1 DEF SignWithSigner
  <1>7. CASE Reset
    <2>1. signatures' \in Seq(Sigs)
      BY SMT, <1>7 DEF Reset
    <2> QED
      BY <1>4, <1>7, <2>1 DEF Reset
  <1>8. ASSUME NEW n \in Accounts, NEW below \in Delegations, CapabilityVerify(n, below) PROVE SoundInv'
    <2>1. Records' /\ Backed(stack', root', auth', had', Satisfied') /\ verdict' # "ok"
      BY <1>8, VerifySound
    <2> QED
      BY <1>1, <2>1 DEF SoundInv, Records
  <1>9. ASSUME UNCHANGED <<accounts, signatures, auth, root, had>>,
               Backed(stack', root, auth, had, Satisfied), verdict' = "ok" => root \in Satisfied,
               root # Nil
        PROVE  SoundInv'
    <2>1. Records'
      BY <1>1, <1>9 DEF Records
    <2> QED
      BY <1>2, <1>9, <2>1
  <1>10. ASSUME Len(stack) > 0 PROVE root # Nil
    <2>1. stack # <<>>
      BY SMT, <1>10
    <2> QED
      BY <2>1 DEF SoundInv, Stacked
  <1>11. ASSUME verdict' = verdict \/ verdict' \in Errors PROVE verdict' = "ok" => root \in Satisfied
    BY <1>3, <1>11 DEF Errors
  <1>12. ASSUME NEW n \in Accounts, Delegate(n) PROVE SoundInv'
    <2>1. root # Nil
      BY <1>12 DEF Delegate, SoundInv, Stacked
    <2>2. UNCHANGED <<accounts, signatures, auth, root, had>>
      BY <1>12 DEF Delegate
    <2> QED
      BY <1>9, <1>11, <1>12, <2>1, <2>2, DelegateSound
  <1>13. CASE Return
    <2>1. UNCHANGED <<accounts, signatures, auth, root, had>> /\ Len(stack) > 1 /\ Len(stack) \in Nat
      BY <1>13 DEF Return, SoundInv, Stacked, Frames
    <2>2. root # Nil
      BY SMT, <1>10, <2>1
    <2> QED
      BY <1>9, <1>11, <1>13, <2>1, <2>2, ReturnSound
  <1>14. CASE Decide
    <2>1. UNCHANGED <<accounts, signatures, auth, root, had>> /\ Len(stack) = 1
      BY <1>14 DEF Decide
    <2>2. root # Nil
      BY SMT, <1>10, <2>1
    <2> QED
      BY <1>9, <1>14, <2>1, <2>2, DecideSound
  <1>15. ASSUME NEW n \in Accounts, NEW a, a = Nil \/ IsAuthority(a), Change(n, a) PROVE SoundInv'
    <2>1. Records' /\ \A m \in Accounts : had[m] \subseteq had'[m]
      BY <1>15, ChangeRecords
    <2>2. auth' = auth /\ root' = root /\ stack' = stack /\ verdict' = verdict
      BY <1>15 DEF Change, verifyVars
    <2> QED
      BY <1>2, <1>3, <2>1, <2>2
  <1>16. ASSUME NEW n \in Accounts, NEW k \in PubKeys, CreateAccount(n, k) PROVE SoundInv'
    BY <1>15, <1>16, NewAuthorityTyped DEF CreateAccount
  <1>17. ASSUME NEW n \in Accounts, NEW a \in Authorities[n], UpdateAccount(n, a) PROVE SoundInv'
    BY <1>15, <1>17, AuthoritiesAssumption DEF UpdateAccount
  <1>18. ASSUME NEW n \in Accounts, DeleteAccount(n) PROVE SoundInv'
    BY <1>15, <1>18 DEF DeleteAccount
  <1>19. CASE UNCHANGED vars
    <2>1. signatures' \in Seq(Sigs)
      BY <1>1, <1>19 DEF vars, Records
    <2> QED
      BY <1>4, <1>19, <2>1 DEF vars
  <1> QED
    BY ZenonT(40), <1>5, <1>6, <1>7, <1>8, <1>12, <1>13, <1>14, <1>16, <1>17, <1>18, <1>19 DEF Next, ImportSignature

\* VerifyAuthorization accepts an authorization only if the signatures in it satisfy the
\* account: by distinct keys that have signed, or through accounts that are themselves
\* satisfied, each under an authority it had while the verification went on.  No order
\* of the map of delegations, repeated signature or change of an account counts a weight twice.
THEOREM AcceptedSatisfied == Spec => []AcceptedIsSatisfied
  <1>1. Init => SoundInv
    <2> SUFFICES ASSUME Init PROVE SoundInv
      OBVIOUS
    <2>1. Stacked
      BY EmptyFrames DEF Init, Stacked
    <2>2. Backed(stack, root, auth, had, Satisfied)
      BY BackedEmpty DEF Init
    <2>3. \A n \in Accounts : accounts[n] = Nil \/ IsAuthority(accounts[n])
      BY AuthoritiesAssumption DEF Init
    <2>4. verdict # "ok"
      BY NilAssumption DEF Init
    <2>5. signatures \in Seq(Sigs) /\ DOMAIN accounts = Accounts /\ DOMAIN had = Accounts
          /\ root = Nil /\ verdict = Nil
      BY SMT DEF Init
    <2> QED
      BY <2>1, <2>2, <2>3, <2>4, <2>5 DEF SoundInv
  <1>2. SoundInv => AcceptedIsSatisfied
    BY DEF SoundInv, AcceptedIsSatisfied
  <1> QED
    BY <1>1, <1>2, NextSound, PTL DEF Spec
=============================================================================
