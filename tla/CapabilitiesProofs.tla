------------------------- MODULE CapabilitiesProofs -------------------------
(***************************************************************************)
(* Proofs about Capabilities.  For modules that hold each capability once, *)
(* and callers that keep calls on the same record apart:                   *)
(*                                                                         *)
(*   - what is clean in the cache of a capability is what the backing      *)
(*     store has, whatever the other capabilities of the module flush;     *)
(*   - the iterators give exactly the records that were flushed;           *)
(*   - the calls on the stores are atomic, across goroutines, flushes,     *)
(*     failed transfers and crashes.                                       *)
(***************************************************************************)
EXTENDS Capabilities, TLAPS

USE Zenon

-----------------------------------------------------------------------------
(* Keys *)

LEMMA KindsApart ==
    ASSUME Apart, NEW j \in Kinds, NEW l \in Kinds, NEW k, k \in KeysOfKind(j), k \in KeysOfKind(l)
    PROVE  j = l
BY SMT DEF Apart, Kinds, KeysOfKind, BalanceKey, DelegationKey

LEMMA KeyLengths ==
    ASSUME NEW j \in Kinds, NEW k \in KeysOfKind(j)
    PROVE  /\ Len(k) \in {1, 2}
           /\ j = "account" => Len(k) = 1
           /\ j = "balance" => Len(k) = 2
BY SMT DEF Kinds, KeysOfKind, BalanceKey, DelegationKey

LEMMA KindKeys ==
    ASSUME NEW j \in Kinds
    PROVE  KeysOfKind(j) \subseteq AllKeys
BY DEF AllKeys

LEMMA OneCapability ==
    ASSUME Grants = {1}, NEW c \in Capabilities
    PROVE  /\ c[1] \in Names /\ c[2] \in Kinds
           /\ c = <<c[1], c[2], 1>>
BY SMT DEF Capabilities

LEMMA CallKeys ==
    ASSUME NEW kind \in Kinds, NEW steps, IsCall(kind, steps)
    PROVE  /\ KeysOf(steps) \subseteq KeysOfKind(kind)
           /\ \A i \in 1 .. Len(steps) : steps[i].key \in KeysOf(steps)
<1>1. CASE steps = <<steps[1]>> /\ IsStep(kind, steps[1])
  <2>1. PICK t : t = steps[1]
    OBVIOUS
  <2>2. steps = <<t>> /\ t.key \in KeysOfKind(kind)
    BY <1>1, <2>1 DEF IsStep
  <2>3. Len(steps) = 1
    BY <2>2
  <2> QED
    BY SMT, <2>1, <2>2, <2>3 DEF KeysOf
<1>2. CASE kind = "balance" /\ IsTransfer(steps)
  <2>1. PICK a \in Accounts, b \in Accounts, d \in Denoms, n \in Amounts : steps = TransferSteps(a, b, d, n)
    BY <1>2 DEF IsTransfer
  <2>2. Len(steps) = 3 /\ steps[1].key = BalanceKey(a, d) /\ steps[2].key = BalanceKey(a, d)
            /\ steps[3].key = BalanceKey(b, d)
    BY <2>1 DEF TransferSteps, Step
  <2>3. {BalanceKey(a, d), BalanceKey(b, d)} \subseteq KeysOfKind(kind)
    BY SMT, <1>2 DEF KeysOfKind
  <2> QED
    BY SMT, <2>2, <2>3 DEF KeysOf
<1> QED
  BY <1>1, <1>2 DEF IsCall

\* The shape of a transfer.
LEMMA TransferShape ==
    ASSUME NEW steps, IsTransfer(steps)
    PROVE  \E a, b \in Accounts, d \in Denoms, n \in Amounts :
             /\ n # 0 /\ a # b /\ n \in 0 .. MaxAmount
             /\ steps = <<steps[1], steps[2], steps[3]>>
             /\ Len(steps) = 3
             /\ steps[1] = Step("check", BalanceKey(a, d), n)
             /\ steps[2] = Step("sub", BalanceKey(a, d), n)
             /\ steps[3] = Step("add", BalanceKey(b, d), n)
             /\ KeysOf(steps) = {BalanceKey(a, d), BalanceKey(b, d)}
             /\ BalanceKey(a, d) # BalanceKey(b, d)
<1>1. PICK a \in Accounts, b \in Accounts, d \in Denoms, n \in Amounts :
           n # 0 /\ a # b /\ steps = TransferSteps(a, b, d, n)
  BY DEF IsTransfer
<1>2. /\ steps = <<steps[1], steps[2], steps[3]>>
      /\ Len(steps) = 3
      /\ steps[1] = Step("check", BalanceKey(a, d), n)
      /\ steps[2] = Step("sub", BalanceKey(a, d), n)
      /\ steps[3] = Step("add", BalanceKey(b, d), n)
  BY <1>1 DEF TransferSteps
<1>3. KeysOf(steps) = {BalanceKey(a, d), BalanceKey(b, d)}
  <2>1. /\ steps[1].key = BalanceKey(a, d) /\ steps[2].key = BalanceKey(a, d)
        /\ steps[3].key = BalanceKey(b, d)
    BY SMT, <1>2 DEF Step
  <2> QED
    BY SMT, <1>2, <2>1 DEF KeysOf
<1>4. n \in 0 .. MaxAmount
  BY AmountsAssumption
<1>5. BalanceKey(a, d) # BalanceKey(b, d)
  BY <1>1 DEF BalanceKey
<1> QED
  BY <1>1, <1>2, <1>3, <1>4, <1>5

-----------------------------------------------------------------------------
(* Records *)

LEMMA RecordsAreRecords ==
    ASSUME NEW kind \in Kinds, NEW k
    PROVE  RecordsOf(kind, k) \subseteq Records
BY SMT DEF RecordsOf, Records, Kinds

LEMMA NoRecord ==
    ASSUME NEW kind \in Kinds, NEW k, NEW r \in RecordsOf(kind, k)
    PROVE  r # Nil
BY RecordsAreRecords, NilAssumption

LEMMA BalanceRecords ==
    ASSUME NEW k, NEW r \in RecordsOf("balance", k) \cup {Nil}
    PROVE  AmountOf(r) \in 0 .. MaxAmount /\ (r # Nil => r = Balance(AmountOf(r)))
BY SMT, AmountsAssumption DEF RecordsOf, Balance, AmountOf

LEMMA IsBalance ==
    ASSUME NEW k, NEW n \in 0 .. MaxAmount
    PROVE  /\ Balance(n) \in RecordsOf("balance", k)
           /\ Balance(n) # Nil /\ Balance(n) # Failed
           /\ AmountOf(Balance(n)) = n
<1>1. Balance(n) \in RecordsOf("balance", k)
  BY SMT DEF RecordsOf
<1>2. Balance(n) # Nil
  BY <1>1, NoRecord DEF Kinds
<1> QED
  BY <1>1, <1>2 DEF Balance, Failed, AmountOf

LEMMA AccountRecords ==
    ASSUME NEW k, NEW r \in RecordsOf("account", k)
    PROVE  r = Account(r.nonce) /\ r.nonce \in 0 .. MaxCalls
BY SMT, AmountsAssumption DEF RecordsOf, Account

\* What a single step makes of a record of its store is Failed, Nil or such a record;
\* the nonce it has written is at most one more.
LEMMA StepRecords ==
    ASSUME NEW kind \in Kinds, NEW s, IsStep(kind, s),
           NEW old \in RecordsOf(kind, s.key) \cup {Nil},
           kind = "account" /\ old # Nil => old.nonce < MaxCalls,
           Change(s, old) # Failed
    PROVE  /\ Change(s, old) \in RecordsOf(kind, s.key) \cup {Nil}
           /\ kind = "account" /\ Change(s, old) # Nil =>
                \/ Change(s, old).nonce = 0
                \/ old # Nil /\ Change(s, old).nonce = old.nonce + 1
<1>1. CASE kind = "account"
  <2>1. s.op \in {"create", "nonce", "delete"}
    BY <1>1 DEF IsStep
  <2>2. CASE s.op = "create"
    <3>1. Change(s, old) = Account(0)
      BY <2>2 DEF Change
    <3> QED
      BY SMT, <1>1, <3>1, AmountsAssumption DEF RecordsOf, Account
  <2>3. CASE s.op = "nonce"
    <3>1. old # Nil /\ Change(s, old) = Account(old.nonce + 1)
      BY <2>3 DEF Change
    <3>2. old.nonce + 1 \in 0 .. MaxCalls
      BY SMT, <1>1, <3>1, AccountRecords, AmountsAssumption
    <3> QED
      BY SMT, <1>1, <3>1, <3>2 DEF RecordsOf, Account
  <2>4. CASE s.op = "delete"
    BY <2>4 DEF Change
  <2> QED
    BY <2>1, <2>2, <2>3, <2>4
<1>2. CASE kind = "balance"
  <2>1. \/ s.op \in {"add", "sub"} /\ s.n \in Amounts
        \/ s.op = "put" /\ s.n \in RecordsOf(kind, s.key)
    BY <1>2 DEF IsStep
  <2>2. CASE s.op = "add" /\ s.n \in Amounts
    <3>1. ~(AmountOf(old) > MaxAmount - s.n) /\ Change(s, old) = Balance(AmountOf(old) + s.n)
      BY <2>2 DEF Change, AddAmount
    <3>2. AmountOf(old) + s.n \in 0 .. MaxAmount
      <4>1. AmountOf(old) \in 0 .. MaxAmount /\ s.n \in 0 .. MaxAmount
        BY <1>2, <2>2, BalanceRecords, AmountsAssumption
      <4> QED
        BY SMT, <3>1, <4>1, AmountsAssumption
    <3> QED
      BY <1>2, <3>1, <3>2, IsBalance
  <2>3. CASE s.op = "sub" /\ s.n \in Amounts
    <3>1. ~(AmountOf(old) < s.n) /\ Change(s, old) = Balance(AmountOf(old) - s.n)
      BY <2>3 DEF Change, SubAmount
    <3>2. AmountOf(old) - s.n \in 0 .. MaxAmount
      <4>1. AmountOf(old) \in 0 .. MaxAmount /\ s.n \in 0 .. MaxAmount
        BY <1>2, <2>3, BalanceRecords, AmountsAssumption
      <4> QED
        BY SMT, <3>1, <4>1, AmountsAssumption
    <3> QED
      BY <1>2, <3>1, <3>2, IsBalance
  <2>4. CASE s.op = "put" /\ s.n \in RecordsOf(kind, s.key)
    BY <1>2, <2>4 DEF Change
  <2> QED
    BY <2>1, <2>2, <2>3, <2>4
<1>3. CASE kind = "validator"
  <2>1. \/ s.op = "delete"
        \/ s.op = "put" /\ s.n \in RecordsOf(kind, s.key)
        \/ s.op = "power" /\ Len(s.key) = 1 /\ s.n \in Amounts
        \/ s.op = "active" /\ Len(s.key) = 1 /\ s.n \in BOOLEAN
    BY <1>3 DEF IsStep
  <2>2. CASE s.op = "delete"
    BY <1>3, <2>2 DEF Change
  <2>3. CASE s.op = "put" /\ s.n \in RecordsOf(kind, s.key)
    BY <1>3, <2>3 DEF Change
  <2>4. CASE s.op = "power" /\ Len(s.key) = 1 /\ s.n \in Amounts
    <3>1. old # Nil /\ Change(s, old) = [old EXCEPT !.power = s.n]
      BY <2>4 DEF Change, SetPower
    <3>2. PICK m \in Amounts, b \in BOOLEAN : old = Validator(m, b)
      BY SMT, <1>3, <2>4, <3>1 DEF RecordsOf
    <3>3. Change(s, old) = Validator(s.n, b)
      BY <3>1, <3>2 DEF Validator
    <3> QED
      BY SMT, <1>3, <2>4, <3>3 DEF RecordsOf
  <2>5. CASE s.op = "active" /\ Len(s.key) = 1 /\ s.n \in BOOLEAN
    <3>1. old # Nil /\ Change(s, old) = [old EXCEPT !.active = s.n]
      BY <2>5 DEF Change, SetActive
    <3>2. PICK m \in Amounts, b \in BOOLEAN : old = Validator(m, b)
      BY SMT, <1>3, <2>5, <3>1 DEF RecordsOf
    <3>3. Change(s, old) = Validator(m, s.n)
      BY <3>1, <3>2 DEF Validator
    <3> QED
      BY SMT, <1>3, <2>5, <3>3 DEF RecordsOf
  <2> QED
    BY <2>1, <2>2, <2>3, <2>4, <2>5
<1> QED
  BY <1>1, <1>2, <1>3 DEF Kinds

-----------------------------------------------------------------------------
(* What the steps do to the caches.  Only a write changes what a           *)
(* capability answers, and only for one record.                            *)

CapInv ==
    Shaped /\ Coherent /\ Calling /\ Exclusive /\ NoncesCounted /\ Agreeing /\ Durable

\* What a capability answers is a record of its kind, or none.
LEMMA ViewRecord ==
    ASSUME Disciplined, Shaped, NEW c \in DOMAIN cache, NEW k \in KeysOfKind(c[2])
    PROVE  View(c, k) \in RecordsOf(c[2], k) \cup {Nil}
<1>1. c[1] \in Names /\ c[2] \in Kinds
  BY OneCapability DEF Disciplined, Shaped
<1>2. Stored(c[1], k) \in RecordsOf(c[2], k) \cup {Nil}
  BY <1>1 DEF Shaped
<1>3. k \in DOMAIN cache[c] => cache[c][k].value \in RecordsOf(c[2], k) \cup {Nil}
  BY DEF Shaped
<1> QED
  BY <1>2, <1>3 DEF View

\* After a step c answers v for k, and nothing else is answered differently.
Answers(c, k, v) ==
    /\ DOMAIN cache' = DOMAIN cache
    /\ k \in DOMAIN cache'[c] /\ cache'[c][k].value = v
    /\ View(c, k)' = v
    /\ \A e \in DOMAIN cache : \A j : e # c \/ j # k => View(e, j)' = View(e, j)
    /\ \A e \in DOMAIN cache : \A j \in DOMAIN cache'[e] :
         (e # c \/ j # k) => j \in DOMAIN cache[e] /\ cache'[e][j] = cache[e][j]

\* An entry of a cache: a dirty one by Set and Delete, a clean one by Get.
LEMMA Written ==
    ASSUME Disciplined, Shaped, Coherent, NEW c \in DOMAIN cache, NEW k \in KeysOfKind(c[2]),
           NEW v \in RecordsOf(c[2], k) \cup {Nil}, NEW dirty \in BOOLEAN,
           ~dirty => v = Stored(c[1], k),
           cache' = [cache EXCEPT ![c] = With(@, k, [value |-> v, dirty |-> dirty])],
           UNCHANGED <<registered, backing, calls>>
    PROVE  Shaped' /\ Coherent' /\ Answers(c, k, v)
<1>1. /\ DOMAIN cache' = DOMAIN cache
      /\ cache'[c] = With(cache[c], k, [value |-> v, dirty |-> dirty])
      /\ \A e \in DOMAIN cache : e # c => cache'[e] = cache[e]
  OBVIOUS
<1>2. /\ DOMAIN cache'[c] = DOMAIN cache[c] \cup {k}
      /\ cache'[c][k] = [value |-> v, dirty |-> dirty]
      /\ \A j \in DOMAIN cache[c] : j # k => cache'[c][j] = cache[c][j]
  BY <1>1 DEF With
<1>3. \A m, j : Stored(m, j)' = Stored(m, j)
  BY DEF Stored, At
<1>4. ASSUME NEW e \in DOMAIN cache, NEW j \in DOMAIN cache'[e]
      PROVE  \/ e = c /\ j = k
             \/ j \in DOMAIN cache[e] /\ cache'[e][j] = cache[e][j] /\ (e # c \/ j # k)
  BY <1>1, <1>2, <1>4
<1>5. cache'[c][k] \in [value : RecordsOf(c[2], k) \cup {Nil}, dirty : BOOLEAN]
  BY SMT, <1>2
<1>6. ASSUME NEW e \in DOMAIN cache'
      PROVE  /\ e[1] \in registered'
             /\ DOMAIN cache'[e] \subseteq KeysOfKind(e[2])
             /\ \A j \in DOMAIN cache'[e] :
                  cache'[e][j] \in [value : RecordsOf(e[2], j) \cup {Nil}, dirty : BOOLEAN]
  <2>1. e \in DOMAIN cache /\ e[1] \in registered'
    BY <1>1, <1>6 DEF Shaped
  <2>2. ASSUME NEW j \in DOMAIN cache'[e]
        PROVE  /\ j \in KeysOfKind(e[2])
               /\ cache'[e][j] \in [value : RecordsOf(e[2], j) \cup {Nil}, dirty : BOOLEAN]
    <3>1. CASE e = c /\ j = k
      BY <1>5, <3>1
    <3>2. CASE j \in DOMAIN cache[e] /\ cache'[e][j] = cache[e][j]
      BY <2>1, <3>2 DEF Shaped
    <3> QED
      BY <1>4, <2>1, <2>2, <3>1, <3>2
  <2> QED
    BY <2>1, <2>2
<1>7. Shaped'
  BY <1>1, <1>3, <1>6 DEF Shaped
<1>8. Coherent'
  <2> SUFFICES ASSUME NEW e \in DOMAIN cache', NEW j \in DOMAIN cache'[e], ~cache'[e][j].dirty
               PROVE  cache'[e][j].value = Stored(e[1], j)
    BY <1>3 DEF Coherent
  <2>1. CASE e = c /\ j = k
    BY SMT, <1>2, <2>1
  <2>2. CASE j \in DOMAIN cache[e] /\ cache'[e][j] = cache[e][j]
    BY SMT, <1>1, <2>2 DEF Coherent
  <2> QED
    BY <1>1, <1>4, <2>1, <2>2
<1>9. View(c, k)' = v
  BY SMT, <1>2 DEF View
<1>10. ASSUME NEW e \in DOMAIN cache, NEW j, e # c \/ j # k
       PROVE  View(e, j)' = View(e, j)
  <2>1. (j \in DOMAIN cache'[e]) <=> (j \in DOMAIN cache[e])
    BY <1>1, <1>2, <1>10
  <2>2. j \in DOMAIN cache[e] => cache'[e][j] = cache[e][j]
    BY <1>1, <1>2, <1>10
  <2> QED
    BY <1>3, <2>1, <2>2 DEF View
<1> QED
  BY SMT, <1>1, <1>2, <1>4, <1>7, <1>8, <1>9, <1>10 DEF Answers

\* Get, which may keep what it has read.
LEMMA FilledSame ==
    ASSUME Disciplined, Shaped, Coherent, NEW c \in DOMAIN cache, NEW k \in KeysOfKind(c[2]),
           cache' = Filled(c, k), UNCHANGED <<registered, backing, calls>>
    PROVE  /\ Shaped' /\ Coherent'
           /\ DOMAIN cache' = DOMAIN cache
           /\ \A e \in DOMAIN cache : \A j : View(e, j)' = View(e, j)
           /\ \A e \in DOMAIN cache : \A j \in DOMAIN cache'[e] :
                \/ j \in DOMAIN cache[e] /\ cache'[e][j] = cache[e][j]
                \/ e = c /\ j = k /\ cache'[e][j].value = Stored(e[1], j)
<1>1. CASE k \in DOMAIN cache[c] \/ Stored(c[1], k) = Nil
  <2>1. cache' = cache
    BY <1>1 DEF Filled
  <2>2. \A m, j : Stored(m, j)' = Stored(m, j)
    BY DEF Stored, At
  <2>3. \A e \in DOMAIN cache : \A j : View(e, j)' = View(e, j)
    BY <2>1, <2>2 DEF View
  <2>4. Shaped' /\ Coherent'
    BY <2>1, <2>2 DEF Shaped, Coherent
  <2> QED
    BY <2>1, <2>3, <2>4
<1>2. CASE k \notin DOMAIN cache[c] /\ Stored(c[1], k) # Nil
  <2>1. c[1] \in Names /\ c[2] \in Kinds
    BY OneCapability DEF Disciplined, Shaped
  <2>2. PICK v : v = Stored(c[1], k)
    OBVIOUS
  <2>3. v \in RecordsOf(c[2], k) \cup {Nil}
    BY <2>1, <2>2 DEF Shaped
  <2> DEFINE clean == FALSE
  <2>4. cache' = [cache EXCEPT ![c] = With(@, k, [value |-> v, dirty |-> clean])]
    BY <1>2, <2>2 DEF Filled
  <2>7. clean \in BOOLEAN
    OBVIOUS
  <2> HIDE DEF clean
  <2>5. Shaped' /\ Coherent' /\ Answers(c, k, v)
    BY <2>2, <2>3, <2>4, <2>7, Written
  <2>6. View(c, k) = v
    BY <1>2, <2>2 DEF View
  <2> QED
    BY <2>2, <2>5, <2>6 DEF Answers
<1> QED
  BY <1>1, <1>2

-----------------------------------------------------------------------------
(* What the steps of one call leave alone *)

\* The step a call is at works on one of its records.
LEMMA TodoKey ==
    ASSUME NEW kind \in Kinds, NEW call, IsCall(kind, call.steps), IsTodo(call)
    PROVE  Head(call.todo).key \in KeysOf(call.steps)
<1>0. \A i \in 1 .. Len(call.steps) : call.steps[i].key \in KeysOf(call.steps)
  BY CallKeys
<1>1. CASE IsTransfer(call.steps)
  <2>1. PICK a \in Accounts, b \in Accounts, d \in Denoms, n \in Amounts :
             /\ call.steps = <<call.steps[1], call.steps[2], call.steps[3]>>
             /\ Len(call.steps) = 3
             /\ call.steps[1] = Step("check", BalanceKey(a, d), n)
             /\ call.steps[2] = Step("sub", BalanceKey(a, d), n)
             /\ call.steps[3] = Step("add", BalanceKey(b, d), n)
    BY SMT, <1>1, TransferShape
  <2>2. PICK x, y, z : x = call.steps[1] /\ y = call.steps[2] /\ z = call.steps[3]
    OBVIOUS
  <2>3. /\ call.steps = <<x, y, z>>
        /\ {x.key, y.key, z.key} \subseteq KeysOf(call.steps)
    BY SMT, <1>0, <2>1, <2>2
  <2>4. \/ call.todo = <<x, y, z>>
        \/ call.todo = <<y, z>>
        \/ call.todo = <<z>>
        \/ call.todo = <<Step("add", x.key, x.n)>>
    BY SMT, <2>2, <2>3 DEF IsTodo
  <2> QED
    BY SMT, <2>3, <2>4 DEF Step
<1>2. CASE ~IsTransfer(call.steps)
  <2>1. call.todo = call.steps /\ call.steps = <<call.steps[1]>>
    BY <1>2 DEF IsTodo, IsCall
  <2>2. PICK t : t = call.steps[1]
    OBVIOUS
  <2>3. call.steps = <<t>> /\ Len(call.steps) = 1
    BY <2>1, <2>2
  <2> QED
    BY SMT, <1>0, <2>1, <2>2, <2>3
<1> QED
  BY <1>1, <1>2

\* A call works on a capability, on records of its kind.
LEMMA CallCapability ==
    ASSUME Disciplined, Shaped, Calling, NEW p \in DOMAIN proc
    PROVE  /\ proc[p].cap \in DOMAIN cache
           /\ proc[p].cap[1] \in Names /\ proc[p].cap[2] \in Kinds
           /\ KeysOf(proc[p].steps) \subseteq KeysOfKind(proc[p].cap[2])
           /\ Head(proc[p].todo).key \in KeysOf(proc[p].steps)
<1>1. proc[p].cap \in DOMAIN cache /\ IsCall(proc[p].cap[2], proc[p].steps) /\ IsTodo(proc[p])
  BY DEF Calling, InCall
<1>2. proc[p].cap[1] \in Names /\ proc[p].cap[2] \in Kinds
  BY <1>1, OneCapability DEF Disciplined, Shaped
<1> QED
  BY <1>1, <1>2, CallKeys, TodoKey

LEMMA TookKey ==
    ASSUME NEW p \in DOMAIN proc, NEW c, NEW k, Took(p, c, k)
    PROVE  k \in KeysOf(proc[p].steps)
<1>1. IsTransfer(proc[p].steps) /\ k = proc[p].steps[1].key
  BY DEF Took
<1> QED
  BY SMT, <1>1, TransferShape DEF KeysOf

\* Capabilities of a module do not share a record.
LEMMA RecordsApart ==
    ASSUME Disciplined, Shaped, NEW c \in DOMAIN cache, NEW e \in DOMAIN cache, c[1] = e[1],
           NEW k \in KeysOfKind(c[2]), k \in KeysOfKind(e[2])
    PROVE  c = e
<1>1. /\ c = <<c[1], c[2], 1>> /\ c[2] \in Kinds
      /\ e = <<e[1], e[2], 1>> /\ e[2] \in Kinds
  BY OneCapability DEF Disciplined, Shaped
<1>2. c[2] = e[2]
  BY <1>1, KindsApart DEF Disciplined
<1> QED
  BY <1>1, <1>2

\* A step of p changes nothing but records of its call.
Touches(p) ==
    /\ DOMAIN cache' = DOMAIN cache
    /\ \A e \in DOMAIN cache : \A j :
         e # proc[p].cap \/ j \notin KeysOf(proc[p].steps) => View(e, j)' = View(e, j)

\* So the other calls are where they were.
LEMMA OthersCalling ==
    ASSUME Disciplined, CapInv, NEW p \in DOMAIN proc, NEW q \in DOMAIN proc, q # p,
           Touches(p), proc'[q] = proc[q]
    PROVE  InCall(q)'
<1>1. InCall(q) /\ Head(proc[q].todo).key \in KeysOf(proc[q].steps)
  BY CallCapability DEF CapInv, Calling
<1>2. View(proc[q].cap, Head(proc[q].todo).key)' = View(proc[q].cap, Head(proc[q].todo).key)
  <2>1. proc[q].cap \in DOMAIN cache
    BY <1>1 DEF InCall
  <2>2. proc[q].cap = proc[p].cap => Head(proc[q].todo).key \notin KeysOf(proc[p].steps)
    BY <1>1 DEF CapInv, Exclusive
  <2>3. PICK e0, j0 : e0 = proc[q].cap /\ j0 = Head(proc[q].todo).key
    OBVIOUS
  <2>4. View(e0, j0)' = View(e0, j0)
    BY <2>1, <2>2, <2>3 DEF Touches
  <2>5. proc'[q].cap = e0 /\ Head(proc'[q].todo).key = j0
    BY <2>3
  <2> QED
    BY <2>3, <2>4, <2>5
<1> QED
  BY <1>1, <1>2 DEF InCall, Touches

\* The completed calls change nothing but records of the call of p.
Completes(p) ==
    /\ DOMAIN ideal \subseteq DOMAIN ideal'
    /\ DOMAIN ideal' \subseteq Names \X AllKeys
    /\ \A m, j : m # proc[p].cap[1] \/ j \notin KeysOf(proc[p].steps) => Ideal(m, j)' = Ideal(m, j)

\* Then what is durable stays so.
LEMMA StaysDurable ==
    ASSUME Disciplined, CapInv, NEW p \in DOMAIN proc, DOMAIN cache' = DOMAIN cache, Completes(p),
           UNCHANGED <<backing, flushed>>
    PROVE  Durable'
<1>1. \A m, k : Stored(m, k)' = Stored(m, k)
  BY DEF Stored, At
<1>2. \A m, k : At(flushed, m, k)' = At(flushed, m, k)
  BY DEF At
<1>3. ASSUME NEW m \in Names, NEW kind \in Kinds, <<m, kind, 1>> \notin DOMAIN cache', NEW k \in KeysOfKind(kind)
      PROVE  Ideal(m, k)' = Stored(m, k)'
  <2>1. Ideal(m, k) = Stored(m, k)
    BY <1>3 DEF CapInv, Durable
  <2>2. /\ proc[p].cap \in DOMAIN cache
        /\ KeysOf(proc[p].steps) \subseteq KeysOfKind(proc[p].cap[2])
        /\ proc[p].cap[2] \in Kinds
    BY CallCapability DEF CapInv
  <2>3. proc[p].cap = <<proc[p].cap[1], proc[p].cap[2], 1>>
    BY <2>2, OneCapability DEF Disciplined, CapInv, Shaped
  <2>4. m # proc[p].cap[1] \/ kind # proc[p].cap[2]
    BY <1>3, <2>2, <2>3
  <2>5. m # proc[p].cap[1] \/ k \notin KeysOf(proc[p].steps)
    BY <2>2, <2>4, KindsApart DEF Disciplined
  <2> QED
    BY <1>1, <2>1, <2>5 DEF Completes
<1> QED
  BY <1>1, <1>2, <1>3 DEF CapInv, Durable, Completes

\* The records of other calls and of none agree as before.
LEMMA OthersAgree ==
    ASSUME Disciplined, CapInv, NEW p \in DOMAIN proc, Touches(p), Completes(p),
           \A q \in DOMAIN proc : q # p => q \in DOMAIN proc' /\ proc'[q] = proc[q],
           DOMAIN proc' \subseteq DOMAIN proc,
           p \in DOMAIN proc' => proc'[p].cap = proc[p].cap /\ proc'[p].steps = proc[p].steps,
           NEW c \in DOMAIN cache, NEW k \in KeysOfKind(c[2]),
           c # proc[p].cap \/ k \notin KeysOf(proc[p].steps)
    PROVE  Agrees(c, k)'
<1>1. /\ proc[p].cap \in DOMAIN cache
      /\ KeysOf(proc[p].steps) \subseteq KeysOfKind(proc[p].cap[2])
  BY CallCapability DEF CapInv
<1>2. c[1] # proc[p].cap[1] \/ k \notin KeysOf(proc[p].steps)
  BY <1>1, RecordsApart DEF CapInv
<1>3. View(c, k)' = View(c, k) /\ Ideal(c[1], k)' = Ideal(c[1], k)
  BY <1>2 DEF Touches, Completes
<1>4. ~Took(p, c, k) /\ (p \in DOMAIN proc' => ~Took(p, c, k)')
  <2>1. ~Took(p, c, k)
    BY TookKey DEF Took
  <2>2. ASSUME p \in DOMAIN proc', Took(p, c, k)' PROVE FALSE
    <3>1. c = proc[p].cap /\ IsTransfer(proc[p].steps) /\ k = proc[p].steps[1].key
      BY <2>2 DEF Took
    <3>2. k \in KeysOf(proc[p].steps)
      BY SMT, <3>1, TransferShape DEF KeysOf
    <3> QED
      BY <3>1, <3>2
  <2> QED
    BY <2>1, <2>2
<1>5. \A q \in DOMAIN proc : q # p => (Took(q, c, k)' <=> Took(q, c, k))
  BY DEF Took
<1>6. Agrees(c, k)
  BY DEF CapInv, Agreeing
<1> QED
  BY <1>3, <1>4, <1>5, <1>6 DEF Agrees

\* A record of the call of p is no other call's.
LEMMA NobodyElseTook ==
    ASSUME Disciplined, CapInv, NEW p \in DOMAIN proc, NEW q \in DOMAIN proc, q # p,
           NEW k \in KeysOf(proc[p].steps)
    PROVE  ~Took(q, proc[p].cap, k)
BY TookKey DEF CapInv, Exclusive, Took

LEMMA StillExclusive ==
    ASSUME Exclusive, DOMAIN proc' \subseteq DOMAIN proc,
           \A q \in DOMAIN proc' : proc'[q].cap = proc[q].cap /\ proc'[q].steps = proc[q].steps
    PROVE  Exclusive'
BY SMT DEF Exclusive

\* A call returns: its records are what the completed calls have made of them.
LEMMA Returned ==
    ASSUME Disciplined, CapInv, NEW p \in DOMAIN proc, Shaped', Coherent', NoncesCounted',
           Touches(p), Completes(p), UNCHANGED <<backing, flushed>>,
           proc' = [q \in DOMAIN proc \ {p} |-> proc[q]], NEW e, e = proc[p].cap,
           \A k \in KeysOf(proc[p].steps) : View(e, k)' = Ideal(e[1], k)'
    PROVE  CapInv'
<1>1. Calling'
  BY OthersCalling DEF Calling
<1>2. Exclusive'
  BY StillExclusive DEF CapInv
<1>3. Durable'
  BY StaysDurable DEF Touches
<1>4. ASSUME NEW c \in DOMAIN cache', NEW k \in KeysOfKind(c[2])
      PROVE  Agrees(c, k)'
  <2>1. CASE c # proc[p].cap \/ k \notin KeysOf(proc[p].steps)
    BY <1>4, <2>1, OthersAgree DEF Touches
  <2>2. CASE c = proc[p].cap /\ k \in KeysOf(proc[p].steps)
    <3>1. View(c, k)' = Ideal(c[1], k)'
      BY <2>2
    <3>2. ASSUME NEW q \in DOMAIN proc' PROVE ~Took(q, c, k)'
      <4>1. q \in DOMAIN proc /\ q # p /\ proc'[q] = proc[q]
        OBVIOUS
      <4>2. ~Took(q, c, k)
        BY <2>2, <4>1, NobodyElseTook
      <4> QED
        BY <4>1, <4>2 DEF Took
    <3> QED
      BY <3>1, <3>2 DEF Agrees
  <2> QED
    BY <2>1, <2>2
<1> QED
  BY <1>1, <1>2, <1>3, <1>4 DEF CapInv, Agreeing

\* A call goes on to its next step.
LEMMA Continued ==
    ASSUME Disciplined, CapInv, NEW p \in DOMAIN proc, Shaped', Coherent', NoncesCounted',
           Touches(p), UNCHANGED <<backing, flushed, ideal>>,
           DOMAIN proc' = DOMAIN proc,
           \A q \in DOMAIN proc : q # p => proc'[q] = proc[q],
           proc'[p].cap = proc[p].cap, proc'[p].steps = proc[p].steps,
           InCall(p)', NEW e, e = proc[p].cap,
           \A k \in KeysOf(proc[p].steps) : Agrees(e, k)'
    PROVE  CapInv'
<1>0. Completes(p)
  BY DEF Completes, Ideal, At, CapInv, Durable
<1>1. Calling'
  BY OthersCalling DEF Calling
<1>2. Exclusive'
  BY StillExclusive DEF CapInv
<1>3. Durable'
  BY <1>0, StaysDurable DEF Touches
<1>4. ASSUME NEW c \in DOMAIN cache', NEW k \in KeysOfKind(c[2])
      PROVE  Agrees(c, k)'
  <2>1. CASE c # proc[p].cap \/ k \notin KeysOf(proc[p].steps)
    BY <1>0, <1>4, <2>1, OthersAgree DEF Touches
  <2>2. CASE c = proc[p].cap /\ k \in KeysOf(proc[p].steps)
    BY <2>2
  <2> QED
    BY <2>1, <2>2
<1> QED
  BY <1>1, <1>2, <1>3, <1>4 DEF CapInv, Agreeing

-----------------------------------------------------------------------------
(* The manager, Get and the beginning of a call *)

LEMMA InitCapInv ==
    ASSUME Disciplined, Init
    PROVE  CapInv
<1>1. Shaped
  BY SMT, AmountsAssumption DEF Init, Shaped, Stored, At
<1>2. Coherent /\ Calling /\ Exclusive /\ Agreeing
  BY DEF Init, Coherent, Calling, Exclusive, Agreeing
<1>3. NoncesCounted
  BY DEF Init, NoncesCounted, Counted, Stored, At
<1>4. Durable
  BY DEF Init, Durable, Stored, Ideal, At
<1> QED
  BY <1>1, <1>2, <1>3, <1>4 DEF CapInv

LEMMA NewCapabilityManagerStep ==
    ASSUME Disciplined, CapInv, NewCapabilityManager
    PROVE  CapInv'
<1> USE DEF NewCapabilityManager
<1>0. \A m, k : Stored(m, k)' = Stored(m, k)
  BY DEF Stored, At
<1>1. Shaped'
  BY <1>0 DEF CapInv, Shaped
<1>2. Coherent' /\ Calling' /\ Exclusive' /\ Agreeing'
  BY DEF Coherent, Calling, Exclusive, Agreeing
<1>3. NoncesCounted'
  <2>1. \A m, k : ~Busy(m, k)'
    BY DEF Busy
  <2>2. \A m \in Names : \A k \in KeysOfKind("account") : Counted(m, k, Stored(m, k))
    BY DEF CapInv, NoncesCounted
  <2>3. \A m \in Names : \A k \in KeysOfKind("account") : Counted(m, k, Stored(m, k))'
    BY <1>0, <2>1, <2>2 DEF Counted
  <2> QED
    BY <2>3 DEF NoncesCounted
<1>4. Durable'
  <2>1. ASSUME NEW m \in Names, NEW k \in AllKeys
        PROVE  Ideal(m, k)' = Stored(m, k)' /\ At(flushed, m, k)' = Stored(m, k)'
    <3>1. At(flushed, m, k) = Stored(m, k)
      BY DEF CapInv, Durable
    <3> QED
      BY <1>0, <3>1 DEF Ideal, At
  <2> QED
    BY <2>1, KindKeys DEF CapInv, Durable
<1> QED
  BY <1>1, <1>2, <1>3, <1>4 DEF CapInv

LEMMA RegisterModuleStep ==
    ASSUME Disciplined, CapInv, NEW m \in Names, RegisterModule(m)
    PROVE  CapInv'
<1> USE DEF RegisterModule
<1>0. /\ \A n, k : Stored(n, k)' = Stored(n, k)
      /\ \A n, k : Ideal(n, k)' = Ideal(n, k)
      /\ \A n, k : At(flushed, n, k)' = At(flushed, n, k)
      /\ \A c, k : View(c, k)' = View(c, k)
      /\ \A n, k : Busy(n, k)' = Busy(n, k)
  BY DEF Stored, Ideal, View, At, Busy
<1>1. Shaped'
  BY <1>0 DEF CapInv, Shaped
<1>2. Coherent'
  BY <1>0 DEF CapInv, Coherent
<1>3. Calling' /\ Exclusive'
  BY <1>0 DEF CapInv, Calling, InCall, Exclusive
<1>4. NoncesCounted'
  BY <1>0 DEF CapInv, NoncesCounted, Counted
<1>5. Agreeing'
  BY SMT, <1>0 DEF CapInv, Agreeing, Agrees, Took
<1>6. Durable'
  BY <1>0 DEF CapInv, Durable
<1> QED
  BY <1>1, <1>2, <1>3, <1>4, <1>5, <1>6 DEF CapInv

\* Nonces stay counted if no record of an account gets a new value and no call begins.
LEMMA NoncesKept ==
    ASSUME NoncesCounted, Disciplined, Shaped, Shaped', UNCHANGED <<backing, calls>>,
           \A m, k : Busy(m, k)' => Busy(m, k),
           DOMAIN cache' \subseteq DOMAIN cache,
           \A e \in DOMAIN cache' : e[2] = "account" => \A j \in DOMAIN cache'[e] :
               \/ j \in DOMAIN cache[e] /\ cache'[e][j] = cache[e][j]
               \/ cache'[e][j].value = Stored(e[1], j)
    PROVE  NoncesCounted'
<1>0. \A m, k : Stored(m, k)' = Stored(m, k)
  BY DEF Stored, At
<1>1. \A m \in Names : \A k \in KeysOfKind("account") : Counted(m, k, Stored(m, k))'
  BY <1>0 DEF NoncesCounted, Counted
<1>2. ASSUME NEW e \in DOMAIN cache', e[2] = "account", NEW j \in DOMAIN cache'[e]
      PROVE  Counted(e[1], j, cache[e][j].value)'
  <2>1. CASE j \in DOMAIN cache[e] /\ cache'[e][j] = cache[e][j]
    BY <1>2, <2>1 DEF NoncesCounted, Counted
  <2>2. CASE cache'[e][j].value = Stored(e[1], j)
    <3>1. e[1] \in Names /\ j \in KeysOfKind("account")
      BY <1>2, OneCapability DEF Disciplined, Shaped
    <3> QED
      BY <1>0, <1>1, <2>2, <3>1
  <2> QED
    BY <1>2, <2>1, <2>2
<1> QED
  BY <1>1, <1>2 DEF NoncesCounted

LEMMA GetStep ==
    ASSUME Disciplined, CapInv, NEW c \in Capabilities, NEW k \in KeysOfKind(c[2]), Get(c, k)
    PROVE  CapInv'
<1> USE DEF Get
<1>0. /\ \A n, j : Stored(n, j)' = Stored(n, j)
      /\ \A n, j : Ideal(n, j)' = Ideal(n, j)
      /\ \A n, j : At(flushed, n, j)' = At(flushed, n, j)
      /\ \A n, j : Busy(n, j)' = Busy(n, j)
  BY DEF Stored, Ideal, View, At, Busy
<1>1. /\ Shaped' /\ Coherent'
      /\ DOMAIN cache' = DOMAIN cache
      /\ \A e \in DOMAIN cache : \A j : View(e, j)' = View(e, j)
      /\ \A e \in DOMAIN cache : \A j \in DOMAIN cache'[e] :
           \/ j \in DOMAIN cache[e] /\ cache'[e][j] = cache[e][j]
           \/ e = c /\ j = k /\ cache'[e][j].value = Stored(e[1], j)
  BY FilledSame DEF CapInv
<1>2. Calling' /\ Exclusive'
  BY ZenonT(40), <1>1 DEF CapInv, Calling, InCall, Exclusive
<1>3. NoncesCounted'
  <2>1. /\ DOMAIN cache' \subseteq DOMAIN cache
        /\ \A m, j : Busy(m, j)' => Busy(m, j)
        /\ \A e \in DOMAIN cache' : e[2] = "account" => \A j \in DOMAIN cache'[e] :
             \/ j \in DOMAIN cache[e] /\ cache'[e][j] = cache[e][j]
             \/ cache'[e][j].value = Stored(e[1], j)
    BY <1>0, <1>1
  <2> QED
    BY <1>1, <2>1, NoncesKept DEF CapInv
<1>4. Agreeing'
  BY SMT, <1>0, <1>1 DEF CapInv, Agreeing, Agrees, Took
<1>5. Durable'
  BY SMT, <1>0, <1>1 DEF CapInv, Durable
<1> QED
  BY <1>1, <1>2, <1>3, <1>4, <1>5 DEF CapInv

LEMMA GrantStep ==
    ASSUME Disciplined, CapInv, NEW c \in Capabilities, Grant(c)
    PROVE  CapInv'
<1> USE DEF Grant
<1>0. /\ \A n, k : Stored(n, k)' = Stored(n, k)
      /\ \A n, k : Ideal(n, k)' = Ideal(n, k)
      /\ \A n, k : At(flushed, n, k)' = At(flushed, n, k)
      /\ \A n, k : Busy(n, k)' = Busy(n, k)
  BY DEF Stored, Ideal, At, Busy
<1>1. /\ DOMAIN cache' = DOMAIN cache \cup {c}
      /\ DOMAIN cache'[c] = {}
      /\ \A e \in DOMAIN cache : cache'[e] = cache[e]
  BY DEF With
<1>2. \A e \in DOMAIN cache : \A k : View(e, k)' = View(e, k)
  BY <1>0, <1>1 DEF View
<1>3. Shaped'
  <2>1. ASSUME NEW e \in DOMAIN cache'
        PROVE  /\ e \in Capabilities
               /\ e[1] \in registered'
               /\ DOMAIN cache'[e] \subseteq KeysOfKind(e[2])
               /\ \A j \in DOMAIN cache'[e] :
                    cache'[e][j] \in [value : RecordsOf(e[2], j) \cup {Nil}, dirty : BOOLEAN]
    BY <1>1 DEF CapInv, Shaped
  <2> QED
    BY <1>0, <2>1 DEF CapInv, Shaped
<1>4. Coherent'
  BY SMT, <1>0, <1>1 DEF CapInv, Coherent
<1>5. Calling' /\ Exclusive'
  <2>1. ASSUME NEW p \in DOMAIN proc' PROVE InCall(p)'
    <3>1. InCall(p)
      BY DEF CapInv, Calling
    <3>2. PICK e, j : e = proc[p].cap /\ j = Head(proc[p].todo).key
      OBVIOUS
    <3>3. View(e, j)' = View(e, j)
      BY <1>2, <3>1, <3>2 DEF InCall
    <3> QED
      BY <1>1, <3>1, <3>2, <3>3 DEF InCall
  <2> QED
    BY <2>1 DEF CapInv, Calling, Exclusive
<1>6. NoncesCounted'
  <2>1. \A m \in Names : \A k \in KeysOfKind("account") : Counted(m, k, Stored(m, k))'
    BY <1>0 DEF CapInv, NoncesCounted, Counted
  <2>2. ASSUME NEW e \in DOMAIN cache', e[2] = "account", NEW k \in DOMAIN cache'[e]
        PROVE  Counted(e[1], k, cache[e][k].value)'
    BY <1>0, <1>1, <2>2 DEF CapInv, NoncesCounted, Counted
  <2> QED
    BY <2>1, <2>2 DEF NoncesCounted
<1>7. ASSUME NEW e \in DOMAIN cache', NEW k \in KeysOfKind(e[2]) PROVE Agrees(e, k)'
  <2>1. CASE e \in DOMAIN cache
    BY SMT, <1>0, <1>2, <2>1 DEF CapInv, Agreeing, Agrees, Took
  <2>2. CASE e = c
    <3>1. c[1] \in Names /\ c[2] \in Kinds /\ c = <<c[1], c[2], 1>>
      BY OneCapability DEF Disciplined
    <3>2. Ideal(c[1], k) = Stored(c[1], k)
      BY <1>7, <2>2, <3>1 DEF CapInv, Durable
    <3>3. View(c, k)' = Stored(c[1], k)
      BY <1>0, <1>1 DEF View
    <3>4. ASSUME NEW p \in DOMAIN proc' PROVE ~Took(p, c, k)'
      <4>1. proc'[p].cap # c
        BY DEF CapInv, Calling, InCall
      <4> QED
        BY <4>1 DEF Took
    <3> QED
      BY <1>0, <2>2, <3>2, <3>3, <3>4 DEF Agrees
  <2> QED
    BY <1>1, <2>1, <2>2
<1>8. Durable'
  BY <1>0, <1>1 DEF CapInv, Durable
<1> QED
  BY <1>3, <1>4, <1>5, <1>6, <1>7, <1>8 DEF CapInv, Agreeing

\* What a flush leaves in the backing store: the dirty records of its capability, and
\* every other record as it was.
LEMMA FlushStores ==
    ASSUME Disciplined, CapInv, NEW c \in Capabilities, Flush(c)
    PROVE  /\ \A k \in DOMAIN cache[c] : cache[c][k].dirty => Stored(c[1], k)' = cache[c][k].value
           /\ \A m, k : m # c[1] \/ k \notin DOMAIN cache[c] \/ ~cache[c][k].dirty => Stored(m, k)' = Stored(m, k)
           /\ DOMAIN backing' \subseteq Names \X AllKeys
           /\ \A x \in DOMAIN backing' : backing'[x] # Nil
<1> DEFINE dirty == {k \in DOMAIN cache[c] : cache[c][k].dirty}
           put == {k \in dirty : cache[c][k].value # Nil}
           old == DOMAIN backing \ {<<c[1], k>> : k \in dirty}
<1>1. c \in DOMAIN cache /\ c[1] \in Names /\ c[2] \in Kinds
  BY OneCapability DEF Disciplined, Flush
<1>2. backing' = [x \in old \cup {<<c[1], k>> : k \in put} |-> IF x \in old THEN backing[x] ELSE cache[c][x[2]].value]
  BY DEF Flush
<1>3. dirty \subseteq AllKeys
  BY <1>1, KindKeys DEF CapInv, Shaped
<1>4. ASSUME NEW k \in dirty PROVE Stored(c[1], k)' = cache[c][k].value
  <2>1. <<c[1], k>> \notin old
    OBVIOUS
  <2>2. CASE k \in put
    <3>1. <<c[1], k>> \in DOMAIN backing' /\ backing'[<<c[1], k>>] = cache[c][k].value
      BY <1>2, <2>1, <2>2
    <3> QED
      BY <3>1 DEF Stored, At
  <2>3. CASE k \notin put
    <3>1. <<c[1], k>> \notin DOMAIN backing'
      BY <1>2, <2>1, <2>3
    <3> QED
      BY <2>3, <3>1 DEF Stored, At
  <2> QED
    BY <2>2, <2>3
<1>5. ASSUME NEW m, NEW k, m # c[1] \/ k \notin dirty PROVE Stored(m, k)' = Stored(m, k)
  <2>1. <<m, k>> \in old <=> <<m, k>> \in DOMAIN backing
    BY <1>5
  <2>2. <<m, k>> \notin {<<c[1], j>> : j \in put}
    BY <1>5
  <2>3. /\ <<m, k>> \in DOMAIN backing' <=> <<m, k>> \in DOMAIN backing
        /\ <<m, k>> \in DOMAIN backing => backing'[<<m, k>>] = backing[<<m, k>>]
    BY <1>2, <2>1, <2>2
  <2> QED
    BY <2>3 DEF Stored, At
<1>6. ASSUME NEW x \in DOMAIN backing' PROVE x \in Names \X AllKeys /\ backing'[x] # Nil
  <2>1. CASE x \in old
    BY <1>2, <2>1 DEF CapInv, Shaped
  <2>2. CASE x \notin old
    <3>1. PICK k \in put : x = <<c[1], k>>
      BY <1>2, <2>2
    <3> QED
      BY <1>1, <1>2, <1>3, <2>2, <3>1
  <2> QED
    BY <2>1, <2>2
<1> QED
  BY <1>4, <1>5, <1>6

LEMMA FlushStep ==
    ASSUME Disciplined, CapInv, NEW c \in Capabilities, Flush(c)
    PROVE  CapInv'
<1>1. c \in DOMAIN cache /\ c[1] \in Names /\ c[2] \in Kinds /\ c = <<c[1], c[2], 1>>
  BY OneCapability DEF Disciplined, Flush
<1>2. /\ \A k \in DOMAIN cache[c] : cache[c][k].dirty => Stored(c[1], k)' = cache[c][k].value
      /\ \A m, k : m # c[1] \/ k \notin DOMAIN cache[c] \/ ~cache[c][k].dirty => Stored(m, k)' = Stored(m, k)
      /\ DOMAIN backing' \subseteq Names \X AllKeys
      /\ \A x \in DOMAIN backing' : backing'[x] # Nil
  BY FlushStores
<1>3. /\ DOMAIN cache' = DOMAIN cache
      /\ DOMAIN cache'[c] = DOMAIN cache[c]
      /\ \A k \in DOMAIN cache[c] : cache'[c][k] = [cache[c][k] EXCEPT !.dirty = FALSE]
      /\ \A e \in DOMAIN cache : e # c => cache'[e] = cache[e]
  BY <1>1 DEF Flush
<1>4. \A k \in DOMAIN cache[c] :
          /\ k \in KeysOfKind(c[2])
          /\ cache[c][k] \in [value : RecordsOf(c[2], k) \cup {Nil}, dirty : BOOLEAN]
          /\ cache'[c][k].value = cache[c][k].value /\ cache'[c][k].dirty = FALSE
          /\ cache'[c][k] \in [value : RecordsOf(c[2], k) \cup {Nil}, dirty : BOOLEAN]
          /\ Stored(c[1], k)' = cache[c][k].value
  <2> SUFFICES ASSUME NEW k \in DOMAIN cache[c]
               PROVE  /\ k \in KeysOfKind(c[2])
                      /\ cache[c][k] \in [value : RecordsOf(c[2], k) \cup {Nil}, dirty : BOOLEAN]
                      /\ cache'[c][k].value = cache[c][k].value /\ cache'[c][k].dirty = FALSE
                      /\ cache'[c][k] \in [value : RecordsOf(c[2], k) \cup {Nil}, dirty : BOOLEAN]
                      /\ Stored(c[1], k)' = cache[c][k].value
    OBVIOUS
  <2>1. /\ k \in KeysOfKind(c[2])
        /\ cache[c][k] \in [value : RecordsOf(c[2], k) \cup {Nil}, dirty : BOOLEAN]
    BY <1>1 DEF CapInv, Shaped
  <2>2. /\ cache'[c][k].value = cache[c][k].value /\ cache'[c][k].dirty = FALSE
        /\ cache'[c][k] \in [value : RecordsOf(c[2], k) \cup {Nil}, dirty : BOOLEAN]
    BY <1>3, <2>1
  <2>3. ~cache[c][k].dirty => cache[c][k].value = Stored(c[1], k)
    BY <1>1 DEF CapInv, Coherent
  <2> QED
    BY <1>2, <2>1, <2>2, <2>3
<1>5. ASSUME NEW e \in DOMAIN cache, e # c, NEW k \in KeysOfKind(e[2])
      PROVE  Stored(e[1], k)' = Stored(e[1], k)
  BY <1>1, <1>2, <1>4, <1>5, RecordsApart DEF CapInv
<1>6. ASSUME NEW e \in DOMAIN cache, NEW k \in KeysOfKind(e[2])
      PROVE  View(e, k)' = View(e, k)
  <2>1. CASE e = c
    BY SMT, <1>1, <1>2, <1>3, <1>4, <2>1 DEF View
  <2>2. CASE e # c
    BY <1>3, <1>5, <1>6, <2>2 DEF View
  <2> QED
    BY <2>1, <2>2
<1>7. Shaped'
  <2>1. ASSUME NEW e \in DOMAIN cache'
        PROVE  /\ e \in Capabilities
               /\ e[1] \in registered'
               /\ DOMAIN cache'[e] \subseteq KeysOfKind(e[2])
               /\ \A j \in DOMAIN cache'[e] :
                    cache'[e][j] \in [value : RecordsOf(e[2], j) \cup {Nil}, dirty : BOOLEAN]
    <3>1. registered' = registered /\ e \in DOMAIN cache
      BY <1>3 DEF Flush
    <3>2. CASE e = c
      BY <1>1, <1>3, <1>4, <3>1, <3>2 DEF CapInv, Shaped
    <3>3. CASE e # c
      BY <1>3, <3>1, <3>3 DEF CapInv, Shaped
    <3> QED
      BY <3>2, <3>3
  <2>2. ASSUME NEW m \in Names, NEW kind \in Kinds, NEW k \in KeysOfKind(kind)
        PROVE  Stored(m, k)' \in RecordsOf(kind, k) \cup {Nil}
    <3>1. CASE m = c[1] /\ k \in DOMAIN cache[c]
      <4>1. kind = c[2]
        BY <1>1, <1>4, <3>1, KindsApart DEF Disciplined
      <4> QED
        BY <1>4, <3>1, <4>1
    <3>2. CASE m # c[1] \/ k \notin DOMAIN cache[c]
      BY SMT, <1>2, <3>2 DEF CapInv, Shaped
    <3> QED
      BY <3>1, <3>2
  <2>3. registered' \subseteq Names /\ calls' \in 0 .. MaxCalls
    BY DEF CapInv, Shaped, Flush
  <2>4. DOMAIN cache' \subseteq Capabilities
    BY <2>1
  <2> QED
    BY <1>2, <2>1, <2>2, <2>3, <2>4 DEF Shaped
<1>8. ASSUME NEW e \in DOMAIN cache', NEW k \in DOMAIN cache'[e], ~cache'[e][k].dirty
      PROVE  cache'[e][k].value = Stored(e[1], k)'
  <2>1. CASE e = c
    BY <1>3, <1>4, <1>8, <2>1
  <2>2. CASE e # c
    <3>1. cache'[e] = cache[e] /\ k \in KeysOfKind(e[2])
      BY <1>3, <1>8, <2>2 DEF CapInv, Shaped
    <3> QED
      BY SMT, <1>3, <1>5, <1>8, <2>2, <3>1 DEF CapInv, Coherent
  <2> QED
    BY <2>1, <2>2
<1>13. Coherent'
  BY <1>8 DEF Coherent
<1>9. Calling' /\ Exclusive'
  <2>0. proc' = proc
    BY DEF Flush
  <2>1. ASSUME NEW p \in DOMAIN proc' PROVE InCall(p)'
    <3>1. InCall(p)
      BY <2>0 DEF CapInv, Calling
    <3>2. PICK e, j : e = proc[p].cap /\ j = Head(proc[p].todo).key
      OBVIOUS
    <3>3. e \in DOMAIN cache /\ j \in KeysOfKind(e[2])
      BY <2>0, <3>2, CallCapability DEF CapInv
    <3>4. View(e, j)' = View(e, j)
      BY <1>6, <3>3
    <3> QED
      BY <1>3, <2>0, <3>1, <3>2, <3>4 DEF InCall
  <2> QED
    BY <2>0, <2>1 DEF CapInv, Calling, Exclusive
<1>10. NoncesCounted'
  <2>0. calls' = calls /\ \A m, k : Busy(m, k)' <=> Busy(m, k)
    BY DEF Busy, Flush
  <2>1. ASSUME NEW m \in Names, NEW k \in KeysOfKind("account")
        PROVE  Counted(m, k, Stored(m, k)')
    <3>1. CASE m = c[1] /\ k \in DOMAIN cache[c]
      <4>1. c[2] = "account"
        BY <1>1, <1>4, <3>1, KindsApart DEF Disciplined, Kinds
      <4> QED
        BY SMT, <1>1, <1>4, <3>1, <4>1 DEF CapInv, NoncesCounted
    <3>2. CASE m # c[1] \/ k \notin DOMAIN cache[c]
      BY <1>2, <3>2 DEF CapInv, NoncesCounted
    <3> QED
      BY <3>1, <3>2
  <2>2. ASSUME NEW e \in DOMAIN cache', e[2] = "account", NEW k \in DOMAIN cache'[e]
        PROVE  Counted(e[1], k, cache'[e][k].value)
    <3>1. e \in DOMAIN cache /\ k \in DOMAIN cache[e] /\ cache'[e][k].value = cache[e][k].value
      BY <1>3, <1>4, <2>2
    <3> QED
      BY <2>2, <3>1 DEF CapInv, NoncesCounted
  <2>3. \A m \in Names : \A k \in KeysOfKind("account") : Counted(m, k, Stored(m, k))'
    BY <2>0, <2>1 DEF Counted
  <2>4. \A e \in DOMAIN cache' : e[2] = "account" =>
            \A k \in DOMAIN cache'[e] : Counted(e[1], k, cache[e][k].value)'
    BY <2>0, <2>2 DEF Counted
  <2> QED
    BY <2>3, <2>4 DEF NoncesCounted
<1>11. Agreeing'
  <2>1. ASSUME NEW e \in DOMAIN cache', NEW k \in KeysOfKind(e[2]) PROVE Agrees(e, k)'
    <3>1. Agrees(e, k) /\ View(e, k)' = View(e, k)
      BY <1>3, <1>6 DEF CapInv, Agreeing
    <3>2. Ideal(e[1], k)' = Ideal(e[1], k) /\ proc' = proc
      BY DEF Flush, Ideal, At
    <3> QED
      BY <3>1, <3>2 DEF Agrees, Took
  <2> QED
    BY <2>1 DEF Agreeing
<1>12. Durable'
  <2> DEFINE mine == {x \in DOMAIN ideal : x[1] = c[1] /\ x[2] \in KeysOfKind(c[2])}
  <2>1. /\ flushed' = [x \in DOMAIN flushed \cup mine |-> IF x \in mine THEN ideal[x] ELSE flushed[x]]
        /\ ideal' = ideal
    BY DEF Flush, WithIdeal
  <2>2. /\ DOMAIN ideal \subseteq Names \X AllKeys
        /\ DOMAIN flushed \subseteq DOMAIN ideal
        /\ \A m \in Names, k \in AllKeys : At(flushed, m, k) = Stored(m, k)
        /\ \A m \in Names, kind \in Kinds : <<m, kind, 1>> \notin DOMAIN cache =>
             \A k \in KeysOfKind(kind) : Ideal(m, k) = Stored(m, k)
    BY DEF CapInv, Durable
  <2>3. DOMAIN ideal' \subseteq Names \X AllKeys /\ DOMAIN flushed' \subseteq DOMAIN ideal'
    BY <2>1, <2>2
  <2>4. ASSUME NEW m \in Names, NEW k \in AllKeys
        PROVE  At(flushed, m, k)' = Stored(m, k)'
    <3>1. CASE m = c[1] /\ k \in KeysOfKind(c[2])
      <4>1. At(flushed, m, k)' = Ideal(m, k)
        BY <2>1, <2>2, <3>1 DEF At, Ideal
      <4>2. Agrees(c, k)
        BY <1>1, <3>1 DEF CapInv, Agreeing
      <4>3. \A p \in DOMAIN proc : ~Took(p, c, k)
        BY DEF Disciplined, Flush, Working, Took
      <4>4. View(c, k) = Ideal(m, k)
        BY <3>1, <4>2, <4>3 DEF Agrees
      <4>5. View(c, k) = Stored(c[1], k)'
        BY <1>2, <1>4 DEF View
      <4> QED
        BY <3>1, <4>1, <4>4, <4>5
    <3>2. CASE ~(m = c[1] /\ k \in KeysOfKind(c[2]))
      <4>1. At(flushed, m, k)' = At(flushed, m, k)
        BY <2>1, <3>2 DEF At
      <4>2. Stored(m, k)' = Stored(m, k)
        BY <1>2, <1>4, <3>2
      <4> QED
        BY <2>2, <4>1, <4>2
    <3> QED
      BY <3>1, <3>2
  <2>5. ASSUME NEW m \in Names, NEW kind \in Kinds, <<m, kind, 1>> \notin DOMAIN cache', NEW k \in KeysOfKind(kind)
        PROVE  Ideal(m, k)' = Stored(m, k)'
    <3>1. m # c[1] \/ kind # c[2]
      BY <1>1, <1>3, <2>5
    <3>2. m # c[1] \/ k \notin DOMAIN cache[c]
      BY <1>1, <1>4, <3>1, KindsApart DEF Disciplined
    <3>3. Stored(m, k)' = Stored(m, k)
      BY <1>2, <3>2
    <3>4. Ideal(m, k)' = Ideal(m, k)
      BY <2>1 DEF Ideal, At
    <3> QED
      BY <1>3, <2>2, <2>5, <3>3, <3>4
  <2> HIDE DEF mine
  <2> QED
    BY <2>3, <2>4, <2>5 DEF Durable
<1> QED
  BY <1>7, <1>9, <1>10, <1>11, <1>12, <1>13 DEF CapInv

-----------------------------------------------------------------------------
(* The beginning of a call, and its reads *)

LEMMA CallStep ==
    ASSUME Disciplined, CapInv, NEW p, NEW c \in Capabilities, NEW steps, IsCall(c[2], steps), Call(p, c, steps)
    PROVE  CapInv'
<1> DEFINE new == [cap |-> c, steps |-> steps, todo |-> steps, seen |-> <<>>, failed |-> FALSE]
<1>0. /\ \A n, k : Stored(n, k)' = Stored(n, k)
      /\ \A n, k : Ideal(n, k)' = Ideal(n, k)
      /\ \A n, k : At(flushed, n, k)' = At(flushed, n, k)
      /\ \A e, k : View(e, k)' = View(e, k)
  BY DEF Call, Stored, Ideal, View, At
<1>1. /\ p \notin DOMAIN proc
      /\ DOMAIN proc' = DOMAIN proc \cup {p}
      /\ proc'[p] = new
      /\ \A q \in DOMAIN proc : proc'[q] = proc[q]
  BY DEF Call, With
<1>2. c \in DOMAIN cache /\ cache' = cache /\ calls < MaxCalls /\ calls' = calls + 1
  BY DEF Call
<1>3. Shaped'
  <2>1. calls' \in 0 .. MaxCalls
    BY SMT, <1>2, AmountsAssumption DEF CapInv, Shaped
  <2> QED
    BY <1>0, <2>1 DEF Call, CapInv, Shaped
<1>4. Coherent'
  BY <1>0, <1>2 DEF CapInv, Coherent
<1>5. ASSUME NEW q \in DOMAIN proc' PROVE InCall(q)'
  <2>1. CASE q = p
    <3>1. IsTodo(proc[p])'
      BY SMT, <1>1 DEF IsTodo
    <3>2. /\ proc'[p].cap = c /\ proc'[p].steps = steps /\ proc'[p].seen = <<>> /\ proc'[p].failed = FALSE
          /\ proc'[p].todo = steps
      BY SMT, <1>1
    <3> QED
      BY <1>1, <1>2, <2>1, <3>1, <3>2 DEF InCall
  <2>2. CASE q \in DOMAIN proc
    <3>1. InCall(q) /\ proc'[q] = proc[q]
      BY <1>1, <2>2 DEF CapInv, Calling
    <3> QED
      BY <1>0, <1>2, <3>1 DEF InCall
  <2> QED
    BY <1>1, <2>1, <2>2
<1>6. Exclusive'
  <2>1. \A q \in DOMAIN proc : proc[q].cap[1] = c[1] => KeysOf(proc[q].steps) \cap KeysOf(steps) = {}
    BY DEF Call, Conflicts, Disciplined
  <2>2. proc'[p].cap = c /\ proc'[p].steps = steps
    BY SMT, <1>1
  <2>3. ASSUME NEW q \in DOMAIN proc', NEW r \in DOMAIN proc', q # r, proc'[q].cap[1] = proc'[r].cap[1]
        PROVE  KeysOf(proc'[q].steps) \cap KeysOf(proc'[r].steps) = {}
    <3>1. CASE q = p
      BY SMT, <1>1, <2>1, <2>2, <2>3, <3>1
    <3>2. CASE r = p
      BY <1>1, <2>1, <2>2, <2>3, <3>2
    <3>3. CASE q # p /\ r # p
      BY <1>1, <2>3, <3>3 DEF CapInv, Exclusive
    <3> QED
      BY <3>1, <3>2, <3>3
  <2> QED
    BY <2>3 DEF Exclusive
<1>7. ASSUME NEW m, NEW k, NEW r \in RecordsOf("account", k) \cup {Nil}, Counted(m, k, r)
      PROVE  r # Nil => r.nonce <= calls' /\ r.nonce < calls'
  BY SMT, <1>2, <1>7, AccountRecords DEF Counted, CapInv, Shaped
<1>8. NoncesCounted'
  <2>1. ASSUME NEW m \in Names, NEW k \in KeysOfKind("account") PROVE Counted(m, k, Stored(m, k))'
    <3>1. Stored(m, k) \in RecordsOf("account", k) \cup {Nil} /\ Counted(m, k, Stored(m, k))
      BY DEF CapInv, Shaped, NoncesCounted, Kinds
    <3> QED
      BY <1>0, <1>7, <3>1 DEF Counted
  <2>2. ASSUME NEW e \in DOMAIN cache', e[2] = "account", NEW k \in DOMAIN cache'[e]
        PROVE  Counted(e[1], k, cache[e][k].value)'
    <3>1. cache[e][k] \in [value : RecordsOf(e[2], k) \cup {Nil}, dirty : BOOLEAN]
      BY <1>2 DEF CapInv, Shaped
    <3>2. cache[e][k].value \in RecordsOf("account", k) \cup {Nil} /\ Counted(e[1], k, cache[e][k].value)
      BY <1>2, <2>2, <3>1 DEF CapInv, NoncesCounted
    <3> QED
      BY <1>2, <1>7, <3>2 DEF Counted
  <2> QED
    BY <2>1, <2>2 DEF NoncesCounted
<1>9. ASSUME NEW e \in DOMAIN cache', NEW k \in KeysOfKind(e[2]) PROVE Agrees(e, k)'
  <2>1. ~Took(p, e, k)'
    <3>1. proc'[p].steps = steps /\ proc'[p].todo = steps
      BY SMT, <1>1
    <3>2. IsTransfer(steps) => Len(steps) = 3
      BY TransferShape
    <3> QED
      BY SMT, <3>1, <3>2 DEF Took
  <2>2. \A q \in DOMAIN proc : Took(q, e, k)' <=> Took(q, e, k)
    BY <1>1 DEF Took
  <2>3. \A q \in DOMAIN proc : proc'[q].steps = proc[q].steps
    BY <1>1
  <2>4. Agrees(e, k)
    BY <1>2 DEF CapInv, Agreeing
  <2> QED
    BY <1>0, <1>1, <2>1, <2>2, <2>3, <2>4 DEF Agrees
<1>10. Durable'
  BY <1>0 DEF CapInv, Durable, Call
<1> QED
  BY <1>3, <1>4, <1>5, <1>6, <1>8, <1>9, <1>10 DEF CapInv, Calling, Agreeing

LEMMA BusyWithSteps ==
    ASSUME DOMAIN proc' \subseteq DOMAIN proc,
           \A q \in DOMAIN proc' : proc'[q].cap = proc[q].cap /\ proc'[q].steps = proc[q].steps
    PROVE  \A m, k : Busy(m, k)' => Busy(m, k)
BY DEF Busy

LEMMA ReadStep ==
    ASSUME Disciplined, CapInv, NEW p \in DOMAIN proc, Read(p)
    PROVE  CapInv'
<1>1. PICK call : call = proc[p]
  OBVIOUS
<1>2. PICK c, k : c = call.cap /\ k = Head(call.todo).key
  OBVIOUS
<1>3. /\ c \in DOMAIN cache /\ c[1] \in Names /\ c[2] \in Kinds
      /\ KeysOf(call.steps) \subseteq KeysOfKind(c[2])
      /\ k \in KeysOf(call.steps)
  BY <1>1, <1>2, CallCapability DEF CapInv
<1>4. /\ call.seen = <<>> /\ ~Blind(Head(call.todo))
      /\ proc' = [proc EXCEPT ![p].seen = <<View(c, k)>>]
      /\ cache' = cache \/ cache' = Filled(c, k)
      /\ UNCHANGED <<registered, backing, calls, ideal, flushed>>
  BY <1>1, <1>2 DEF Read
<1>5. /\ Shaped' /\ Coherent'
      /\ DOMAIN cache' = DOMAIN cache
      /\ \A e \in DOMAIN cache : \A j : View(e, j)' = View(e, j)
      /\ \A e \in DOMAIN cache : \A j \in DOMAIN cache'[e] :
           \/ j \in DOMAIN cache[e] /\ cache'[e][j] = cache[e][j]
           \/ e = c /\ j = k /\ cache'[e][j].value = Stored(e[1], j)
  <2>1. CASE cache' = cache
    <3>1. \A m, j : Stored(m, j)' = Stored(m, j)
      BY <1>4 DEF Stored, At
    <3>2. \A e \in DOMAIN cache : \A j : View(e, j)' = View(e, j)
      BY <2>1, <3>1 DEF View
    <3>3. Shaped' /\ Coherent'
      BY <1>4, <2>1, <3>1 DEF CapInv, Shaped, Coherent
    <3> QED
      BY <2>1, <3>2, <3>3
  <2>2. CASE cache' = Filled(c, k)
    BY <1>3, <1>4, <2>2, FilledSame DEF CapInv
  <2> QED
    BY <1>4, <2>1, <2>2
<1>6. /\ DOMAIN proc' = DOMAIN proc
      /\ \A q \in DOMAIN proc : q # p => proc'[q] = proc[q]
      /\ proc'[p] = [call EXCEPT !.seen = <<View(c, k)>>]
  BY <1>1, <1>4
<1>7. InCall(p)
  BY DEF CapInv, Calling
<1>8. proc'[p] = [cap |-> c, steps |-> call.steps, todo |-> call.todo, seen |-> <<View(c, k)>>, failed |-> call.failed]
  BY <1>1, <1>2, <1>6, <1>7 DEF InCall
<1>9. InCall(p)'
  <2>1. IsTodo(proc[p])'
    <3>1. /\ proc'[p].steps = proc[p].steps /\ proc'[p].todo = proc[p].todo
          /\ proc'[p].failed = proc[p].failed
      BY SMT, <1>1, <1>8
    <3> QED
      BY <1>7, <3>1 DEF InCall, IsTodo
  <2>2. IsCall(c[2], call.steps) /\ call.failed \in BOOLEAN
    BY <1>1, <1>2, <1>7 DEF InCall
  <2>3. View(c, k)' = View(c, k)
    BY <1>3, <1>5
  <2>4. /\ proc'[p].cap = c /\ proc'[p].steps = call.steps /\ proc'[p].todo = call.todo
        /\ proc'[p].seen = <<View(c, k)>> /\ proc'[p].failed = call.failed
    BY SMT, <1>8
  <2>5. ~Blind(Head(proc'[p].todo)) /\ Head(proc'[p].todo).key = k
    BY <1>2, <1>4, <2>4
  <2>6. proc'[p].seen = <<View(proc[p].cap, Head(proc[p].todo).key)'>>
    BY <2>3, <2>4, <2>5
  <2>7. proc'[p].cap \in DOMAIN cache'
    BY <1>3, <1>5, <2>4
  <2>8. proc'[p] = [cap |-> proc'[p].cap, steps |-> proc'[p].steps, todo |-> proc'[p].todo,
                    seen |-> proc'[p].seen, failed |-> proc'[p].failed]
    BY <1>8, <2>4
  <2>9. IsCall(proc'[p].cap[2], proc'[p].steps) /\ proc'[p].failed \in BOOLEAN
    BY <2>2, <2>4
  <2> QED
    BY <2>1, <2>5, <2>6, <2>7, <2>8, <2>9 DEF InCall
<1>10. /\ \A q \in DOMAIN proc' : proc'[q].cap = proc[q].cap /\ proc'[q].steps = proc[q].steps
       /\ \A q \in DOMAIN proc' : proc'[q].todo = proc[q].todo
  <2>1. proc'[p].cap = c /\ proc'[p].steps = call.steps /\ proc'[p].todo = call.todo
    BY SMT, <1>8
  <2> QED
    BY <1>1, <1>2, <1>6, <2>1
<1>11. NoncesCounted'
  <2>1. \A m, j : Busy(m, j)' => Busy(m, j)
    BY <1>6, <1>10, BusyWithSteps
  <2> QED
    BY <1>4, <1>5, <2>1, NoncesKept DEF CapInv
<1>12. Touches(p)
  BY <1>5 DEF Touches
<1>13. ASSUME NEW j \in KeysOf(proc[p].steps) PROVE Agrees(c, j)'
  <2>1. Agrees(c, j)
    BY <1>1, <1>3, <1>13 DEF CapInv, Agreeing
  <2>2. View(c, j)' = View(c, j) /\ Ideal(c[1], j)' = Ideal(c[1], j)
    BY <1>3, <1>4, <1>5 DEF Ideal, At
  <2>3. \A q \in DOMAIN proc : Took(q, c, j)' <=> Took(q, c, j)
    BY <1>6, <1>10 DEF Took
  <2> QED
    BY <1>6, <1>10, <2>1, <2>2, <2>3 DEF Agrees
<1>14. proc'[p].cap = proc[p].cap /\ proc'[p].steps = proc[p].steps /\ c = proc[p].cap
  BY <1>1, <1>2, <1>6, <1>10
<1> QED
  BY <1>4, <1>5, <1>6, <1>9, <1>11, <1>12, <1>13, <1>14, Continued

-----------------------------------------------------------------------------
(* Completed calls *)

LEMMA IdeallyOne ==
    ASSUME NEW m, NEW s, NEW steps, steps = <<s>>
    PROVE  /\ DOMAIN Ideally(m, steps) = DOMAIN ideal \cup {<<m, s.key>>}
           /\ At(Ideally(m, steps), m, s.key) = Change(s, Ideal(m, s.key))
           /\ \A l, k : l # m \/ k # s.key => At(Ideally(m, steps), l, k) = Ideal(l, k)
<1>1. Len(steps) = 1 /\ steps[1] = s /\ KeysOf(steps) = {s.key}
  <2>1. Len(steps) = 1 /\ steps[1] = s
    OBVIOUS
  <2> QED
    BY SMT, <2>1 DEF KeysOf
<1> DEFINE base == [k \in KeysOf(steps) |-> At(ideal, m, k)]
           F(i, v) == [v EXCEPT ![steps[i].key] = Change(steps[i], @)]
           Body(h) == [i \in 0 .. Len(steps) |-> IF i = 0 THEN base ELSE F(i, h[i - 1])]
           S == CHOOSE h : h = Body(h)
           g == [i \in 0 .. 1 |-> IF i = 0 THEN base ELSE F(1, base)]
<1>2. Ideally(m, steps) = [v \in DOMAIN ideal \cup {<<m, k>> : k \in KeysOf(steps)} |->
          IF v[1] = m /\ v[2] \in KeysOf(steps) THEN S[Len(steps)][v[2]] ELSE ideal[v]]
  BY DEF Ideally
<1> HIDE DEF base, F
<1>3. g = Body(g)
  BY SMT, <1>1
<1>4. S = Body(S)
  BY <1>3
<1> HIDE DEF S
<1>5. S[1] = F(1, base)
  BY SMT, <1>1, <1>4
<1>6. S[1][s.key] = Change(s, At(ideal, m, s.key))
  BY <1>1, <1>5 DEF base, F
<1>7. DOMAIN Ideally(m, steps) = DOMAIN ideal \cup {<<m, s.key>>}
  <2>1. {<<m, k>> : k \in KeysOf(steps)} = {<<m, s.key>>}
    BY <1>1
  <2> QED
    BY <1>2, <2>1
<1>8. At(Ideally(m, steps), m, s.key) = S[1][s.key]
  BY <1>1, <1>2, <1>7 DEF At
<1>9. ASSUME NEW l, NEW k, l # m \/ k # s.key PROVE At(Ideally(m, steps), l, k) = Ideal(l, k)
  <2>1. <<l, k>> \in DOMAIN Ideally(m, steps) <=> <<l, k>> \in DOMAIN ideal
    BY <1>7, <1>9
  <2>2. <<l, k>> \in DOMAIN ideal => Ideally(m, steps)[<<l, k>>] = ideal[<<l, k>>]
    BY <1>1, <1>2, <1>9
  <2> QED
    BY <2>1, <2>2 DEF At, Ideal
<1> QED
  BY <1>6, <1>7, <1>8, <1>9 DEF Ideal

\* After the steps x, y and z of a transfer in module m the records are as in after.
Transferred(m, x, y, z, after) ==
    /\ DOMAIN after = DOMAIN ideal \cup {<<m, x.key>>, <<m, z.key>>}
    /\ At(after, m, x.key) = Change(y, Change(x, Ideal(m, x.key)))
    /\ At(after, m, z.key) = Change(z, Ideal(m, z.key))
    /\ \A l, k : l # m \/ k \notin {x.key, z.key} => At(after, l, k) = Ideal(l, k)

LEMMA IdeallyTransfer ==
    ASSUME NEW m, NEW x, NEW y, NEW z, NEW steps, steps = <<x, y, z>>, y.key = x.key, z.key # x.key
    PROVE  Transferred(m, x, y, z, Ideally(m, steps))
<1>1. Len(steps) = 3 /\ steps[1] = x /\ steps[2] = y /\ steps[3] = z /\ KeysOf(steps) = {x.key, z.key}
  <2>1. Len(steps) = 3 /\ steps[1] = x /\ steps[2] = y /\ steps[3] = z
    OBVIOUS
  <2> QED
    BY SMT, <2>1 DEF KeysOf
<1> DEFINE base == [k \in KeysOf(steps) |-> At(ideal, m, k)]
           F(i, v) == [v EXCEPT ![steps[i].key] = Change(steps[i], @)]
           Body(h) == [i \in 0 .. Len(steps) |-> IF i = 0 THEN base ELSE F(i, h[i - 1])]
           S == CHOOSE h : h = Body(h)
           g == [i \in 0 .. 3 |-> IF i = 0 THEN base ELSE IF i = 1 THEN F(1, base)
                                  ELSE IF i = 2 THEN F(2, F(1, base)) ELSE F(3, F(2, F(1, base)))]
<1>2. Ideally(m, steps) = [v \in DOMAIN ideal \cup {<<m, k>> : k \in KeysOf(steps)} |->
          IF v[1] = m /\ v[2] \in KeysOf(steps) THEN S[Len(steps)][v[2]] ELSE ideal[v]]
  BY DEF Ideally
<1> HIDE DEF base, F
<1>3. g = Body(g)
  <2>1. ASSUME NEW i \in 0 .. 3 PROVE g[i] = IF i = 0 THEN base ELSE F(i, g[i - 1])
    BY SMT
  <2> QED
    BY <1>1, <2>1
<1>4. S = Body(S)
  BY <1>3
<1> HIDE DEF S
<1>5. S[0] = base /\ S[1] = F(1, S[0]) /\ S[2] = F(2, S[1]) /\ S[3] = F(3, S[2])
  BY SMT, <1>1, <1>4
<1>6. /\ S[3][x.key] = Change(y, Change(x, At(ideal, m, x.key)))
      /\ S[3][z.key] = Change(z, At(ideal, m, z.key))
  <2>1. /\ S[1] = [base EXCEPT ![x.key] = Change(x, @)]
        /\ S[2] = [S[1] EXCEPT ![x.key] = Change(y, @)]
        /\ S[3] = [S[2] EXCEPT ![z.key] = Change(z, @)]
    BY <1>1, <1>5 DEF F
  <2>2. /\ DOMAIN base = {x.key, z.key}
        /\ base[x.key] = At(ideal, m, x.key) /\ base[z.key] = At(ideal, m, z.key)
    BY <1>1 DEF base
  <2>3. /\ DOMAIN S[1] = {x.key, z.key}
        /\ S[1][x.key] = Change(x, At(ideal, m, x.key)) /\ S[1][z.key] = At(ideal, m, z.key)
    BY SMT, <2>1, <2>2
  <2>4. /\ DOMAIN S[2] = {x.key, z.key}
        /\ S[2][x.key] = Change(y, Change(x, At(ideal, m, x.key))) /\ S[2][z.key] = At(ideal, m, z.key)
    BY <2>1, <2>3
  <2> QED
    BY <2>1, <2>4
<1>7. DOMAIN Ideally(m, steps) = DOMAIN ideal \cup {<<m, x.key>>, <<m, z.key>>}
  <2>1. {<<m, k>> : k \in KeysOf(steps)} = {<<m, x.key>>, <<m, z.key>>}
    BY <1>1
  <2> QED
    BY <1>2, <2>1
<1>8. /\ At(Ideally(m, steps), m, x.key) = S[3][x.key]
      /\ At(Ideally(m, steps), m, z.key) = S[3][z.key]
  BY <1>1, <1>2, <1>7 DEF At
<1>9. ASSUME NEW l, NEW k, l # m \/ k \notin {x.key, z.key} PROVE At(Ideally(m, steps), l, k) = Ideal(l, k)
  <2>1. <<l, k>> \in DOMAIN Ideally(m, steps) <=> <<l, k>> \in DOMAIN ideal
    BY <1>7, <1>9
  <2>2. <<l, k>> \in DOMAIN ideal => Ideally(m, steps)[<<l, k>>] = ideal[<<l, k>>]
    BY <1>1, <1>2, <1>9
  <2> QED
    BY <2>1, <2>2 DEF At, Ideal
<1> QED
  BY <1>6, <1>7, <1>8, <1>9 DEF Transferred, Ideal

-----------------------------------------------------------------------------
(* The writes of a call *)

\* A record of the call that nothing was taken from is what the completed calls made.
LEMMA OwnView ==
    ASSUME Disciplined, CapInv, NEW p \in DOMAIN proc, NEW c, c = proc[p].cap,
           NEW k \in KeysOf(proc[p].steps), ~Took(p, c, k)
    PROVE  View(c, k) = Ideal(c[1], k)
<1>1. c \in DOMAIN cache /\ k \in KeysOfKind(c[2])
  BY CallCapability DEF CapInv
<1>2. Agrees(c, k)
  BY <1>1 DEF CapInv, Agreeing
<1>3. \A q \in DOMAIN proc : ~Took(q, c, k)
  BY NobodyElseTook
<1> QED
  BY <1>2, <1>3 DEF Agrees

\* Step s of the call of p makes new of its record.
Writes(p, call, c, s, new) ==
    /\ UNCHANGED <<registered, backing, calls, flushed>>
    /\ \/ new = Failed /\ cache' = cache /\ Fail(p)
       \/ /\ new # Failed
          /\ s.op = "check" => cache' = cache
          /\ s.op # "check" =>
               cache' = [cache EXCEPT ![c] = With(@, s.key, [value |-> new, dirty |-> TRUE])]
          /\ Len(call.todo) = 1 => Return(p, call.failed)
          /\ Len(call.todo) # 1 =>
               proc' = [proc EXCEPT ![p].todo = Tail(@), ![p].seen = <<>>] /\ ideal' = ideal

\* What a step has read is still what the capability answers.
LEMMA WriteCases ==
    ASSUME Disciplined, CapInv, NEW p \in DOMAIN proc, Write(p), NEW call, call = proc[p],
           NEW c, c = call.cap, NEW s, s = Head(call.todo), NEW new, new = Change(s, View(c, s.key))
    PROVE  Writes(p, call, c, s, new)
<1>1. InCall(p)
  BY DEF CapInv, Calling
<1>2. call.seen # <<>> \/ Blind(s)
  BY DEF Write
<1>3. Change(s, IF Blind(s) THEN Nil ELSE call.seen[1]) = new
  <2>1. CASE Blind(s)
    BY <2>1 DEF Blind, Change
  <2>2. CASE ~Blind(s)
    <3>1. call.seen = <<View(c, s.key)>>
      BY <1>1, <1>2, <2>2 DEF InCall
    <3> QED
      BY SMT, <2>2, <3>1
  <2> QED
    BY <2>1, <2>2
<1> QED
  BY <1>3 DEF Write, Writes

\* A call fails and its records are as they were.
LEMMA FailsUnchanged ==
    ASSUME Disciplined, CapInv, NEW p \in DOMAIN proc, Return(p, TRUE),
           UNCHANGED <<registered, cache, backing, calls, flushed>>,
           \A k \in KeysOf(proc[p].steps) : ~Took(p, proc[p].cap, k)
    PROVE  CapInv'
<1>1. proc' = [q \in DOMAIN proc \ {p} |-> proc[q]] /\ ideal' = ideal
  BY DEF Return
<1>2. PICK c : c = proc[p].cap
  OBVIOUS
<1>3. /\ \A m, k : Stored(m, k)' = Stored(m, k)
      /\ \A m, k : Ideal(m, k)' = Ideal(m, k)
      /\ \A e, k : View(e, k)' = View(e, k)
  BY <1>1 DEF Stored, Ideal, View, At
<1>4. Shaped' /\ Coherent'
  BY <1>3 DEF CapInv, Shaped, Coherent
<1>5. Touches(p)
  BY <1>3 DEF Touches
<1>6. Completes(p)
  BY <1>1, <1>3 DEF Completes, CapInv, Durable
<1>7. NoncesCounted'
  <2>1. \A m, k : Busy(m, k)' => Busy(m, k)
    BY <1>1, BusyWithSteps
  <2>2. \A e \in DOMAIN cache' : e[2] = "account" => \A j \in DOMAIN cache'[e] :
            \/ j \in DOMAIN cache[e] /\ cache'[e][j] = cache[e][j]
            \/ cache'[e][j].value = Stored(e[1], j)
    OBVIOUS
  <2> QED
    BY <1>4, <2>1, <2>2, NoncesKept DEF CapInv
<1>8. \A k \in KeysOf(proc[p].steps) : View(c, k)' = Ideal(c[1], k)'
  BY <1>2, <1>3, OwnView
<1> QED
  BY <1>1, <1>2, <1>4, <1>5, <1>6, <1>7, <1>8, Returned

\* A nonce that is read by a call does not yet count that call.
LEMMA NonceSeen ==
    ASSUME Disciplined, CapInv, NEW c \in DOMAIN cache, c[2] = "account", NEW k \in KeysOfKind(c[2]),
           Busy(c[1], k), View(c, k) # Nil
    PROVE  View(c, k).nonce \in Nat /\ View(c, k).nonce < calls
<1>1. c[1] \in Names
  BY OneCapability DEF Disciplined, CapInv, Shaped
<1>2. View(c, k) \in RecordsOf("account", k)
  BY ViewRecord DEF CapInv
<1>3. Counted(c[1], k, View(c, k))
  BY <1>1 DEF CapInv, NoncesCounted, View
<1> QED
  BY SMT, <1>2, <1>3, AccountRecords DEF Counted

\* A method of one step.
LEMMA WriteSingle ==
    ASSUME Disciplined, CapInv, NEW p \in DOMAIN proc, Write(p), ~IsTransfer(proc[p].steps)
    PROVE  CapInv'
<1>1. PICK call : call = proc[p]
  OBVIOUS
<1>2. PICK c, s : c = call.cap /\ s = Head(call.todo)
  OBVIOUS
<1>3. PICK k, new : k = s.key /\ new = Change(s, View(c, s.key))
  OBVIOUS
<1>4. /\ c \in DOMAIN cache /\ c[1] \in Names /\ c[2] \in Kinds
      /\ KeysOf(call.steps) \subseteq KeysOfKind(c[2])
  BY <1>1, <1>2, CallCapability DEF CapInv
<1>5. call.steps = <<s>> /\ call.todo = <<s>> /\ ~call.failed /\ call.failed \in BOOLEAN /\ IsStep(c[2], s)
  <2>1. InCall(p)
    BY DEF CapInv, Calling
  <2>2. /\ call.todo = call.steps /\ ~call.failed /\ call.failed \in BOOLEAN
        /\ call.steps = <<call.steps[1]>> /\ IsStep(c[2], call.steps[1])
    BY <1>1, <1>2, <2>1 DEF InCall, IsTodo, IsCall
  <2>3. PICK t : t = call.steps[1]
    OBVIOUS
  <2>4. call.steps = <<t>> /\ call.todo = <<t>>
    BY <2>2, <2>3
  <2>5. s = t
    BY SMT, <1>2, <2>4
  <2> QED
    BY <2>2, <2>3, <2>4, <2>5
<1>6. KeysOf(call.steps) = {k} /\ Len(call.steps) = 1 /\ Len(call.todo) = 1
  <2>1. Len(call.steps) = 1 /\ Len(call.todo) = 1 /\ call.steps[1] = s
    BY SMT, <1>5
  <2> QED
    BY SMT, <1>3, <2>1 DEF KeysOf
<1>7. \A e, j : ~Took(p, e, j)
  BY DEF Took
<1>8. View(c, k) = Ideal(c[1], k)
  <2>1. c = proc[p].cap /\ k \in KeysOf(proc[p].steps)
    BY <1>1, <1>2, <1>6
  <2> QED
    BY <1>7, <2>1, OwnView
<1>9. Writes(p, call, c, s, new) /\ UNCHANGED <<registered, backing, calls, flushed>>
  <2>1. Writes(p, call, c, s, new)
    BY <1>1, <1>2, <1>3, WriteCases
  <2> QED
    BY <2>1 DEF Writes
<1>10. CASE new = Failed
  <2>1. Return(p, TRUE) /\ cache' = cache
    <3>1. ~(Len(proc[p].steps) > 1)
      BY SMT, <1>1, <1>6
    <3> QED
      BY <1>9, <1>10, <3>1 DEF Fail, Writes
  <2> QED
    BY <1>7, <1>9, <2>1, FailsUnchanged
<1>11. CASE new # Failed
  <2>1. cache' = [cache EXCEPT ![c] = With(@, k, [value |-> new, dirty |-> TRUE])]
    <3>1. s.op # "check"
      BY <1>4, <1>5 DEF IsStep, Kinds
    <3> QED
      BY <1>3, <1>9, <1>11, <3>1 DEF Writes
  <2>2. /\ proc' = [q \in DOMAIN proc \ {p} |-> proc[q]]
        /\ ideal' = Ideally(c[1], <<s>>)
    BY <1>1, <1>2, <1>5, <1>6, <1>9, <1>11 DEF Return, Writes
  <2>3. View(c, k) \in RecordsOf(c[2], k) \cup {Nil}
    BY <1>4, <1>6, ViewRecord DEF CapInv
  <2>4. Busy(c[1], k) /\ ~Busy(c[1], k)'
    <3>1. Busy(c[1], k)
      BY <1>1, <1>2, <1>6 DEF Busy
    <3>2. ASSUME NEW q \in DOMAIN proc', proc'[q].cap[1] = c[1], k \in KeysOf(proc'[q].steps)
          PROVE  FALSE
      <4>1. q \in DOMAIN proc /\ q # p /\ proc'[q] = proc[q]
        BY <2>2
      <4> QED
        BY <1>1, <1>2, <1>6, <3>2, <4>1 DEF CapInv, Exclusive
    <3> QED
      BY <3>1, <3>2 DEF Busy
  <2>5. c[2] = "account" /\ View(c, k) # Nil => View(c, k).nonce \in Nat /\ View(c, k).nonce < calls
    BY <1>4, <1>6, <2>4, NonceSeen
  <2>6. calls \in 0 .. MaxCalls
    BY DEF CapInv, Shaped
  <2>7. PICK old : old = View(c, k)
    OBVIOUS
  <2>8. /\ new \in RecordsOf(c[2], k) \cup {Nil}
        /\ c[2] = "account" /\ new # Nil => new.nonce = 0 \/ (old # Nil /\ new.nonce = old.nonce + 1)
    <3>1. old \in RecordsOf(c[2], s.key) \cup {Nil}
      BY <1>3, <2>3, <2>7
    <3>2. c[2] = "account" /\ old # Nil => old.nonce < MaxCalls
      BY SMT, <2>5, <2>6, <2>7, AmountsAssumption
    <3>3. new = Change(s, old)
      BY <1>3, <2>7
    <3> QED
      BY <1>3, <1>4, <1>5, <1>11, <3>1, <3>2, <3>3, StepRecords
  <2>9. Shaped' /\ Coherent' /\ Answers(c, k, new)
    <3>1. k \in KeysOfKind(c[2])
      BY <1>4, <1>6
    <3> DEFINE dirty == TRUE
    <3>2. cache' = [cache EXCEPT ![c] = With(@, k, [value |-> new, dirty |-> dirty])] /\ dirty \in BOOLEAN /\ dirty
      BY <2>1
    <3> HIDE DEF dirty
    <3> QED
      BY <1>4, <1>9, <2>8, <3>1, <3>2, Written DEF CapInv
  <2>10. Touches(p)
    BY <1>1, <1>2, <1>6, <2>9 DEF Answers, Touches
  <2>11. /\ DOMAIN Ideally(c[1], <<s>>) = DOMAIN ideal \cup {<<c[1], k>>}
         /\ At(Ideally(c[1], <<s>>), c[1], k) = Change(s, Ideal(c[1], k))
         /\ \A l, j : l # c[1] \/ j # k => At(Ideally(c[1], <<s>>), l, j) = Ideal(l, j)
    BY SMT, <1>3, IdeallyOne
  <2>12. /\ DOMAIN ideal' = DOMAIN ideal \cup {<<c[1], k>>}
         /\ Ideal(c[1], k)' = new
         /\ \A l, j : l # c[1] \/ j # k => Ideal(l, j)' = Ideal(l, j)
    <3>1. \A l, j : Ideal(l, j)' = At(Ideally(c[1], <<s>>), l, j)
      BY <2>2 DEF Ideal, At
    <3> QED
      BY <1>3, <1>8, <2>2, <2>11, <3>1
  <2>13. Completes(p)
    <3>1. k \in AllKeys
      BY <1>4, <1>6, KindKeys
    <3> QED
      BY SMT, <1>1, <1>2, <1>4, <1>6, <2>12, <3>1 DEF Completes, CapInv, Durable
  <2>14. NoncesCounted'
    <3>0. \A m, j : Stored(m, j)' = Stored(m, j)
      BY <1>9 DEF Stored, At
    <3>1. \A m, j : Busy(m, j)' => Busy(m, j)
      BY <2>2, BusyWithSteps
    <3>2. calls' = calls
      BY <1>9
    <3>3. \A m \in Names : \A j \in KeysOfKind("account") : Counted(m, j, Stored(m, j))'
      BY <3>0, <3>1, <3>2 DEF CapInv, NoncesCounted, Counted
    <3>4. ASSUME NEW e \in DOMAIN cache', e[2] = "account", NEW j \in DOMAIN cache'[e]
          PROVE  Counted(e[1], j, cache[e][j].value)'
      <4>1. CASE e = c /\ j = k
        <5>1. cache'[e][j].value = new
          BY <2>9, <4>1 DEF Answers
        <5>2. new # Nil => new.nonce <= calls
          BY SMT, <2>5, <2>6, <2>7, <2>8, <3>4, <4>1, AmountsAssumption
        <5> QED
          BY <2>4, <3>2, <4>1, <5>1, <5>2 DEF Counted
      <4>2. CASE e # c \/ j # k
        <5>1. e \in DOMAIN cache /\ j \in DOMAIN cache[e] /\ cache'[e][j] = cache[e][j]
          BY <2>9, <3>4, <4>2 DEF Answers
        <5> QED
          BY <3>1, <3>2, <3>4, <5>1 DEF CapInv, NoncesCounted, Counted
      <4> QED
        BY <4>1, <4>2
    <3> QED
      BY <3>3, <3>4 DEF NoncesCounted
  <2>15. \A j \in KeysOf(proc[p].steps) : View(c, j)' = Ideal(c[1], j)'
    BY <1>1, <1>6, <2>9, <2>12 DEF Answers
  <2> QED
    BY <1>1, <1>2, <1>9, <2>2, <2>9, <2>10, <2>13, <2>14, <2>15, Returned
<1> QED
  BY <1>10, <1>11

\* A transfer goes on, or back, to the step in todo.
LEMMA TransferContinued ==
    ASSUME Disciplined, CapInv, NEW p \in DOMAIN proc, IsTransfer(proc[p].steps), Shaped', Coherent', NoncesCounted',
           Touches(p), UNCHANGED <<backing, flushed, ideal>>,
           NEW call, call = proc[p], NEW todo, NEW failed \in BOOLEAN,
           DOMAIN proc' = DOMAIN proc,
           \A q \in DOMAIN proc : q # p => proc'[q] = proc[q],
           proc'[p] = [cap |-> call.cap, steps |-> call.steps, todo |-> todo, seen |-> <<>>, failed |-> failed],
           IsTodo(proc'[p]), NEW e, e = call.cap,
           \A k \in KeysOf(call.steps) : Agrees(e, k)'
    PROVE  CapInv'
<1>1. InCall(p)
  BY DEF CapInv, Calling
<1>2. DOMAIN cache' = DOMAIN cache
  BY DEF Touches
<1>3. /\ proc'[p].cap = call.cap /\ proc'[p].steps = call.steps /\ proc'[p].todo = todo
      /\ proc'[p].seen = <<>> /\ proc'[p].failed = failed
  BY SMT
<1>4. InCall(p)'
  BY <1>1, <1>2, <1>3 DEF InCall
<1> QED
  BY <1>3, <1>4, Continued

\* Balances are no accounts.
LEMMA BalanceNonces ==
    ASSUME Disciplined, CapInv, Shaped', NEW c \in DOMAIN cache, c[2] = "balance", NEW k, NEW v,
           cache' = cache \/ Answers(c, k, v), UNCHANGED <<backing, calls>>,
           DOMAIN proc' \subseteq DOMAIN proc,
           \A q \in DOMAIN proc' : proc'[q].cap = proc[q].cap /\ proc'[q].steps = proc[q].steps
    PROVE  NoncesCounted'
<1>1. \A m, j : Busy(m, j)' => Busy(m, j)
  BY BusyWithSteps
<1>2. DOMAIN cache' \subseteq DOMAIN cache
  BY DEF Answers
<1>3. \A e \in DOMAIN cache' : e[2] = "account" => \A j \in DOMAIN cache'[e] :
          \/ j \in DOMAIN cache[e] /\ cache'[e][j] = cache[e][j]
          \/ cache'[e][j].value = Stored(e[1], j)
  BY ZenonT(40) DEF Answers
<1> QED
  BY <1>1, <1>2, <1>3, NoncesKept DEF CapInv

\* What the completed calls have made of a record agrees with what the capability
\* answers, if nobody has taken from it.
LEMMA UntakenAgrees ==
    ASSUME NEW c, NEW k, \A q \in DOMAIN proc' : ~Took(q, c, k)', View(c, k)' = Ideal(c[1], k)'
    PROVE  Agrees(c, k)'
BY DEF Agrees

\* Goroutine p is in a transfer of n between records of c.
InTransfer(p, call, c, x, y, z, from, to, n) ==
    /\ call = proc[p] /\ c = call.cap
    /\ n # 0 /\ n \in 0 .. MaxAmount
    /\ IsTransfer(call.steps) /\ call.steps = <<x, y, z>> /\ call.steps[1] = x /\ Len(call.steps) = 3
    /\ KeysOf(call.steps) = {from, to} /\ from # to
    /\ x.op = "check" /\ x.key = from /\ x.n = n
    /\ y.op = "sub" /\ y.key = from /\ y.n = n
    /\ z.op = "add" /\ z.key = to /\ z.n = n
    /\ c \in DOMAIN cache /\ c[1] \in Names /\ c[2] = "balance"
    /\ from \in KeysOfKind(c[2]) /\ to \in KeysOfKind(c[2])
    /\ call = [cap |-> c, steps |-> call.steps, todo |-> call.todo, seen |-> call.seen, failed |-> call.failed]
    /\ call.failed \in BOOLEAN
    /\ \A q \in DOMAIN proc : q # p => ~Took(q, c, from) /\ ~Took(q, c, to)
    /\ ~Took(p, c, to) /\ View(c, to) = Ideal(c[1], to)
    /\ Len(call.todo) # 1 => ~Took(p, c, from) /\ View(c, from) = Ideal(c[1], from)
    /\ View(c, from) \in RecordsOf("balance", from) \cup {Nil}
    /\ AmountOf(View(c, from)) \in 0 .. MaxAmount /\ AmountOf(View(c, to)) \in 0 .. MaxAmount

LEMMA TransferFacts ==
    ASSUME Disciplined, CapInv, NEW p \in DOMAIN proc, IsTransfer(proc[p].steps)
    PROVE  \E call, c, x, y, z, from, to, n :
             /\ InTransfer(p, call, c, x, y, z, from, to, n)
             /\ \/ ~call.failed /\ call.todo = <<x, y, z>>
                \/ ~call.failed /\ call.todo = <<y, z>>
                \/ ~call.failed /\ call.todo = <<z>>
                \/ call.failed /\ call.todo = <<Step("add", from, n)>>
<1>1. PICK call : call = proc[p]
  OBVIOUS
<1>2. PICK c : c = call.cap
  OBVIOUS
<1>4. PICK a \in Accounts, b \in Accounts, d \in Denoms, n \in Amounts :
           /\ n # 0 /\ n \in 0 .. MaxAmount
           /\ call.steps = <<call.steps[1], call.steps[2], call.steps[3]>>
           /\ Len(call.steps) = 3
           /\ call.steps[1] = Step("check", BalanceKey(a, d), n)
           /\ call.steps[2] = Step("sub", BalanceKey(a, d), n)
           /\ call.steps[3] = Step("add", BalanceKey(b, d), n)
           /\ KeysOf(call.steps) = {BalanceKey(a, d), BalanceKey(b, d)}
           /\ BalanceKey(a, d) # BalanceKey(b, d)
  BY SMT, <1>1, TransferShape
<1>5. PICK x, y, z, from, to :
           /\ from = BalanceKey(a, d) /\ to = BalanceKey(b, d)
           /\ x = Step("check", from, n) /\ y = Step("sub", from, n) /\ z = Step("add", to, n)
  OBVIOUS
<1>6. /\ call.steps = <<x, y, z>> /\ call.steps[1] = x
      /\ KeysOf(call.steps) = {from, to} /\ from # to
  BY <1>4, <1>5
<1>7. /\ x.op = "check" /\ x.key = from /\ x.n = n
      /\ y.op = "sub" /\ y.key = from /\ y.n = n
      /\ z.op = "add" /\ z.key = to /\ z.n = n
  BY <1>5 DEF Step
<1>8. InCall(p)
  BY DEF CapInv, Calling
<1>9. /\ c \in DOMAIN cache /\ c[1] \in Names /\ c[2] = "balance"
      /\ from \in KeysOfKind(c[2]) /\ to \in KeysOfKind(c[2])
  <2>1. /\ c \in DOMAIN cache /\ c[1] \in Names
        /\ KeysOf(call.steps) \subseteq KeysOfKind(c[2])
    BY <1>1, <1>2, CallCapability DEF CapInv
  <2>2. IsCall(c[2], call.steps)
    BY <1>1, <1>2, <1>8 DEF InCall
  <2>3. call.steps # <<call.steps[1]>>
    BY SMTT(30), <1>4
  <2> QED
    BY <1>6, <2>1, <2>2, <2>3 DEF IsCall
<1>10. /\ call = [cap |-> c, steps |-> call.steps, todo |-> call.todo, seen |-> call.seen, failed |-> call.failed]
       /\ call.failed \in BOOLEAN
       /\ \/ ~call.failed /\ call.todo = <<x, y, z>>
          \/ ~call.failed /\ call.todo = <<y, z>>
          \/ ~call.failed /\ call.todo = <<z>>
          \/ call.failed /\ call.todo = <<Step("add", from, n)>>
  <2>1. IsTodo(call) /\ call.failed \in BOOLEAN
    BY <1>1, <1>8 DEF InCall
  <2> QED
    BY SMT, <1>1, <1>2, <1>6, <1>7, <1>8, <2>1 DEF InCall, IsTodo
<1>12. /\ View(c, from) \in RecordsOf("balance", from) \cup {Nil}
       /\ View(c, to) \in RecordsOf("balance", to) \cup {Nil}
  BY <1>9, ViewRecord DEF CapInv
<1>13. \A q \in DOMAIN proc : q # p => ~Took(q, c, from) /\ ~Took(q, c, to)
  BY <1>1, <1>2, <1>6, NobodyElseTook
<1>14. ~Took(p, c, to) /\ View(c, to) = Ideal(c[1], to)
  <2>1. ~Took(p, c, to)
    BY <1>1, <1>6, <1>7 DEF Took
  <2>2. c = proc[p].cap /\ to \in KeysOf(proc[p].steps)
    BY <1>1, <1>2, <1>6
  <2> QED
    BY <2>1, <2>2, OwnView
<1>15. Len(call.todo) # 1 => ~Took(p, c, from) /\ View(c, from) = Ideal(c[1], from)
  <2>1. ASSUME Len(call.todo) # 1 PROVE ~Took(p, c, from)
    BY <1>1, <2>1 DEF Took
  <2>2. c = proc[p].cap /\ from \in KeysOf(proc[p].steps)
    BY <1>1, <1>2, <1>6
  <2> QED
    BY <2>1, <2>2, OwnView
<1>16. AmountOf(View(c, from)) \in 0 .. MaxAmount /\ AmountOf(View(c, to)) \in 0 .. MaxAmount
  BY <1>12, BalanceRecords
<1> QED
  BY SMTT(30), <1>1, <1>2, <1>4, <1>6, <1>7, <1>9, <1>10, <1>12, <1>13, <1>14, <1>15, <1>16 DEF InTransfer

LEMMA TransferTodo ==
    ASSUME NEW p, NEW call, NEW c, NEW x, NEW y, NEW z, NEW from, NEW to, NEW n,
           InTransfer(p, call, c, x, y, z, from, to, n), NEW todo, NEW failed \in BOOLEAN,
           \/ ~failed /\ todo \in {<<y, z>>, <<z>>}
           \/ failed /\ todo = <<Step("add", from, n)>>
    PROVE  IsTodo([cap |-> c, steps |-> call.steps, todo |-> todo, seen |-> <<>>, failed |-> failed])
<1>1. <<y, z>> = Tail(call.steps) /\ <<z>> = Tail(Tail(call.steps))
  BY SMT DEF InTransfer
<1>2. IsTransfer(call.steps) /\ call.steps[1].key = from /\ call.steps[1].n = n
  BY DEF InTransfer
<1> QED
  BY <1>1, <1>2 DEF IsTodo

\* Nothing has been taken yet when the first half fails.
LEMMA TransferFails ==
    ASSUME Disciplined, CapInv, NEW p \in DOMAIN proc, NEW call, NEW c, NEW x, NEW y, NEW z, NEW from, NEW to, NEW n,
           InTransfer(p, call, c, x, y, z, from, to, n), NEW s, NEW new,
           Writes(p, call, c, s, new), Len(call.todo) # 1, new = Failed
    PROVE  CapInv'
<1>1. Return(p, TRUE) /\ cache' = cache
  BY DEF Writes, Fail, InTransfer
<1>2. \A k \in KeysOf(proc[p].steps) : ~Took(p, proc[p].cap, k)
  BY ZenonT(40) DEF InTransfer
<1>3. UNCHANGED <<registered, backing, calls, flushed>>
  BY DEF Writes
<1> QED
  BY <1>1, <1>2, <1>3, FailsUnchanged

\* The check.
LEMMA TransferChecks ==
    ASSUME Disciplined, CapInv, NEW p \in DOMAIN proc, NEW call, NEW c, NEW x, NEW y, NEW z, NEW from, NEW to, NEW n,
           InTransfer(p, call, c, x, y, z, from, to, n), NEW s, NEW new, new = Change(s, View(c, s.key)),
           Writes(p, call, c, s, new), s = Head(call.todo), call.todo = <<x, y, z>>, ~call.failed
    PROVE  CapInv'
<1>call. call = proc[p] /\ c = call.cap /\ n # 0 /\ n \in 0 .. MaxAmount
  BY DEF InTransfer
<1>steps. /\ call.steps = <<x, y, z>> /\ call.steps[1] = x /\ Len(call.steps) = 3
          /\ KeysOf(call.steps) = {from, to} /\ from # to
          /\ IsTransfer(proc[p].steps)
  BY DEF InTransfer
<1>ops. /\ x.op = "check" /\ x.key = from /\ x.n = n
        /\ y.op = "sub" /\ y.key = from /\ y.n = n
        /\ z.op = "add" /\ z.key = to /\ z.n = n
  BY DEF InTransfer
<1>cap. /\ c \in DOMAIN cache /\ c[1] \in Names /\ c[2] = "balance"
        /\ from \in KeysOfKind(c[2]) /\ to \in KeysOfKind(c[2])
  BY DEF InTransfer
<1>rec. /\ call = [cap |-> c, steps |-> call.steps, todo |-> call.todo, seen |-> call.seen, failed |-> call.failed]
        /\ call.failed \in BOOLEAN
  BY DEF InTransfer
<1>took. /\ \A q \in DOMAIN proc : q # p => ~Took(q, c, from) /\ ~Took(q, c, to)
         /\ ~Took(p, c, to) /\ View(c, to) = Ideal(c[1], to)
         /\ Len(call.todo) # 1 => ~Took(p, c, from) /\ View(c, from) = Ideal(c[1], from)
  BY DEF InTransfer
<1>same. UNCHANGED <<registered, backing, calls, flushed>>
  BY DEF Writes
<1>1. s = x /\ Len(call.todo) = 3 /\ Tail(call.todo) = <<y, z>>
  BY SMT, <1>call
<1>2. CASE new # Failed
  <2>1. cache' = cache /\ ideal' = ideal /\ proc' = [proc EXCEPT ![p].todo = Tail(@), ![p].seen = <<>>]
    BY SMT, <1>ops, <1>same, <1>1, <1>2 DEF Writes
  <2>2. /\ DOMAIN proc' = DOMAIN proc
        /\ \A q \in DOMAIN proc : q # p => proc'[q] = proc[q]
        /\ proc'[p] = [cap |-> c, steps |-> call.steps, todo |-> <<y, z>>, seen |-> <<>>, failed |-> call.failed]
    BY <1>call, <1>rec, <1>1, <2>1
  <2>3. /\ \A m, k : Stored(m, k)' = Stored(m, k)
        /\ \A m, k : Ideal(m, k)' = Ideal(m, k)
        /\ \A e, k : View(e, k)' = View(e, k)
    BY <1>same, <2>1 DEF Stored, Ideal, View, At
  <2>4. Shaped' /\ Coherent'
    BY <1>same, <2>1, <2>3 DEF CapInv, Shaped, Coherent
  <2>5. Touches(p)
    BY <2>1, <2>3 DEF Touches
  <2>6. NoncesCounted'
    <3>1. proc'[p].cap = proc[p].cap /\ proc'[p].steps = proc[p].steps
      BY SMT, <1>call, <2>2
    <3>2. /\ DOMAIN proc' \subseteq DOMAIN proc
          /\ \A q \in DOMAIN proc' : proc'[q].cap = proc[q].cap /\ proc'[q].steps = proc[q].steps
      BY <2>2, <3>1
    <3> QED
      BY <1>cap, <1>same, <2>1, <2>4, <3>2, BalanceNonces
  <2>7. ASSUME NEW k \in {from, to} PROVE Agrees(c, k)'
    <3>1. ASSUME NEW q \in DOMAIN proc' PROVE ~Took(q, c, k)'
      <4>1. Len(proc'[p].todo) # 1
        BY SMT, <2>2
      <4>2. CASE q = p
        BY <4>1, <4>2 DEF Took
      <4>3. CASE q # p
        <5>1. q \in DOMAIN proc /\ proc'[q] = proc[q]
          BY <2>2, <4>3
        <5>2. ~Took(q, c, k)
          BY <1>took, <4>3, <5>1
        <5> QED
          BY <5>1, <5>2 DEF Took
      <4> QED
        BY <4>2, <4>3
    <3>2. View(c, k)' = Ideal(c[1], k)'
      BY SMT, <1>took, <1>1, <2>3
    <3> QED
      BY <3>1, <3>2, UntakenAgrees
  <2>8. IsTodo(proc'[p])
    BY <1>rec, <2>2, TransferTodo
  <2>9. proc'[p] = [cap |-> call.cap, steps |-> call.steps, todo |-> <<y, z>>, seen |-> <<>>, failed |-> call.failed]
    BY <1>call, <2>2
  <2> QED
    BY SMTT(30), <1>call, <1>steps, <1>rec, <1>same, <2>1, <2>2, <2>4, <2>5, <2>6, <2>7, <2>8, <2>9, TransferContinued
<1> QED
  BY SMT, TransferFails, <1>1, <1>2

\* The sender.
LEMMA TransferTakes ==
    ASSUME Disciplined, CapInv, NEW p \in DOMAIN proc, NEW call, NEW c, NEW x, NEW y, NEW z, NEW from, NEW to, NEW n,
           InTransfer(p, call, c, x, y, z, from, to, n), NEW s, NEW new, new = Change(s, View(c, s.key)),
           Writes(p, call, c, s, new), s = Head(call.todo), call.todo = <<y, z>>, ~call.failed
    PROVE  CapInv'
<1>call. call = proc[p] /\ c = call.cap /\ n # 0 /\ n \in 0 .. MaxAmount
  BY DEF InTransfer
<1>steps. /\ call.steps = <<x, y, z>> /\ call.steps[1] = x /\ Len(call.steps) = 3
          /\ KeysOf(call.steps) = {from, to} /\ from # to
          /\ IsTransfer(proc[p].steps)
  BY DEF InTransfer
<1>ops. /\ x.op = "check" /\ x.key = from /\ x.n = n
        /\ y.op = "sub" /\ y.key = from /\ y.n = n
        /\ z.op = "add" /\ z.key = to /\ z.n = n
  BY DEF InTransfer
<1>cap. /\ c \in DOMAIN cache /\ c[1] \in Names /\ c[2] = "balance"
        /\ from \in KeysOfKind(c[2]) /\ to \in KeysOfKind(c[2])
  BY DEF InTransfer
<1>rec. /\ call = [cap |-> c, steps |-> call.steps, todo |-> call.todo, seen |-> call.seen, failed |-> call.failed]
        /\ call.failed \in BOOLEAN
  BY DEF InTransfer
<1>took. /\ \A q \in DOMAIN proc : q # p => ~Took(q, c, from) /\ ~Took(q, c, to)
         /\ ~Took(p, c, to) /\ View(c, to) = Ideal(c[1], to)
         /\ Len(call.todo) # 1 => ~Took(p, c, from) /\ View(c, from) = Ideal(c[1], from)
  BY DEF InTransfer
<1>amounts. /\ View(c, from) \in RecordsOf("balance", from) \cup {Nil}
            /\ AmountOf(View(c, from)) \in 0 .. MaxAmount /\ AmountOf(View(c, to)) \in 0 .. MaxAmount
  BY DEF InTransfer
<1>same. UNCHANGED <<registered, backing, calls, flushed>>
  BY DEF Writes
<1>1. s = y /\ Len(call.todo) = 2 /\ Tail(call.todo) = <<z>>
  BY SMT, <1>call
<1>2. CASE new # Failed
  <2>0. PICK i : i = AmountOf(View(c, from))
    OBVIOUS
  <2>1. i \in n .. MaxAmount /\ i - n \in 0 .. MaxAmount /\ new = Balance(i - n)
    <3>1. new = SubAmount(View(c, from), n)
      BY <1>ops, <1>1 DEF Change
    <3>2. ~(i < n) /\ new = Balance(i - n)
      BY <1>2, <2>0, <3>1 DEF SubAmount
    <3> QED
      BY SMT, <1>call, <1>amounts, <2>0, <3>2, AmountsAssumption
  <2>2. View(c, from) = Balance(i) /\ Ideal(c[1], from) = Balance(i)
    <3>1. View(c, from) # Nil
      BY SMT, <1>call, <2>0, <2>1, AmountsAssumption DEF AmountOf
    <3> QED
      BY SMTT(30), <1>amounts, <1>took, <1>1, <2>0, <3>1, BalanceRecords
  <2>3. /\ cache' = [cache EXCEPT ![c] = With(@, from, [value |-> new, dirty |-> TRUE])]
        /\ ideal' = ideal /\ proc' = [proc EXCEPT ![p].todo = Tail(@), ![p].seen = <<>>]
    BY SMT, <1>ops, <1>same, <1>1, <1>2 DEF Writes
  <2>4. /\ DOMAIN proc' = DOMAIN proc
        /\ \A q \in DOMAIN proc : q # p => proc'[q] = proc[q]
        /\ proc'[p] = [cap |-> c, steps |-> call.steps, todo |-> <<z>>, seen |-> <<>>, failed |-> call.failed]
    BY <1>call, <1>rec, <1>1, <2>3
  <2>5. Shaped' /\ Coherent' /\ Answers(c, from, new)
    <3>1. new \in RecordsOf(c[2], from) \cup {Nil}
      BY <1>cap, <2>1, IsBalance
    <3> DEFINE dirty == TRUE
    <3>2. cache' = [cache EXCEPT ![c] = With(@, from, [value |-> new, dirty |-> dirty])] /\ dirty \in BOOLEAN /\ dirty
      BY <2>3
    <3> HIDE DEF dirty
    <3> QED
      BY <1>cap, <1>same, <3>1, <3>2, Written DEF CapInv
  <2>6. Touches(p)
    BY <1>call, <1>steps, <2>5 DEF Answers, Touches
  <2>7. NoncesCounted'
    <3>1. proc'[p].cap = proc[p].cap /\ proc'[p].steps = proc[p].steps
      BY SMT, <1>call, <2>4
    <3>2. /\ DOMAIN proc' \subseteq DOMAIN proc
          /\ \A q \in DOMAIN proc' : proc'[q].cap = proc[q].cap /\ proc'[q].steps = proc[q].steps
      BY <2>4, <3>1
    <3> QED
      BY <1>cap, <1>same, <2>5, <3>2, BalanceNonces
  <2>8. \A m, k : Ideal(m, k)' = Ideal(m, k)
    BY <2>3 DEF Ideal, At
  <2>9. Agrees(c, to)'
    <3>1. ASSUME NEW q \in DOMAIN proc' PROVE ~Took(q, c, to)'
      BY SMT, <1>steps, <1>ops, <1>took, <2>4 DEF Took
    <3>2. View(c, to)' = Ideal(c[1], to)'
      BY <1>steps, <1>cap, <1>took, <2>5, <2>8 DEF Answers
    <3> QED
      BY ZenonT(40), <3>1, <3>2, UntakenAgrees
  <2>10. Agrees(c, from)'
    <3>1. \A q \in DOMAIN proc' : Took(q, c, from)' => q = p
      BY <1>took, <2>4 DEF Took
    <3>2. Took(p, c, from)'
      <4>1. proc'[p].cap = c /\ proc'[p].steps = call.steps /\ Len(proc'[p].todo) = 1
        BY SMT, <2>4
      <4> QED
        BY <1>call, <1>steps, <1>ops, <4>1 DEF Took
    <3>3. proc'[p].steps[1].n = n
      BY SMT, <1>steps, <1>ops, <2>4
    <3>4. Ideal(c[1], from)' = Balance(i) /\ View(c, from)' = Balance(i - n)
      BY <2>1, <2>2, <2>5, <2>8 DEF Answers
    <3> QED
      BY <2>1, <2>4, <3>1, <3>2, <3>3, <3>4 DEF Agrees
  <2>11. IsTodo(proc'[p])
    BY <1>rec, <2>4, TransferTodo
  <2>12. proc'[p] = [cap |-> call.cap, steps |-> call.steps, todo |-> <<z>>, seen |-> <<>>, failed |-> call.failed]
    BY <1>call, <2>4
  <2>13. \A k \in KeysOf(call.steps) : Agrees(c, k)'
    BY <1>steps, <2>9, <2>10
  <2> QED
    BY <1>call, <1>steps, <1>rec, <1>same, <2>3, <2>4, <2>5, <2>6, <2>7, <2>11, <2>12, <2>13, TransferContinued
<1> QED
  BY SMT, TransferFails, <1>1, <1>2

\* The receiver.
LEMMA TransferGives ==
    ASSUME Disciplined, CapInv, NEW p \in DOMAIN proc, NEW call, NEW c, NEW x, NEW y, NEW z, NEW from, NEW to, NEW n,
           InTransfer(p, call, c, x, y, z, from, to, n), NEW s, NEW new, new = Change(s, View(c, s.key)),
           Writes(p, call, c, s, new), s = Head(call.todo), call.todo = <<z>>, ~call.failed
    PROVE  CapInv'
<1>call. call = proc[p] /\ c = call.cap /\ n # 0 /\ n \in 0 .. MaxAmount
  BY DEF InTransfer
<1>steps. /\ call.steps = <<x, y, z>> /\ call.steps[1] = x /\ Len(call.steps) = 3
          /\ KeysOf(call.steps) = {from, to} /\ from # to
          /\ IsTransfer(proc[p].steps)
  BY DEF InTransfer
<1>ops. /\ x.op = "check" /\ x.key = from /\ x.n = n
        /\ y.op = "sub" /\ y.key = from /\ y.n = n
        /\ z.op = "add" /\ z.key = to /\ z.n = n
  BY DEF InTransfer
<1>cap. /\ c \in DOMAIN cache /\ c[1] \in Names /\ c[2] = "balance"
        /\ from \in KeysOfKind(c[2]) /\ to \in KeysOfKind(c[2])
  BY DEF InTransfer
<1>rec. /\ call = [cap |-> c, steps |-> call.steps, todo |-> call.todo, seen |-> call.seen, failed |-> call.failed]
        /\ call.failed \in BOOLEAN
  BY DEF InTransfer
<1>took. /\ \A q \in DOMAIN proc : q # p => ~Took(q, c, from) /\ ~Took(q, c, to)
         /\ ~Took(p, c, to) /\ View(c, to) = Ideal(c[1], to)
         /\ Len(call.todo) # 1 => ~Took(p, c, from) /\ View(c, from) = Ideal(c[1], from)
  BY DEF InTransfer
<1>amounts. /\ View(c, from) \in RecordsOf("balance", from) \cup {Nil}
            /\ AmountOf(View(c, from)) \in 0 .. MaxAmount /\ AmountOf(View(c, to)) \in 0 .. MaxAmount
  BY DEF InTransfer
<1>same. UNCHANGED <<registered, backing, calls, flushed>>
  BY DEF Writes
<1>1. s = z /\ Len(call.todo) = 1
  BY SMT, <1>call
<1>2. Took(p, c, from)
  BY <1>call, <1>steps, <1>ops, <1>1 DEF Took
<1>3. PICK i \in n .. MaxAmount : Ideal(c[1], from) = Balance(i) /\ View(c, from) = Balance(i - n)
  <2>1. Agrees(c, from)
    BY <1>cap DEF CapInv, Agreeing
  <2>2. proc[p].steps[1].n = n
    BY <1>call, <1>steps, <1>ops
  <2> QED
    BY <1>2, <2>1, <2>2 DEF Agrees
<1>4. CASE new = Failed
  <2>1. cache' = cache /\ Fail(p)
    BY <1>same, <1>4 DEF Writes
  <2>2. /\ ideal' = ideal
        /\ proc' = [proc EXCEPT ![p].todo = <<Step("add", call.steps[1].key, call.steps[1].n)>>, ![p].seen = <<>>,
                                ![p].failed = TRUE]
    <3>1. ~proc[p].failed /\ Len(proc[p].steps) > 1 /\ Len(proc[p].todo) = 1
      BY SMT, <1>call, <1>steps, <1>1
    <3> QED
      BY <1>call, <2>1, <3>1 DEF Fail
  <2>3. /\ DOMAIN proc' = DOMAIN proc
        /\ \A q \in DOMAIN proc : q # p => proc'[q] = proc[q]
        /\ proc'[p] = [cap |-> c, steps |-> call.steps, todo |-> <<Step("add", from, n)>>, seen |-> <<>>,
                       failed |-> TRUE]
    BY <1>call, <1>steps, <1>ops, <1>rec, <2>2
  <2>4. /\ \A m, k : Stored(m, k)' = Stored(m, k)
        /\ \A m, k : Ideal(m, k)' = Ideal(m, k)
        /\ \A e, k : View(e, k)' = View(e, k)
    BY <1>same, <2>1, <2>2 DEF Stored, Ideal, View, At
  <2>5. Shaped' /\ Coherent'
    BY <1>same, <2>1, <2>4 DEF CapInv, Shaped, Coherent
  <2>6. Touches(p)
    BY <2>1, <2>4 DEF Touches
  <2>7. NoncesCounted'
    <3>1. proc'[p].cap = proc[p].cap /\ proc'[p].steps = proc[p].steps
      BY SMT, <1>call, <2>3
    <3>2. /\ DOMAIN proc' \subseteq DOMAIN proc
          /\ \A q \in DOMAIN proc' : proc'[q].cap = proc[q].cap /\ proc'[q].steps = proc[q].steps
      BY <2>3, <3>1
    <3> QED
      BY ZenonT(40), <1>cap, <1>same, <2>1, <2>5, <3>2, BalanceNonces
  <2>8. ASSUME NEW k \in {from, to} PROVE Agrees(c, k)'
    <3>1. Agrees(c, k)
      BY <1>cap DEF CapInv, Agreeing
    <3>2. \A q \in DOMAIN proc : (Took(q, c, k)' <=> Took(q, c, k)) /\ proc'[q].steps = proc[q].steps
      <4>1. proc'[p].cap = proc[p].cap /\ proc'[p].steps = proc[p].steps
                /\ Len(proc'[p].todo) = 1 /\ Len(proc[p].todo) = 1
        BY SMT, <1>call, <1>1, <2>3
      <4> QED
        BY <2>3, <4>1 DEF Took
    <3> QED
      BY <2>3, <2>4, <3>1, <3>2 DEF Agrees
  <2>9. IsTodo(proc'[p])
    BY TransferTodo, <2>3
  <2> DEFINE failed == TRUE
             todo == <<Step("add", from, n)>>
  <2>10. /\ proc'[p] = [cap |-> call.cap, steps |-> call.steps, todo |-> todo, seen |-> <<>>, failed |-> failed]
         /\ failed \in BOOLEAN
    BY <1>call, <2>3
  <2> HIDE DEF failed, todo
  <2> QED
    BY SMTT(30), <1>call, <1>steps, <1>same, <2>1, <2>2, <2>3, <2>5, <2>6, <2>7, <2>8, <2>9, <2>10, TransferContinued
<1>5. CASE new # Failed
  <2>1. new = Change(z, Ideal(c[1], to)) /\ new \in RecordsOf("balance", to)
    <3>1. new = AddAmount(View(c, to), n)
      BY <1>ops, <1>1 DEF Change
    <3>2. ~(AmountOf(View(c, to)) > MaxAmount - n) /\ new = Balance(AmountOf(View(c, to)) + n)
      BY <1>5, <3>1 DEF AddAmount
    <3>3. AmountOf(View(c, to)) + n \in 0 .. MaxAmount
      BY SMT, <1>call, <1>amounts, <3>2, AmountsAssumption
    <3> QED
      BY <1>ops, <1>took, <1>1, <3>2, <3>3, IsBalance
  <2>2. Change(y, Change(x, Ideal(c[1], from))) = Balance(i - n)
    <3>1. AmountOf(Balance(i)) = i /\ ~(i < n)
      BY SMT, <1>call, <1>3, AmountsAssumption, IsBalance
    <3>2. Change(x, Balance(i)) = Balance(i) /\ Change(y, Balance(i)) = Balance(i - n)
      BY <1>ops, <3>1 DEF Change, SubAmount
    <3> QED
      BY <1>3, <3>2
  <2>3. cache' = [cache EXCEPT ![c] = With(@, to, [value |-> new, dirty |-> TRUE])] /\ Return(p, call.failed)
    BY <1>ops, <1>1, <1>5 DEF Writes
  <2>4. /\ proc' = [q \in DOMAIN proc \ {p} |-> proc[q]]
        /\ ideal' = Ideally(c[1], call.steps)
    BY <1>call, <2>3 DEF Return
  <2>5. Shaped' /\ Coherent' /\ Answers(c, to, new)
    <3>1. new \in RecordsOf(c[2], to) \cup {Nil}
      BY <1>cap, <2>1
    <3> DEFINE dirty == TRUE
    <3>2. cache' = [cache EXCEPT ![c] = With(@, to, [value |-> new, dirty |-> dirty])] /\ dirty \in BOOLEAN /\ dirty
      BY <2>3
    <3> HIDE DEF dirty
    <3> QED
      BY <1>cap, <1>same, <3>1, <3>2, Written DEF CapInv
  <2>6. Touches(p)
    BY <1>call, <1>steps, <2>5 DEF Answers, Touches
  <2>7. NoncesCounted'
    BY <1>cap, <1>same, <2>4, <2>5, BalanceNonces
  <2>8. /\ DOMAIN ideal' = DOMAIN ideal \cup {<<c[1], from>>, <<c[1], to>>}
        /\ Ideal(c[1], from)' = Balance(i - n)
        /\ Ideal(c[1], to)' = new
        /\ \A l, k : l # c[1] \/ k \notin {from, to} => Ideal(l, k)' = Ideal(l, k)
    <3>1. /\ DOMAIN Ideally(c[1], call.steps) = DOMAIN ideal \cup {<<c[1], from>>, <<c[1], to>>}
          /\ At(Ideally(c[1], call.steps), c[1], from) = Change(y, Change(x, Ideal(c[1], from)))
          /\ At(Ideally(c[1], call.steps), c[1], to) = Change(z, Ideal(c[1], to))
          /\ \A l, k : l # c[1] \/ k \notin {from, to} => At(Ideally(c[1], call.steps), l, k) = Ideal(l, k)
      <4>1. call.steps = <<x, y, z>> /\ y.key = x.key /\ z.key # x.key
        BY <1>steps, <1>ops
      <4>2. Transferred(c[1], x, y, z, Ideally(c[1], call.steps))
        BY <4>1, IdeallyTransfer
      <4> QED
        BY <1>ops, <4>2 DEF Transferred
    <3>2. \A l, k : Ideal(l, k)' = At(Ideally(c[1], call.steps), l, k)
      BY ZenonT(40), <2>4 DEF Ideal, At
    <3> QED
      BY <2>1, <2>2, <2>4, <3>1, <3>2
  <2>9. Completes(p)
    <3>1. from \in AllKeys /\ to \in AllKeys
      BY ZenonT(40), <1>cap, KindKeys DEF Kinds
    <3> QED
      BY SMT, <1>call, <1>steps, <1>cap, <2>8, <3>1 DEF Completes, CapInv, Durable
  <2>10. \A k \in KeysOf(proc[p].steps) : View(c, k)' = Ideal(c[1], k)'
    BY SMT, <1>call, <1>steps, <1>cap, <1>3, <2>5, <2>8 DEF Answers
  <2> QED
    BY <1>call, <1>same, <2>4, <2>5, <2>6, <2>7, <2>9, <2>10, Returned
<1> QED
  BY <1>4, <1>5

\* The way back.
LEMMA TransferReturns ==
    ASSUME Disciplined, CapInv, NEW p \in DOMAIN proc, NEW call, NEW c, NEW x, NEW y, NEW z, NEW from, NEW to, NEW n,
           InTransfer(p, call, c, x, y, z, from, to, n), NEW s, NEW new, new = Change(s, View(c, s.key)),
           Writes(p, call, c, s, new), s = Head(call.todo), call.todo = <<Step("add", from, n)>>, call.failed
    PROVE  CapInv'
<1>call. call = proc[p] /\ c = call.cap /\ n # 0 /\ n \in 0 .. MaxAmount
  BY DEF InTransfer
<1>steps. /\ call.steps = <<x, y, z>> /\ call.steps[1] = x /\ Len(call.steps) = 3
          /\ KeysOf(call.steps) = {from, to} /\ from # to
          /\ IsTransfer(proc[p].steps)
  BY DEF InTransfer
<1>ops. /\ x.op = "check" /\ x.key = from /\ x.n = n
        /\ y.op = "sub" /\ y.key = from /\ y.n = n
        /\ z.op = "add" /\ z.key = to /\ z.n = n
  BY DEF InTransfer
<1>cap. /\ c \in DOMAIN cache /\ c[1] \in Names /\ c[2] = "balance"
        /\ from \in KeysOfKind(c[2]) /\ to \in KeysOfKind(c[2])
  BY DEF InTransfer
<1>rec. /\ call = [cap |-> c, steps |-> call.steps, todo |-> call.todo, seen |-> call.seen, failed |-> call.failed]
        /\ call.failed \in BOOLEAN
  BY DEF InTransfer
<1>took. /\ \A q \in DOMAIN proc : q # p => ~Took(q, c, from) /\ ~Took(q, c, to)
         /\ ~Took(p, c, to) /\ View(c, to) = Ideal(c[1], to)
         /\ Len(call.todo) # 1 => ~Took(p, c, from) /\ View(c, from) = Ideal(c[1], from)
  BY DEF InTransfer
<1>same. UNCHANGED <<registered, backing, calls, flushed>>
  BY ZenonT(40) DEF Writes
<1>1. s = Step("add", from, n) /\ Len(call.todo) = 1
  BY SMT, <1>call
<1>2. Took(p, c, from)
  BY <1>call, <1>steps, <1>ops, <1>1 DEF Took
<1>3. PICK i \in n .. MaxAmount : Ideal(c[1], from) = Balance(i) /\ View(c, from) = Balance(i - n)
  <2>1. Agrees(c, from)
    BY <1>cap DEF CapInv, Agreeing
  <2>2. proc[p].steps[1].n = n
    BY <1>call, <1>steps, <1>ops
  <2> QED
    BY <1>2, <2>1, <2>2 DEF Agrees
<1>4. new = Balance(i) /\ new # Failed /\ new \in RecordsOf("balance", from)
  <2>1. i - n \in 0 .. MaxAmount /\ i \in 0 .. MaxAmount
    BY SMT, <1>call, <1>3, AmountsAssumption
  <2>2. AmountOf(View(c, from)) = i - n
    BY ZenonT(40), <1>3, <2>1, IsBalance
  <2>3. ~(i - n > MaxAmount - n) /\ (i - n) + n = i
    BY SMTT(30), <1>call, <1>3, AmountsAssumption
  <2>4. s.op = "add" /\ s.key = from /\ s.n = n
    BY SMT, <1>1 DEF Step
  <2>5. new = AddAmount(View(c, from), n)
    BY <2>4 DEF Change
  <2>6. new = Balance(i)
    BY <2>2, <2>3, <2>5 DEF AddAmount
  <2> QED
    BY <2>1, <2>6, IsBalance
<1>5. cache' = [cache EXCEPT ![c] = With(@, from, [value |-> new, dirty |-> TRUE])] /\ Return(p, TRUE)
  <2>1. s.op = "add" /\ s.key = from
    BY SMT, <1>1 DEF Step
  <2> QED
    BY ZenonT(40), <1>rec, <1>same, <1>1, <1>4, <2>1 DEF Writes
<1>6. proc' = [q \in DOMAIN proc \ {p} |-> proc[q]] /\ ideal' = ideal
  BY <1>5 DEF Return
<1>7. Shaped' /\ Coherent' /\ Answers(c, from, new)
  <2>1. new \in RecordsOf(c[2], from) \cup {Nil}
    BY <1>cap, <1>4
  <2> DEFINE dirty == TRUE
  <2>2. cache' = [cache EXCEPT ![c] = With(@, from, [value |-> new, dirty |-> dirty])] /\ dirty \in BOOLEAN /\ dirty
    BY <1>5
  <2> HIDE DEF dirty
  <2> QED
    BY <1>cap, <1>same, <2>1, <2>2, Written DEF CapInv
<1>8. Touches(p)
  BY <1>call, <1>steps, <1>7 DEF Answers, Touches
<1>9. NoncesCounted'
  BY <1>cap, <1>same, <1>6, <1>7, BalanceNonces
<1>10. \A m, k : Ideal(m, k)' = Ideal(m, k)
  BY <1>6 DEF Ideal, At
<1>11. Completes(p)
  BY <1>6, <1>10 DEF Completes, CapInv, Durable
<1>12. \A k \in KeysOf(proc[p].steps) : View(c, k)' = Ideal(c[1], k)'
  <2>1. View(c, from)' = Ideal(c[1], from)'
    BY <1>3, <1>4, <1>7, <1>10 DEF Answers
  <2>2. View(c, to)' = Ideal(c[1], to)'
    BY <1>steps, <1>cap, <1>took, <1>7, <1>10 DEF Answers
  <2> QED
    BY <1>call, <1>steps, <2>1, <2>2
<1> QED
  BY <1>call, <1>same, <1>6, <1>7, <1>8, <1>9, <1>11, <1>12, Returned

LEMMA WriteTransfer ==
    ASSUME Disciplined, CapInv, NEW p \in DOMAIN proc, Write(p), IsTransfer(proc[p].steps)
    PROVE  CapInv'
<1>1. PICK call, c, x, y, z, from, to, n :
           /\ InTransfer(p, call, c, x, y, z, from, to, n)
           /\ \/ ~call.failed /\ call.todo = <<x, y, z>>
              \/ ~call.failed /\ call.todo = <<y, z>>
              \/ ~call.failed /\ call.todo = <<z>>
              \/ call.failed /\ call.todo = <<Step("add", from, n)>>
  BY TransferFacts
<1>2. PICK s, new : s = Head(call.todo) /\ new = Change(s, View(c, s.key))
  OBVIOUS
<1>3. Writes(p, call, c, s, new)
  <2>1. call = proc[p] /\ c = call.cap
    BY <1>1 DEF InTransfer
  <2> QED
    BY <1>2, <2>1, WriteCases
<1> QED
  BY <1>1, <1>2, <1>3, TransferChecks, TransferTakes, TransferGives, TransferReturns

LEMMA WriteStep ==
    ASSUME Disciplined, CapInv, NEW p \in DOMAIN proc, Write(p)
    PROVE  CapInv'
BY WriteSingle, WriteTransfer

-----------------------------------------------------------------------------
(* Theorems *)

\* The methods of the stores are calls of a step, or transfers.
LEMMA MethodsAreCalls ==
    ASSUME NEW p, NEW c \in Capabilities,
           \/ c[2] = "balance" /\ BalanceCalls(p, c)
           \/ c[2] = "validator" /\ ValidatorCalls(p, c)
           \/ c[2] = "account" /\ AccountCalls(p, c)
    PROVE  \E steps : IsCall(c[2], steps) /\ Call(p, c, steps)
<1>0. ASSUME NEW s, IsStep(c[2], s), Call(p, c, <<s>>)
      PROVE  \E steps : IsCall(c[2], steps) /\ Call(p, c, steps)
  <2>1. IsCall(c[2], <<s>>)
    BY <1>0 DEF IsCall
  <2> QED
    BY <1>0, <2>1
<1>1. CASE c[2] = "balance" /\ BalanceCalls(p, c)
  <2>1. PICK a \in Accounts, d \in Denoms, n \in Amounts :
             \/ AddBalance(p, c, a, d, n)
             \/ SubBalance(p, c, a, d, n)
             \/ SetBalance(p, c, a, d, n)
             \/ \E b \in Accounts : Transfer(p, c, a, b, d, n)
    BY <1>1 DEF BalanceCalls
  <2>2. BalanceKey(a, d) \in KeysOfKind("balance")
    BY SMT DEF KeysOfKind
  <2>3. Balance(n) \in RecordsOf("balance", BalanceKey(a, d))
    BY AmountsAssumption, IsBalance
  <2>4. IsStep("balance", Step("add", BalanceKey(a, d), n)) /\ IsStep("balance", Step("sub", BalanceKey(a, d), n))
    BY <2>2 DEF IsStep, Step
  <2>5. IsStep("balance", Step("put", BalanceKey(a, d), Balance(n)))
    BY <2>2, <2>3 DEF IsStep, Step
  <2>6. ASSUME NEW b \in Accounts, Transfer(p, c, a, b, d, n)
        PROVE  \E steps : IsCall(c[2], steps) /\ Call(p, c, steps)
    BY <1>1, <2>6 DEF Transfer, IsCall, IsTransfer
  <2> QED
    BY <1>0, <1>1, <2>1, <2>4, <2>5, <2>6 DEF AddBalance, SubBalance, SetBalance
<1>2. CASE c[2] = "validator" /\ ValidatorCalls(p, c)
  <2>1. PICK v \in PubKeys :
             \/ \E n \in Amounts :
                  \/ \E active \in BOOLEAN : SetValidator(p, c, v, n, active)
                  \/ SetValidatorPower(p, c, v, n)
                  \/ \E a \in Accounts : SetDelegation(p, c, a, v, n)
             \/ \E active \in BOOLEAN : SetValidatorActive(p, c, v, active)
             \/ DeleteValidator(p, c, v)
             \/ \E a \in Accounts : DeleteDelegation(p, c, a, v)
    BY <1>2 DEF ValidatorCalls
  <2>2. <<v>> \in KeysOfKind("validator") /\ Len(<<v>>) = 1
    BY SMT DEF KeysOfKind
  <2>3. \A a \in Accounts : DelegationKey(a, v) \in KeysOfKind("validator") /\ Len(DelegationKey(a, v)) = 2
    BY SMT DEF KeysOfKind, DelegationKey
  <2>4. ASSUME NEW n \in Amounts, NEW active \in BOOLEAN
        PROVE  IsStep("validator", Step("put", <<v>>, Validator(n, active)))
    BY SMT, <2>2 DEF IsStep, Step, RecordsOf
  <2>5. ASSUME NEW n \in Amounts PROVE IsStep("validator", Step("power", <<v>>, n))
    BY <2>2 DEF IsStep, Step
  <2>6. ASSUME NEW active \in BOOLEAN PROVE IsStep("validator", Step("active", <<v>>, active))
    BY <2>2 DEF IsStep, Step
  <2>7. ASSUME NEW a \in Accounts, NEW n \in Amounts
        PROVE  IsStep("validator", Step("put", DelegationKey(a, v), Delegation(n)))
    BY SMT, <2>3 DEF IsStep, Step, RecordsOf
  <2>8. /\ IsStep("validator", Step("delete", <<v>>, Nil))
        /\ \A a \in Accounts : IsStep("validator", Step("delete", DelegationKey(a, v), Nil))
    BY <2>2, <2>3 DEF IsStep, Step
  <2> QED
    BY <1>0, <1>2, <2>1, <2>4, <2>5, <2>6, <2>7, <2>8
       DEF SetValidator, SetValidatorPower, SetDelegation, SetValidatorActive, DeleteValidator, DeleteDelegation
<1>3. CASE c[2] = "account" /\ AccountCalls(p, c)
  <2>1. PICK a \in Accounts : CreateAccount(p, c, a) \/ DeleteAccount(p, c, a) \/ IncrementNonce(p, c, a)
    BY <1>3 DEF AccountCalls
  <2>2. <<a>> \in KeysOfKind("account")
    BY SMT DEF KeysOfKind
  <2>3. \A op \in {"create", "nonce", "delete"} : IsStep("account", Step(op, <<a>>, Nil))
    BY <2>2 DEF IsStep, Step
  <2> QED
    BY <1>0, <1>3, <2>1, <2>3 DEF CreateAccount, DeleteAccount, IncrementNonce
<1> QED
  BY <1>1, <1>2, <1>3

LEMMA NextCapInv ==
    ASSUME Disciplined, CapInv, [Next]_vars
    PROVE  CapInv'
<1>1. CASE \E m \in Names : RegisterModule(m)
  BY <1>1, RegisterModuleStep
<1>2. CASE NewCapabilityManager
  BY <1>2, NewCapabilityManagerStep
<1>3. CASE \E c \in Capabilities : Grant(c) \/ Flush(c)
  BY <1>3, GrantStep, FlushStep
<1>4. ASSUME NEW c \in Capabilities, NEW a \in Accounts,
             \/ GetNonce(c, a)
             \/ \E d \in Denoms : GetBalance(c, a, d)
             \/ \E v \in PubKeys : GetValidator(c, v) \/ GetDelegation(c, a, v)
      PROVE  CapInv'
  <2>1. CASE GetNonce(c, a)
    <3>1. <<a>> \in KeysOfKind(c[2])
      BY SMT, <2>1 DEF GetNonce, KeysOfKind
    <3> QED
      BY <2>1, <3>1, GetStep DEF GetNonce
  <2>2. ASSUME NEW d \in Denoms, GetBalance(c, a, d)
        PROVE  CapInv'
    <3>1. BalanceKey(a, d) \in KeysOfKind(c[2])
      BY SMT, <2>2 DEF GetBalance, KeysOfKind
    <3> QED
      BY <2>2, <3>1, GetStep DEF GetBalance
  <2>3. ASSUME NEW v \in PubKeys, GetValidator(c, v) \/ GetDelegation(c, a, v)
        PROVE  CapInv'
    <3>1. c[2] = "validator" => <<v>> \in KeysOfKind(c[2]) /\ DelegationKey(a, v) \in KeysOfKind(c[2])
      BY SMT DEF KeysOfKind
    <3> QED
      BY <2>3, <3>1, GetStep DEF GetValidator, GetDelegation
  <2> QED
    BY <1>4, <2>1, <2>2, <2>3
<1>5. ASSUME NEW p \in Procs, NEW c \in Capabilities,
             \/ c[2] = "balance" /\ BalanceCalls(p, c)
             \/ c[2] = "validator" /\ ValidatorCalls(p, c)
             \/ c[2] = "account" /\ AccountCalls(p, c)
      PROVE  CapInv'
  BY <1>5, MethodsAreCalls, CallStep
<1>6. CASE \E p \in DOMAIN proc : Read(p) \/ Write(p)
  BY <1>6, ReadStep, WriteStep
<1>7. CASE UNCHANGED vars
  <2>1. \A c, k : View(c, k)' = View(c, k) /\ Ideal(c, k)' = Ideal(c, k) /\ Stored(c, k)' = Stored(c, k)
    BY <1>7 DEF vars, View, Ideal, Stored, At
  <2>2. Shaped' /\ Coherent' /\ Durable'
    BY <1>7, <2>1 DEF vars, CapInv, Shaped, Coherent, Durable, At
  <2>3. Calling'
    BY <1>7, <2>1 DEF vars, CapInv, Calling, InCall
  <2>4. Exclusive'
    BY <1>7 DEF vars, CapInv, Exclusive
  <2>5. NoncesCounted'
    BY <1>7, <2>1 DEF vars, CapInv, NoncesCounted, Counted, Busy
  <2>6. Agreeing'
    BY ZenonT(40), <1>7, <2>1 DEF vars, CapInv, Agreeing, Agrees, Took
  <2> QED
    BY <2>2, <2>3, <2>4, <2>5, <2>6 DEF CapInv
<1> QED
  BY <1>1, <1>2, <1>3, <1>4, <1>5, <1>6, <1>7 DEF Next

LEMMA AlwaysCapInv ==
    ASSUME Disciplined
    PROVE  Spec => []CapInv
<1>1. Init => CapInv
  BY InitCapInv
<1>2. CapInv /\ [Next]_vars => CapInv'
  BY NextCapInv
<1> QED
  BY <1>1, <1>2, PTL DEF Spec

\* A record in the backing store is one of the kind its key is of.
LEMMA StoredRecord ==
    ASSUME Shaped, NEW x \in DOMAIN backing
    PROVE  \E m \in Names, kind \in Kinds : \E k \in KeysOfKind(kind) :
             x = <<m, k>> /\ backing[x] \in RecordsOf(kind, k)
<1>1. PICK m \in Names, k \in AllKeys : x = <<m, k>>
  BY SMT DEF Shaped
<1>2. PICK kind \in Kinds : k \in KeysOfKind(kind)
  BY DEF AllKeys
<1>3. Stored(m, k) = backing[x] /\ backing[x] # Nil
  BY <1>1 DEF Stored, At, Shaped
<1>4. backing[x] \in RecordsOf(kind, k)
  BY SMT, <1>2, <1>3 DEF Shaped
<1> QED
  BY <1>1, <1>2, <1>4

\* Only the balance stores keep balances.
LEMMA StoredBalance ==
    ASSUME Shaped, NEW x \in DOMAIN backing, backing[x].type = "balance"
    PROVE  \E m \in Names, a \in Accounts, d \in Denoms : x = <<m, BalanceKey(a, d)>>
<1>1. PICK m \in Names, kind \in Kinds : \E k \in KeysOfKind(kind) : x = <<m, k>> /\ backing[x] \in RecordsOf(kind, k)
  BY StoredRecord
<1>2. PICK k \in KeysOfKind(kind) : x = <<m, k>> /\ backing[x] \in RecordsOf(kind, k)
  BY <1>1
<1>3. kind = "balance"
  <2>1. PICK r : r = backing[x]
    OBVIOUS
  <2>2. r.type = "balance" /\ r \in RecordsOf(kind, k)
    BY <1>2, <2>1
  <2> QED
    BY SMT, <2>2 DEF RecordsOf, Kinds, Account, Validator, Delegation
<1>4. PICK a \in Accounts, d \in Denoms : k = BalanceKey(a, d)
  BY SMT, <1>2, <1>3 DEF KeysOfKind
<1> QED
  BY <1>2, <1>4

LEMMA TypesHold ==
    ASSUME Disciplined, Shaped
    PROVE  TypeOK
<1>1. ASSUME NEW c \in DOMAIN cache
      PROVE  /\ c \in Capabilities /\ c[1] \in registered
             /\ \A k \in DOMAIN cache[c] : cache[c][k].value \in Records \cup {Nil}
  <2>1. c \in Capabilities /\ c[2] \in Kinds
    BY OneCapability DEF Disciplined, Shaped
  <2>2. ASSUME NEW k \in DOMAIN cache[c] PROVE cache[c][k].value \in Records \cup {Nil}
    <3>1. cache[c][k].value \in RecordsOf(c[2], k) \cup {Nil}
      BY DEF Shaped
    <3> QED
      BY <2>1, <3>1, RecordsAreRecords
  <2> QED
    BY <2>1, <2>2 DEF Shaped
<1>2. ASSUME NEW x \in DOMAIN backing
      PROVE  x[1] \in Names /\ backing[x] \in Records
  BY SMT, StoredRecord, RecordsAreRecords
<1> QED
  BY <1>1, <1>2 DEF TypeOK, Shaped

LEMMA IteratesExactly ==
    ASSUME Disciplined, Shaped
    PROVE  IterationExact
<1> SUFFICES ASSUME NEW c \in DOMAIN cache
             PROVE  LET ofType(t) == {x \in Iterate(c) : backing[x].type = t} IN
                    /\ GetValidatorSet(c) =
                         {<<x[2], backing[x].power>> :
                             x \in {y \in ofType("validator") : backing[y].active /\ backing[y].power > 0}}
                    /\ \A a \in Accounts : GetAccountBalances(c, a) =
                         {<<d, backing[<<c[1], BalanceKey(a, d)>>].amount>> :
                             d \in {e \in Denoms : AmountOf(Stored(c[1], BalanceKey(a, e))) > 0}}
                    /\ \A x \in ofType("balance") :
                         backing[x] \in IterateBalances(c) \cap IterateAccountBalances(c, x[2][1])
                    /\ \A x \in ofType("validator") : backing[x] \in IterateValidators(c)
                    /\ \A x \in ofType("delegation") : backing[x] \in IterateDelegations(c)
  BY DEF IterationExact
<1> DEFINE ofType(t) == {x \in Iterate(c) : backing[x].type = t}
<1>1. GetValidatorSet(c) =
        {<<x[2], backing[x].power>> : x \in {y \in ofType("validator") : backing[y].active /\ backing[y].power > 0}}
  <2>1. ASSUME NEW r
        PROVE  (AsValidator(r).active /\ AsValidator(r).power > 0) <=>
                   (r.type = "validator" /\ r.active /\ r.power > 0)
    BY DEF AsValidator, Validator
  <2>2. GetActiveValidators(c) = {y \in ofType("validator") : backing[y].active /\ backing[y].power > 0}
    BY <2>1 DEF GetActiveValidators
  <2>3. \A x \in GetActiveValidators(c) : AsValidator(backing[x]) = backing[x]
    BY <2>2 DEF AsValidator
  <2> QED
    BY <2>2, <2>3 DEF GetValidatorSet
<1>2. ASSUME NEW a \in Accounts
      PROVE  GetAccountBalances(c, a) =
               {<<d, backing[<<c[1], BalanceKey(a, d)>>].amount>> :
                   d \in {e \in Denoms : AmountOf(Stored(c[1], BalanceKey(a, e))) > 0}}
  <2> DEFINE found == {y \in AccountIterator(c, a) : AsBalance(backing[y]).amount > 0}
             funds == {e \in Denoms : AmountOf(Stored(c[1], BalanceKey(a, e))) > 0}
             F(x) == <<x[2][2], AsBalance(backing[x]).amount>>
             G(d) == <<d, backing[<<c[1], BalanceKey(a, d)>>].amount>>
  <2>1. ASSUME NEW x \in found
        PROVE  \E d \in funds : F(x) = G(d)
    <3>1. x \in DOMAIN backing /\ x[1] = c[1] /\ x[2][1] = a /\ AsBalance(backing[x]).amount > 0
      BY DEF AccountIterator, Iterate
    <3>2. backing[x].type = "balance" /\ AsBalance(backing[x]) = backing[x]
      BY SMT, <3>1 DEF AsBalance, Balance
    <3>3. PICK m \in Names, b \in Accounts, d \in Denoms : x = <<m, BalanceKey(b, d)>>
      BY <3>1, <3>2, StoredBalance
    <3>4. m = c[1] /\ b = a /\ x[2][2] = d
      BY <3>1, <3>3 DEF BalanceKey
    <3>5. Stored(c[1], BalanceKey(a, d)) = backing[x] /\ backing[x] # Nil
      BY <3>1, <3>3, <3>4 DEF Stored, At, Shaped
    <3>6. d \in funds
      BY <3>1, <3>2, <3>5 DEF AmountOf
    <3> QED
      BY <3>2, <3>3, <3>4, <3>6
  <2>2. ASSUME NEW d \in funds
        PROVE  \E x \in found : F(x) = G(d)
    <3>1. PICK x : x = <<c[1], BalanceKey(a, d)>>
      OBVIOUS
    <3>2. Stored(c[1], BalanceKey(a, d)) # Nil
      BY SMT DEF AmountOf
    <3>3. x \in DOMAIN backing /\ Stored(c[1], BalanceKey(a, d)) = backing[x]
      BY <3>1, <3>2 DEF Stored, At
    <3>4. backing[x] \in RecordsOf("balance", BalanceKey(a, d))
      <4>1. c[1] \in Names
        BY OneCapability DEF Disciplined, Shaped
      <4>2. BalanceKey(a, d) \in KeysOfKind("balance")
        BY SMT DEF KeysOfKind
      <4> QED
        BY <3>2, <3>3, <4>1, <4>2 DEF Shaped, Kinds
    <3>5. AsBalance(backing[x]) = backing[x]
      BY SMT, <3>4 DEF RecordsOf, Balance, AsBalance
    <3>6. x[1] = c[1] /\ Len(x[2]) = 2 /\ x[2][1] = a /\ x[2][2] = d
      BY <3>1 DEF BalanceKey
    <3>7. AsBalance(backing[x]).amount > 0
      BY <3>2, <3>3, <3>5 DEF AmountOf
    <3>8. x \in found
      BY <3>3, <3>6, <3>7 DEF AccountIterator, Iterate
    <3> QED
      BY <3>1, <3>5, <3>6, <3>8
  <2> HIDE DEF found, funds, F, G
  <2>3. {F(x) : x \in found} = {G(d) : d \in funds}
    BY <2>1, <2>2
  <2> QED
    BY <2>3 DEF GetAccountBalances, found, funds, F, G
<1>3. ASSUME NEW x \in ofType("balance")
      PROVE  backing[x] \in IterateBalances(c) \cap IterateAccountBalances(c, x[2][1])
  <2>1. x \in Iterate(c) /\ x \in DOMAIN backing /\ AsBalance(backing[x]) = backing[x]
    BY DEF Iterate, AsBalance
  <2>2. PICK m \in Names, a \in Accounts, d \in Denoms : x = <<m, BalanceKey(a, d)>>
    BY <2>1, StoredBalance
  <2>3. x \in AccountIterator(c, x[2][1])
    BY <2>1, <2>2 DEF AccountIterator, BalanceKey
  <2> QED
    BY <2>1, <2>3 DEF IterateBalances, IterateAccountBalances
<1>4. ASSUME NEW x \in ofType("validator") PROVE backing[x] \in IterateValidators(c)
  BY DEF IterateValidators, AsValidator
<1>5. ASSUME NEW x \in ofType("delegation") PROVE backing[x] \in IterateDelegations(c)
  BY DEF IterateDelegations, AsDelegation
<1> QED
  BY <1>1, <1>2, <1>3, <1>4, <1>5

\* For modules that hold each capability once, with keys that do not collide, and
\* callers that keep calls on the same record apart: whatever is granted, read,
\* written, flushed or lost in a crash, the entries of the cache of a capability are
\* records of its kind, and the clean ones are what the backing store has.
THEOREM CachesCoherent ==
    ASSUME Disciplined
    PROVE  Spec => []CacheCoherent
<1>1. CapInv => CacheCoherent
  BY TypesHold DEF CapInv, Coherent, CacheCoherent
<1> QED
  BY <1>1, AlwaysCapInv, PTL

\* For the same modules, the validator set and the balances of an account that the
\* iterators of the stores collect are exactly those in the backing store, although
\* accounts, balances, validators and delegations of a module share its prefix.
THEOREM IterationsExact ==
    ASSUME Disciplined
    PROVE  Spec => []IterationExact
<1>1. CapInv => IterationExact
  BY IteratesExactly DEF CapInv
<1> QED
  BY <1>1, AlwaysCapInv, PTL

\* For the same modules, calls on the stores by any number of goroutines are atomic:
\* a record that no call is working on is what the completed calls have made of it,
\* one after the other; a transfer that fails half-way has changed nothing; flushes
\* in between and a crash change nothing either, but for what was not flushed.
THEOREM CallsAtomic ==
    ASSUME Disciplined
    PROVE  Spec => []StoresAtomic
<1>1. CapInv => StoresAtomic
  <2> SUFFICES ASSUME CapInv, NEW c \in DOMAIN cache, NEW k \in KeysOfKind(c[2]), ~Busy(c[1], k)
               PROVE  View(c, k) = Ideal(c[1], k)
    BY DEF StoresAtomic
  <2>1. ASSUME NEW p \in DOMAIN proc PROVE ~Took(p, c, k)
    BY TookKey DEF Busy, Took
  <2> QED
    BY <2>1 DEF CapInv, Agreeing, Agrees
<1> QED
  BY <1>1, AlwaysCapInv, PTL
=============================================================================
