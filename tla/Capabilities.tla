---------------------------- MODULE Capabilities ----------------------------
(***************************************************************************)
(* The capability manager (capability/capability.go), the capabilities it  *)
(* grants (account.go, balance.go, validator.go) and the typed stores      *)
(* under them (store/account_store.go, balance_store.go,                   *)
(* validator_store.go), used by several goroutines.                        *)
(*                                                                         *)
(* A method that reads a record, changes it and writes it back is two      *)
(* steps; Transfer is several such methods.  Every capability has a cached *)
(* store of its own over the module's part of the backing store; a call of *)
(* that store is one step here (CachedStore has its details).              *)
(***************************************************************************)
EXTENDS Naturals, FiniteSets, Sequences

CONSTANTS
    Names,        \* names of modules
    Grants,       \* how often a capability may be granted: 1 .. n
    Procs,        \* goroutines
    Accounts,
    Denoms,
    PubKeys,      \* public keys of validators
    Amounts,      \* amounts, powers and shares given to the methods
    MaxAmount,    \* the largest uint64
    MaxCalls,     \* bound on calls that change a store
    Serialized,   \* whether calls on the same record exclude each other, as Transfer asks
    Nil           \* no record

ASSUME AmountsAssumption ==
    /\ {MaxAmount, MaxCalls} \subseteq Nat
    /\ Amounts \subseteq 0 .. MaxAmount
    /\ Serialized \in BOOLEAN

VARIABLES
    registered,  \* CapabilityManager.modules
    cache,       \* the cached store of each capability granted: records with their dirty flag
    backing,     \* the backing store: records by module and key
    proc,        \* the call of each goroutine that is in one
    calls,       \* calls so far
    ideal,       \* the records if calls were atomic (for the properties)
    flushed      \* the part of ideal that was flushed (for the properties)

vars == <<registered, cache, backing, proc, calls, ideal, flushed>>

-----------------------------------------------------------------------------
(* Records and keys.  A capability is a module, a kind and a number.       *)

Kinds == {"account", "balance", "validator"}
Capabilities == Names \X Kinds \X Grants

BalanceKey(a, d) == <<a, d>>
DelegationKey(a, v) == <<a, v>>

Account(n) == [type |-> "account", nonce |-> n]
Balance(n) == [type |-> "balance", amount |-> n]
Validator(n, active) == [type |-> "validator", power |-> n, active |-> active]
Delegation(n) == [type |-> "delegation", shares |-> n]

\* A record read as another type has that type's zero values.
AsValidator(r) == IF r.type = "validator" THEN r ELSE Validator(0, FALSE)
AsBalance(r) == IF r.type = "balance" THEN r ELSE Balance(0)
AsDelegation(r) == IF r.type = "delegation" THEN r ELSE Delegation(0)

\* A balance that does not exist is zero.
AmountOf(r) == IF r = Nil THEN 0 ELSE r.amount

With(f, k, v) == [x \in DOMAIN f \cup {k} |-> IF x = k THEN v ELSE f[x]]

At(records, m, k) == IF <<m, k>> \in DOMAIN records THEN records[<<m, k>>] ELSE Nil

Stored(m, k) == At(backing, m, k)

View(c, k) == IF k \in DOMAIN cache[c] THEN cache[c][k].value ELSE Stored(c[1], k)

-----------------------------------------------------------------------------
(* The manager *)

Init ==
    /\ registered = {}
    /\ cache = [c \in {} |-> Nil]
    /\ backing = [k \in {} |-> Nil]
    /\ proc = [p \in {} |-> Nil]
    /\ calls = 0
    /\ ideal = [k \in {} |-> Nil]
    /\ flushed = [k \in {} |-> Nil]

\* A new manager over the same backing store, after a crash: what was not flushed
\* is lost.
NewCapabilityManager ==
    /\ registered # {}
    /\ registered' = {}
    /\ cache' = [c \in {} |-> Nil]
    /\ proc' = [p \in {} |-> Nil]
    /\ ideal' = flushed
    /\ UNCHANGED <<backing, calls, flushed>>

RegisterModule(m) ==
    /\ m \notin registered
    /\ registered' = registered \cup {m}
    /\ UNCHANGED <<cache, backing, proc, calls, ideal, flushed>>

\* GrantAccountCapability, GrantBalanceCapability and GrantValidatorCapability.
Grant(c) ==
    /\ c[1] \in registered
    /\ c \notin DOMAIN cache
    /\ c[3] > 1 => <<c[1], c[2], c[3] - 1>> \in DOMAIN cache
    /\ cache' = With(cache, c, [k \in {} |-> Nil])
    /\ UNCHANGED <<registered, backing, proc, calls, ideal, flushed>>

Working(c) == \E p \in DOMAIN proc : proc[p].cap = c

KeysOfKind(kind) ==
    CASE kind = "account" -> {<<a>> : a \in Accounts}
      [] kind = "balance" -> {BalanceKey(a, d) : a \in Accounts, d \in Denoms}
      [] kind = "validator" -> {<<v>> : v \in PubKeys} \cup {DelegationKey(a, v) : a \in Accounts, v \in PubKeys}

\* What has been flushed once the completed calls on the records of c are.
WithIdeal(c) ==
    LET mine == {x \in DOMAIN ideal : x[1] = c[1] /\ x[2] \in KeysOfKind(c[2])}
    IN  [x \in DOMAIN flushed \cup mine |-> IF x \in mine THEN ideal[x] ELSE flushed[x]]

\* Fault: what was deleted stays in the backing store.
FlushWrites(c) ==
    /\ c \in DOMAIN cache
    /\ LET put == {k \in DOMAIN cache[c] : cache[c][k].dirty /\ cache[c][k].value # Nil}
       IN  backing' = [x \in DOMAIN backing \cup {<<c[1], k>> : k \in put} |->
                          IF x[1] = c[1] /\ x[2] \in put THEN cache[c][x[2]].value ELSE backing[x]]
    /\ cache' = [cache EXCEPT ![c] = [k \in DOMAIN @ |-> [@[k] EXCEPT !.dirty = FALSE]]]
    /\ flushed' = WithIdeal(c)
    /\ UNCHANGED <<registered, proc, calls, ideal>>

\* Flush of a capability: dirty records are written, deleted ones removed.
Flush(c) ==
    /\ c \in DOMAIN cache
    /\ Serialized => ~Working(c)
    /\ LET dirty == {k \in DOMAIN cache[c] : cache[c][k].dirty}
           put == {k \in dirty : cache[c][k].value # Nil}
           old == DOMAIN backing \ {<<c[1], k>> : k \in dirty}
       IN  backing' = [x \in old \cup {<<c[1], k>> : k \in put} |->
                          IF x \in old THEN backing[x] ELSE cache[c][x[2]].value]
    /\ cache' = [cache EXCEPT ![c] = [k \in DOMAIN @ |-> [@[k] EXCEPT !.dirty = FALSE]]]
    /\ flushed' = WithIdeal(c)
    /\ UNCHANGED <<registered, proc, calls, ideal>>

-----------------------------------------------------------------------------
(* Calls.  A call is a list of steps on one key each.                      *)

Failed == [type |-> "failed"]

\* AddAmount and SubAmount of the balance store.
AddAmount(old, n) == IF AmountOf(old) > MaxAmount - n THEN Failed ELSE Balance(AmountOf(old) + n)

SubAmount(old, n) == IF AmountOf(old) < n THEN Failed ELSE Balance(AmountOf(old) - n)

\* SetPower and SetActive of the validator store.
SetPower(old, n) == IF old = Nil THEN Failed ELSE [old EXCEPT !.power = n]

SetActive(old, active) == IF old = Nil THEN Failed ELSE [old EXCEPT !.active = active]

\* The record after a step, or Failed.
Change(s, old) ==
    CASE s.op = "check"  -> IF AmountOf(old) < s.n THEN Failed ELSE old
      [] s.op = "sub"    -> SubAmount(old, s.n)
      [] s.op = "add"    -> AddAmount(old, s.n)
      [] s.op = "create" -> IF old # Nil THEN Failed ELSE Account(0)
      [] s.op = "nonce"  -> IF old = Nil THEN Failed ELSE Account(old.nonce + 1)
      [] s.op = "power"  -> SetPower(old, s.n)
      [] s.op = "active" -> SetActive(old, s.n)
      [] s.op = "put"    -> s.n
      [] s.op = "delete" -> Nil

Step(op, k, n) == [op |-> op, key |-> k, n |-> n]

KeysOf(steps) == {steps[i].key : i \in 1 .. Len(steps)}

\* Calls on the same record of a module exclude each other if Serialized.
Conflicts(p, m, steps) == proc[p].cap[1] = m /\ KeysOf(proc[p].steps) \cap KeysOf(steps) # {}

Call(p, c, steps) ==
    /\ p \notin DOMAIN proc
    /\ c \in DOMAIN cache
    /\ calls < MaxCalls
    /\ Serialized => \A q \in DOMAIN proc : ~Conflicts(q, c[1], steps)
    /\ calls' = calls + 1
    /\ proc' = With(proc, p, [cap |-> c, steps |-> steps, todo |-> steps, seen |-> <<>>, failed |-> FALSE])
    /\ UNCHANGED <<registered, cache, backing, ideal, flushed>>

\* AddBalance returns at once if the amount is zero, and so do SubBalance and
\* Transfer.
AddBalance(p, c, a, d, n) == n # 0 /\ Call(p, c, <<Step("add", BalanceKey(a, d), n)>>)

SubBalance(p, c, a, d, n) == n # 0 /\ Call(p, c, <<Step("sub", BalanceKey(a, d), n)>>)

SetBalance(p, c, a, d, n) == Call(p, c, <<Step("put", BalanceKey(a, d), Balance(n))>>)

\* Transfer of the balance store: a check, SubAmount and AddAmount.
TransferSteps(a, b, d, n) ==
    <<Step("check", BalanceKey(a, d), n), Step("sub", BalanceKey(a, d), n), Step("add", BalanceKey(b, d), n)>>

Transfer(p, c, a, b, d, n) == n # 0 /\ a # b /\ Call(p, c, TransferSteps(a, b, d, n))

SetValidator(p, c, v, n, active) == Call(p, c, <<Step("put", <<v>>, Validator(n, active))>>)

DeleteValidator(p, c, v) == Call(p, c, <<Step("delete", <<v>>, Nil)>>)

SetValidatorPower(p, c, v, n) == Call(p, c, <<Step("power", <<v>>, n)>>)

SetValidatorActive(p, c, v, active) == Call(p, c, <<Step("active", <<v>>, active)>>)

SetDelegation(p, c, a, v, n) == Call(p, c, <<Step("put", DelegationKey(a, v), Delegation(n))>>)

DeleteDelegation(p, c, a, v) == Call(p, c, <<Step("delete", DelegationKey(a, v), Nil)>>)

CreateAccount(p, c, a) == Call(p, c, <<Step("create", <<a>>, Nil)>>)

DeleteAccount(p, c, a) == Call(p, c, <<Step("delete", <<a>>, Nil)>>)

IncrementNonce(p, c, a) == Call(p, c, <<Step("nonce", <<a>>, Nil)>>)

-----------------------------------------------------------------------------
(* The steps of a call *)

Blind(s) == s.op \in {"put", "delete"}

\* The cache after Get, which keeps the record it has read.
Filled(c, k) ==
    IF k \in DOMAIN cache[c] \/ Stored(c[1], k) = Nil THEN cache
    ELSE [cache EXCEPT ![c] = With(@, k, [value |-> Stored(c[1], k), dirty |-> FALSE])]

\* Get or, before an account is created, Has, which keeps nothing.
Read(p) ==
    LET call == proc[p]
        s == Head(call.todo)
    IN  /\ call.seen = <<>> /\ ~Blind(s)
        /\ proc' = [proc EXCEPT ![p].seen = <<View(call.cap, s.key)>>]
        /\ cache' = IF s.op = "create" THEN cache ELSE Filled(call.cap, s.key)
        /\ UNCHANGED <<registered, backing, calls, ideal, flushed>>

Get(c, k) ==
    /\ c \in DOMAIN cache
    /\ cache' = Filled(c, k)
    /\ UNCHANGED <<registered, backing, proc, calls, ideal, flushed>>

GetBalance(c, a, d) == c[2] = "balance" /\ Get(c, BalanceKey(a, d))

GetValidator(c, v) == c[2] = "validator" /\ Get(c, <<v>>)

GetDelegation(c, a, v) == c[2] = "validator" /\ Get(c, DelegationKey(a, v))

GetNonce(c, a) == c[2] = "account" /\ Get(c, <<a>>)

\* What the steps would do if they were one.
Ideally(m, steps) ==
    LET after[i \in 0 .. Len(steps)] ==
            IF i = 0 THEN [k \in KeysOf(steps) |-> At(ideal, m, k)]
            ELSE [after[i - 1] EXCEPT ![steps[i].key] = Change(steps[i], @)]
    IN  [x \in DOMAIN ideal \cup {<<m, k>> : k \in KeysOf(steps)} |->
            IF x[1] = m /\ x[2] \in KeysOf(steps) THEN after[Len(steps)][x[2]] ELSE ideal[x]]

Return(p, failed) ==
    /\ proc' = [q \in DOMAIN proc \ {p} |-> proc[q]]
    /\ ideal' = IF failed THEN ideal ELSE Ideally(proc[p].cap[1], proc[p].steps)

\* Fault: a transfer whose second half fails leaves the first.
FailKeeping(p) == Return(p, TRUE)

\* When a transfer cannot add to the receiver it adds to the sender again.
Fail(p) ==
    LET call == proc[p]
        from == call.steps[1].key
    IN  IF ~call.failed /\ Len(call.steps) > 1 /\ Len(call.todo) = 1
        THEN /\ proc' = [proc EXCEPT ![p].todo = <<Step("add", from, call.steps[1].n)>>, ![p].seen = <<>>,
                                     ![p].failed = TRUE]
             /\ UNCHANGED ideal
        ELSE Return(p, TRUE)

\* Set or Delete of the cached store; a check writes nothing.
Write(p) ==
    LET call == proc[p]
        s == Head(call.todo)
        new == Change(s, IF Blind(s) THEN Nil ELSE call.seen[1])
    IN  /\ call.seen # <<>> \/ Blind(s)
        /\ IF new = Failed THEN Fail(p) /\ UNCHANGED cache
           ELSE /\ cache' = IF s.op = "check" THEN cache
                            ELSE [cache EXCEPT ![call.cap] = With(@, s.key, [value |-> new, dirty |-> TRUE])]
                /\ IF Len(call.todo) = 1 THEN Return(p, call.failed)
                   ELSE /\ proc' = [proc EXCEPT ![p].todo = Tail(@), ![p].seen = <<>>]
                        /\ UNCHANGED ideal
        /\ UNCHANGED <<registered, backing, calls, flushed>>

-----------------------------------------------------------------------------
(* Iteration reads the backing store only.                                 *)

Iterate(c) == {x \in DOMAIN backing : x[1] = c[1]}

\* The prefix "account/" is also the beginning of the account's delegations.
AccountIterator(c, a) == {x \in Iterate(c) : Len(x[2]) = 2 /\ x[2][1] = a}

\* What the callbacks are given: the records, and the others read as such.
IterateBalances(c) == {AsBalance(backing[x]) : x \in Iterate(c)}

IterateAccountBalances(c, a) == {AsBalance(backing[x]) : x \in AccountIterator(c, a)}

IterateValidators(c) == {AsValidator(backing[x]) : x \in Iterate(c)}

IterateDelegations(c) == {AsDelegation(backing[x]) : x \in Iterate(c)}

\* Fault: every record of the prefix is taken for an active validator.
GetActiveValidatorsAll(c) == Iterate(c)

GetActiveValidators(c) ==
    {x \in Iterate(c) : AsValidator(backing[x]).active /\ AsValidator(backing[x]).power > 0}

\* GetValidatorUpdates of the store.
GetValidatorSet(c) == {<<x[2], AsValidator(backing[x]).power>> : x \in GetActiveValidators(c)}

GetAccountBalances(c, a) ==
    {<<x[2][2], AsBalance(backing[x]).amount>> :
        x \in {y \in AccountIterator(c, a) : AsBalance(backing[y]).amount > 0}}

-----------------------------------------------------------------------------
BalanceCalls(p, c) ==
    \E a \in Accounts, d \in Denoms, n \in Amounts :
        \/ AddBalance(p, c, a, d, n)
        \/ SubBalance(p, c, a, d, n)
        \/ SetBalance(p, c, a, d, n)
        \/ \E b \in Accounts : Transfer(p, c, a, b, d, n)

ValidatorCalls(p, c) ==
    \E v \in PubKeys :
        \/ \E n \in Amounts :
             \/ \E active \in BOOLEAN : SetValidator(p, c, v, n, active)
             \/ SetValidatorPower(p, c, v, n)
             \/ \E a \in Accounts : SetDelegation(p, c, a, v, n)
        \/ \E active \in BOOLEAN : SetValidatorActive(p, c, v, active)
        \/ DeleteValidator(p, c, v)
        \/ \E a \in Accounts : DeleteDelegation(p, c, a, v)

AccountCalls(p, c) ==
    \E a \in Accounts : CreateAccount(p, c, a) \/ DeleteAccount(p, c, a) \/ IncrementNonce(p, c, a)

Next ==
    \/ \E m \in Names : RegisterModule(m)
    \/ NewCapabilityManager
    \/ \E c \in Capabilities : Grant(c) \/ Flush(c)
    \/ \E c \in Capabilities, a \in Accounts :
         \/ GetNonce(c, a)
         \/ \E d \in Denoms : GetBalance(c, a, d)
         \/ \E v \in PubKeys : GetValidator(c, v) \/ GetDelegation(c, a, v)
    \/ \E p \in Procs, c \in Capabilities :
         \/ c[2] = "balance" /\ BalanceCalls(p, c)
         \/ c[2] = "validator" /\ ValidatorCalls(p, c)
         \/ c[2] = "account" /\ AccountCalls(p, c)
    \/ \E p \in DOMAIN proc : Read(p) \/ Write(p)

Spec == Init /\ [][Next]_vars

-----------------------------------------------------------------------------
(* Properties *)

Records ==
    {Account(n) : n \in 0 .. MaxCalls} \cup {Balance(n) : n \in 0 .. MaxAmount}
        \cup {Validator(n, active) : n \in Amounts, active \in BOOLEAN} \cup {Delegation(n) : n \in Amounts}

ASSUME NilAssumption == Nil \notin Records \cup {Failed}

TypeOK ==
    /\ registered \subseteq Names
    /\ \A c \in DOMAIN cache :
         /\ c \in Capabilities /\ c[1] \in registered
         /\ \A k \in DOMAIN cache[c] :
              cache[c][k].value \in Records \cup {Nil}
    /\ \A x \in DOMAIN backing : x[1] \in Names /\ backing[x] \in Records
    /\ calls \in 0 .. MaxCalls

Ideal(m, k) == At(ideal, m, k)

Busy(m, k) == \E p \in DOMAIN proc : proc[p].cap[1] = m /\ k \in KeysOf(proc[p].steps)

\* Calls on the stores are atomic: a record that no call is working on is what the
\* completed calls would have made of it one after the other, and a call that failed
\* has changed nothing. Transfer rolls back when the receiver would overflow.
StoresAtomic ==
    \A c \in DOMAIN cache : \A k \in KeysOfKind(c[2]) : ~Busy(c[1], k) => View(c, k) = Ideal(c[1], k)

\* The types hold, and what is clean in the cache of a capability is what the
\* backing store has.
CacheCoherent ==
    /\ TypeOK
    /\ \A c \in DOMAIN cache : \A k \in DOMAIN cache[c] :
        ~cache[c][k].dirty => cache[c][k].value = Stored(c[1], k)

\* Stores of different types share the prefix of a module, and an iterator of one
\* meets the records of the others: the validator set and the balances of an account
\* are still exactly those that were flushed, and no iteration misses a record.
IterationExact ==
    \A c \in DOMAIN cache :
        LET ofType(t) == {x \in Iterate(c) : backing[x].type = t} IN
        /\ GetValidatorSet(c) =
             {<<x[2], backing[x].power>> : x \in {y \in ofType("validator") : backing[y].active /\ backing[y].power > 0}}
        /\ \A a \in Accounts : GetAccountBalances(c, a) =
             {<<d, backing[<<c[1], BalanceKey(a, d)>>].amount>> :
                 d \in {e \in Denoms : AmountOf(Stored(c[1], BalanceKey(a, e))) > 0}}
        /\ \A x \in ofType("balance") : backing[x] \in IterateBalances(c) \cap IterateAccountBalances(c, x[2][1])
        /\ \A x \in ofType("validator") : backing[x] \in IterateValidators(c)
        /\ \A x \in ofType("delegation") : backing[x] \in IterateDelegations(c)

-----------------------------------------------------------------------------
(* The invariants behind the properties *)

\* No key of one store is a key of another.
Apart == Accounts \cap PubKeys = {} /\ Denoms \cap PubKeys = {}

\* What the properties ask of the modules: keys apart, each capability granted once and
\* calls on the same record serialized.
Disciplined == Apart /\ Grants = {1} /\ Serialized = TRUE

AllKeys == UNION {KeysOfKind(kind) : kind \in Kinds}

\* The records a store of a kind keeps under a key.
RecordsOf(kind, k) ==
    CASE kind = "account" -> {Account(n) : n \in 0 .. MaxCalls}
      [] kind = "balance" -> {Balance(n) : n \in 0 .. MaxAmount}
      [] kind = "validator" -> IF Len(k) = 1 THEN {Validator(n, active) : n \in Amounts, active \in BOOLEAN}
                               ELSE {Delegation(n) : n \in Amounts}

\* The single steps of the methods of a store, and the calls.
IsStep(kind, s) ==
    /\ s = Step(s.op, s.key, s.n)
    /\ s.key \in KeysOfKind(kind)
    /\ CASE kind = "account" -> s.op \in {"create", "nonce", "delete"}
         [] kind = "balance" -> \/ s.op \in {"add", "sub"} /\ s.n \in Amounts
                                \/ s.op = "put" /\ s.n \in RecordsOf(kind, s.key)
         [] kind = "validator" -> \/ s.op = "delete"
                                  \/ s.op = "put" /\ s.n \in RecordsOf(kind, s.key)
                                  \/ s.op = "power" /\ Len(s.key) = 1 /\ s.n \in Amounts
                                  \/ s.op = "active" /\ Len(s.key) = 1 /\ s.n \in BOOLEAN

IsTransfer(steps) ==
    \E a, b \in Accounts, d \in Denoms, n \in Amounts : n # 0 /\ a # b /\ steps = TransferSteps(a, b, d, n)

IsCall(kind, steps) ==
    \/ steps = <<steps[1]>> /\ IsStep(kind, steps[1])
    \/ kind = "balance" /\ IsTransfer(steps)

\* What a call has still to do: some of its steps or, after a failure, the way back.
IsTodo(call) ==
    \/ ~call.failed /\ call.todo = call.steps
    \/ /\ IsTransfer(call.steps)
       /\ \/ ~call.failed /\ call.todo \in {Tail(call.steps), Tail(Tail(call.steps))}
          \/ call.failed /\ call.todo = <<Step("add", call.steps[1].key, call.steps[1].n)>>

\* Every capability keeps records of its kind, and the backing store those of all.
Shaped ==
    /\ registered \subseteq Names
    /\ calls \in 0 .. MaxCalls
    /\ DOMAIN cache \subseteq Capabilities
    /\ \A c \in DOMAIN cache :
         /\ c[1] \in registered
         /\ DOMAIN cache[c] \subseteq KeysOfKind(c[2])
         /\ \A k \in DOMAIN cache[c] :
              cache[c][k] \in [value : RecordsOf(c[2], k) \cup {Nil}, dirty : BOOLEAN]
    /\ DOMAIN backing \subseteq Names \X AllKeys
    /\ \A m \in Names, kind \in Kinds : \A k \in KeysOfKind(kind) : Stored(m, k) \in RecordsOf(kind, k) \cup {Nil}
    /\ \A x \in DOMAIN backing : backing[x] # Nil

\* What is clean is stored.
Coherent ==
    \A c \in DOMAIN cache : \A k \in DOMAIN cache[c] :
        ~cache[c][k].dirty => cache[c][k].value = Stored(c[1], k)

\* A call works on a capability that was granted, and what it has read is still there.
InCall(p) ==
    /\ proc[p] = [cap |-> proc[p].cap, steps |-> proc[p].steps, todo |-> proc[p].todo,
                  seen |-> proc[p].seen, failed |-> proc[p].failed]
    /\ proc[p].cap \in DOMAIN cache
    /\ IsCall(proc[p].cap[2], proc[p].steps)
    /\ proc[p].failed \in BOOLEAN /\ IsTodo(proc[p])
    /\ LET s == Head(proc[p].todo)
       IN  proc[p].seen = <<>> \/ (~Blind(s) /\ proc[p].seen = <<View(proc[p].cap, s.key)>>)

Calling == \A p \in DOMAIN proc : InCall(p)

\* Two calls in progress work on different records.
Exclusive ==
    \A p, q \in DOMAIN proc : p # q /\ proc[p].cap[1] = proc[q].cap[1] =>
        KeysOf(proc[p].steps) \cap KeysOf(proc[q].steps) = {}

\* A nonce counts calls, and one that is being incremented does not count that call.
Counted(m, k, r) == r # Nil => r.nonce <= calls /\ (Busy(m, k) => r.nonce < calls)

NoncesCounted ==
    /\ \A m \in Names : \A k \in KeysOfKind("account") : Counted(m, k, Stored(m, k))
    /\ \A c \in DOMAIN cache : c[2] = "account" =>
         \A k \in DOMAIN cache[c] : Counted(c[1], k, cache[c][k].value)

\* Goroutine p has taken the amount of a transfer from record k.
Took(p, c, k) ==
    /\ proc[p].cap = c
    /\ IsTransfer(proc[p].steps) /\ Len(proc[p].todo) = 1
    /\ k = proc[p].steps[1].key

\* A capability answers what the completed calls have made of a record, less what a
\* transfer has taken and not yet given.
Agrees(c, k) ==
    /\ (\A p \in DOMAIN proc : ~Took(p, c, k)) => View(c, k) = Ideal(c[1], k)
    /\ \A p \in DOMAIN proc : Took(p, c, k) =>
         \E i \in proc[p].steps[1].n .. MaxAmount :
             Ideal(c[1], k) = Balance(i) /\ View(c, k) = Balance(i - proc[p].steps[1].n)

Agreeing == \A c \in DOMAIN cache : \A k \in KeysOfKind(c[2]) : Agrees(c, k)

\* What is in the backing store is what has been flushed, and without a capability
\* nothing else is there.
Durable ==
    /\ DOMAIN ideal \subseteq Names \X AllKeys
    /\ DOMAIN flushed \subseteq DOMAIN ideal
    /\ \A m \in Names, k \in AllKeys : At(flushed, m, k) = Stored(m, k)
    /\ \A m \in Names, kind \in Kinds : <<m, kind, 1>> \notin DOMAIN cache =>
         \A k \in KeysOfKind(kind) : Ideal(m, k) = Stored(m, k)
=============================================================================
