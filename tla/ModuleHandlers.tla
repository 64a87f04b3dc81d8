--------------------------- MODULE ModuleHandlers ---------------------------
(***************************************************************************)
(* The bank, staking and auth modules (modules/): validation of their      *)
(* messages, the handlers, which check the capabilities' stores and return *)
(* effects, and the execution of the effects on the application's balance  *)
(* store.  A transaction has one message here; Application has the         *)
(* transactions of several messages and what happens when one fails.       *)
(*                                                                         *)
(* The balances the handlers ask for are those of the module's capability, *)
(* the ones the effects change are the application's.  A write effect puts *)
(* a placeholder under a raw key, so no handler sees it.                   *)
(***************************************************************************)
EXTENDS Naturals, FiniteSets, SequencesExt

CONSTANTS
    Accounts,        \* valid account names, the staking pool not among them
    NoName,          \* a name that is not valid
    Denoms,          \* denominations, numbers in their order
    MaxAmount,       \* the largest uint64
    Amounts,         \* amounts in messages
    Sides,           \* inputs and outputs of MsgMultiSend, valid or not
    MaxSides,        \* bound on the inputs, and on the outputs, of MsgMultiSend
    PubKeys,         \* public keys of validators
    Authorities,     \* authorities in messages
    ValidAuthorities,
    InitialFunds,    \* what the application's balances may be at first
    InitialHeld,     \* what the balances of the capabilities may be
    InitialShares,   \* what the delegations may be
    InitialAccounts, \* what the accounts of the auth capability may be
    MaxTxs,          \* bound on transactions
    Nil

ASSUME CoinAssumption ==
    /\ MaxAmount \in Nat /\ Amounts \subseteq 0 .. MaxAmount
    /\ Denoms \subseteq Nat /\ ValidAuthorities \subseteq Authorities

VARIABLES
    funds,       \* the application's balances
    held,        \* the balances of the capability of the module that handles the message
    shares,      \* delegations in the staking capability, by account and validator
    validators,  \* validators in the staking capability
    accounts,    \* accounts in the auth capability: their authority, or Nil
    tx,          \* the transaction being handled, or Nil
    last,        \* the last transaction that was executed, with the balances before it
    txs          \* transactions so far

vars == <<funds, held, shares, validators, accounts, tx, last, txs>>
stores == <<funds, held, shares, validators>>

Pool == "staking.pool"
Holders == Accounts \cup {Pool}

-----------------------------------------------------------------------------
(* Coins *)

Coin(d, n) == [denom |-> d, amount |-> n]

CoinsIsValid(coins) == \A i \in 2 .. Len(coins) : coins[i - 1].denom < coins[i].denom

IsAllPositive(coins) == coins # <<>> /\ \A i \in 1 .. Len(coins) : coins[i].amount > 0

\* The amount of the first coin of the denomination.
AmountOf(coins, d) ==
    LET at == {i \in 1 .. Len(coins) : coins[i].denom = d}
    IN  IF at = {} THEN 0 ELSE coins[CHOOSE i \in at : \A j \in at : i <= j].amount

\* The positive amounts of a map, sorted by denomination.
ToCoins(amount) ==
    LET denoms == SetToSortSeq({d \in Denoms : amount[d] > 0}, <)
    IN  [i \in 1 .. Len(denoms) |-> Coin(denoms[i], amount[denoms[i]])]

\* Coins.Add: a sum that does not fit is the largest amount.
CoinsAdd(coins, other) ==
    LET Plus(amount, c) ==
            [amount EXCEPT ![c.denom] = IF @ > MaxAmount - c.amount THEN MaxAmount ELSE @ + c.amount]
    IN  ToCoins(FoldLeft(Plus, [d \in Denoms |-> AmountOf(coins, d)], other))

IsAllGTE(coins, other) == \A i \in 1 .. Len(other) : AmountOf(coins, other[i].denom) >= other[i].amount

\* Coins.Sub, for coins of which each denomination occurs once.
CoinsSub(coins, other) ==
    IF ~IsAllGTE(coins, other) THEN Nil
    ELSE ToCoins([d \in Denoms |-> AmountOf(coins, d) - AmountOf(other, d)])

-----------------------------------------------------------------------------
(* Messages *)

IsName(a) == a \in Accounts

SendIsValid(m) == IsName(m.from) /\ IsName(m.to) /\ m.from # m.to /\ m.coin.amount > 0

\* Input.ValidateBasic and Output.ValidateBasic.
SideIsValid(s) == IsName(s.address) /\ CoinsIsValid(s.coins) /\ IsAllPositive(s.coins)

\* The total of a denomination, or Nil if it does not fit.
Total(sides, d) ==
    LET Plus(sum, s) ==
            IF sum = Nil \/ sum + AmountOf(s.coins, d) > MaxAmount THEN Nil ELSE sum + AmountOf(s.coins, d)
    IN  FoldLeft(Plus, 0, sides)

\* Fault: the totals are not compared.
MultiSendIsValidUnequal(m) ==
    /\ m.inputs # <<>> /\ m.outputs # <<>>
    /\ \A s \in ToSet(m.inputs) \cup ToSet(m.outputs) : SideIsValid(s)

MultiSendIsValid(m) ==
    /\ m.inputs # <<>> /\ m.outputs # <<>>
    /\ \A s \in ToSet(m.inputs) \cup ToSet(m.outputs) : SideIsValid(s)
    /\ \A d \in Denoms : Total(m.inputs, d) # Nil /\ Total(m.inputs, d) = Total(m.outputs, d)

CreateValidatorIsValid(m) == IsName(m.delegator)

DelegateIsValid(m) == IsName(m.delegator) /\ m.coin.amount > 0

UndelegateIsValid(m) == IsName(m.delegator) /\ m.coin.amount > 0

CreateAccountIsValid(m) == IsName(m.name) /\ m.authority \in ValidAuthorities

UpdateAuthorityIsValid(m) == IsName(m.name) /\ m.authority \in ValidAuthorities

DeleteAccountIsValid(m) == IsName(m.name)

ValidateBasic(m) ==
    CASE m.type = "send" -> SendIsValid(m)
      [] m.type = "multi_send" -> MultiSendIsValid(m)
      [] m.type = "create_validator" -> CreateValidatorIsValid(m)
      [] m.type = "delegate" -> DelegateIsValid(m)
      [] m.type = "undelegate" -> UndelegateIsValid(m)
      [] m.type = "create_account" -> CreateAccountIsValid(m)
      [] m.type = "update_authority" -> UpdateAuthorityIsValid(m)
      [] m.type = "delete_account" -> DeleteAccountIsValid(m)

GetSigners(m) ==
    CASE m.type = "send" -> {m.from}
      [] m.type = "multi_send" -> {s.address : s \in ToSet(m.inputs)}
      [] m.type \in {"create_validator", "delegate", "undelegate"} -> {m.delegator}
      [] OTHER -> {m.name}

Names == Accounts \cup {NoName}
Coins == {Coin(d, n) : d \in Denoms, n \in Amounts \cup {0}}
SomeSides == UNION {[1 .. n -> Sides] : n \in 1 .. MaxSides}

Messages ==
    [type : {"send"}, from : Names, to : Names, coin : Coins]
        \cup [type : {"multi_send"}, inputs : SomeSides, outputs : SomeSides]
        \cup [type : {"create_validator"}, delegator : Names, key : PubKeys]
        \cup [type : {"delegate", "undelegate"}, delegator : Names, key : PubKeys, coin : Coins]
        \cup [type : {"create_account", "update_authority"}, name : Names, authority : Authorities]
        \cup [type : {"delete_account"}, name : Names]

\* The others are refused before anything is looked up.
ValidMessages == {m \in Messages : ValidateBasic(m)}

-----------------------------------------------------------------------------
(* Transactions *)

Init ==
    /\ funds \in InitialFunds
    /\ held \in InitialHeld
    /\ shares \in InitialShares
    /\ validators \in SUBSET PubKeys
    /\ accounts \in InitialAccounts
    /\ tx = Nil /\ last = Nil /\ txs = 0

\* CheckTx and ExecuteTx up to the handler. Transaction.ValidateBasic asks for a
\* valid message and an account among its signers.
Receive(mode, a, m) ==
    /\ tx = Nil /\ txs < MaxTxs
    /\ a \in GetSigners(m)
    /\ txs' = txs + 1
    /\ tx' = [mode |-> mode, account |-> a, msg |-> m, stage |-> "handler", effects |-> <<>>,
              todo |-> <<>>, needs |-> [x \in {} |-> 0], visited |-> {}]
    /\ last' = Nil
    /\ UNCHANGED <<stores, accounts>>

Handling(type) == tx # Nil /\ tx.stage = "handler" /\ tx.msg.type = type

TransferEffect(from, to, coins) == [type |-> "transfer", from |-> from, to |-> to, coins |-> coins]
WriteEffect(key) == [type |-> "write", key |-> key]
DeleteEffect(key) == [type |-> "delete", key |-> key]

\* The handler returns: CheckTx drops the effects.
Returned(t, effects) == IF t.mode = "check" THEN Nil ELSE [t EXCEPT !.stage = "execute", !.effects = effects]

Answer(ok, effects) ==
    /\ tx' = IF ok THEN Returned(tx, effects) ELSE Nil
    /\ UNCHANGED <<stores, last, txs>>

-----------------------------------------------------------------------------
(* The auth module *)

\* handleCreateAccount: the account of the transaction creates itself.
HandleCreateAccount ==
    /\ Handling("create_account")
    /\ Answer(tx.msg.name = tx.account /\ accounts[tx.msg.name] = Nil, <<WriteEffect(tx.msg.name)>>)
    /\ UNCHANGED accounts

\* handleUpdateAuthority assigns to the account that GetAccount returned, which is
\* the object in the cache.
HandleUpdateAuthority ==
    /\ Handling("update_authority")
    /\ LET ok == tx.msg.name = tx.account /\ accounts[tx.msg.name] # Nil
       IN  /\ Answer(ok, <<WriteEffect(tx.msg.name)>>)
           /\ accounts' = IF ok THEN [accounts EXCEPT ![tx.msg.name] = tx.msg.authority] ELSE accounts

HandleDeleteAccount ==
    /\ Handling("delete_account")
    /\ Answer(tx.msg.name = tx.account /\ accounts[tx.msg.name] # Nil, <<DeleteEffect(tx.msg.name)>>)
    /\ UNCHANGED accounts

-----------------------------------------------------------------------------
(* The staking module *)

HandleCreateValidator ==
    /\ Handling("create_validator")
    /\ Answer(tx.msg.delegator = tx.account /\ tx.msg.key \notin validators, <<WriteEffect(tx.msg.key)>>)
    /\ UNCHANGED accounts

HandleDelegate ==
    /\ Handling("delegate")
    /\ LET m == tx.msg
       IN  Answer(m.delegator = tx.account /\ m.key \in validators /\ held[m.delegator][m.coin.denom] >= m.coin.amount,
                  <<TransferEffect(m.delegator, Pool, <<m.coin>>), WriteEffect(<<m.delegator, m.key>>)>>)
    /\ UNCHANGED accounts

\* A delegation of which no share is left is deleted.
HandleUndelegate ==
    /\ Handling("undelegate")
    /\ LET m == tx.msg
           k == <<m.delegator, m.key>>
           record == IF shares[k] = m.coin.amount THEN DeleteEffect(k) ELSE WriteEffect(k)
       IN  Answer(m.delegator = tx.account /\ shares[k] > 0 /\ shares[k] >= m.coin.amount,
                  <<TransferEffect(Pool, m.delegator, <<m.coin>>), record>>)
    /\ UNCHANGED accounts

-----------------------------------------------------------------------------
(* The bank module *)

HandleSend ==
    /\ Handling("send")
    /\ LET m == tx.msg
       IN  Answer(m.from = tx.account /\ held[m.from][m.coin.denom] >= m.coin.amount,
                  <<TransferEffect(m.from, m.to, <<m.coin>>)>>)
    /\ UNCHANGED accounts

\* The coins of the inputs, one after the other, with their sender.
CoinsOf(inputs) ==
    FlattenSeq([i \in 1 .. Len(inputs) |->
        [j \in 1 .. Len(inputs[i].coins) |-> [from |-> inputs[i].address, coin |-> inputs[i].coins[j]]]])

\* outputNeeds: what each receiver is still to get.
OutputNeeds(outputs) ==
    [x \in {s.address : s \in ToSet(outputs)} \X Denoms |->
        FoldLeft(LAMBDA sum, s : IF s.address = x[1] THEN sum + AmountOf(s.coins, x[2]) ELSE sum, 0, outputs)]

\* handleMultiSend up to its last loop. Each coin is compared with the balance by
\* itself.
HandleMultiSend ==
    /\ Handling("multi_send")
    /\ LET coins == CoinsOf(tx.msg.inputs)
       IN  tx' = IF /\ tx.account \in GetSigners(tx.msg)
                    /\ \A i \in 1 .. Len(coins) : held[coins[i].from][coins[i].coin.denom] >= coins[i].coin.amount
                 THEN [tx EXCEPT !.stage = "walk", !.todo = coins, !.needs = OutputNeeds(tx.msg.outputs)]
                 ELSE Nil
    /\ UNCHANGED <<stores, accounts, last, txs>>

Receivers == {x[1] : x \in DOMAIN tx.needs}

Smaller(m, n) == IF m < n THEN m ELSE n

\* The first coin is compared with what receiver a needs, which is transferred.
Sent(a) ==
    LET coin == Head(tx.todo).coin
        n == Smaller(coin.amount, tx.needs[<<a, coin.denom>>])
    IN  IF tx.needs[<<a, coin.denom>>] = 0 THEN tx
        ELSE [tx EXCEPT !.effects = Append(@, TransferEffect(Head(tx.todo).from, a, <<Coin(coin.denom, n)>>)),
                        !.needs[<<a, coin.denom>>] = @ - n,
                        !.todo[1].coin.amount = @ - n]

\* Fault: the loop goes on when nothing is left.
MetOn(a) ==
    LET over == Receivers = tx.visited \cup {a}
    IN  [Sent(a) EXCEPT !.todo = IF over THEN Tail(@) ELSE @, !.visited = IF over THEN {} ELSE @ \cup {a}]

\* Fault: what a receiver needs is not reduced.
MetNeedy(a) ==
    LET over == Receivers = tx.visited \cup {a} \/ Sent(a).todo[1].coin.amount = 0
    IN  [Sent(a) EXCEPT !.needs = tx.needs, !.todo = IF over THEN Tail(@) ELSE @,
                        !.visited = IF over THEN {} ELSE @ \cup {a}]

\* The walk for a coin is over when nothing is left of it or every receiver was met.
Met(a) ==
    LET over == Receivers = tx.visited \cup {a} \/ Sent(a).todo[1].coin.amount = 0
    IN  [Sent(a) EXCEPT !.todo = IF over THEN Tail(@) ELSE @, !.visited = IF over THEN {} ELSE @ \cup {a}]

\* The loops of handleMultiSend: a map is walked in any order.
Walk ==
    /\ tx # Nil /\ tx.stage = "walk"
    /\ \/ tx.todo # <<>> /\ \E a \in Receivers \ tx.visited : tx' = Met(a)
       \/ tx.todo = <<>> /\ tx' = Returned(tx, tx.effects)
    /\ UNCHANGED <<stores, accounts, last, txs>>

-----------------------------------------------------------------------------
(* Execution *)

\* ValidateEffects.
EffectIsValid(e) ==
    e.type = "transfer" => /\ {e.from, e.to} \subseteq Holders
                           /\ CoinsIsValid(e.coins) /\ IsAllPositive(e.coins)

\* SubBalance and AddBalance for a coin; what was done before a failure stays.
Pay(r, e, coin) ==
    LET d == coin.denom
        paid == [r.funds EXCEPT ![e.from][d] = @ - coin.amount]
    IN  IF ~r.ok \/ r.funds[e.from][d] < coin.amount THEN [r EXCEPT !.ok = FALSE]
        ELSE IF paid[e.to][d] > MaxAmount - coin.amount THEN [ok |-> FALSE, funds |-> paid]
        ELSE [r EXCEPT !.funds = [paid EXCEPT ![e.to][d] = @ + coin.amount]]

ExecuteEffect(r, e) ==
    IF e.type = "transfer" THEN FoldLeft(LAMBDA x, coin : Pay(x, e, coin), r, e.coins) ELSE r

Execute ==
    /\ tx # Nil /\ tx.stage = "execute"
    /\ LET valid == \A e \in ToSet(tx.effects) : EffectIsValid(e)
           r == IF valid THEN FoldLeft(ExecuteEffect, [ok |-> TRUE, funds |-> funds], tx.effects)
                ELSE [ok |-> FALSE, funds |-> funds]
       IN  /\ funds' = r.funds
           /\ last' = [msg |-> tx.msg, before |-> funds, ok |-> r.ok]
    /\ tx' = Nil
    /\ UNCHANGED <<held, shares, validators, accounts, txs>>

-----------------------------------------------------------------------------
Next ==
    \/ \E mode \in {"check", "deliver"}, a \in Accounts, m \in ValidMessages : Receive(mode, a, m)
    \/ HandleCreateAccount \/ HandleUpdateAuthority \/ HandleDeleteAccount
    \/ HandleCreateValidator \/ HandleDelegate \/ HandleUndelegate
    \/ HandleSend \/ HandleMultiSend \/ Walk
    \/ Execute

Spec == Init /\ [][Next]_vars

-----------------------------------------------------------------------------
(* Properties *)

TypeOK ==
    /\ funds \in [Holders -> [Denoms -> 0 .. MaxAmount]]
    /\ accounts \in [Accounts -> ValidAuthorities \cup {Nil}]
    /\ tx # Nil => tx.mode \in {"check", "deliver"} /\ tx.stage \in {"handler", "walk", "execute"}
    /\ txs \in 0 .. MaxTxs

\* The types hold, and a message that passed ValidateBasic, and whose handler
\* accepted it, has only effects that the executor's validation accepts: names
\* are valid and every amount is positive, in whatever order handleMultiSend
\* meets the receivers.
EffectsValid == TypeOK /\ (tx # Nil => \A e \in ToSet(tx.effects) : EffectIsValid(e))

\* What an account gets and gives by a message.
Flow(m, a, d) ==
    LET sum(sides) == FoldLeft(LAMBDA n, s : IF s.address = a THEN n + AmountOf(s.coins, d) ELSE n, 0, sides)
        of(x) == IF a = x /\ m.coin.denom = d THEN m.coin.amount ELSE 0
    IN  CASE m.type = "send" -> [in |-> of(m.to), out |-> of(m.from)]
          [] m.type = "multi_send" -> [in |-> sum(m.outputs), out |-> sum(m.inputs)]
          [] m.type = "delegate" -> [in |-> of(Pool), out |-> of(m.delegator)]
          [] m.type = "undelegate" -> [in |-> of(m.delegator), out |-> of(Pool)]
          [] OTHER -> [in |-> 0, out |-> 0]

\* A transaction that succeeds moves exactly the coins its message names: every
\* sender gives its inputs and every receiver gets its outputs, in every order of
\* the walk, also when an account occurs several times or on both sides.
TransfersExact ==
    last # Nil /\ last.ok =>
        \A a \in Holders, d \in Denoms :
            funds[a][d] + Flow(last.msg, a, d).out = last.before[a][d] + Flow(last.msg, a, d).in

\* The totals that MsgMultiSend.ValidateBasic compares are those of Coins.Add, which
\* does not saturate on them, and Coins.Sub takes back what Coins.Add added.
CoinsAgree ==
    tx # Nil /\ tx.msg.type = "multi_send" =>
        LET all(sides) == FoldLeft(LAMBDA c, s : CoinsAdd(c, s.coins), <<>>, sides)
        IN  /\ all(tx.msg.inputs) = all(tx.msg.outputs)
            /\ \A s \in ToSet(tx.msg.inputs) :
                 /\ IsAllGTE(all(tx.msg.inputs), s.coins)
                 /\ CoinsAdd(CoinsSub(all(tx.msg.inputs), s.coins), s.coins) = all(tx.msg.inputs)

=============================================================================
