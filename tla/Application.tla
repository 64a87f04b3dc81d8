----------------------------- MODULE Application -----------------------------
(***************************************************************************)
(* The ABCI application (runtime/application.go, runtime/lifecycle.go) and *)
(* the sequential effect executor (effects/executor.go) over the account   *)
(* store, the balance store and the IAVL tree they share.                  *)
(*                                                                         *)
(* The consensus engine calls BeginBlock, ExecuteTx, EndBlock and Commit   *)
(* from one goroutine, in any order the code accepts, and the mempool      *)
(* calls CheckTx meanwhile.  Each effect is executed in a step of its own, *)
(* and so is each of the three versions a Commit saves; the process may    *)
(* crash between any two steps.                                            *)
(*                                                                         *)
(* The two typed stores are used through what ObjectStore promises: a view *)
(* that reads and writes go to, and a flush that copies it to the tree and *)
(* saves a version.  Effects on plain keys go to the tree at once.         *)
(***************************************************************************)
EXTENDS Sequences, FiniteSets, Functions

CONSTANTS
    Accounts,     \* account names; numbers, because Flush sorts keys
    RawKeys,      \* keys that Write, Read and Delete effects name
    Txs,          \* transactions
    TxOf,         \* TxOf[t]: the account, nonce, checks and effects of t
    BeginEffects, \* effects of the modules' BeginBlock hooks, in module order
    EndEffects,   \* effects of the modules' EndBlock hooks, in module order
    Decodable,    \* transactions that txSerializer can unmarshal
    Faults,       \* "hook", "write", "flush", "save": what may return an error
    MaxAmount,    \* the largest uint64
    InitialAmounts, \* the balances the chain may start with
    MaxHeight,    \* bound on block heights
    MaxVersion,   \* bound on saved versions
    Nil

Transfers == [kind : {"transfer"}, from : Accounts, to : Accounts, amount : 1 .. MaxAmount]
KeyEffects == [kind : {"write", "read", "delete"}, key : RawKeys]
Events == [kind : {"event"}]
Effects == Transfers \cup KeyEffects \cup Events

FaultKinds == {"hook", "write", "flush", "save"}

ASSUME AccountsAssumption == Accounts \subseteq Nat /\ IsFiniteSet(Accounts) /\ Nil \notin Accounts
ASSUME TxAssumption ==
    /\ Txs \cap {"begin", "end", "commit"} = {}
    /\ Nil \notin Txs \cup {"begin", "end"}
    /\ Decodable \subseteq Txs
    /\ TxOf \in [Txs -> [account : Accounts, nonce : Nat, valid : BOOLEAN,
                         routed : BOOLEAN, effects : Seq(Effects)]]
ASSUME HookAssumption == BeginEffects \in Seq(Effects) /\ EndEffects \in Seq(Effects)
ASSUME BoundAssumption ==
    /\ MaxAmount \in Nat /\ MaxHeight \in Nat /\ MaxVersion \in Nat /\ Nil \notin Nat
    /\ InitialAmounts \subseteq [Accounts -> 0 .. MaxAmount]
ASSUME AppFaultsAssumption == Faults \subseteq FaultKinds

VARIABLES
    header,     \* app.currentHeader: the height of the block, or Nil
    nonce,      \* what accountStore answers: the account's nonce, or Nil
    bal,        \* what balanceStore answers, with the transfers it reflects
    tree,       \* the working IAVL tree: nonces, balances, plain keys
    disk,       \* the last saved version of it
    version,    \* IAVLStore.version
    pc,         \* where the engine's goroutine is
    call,       \* the call whose effects it executes: "begin", "end" or a transaction
    rest,       \* the effects still to execute
    start,      \* the balances when that call began (for the properties)
    reply       \* the last reply the engine or the mempool received

vars == <<header, nonce, bal, tree, disk, version, pc, call, rest, start, reply>>

storeVars == <<nonce, bal, tree, disk, version>>
callVars  == <<pc, call, rest, start>>

\* spent counts, up to 2, the executions of each transaction that took coins from
\* this account: it is there for the properties, not in the code.
Balances == [amount : 0 .. MaxAmount, spent : [Txs -> 0 .. 2]]

Trees == [nonce : [Accounts -> Nat \cup {Nil}], bal : [Accounts -> Balances],
          raw : [RawKeys -> BOOLEAN]]

Answer(c, t, code, height) ==
    reply' = [call |-> c, tx |-> t, code |-> code, height |-> height]

\* Code 1, Code 0, or a Go error.
Reply(c, code) ==
    /\ IF c \in Txs THEN Answer("tx", c, code, Nil) ELSE Answer(c, Nil, code, Nil)
    /\ pc' = "idle"
    /\ call' = Nil
    /\ rest' = <<>>
    /\ start' = Nil

Run(c, effects) ==
    /\ pc' = "effects"
    /\ call' = c
    /\ rest' = effects
    /\ start' = [bal |-> bal]
    /\ UNCHANGED reply

Init ==
    /\ \E n \in [Accounts -> {0, Nil}], m \in InitialAmounts :
         disk = [nonce |-> n,
                 bal |-> [a \in Accounts |-> [amount |-> m[a], spent |-> [t \in Txs |-> 0]]],
                 raw |-> [k \in RawKeys |-> FALSE]]
    /\ tree = disk
    /\ nonce = disk.nonce
    /\ bal = disk.bal
    /\ header = Nil
    /\ version = 0
    /\ pc = "idle"
    /\ call = Nil
    /\ rest = <<>>
    /\ start = Nil
    /\ reply = [call |-> "none", tx |-> Nil, code |-> "ok", height |-> Nil]

-----------------------------------------------------------------------------
(* Validation *)

\* ValidateBasic, the account lookup, the nonce and the signatures.
Authorized(t) == TxOf[t].valid /\ nonce[TxOf[t].account] = TxOf[t].nonce

\* CheckTx runs in the mempool's goroutine at any time; outside a block it
\* routes the messages under a made-up header.
CheckTx(t) ==
    /\ Answer("check", t,
              IF t \in Decodable /\ Authorized(t) /\ TxOf[t].routed THEN "ok" ELSE "error", Nil)
    /\ UNCHANGED <<header, storeVars, callVars>>

-----------------------------------------------------------------------------
(* The calls of a block *)

\* All hooks run, in module order, and then the effects they returned.
callBeginBlockers ==
    \/ "hook" \in Faults /\ Reply("begin", "error")
    \/ BeginEffects = <<>> /\ Reply("begin", "ok")
    \/ BeginEffects # <<>> /\ Run("begin", BeginEffects)

callEndBlockers ==
    \/ "hook" \in Faults /\ Reply("end", "error")
    \/ EndEffects = <<>> /\ Reply("end", "ok")
    \/ EndEffects # <<>> /\ Run("end", EndEffects)

\* The header is set before the hooks run, and stays when one of them fails.
BeginBlock(h) ==
    /\ pc = "idle"
    /\ header' = h
    /\ callBeginBlockers
    /\ UNCHANGED storeVars

EndBlock ==
    /\ pc = "idle"
    /\ IF header = Nil THEN Reply("end", "error") ELSE callEndBlockers
    /\ UNCHANGED <<header, storeVars>>

\* A rejected transaction has Code 1 and no effects; without a block in progress
\* an authorized one is a Go error.  Execute refuses a nil slice of effects.
executeTx(t) ==
    IF ~Authorized(t) THEN Reply(t, "rejected")
    ELSE IF header = Nil THEN Reply(t, "error")
    ELSE IF ~TxOf[t].routed THEN Reply(t, "rejected")
    ELSE IF TxOf[t].effects = <<>> THEN Reply(t, "failed")
    ELSE Run(t, TxOf[t].effects)

ExecuteTx(t) ==
    /\ pc = "idle"
    /\ IF t \notin Decodable THEN Reply(t, "rejected") ELSE executeTx(t)
    /\ UNCHANGED <<header, storeVars>>

-----------------------------------------------------------------------------
(* The effect executor.  An effect that fails ends the call; what the      *)
(* effects before it did stays.                                            *)

Stop == Reply(call, IF call \in Txs THEN "failed" ELSE "error")

\* Fault: the loop does not advance.
ProceedStays == UNCHANGED <<rest, pc, call, start, reply>>

Proceed == rest' = Tail(rest) /\ UNCHANGED <<pc, call, start, reply>>

\* Fault: the sender keeps the coins.
DebitedNot(e) == bal

Debited(e) == [bal EXCEPT ![e.from].amount = @ - e.amount]

CanDebit(e) == bal[e.from].amount >= e.amount

CanCredit(e) == Debited(e)[e.to].amount <= MaxAmount - e.amount

FirstSpend(e) ==
    /\ call \in Txs
    /\ bal[e.from].spent[call] = start.bal[e.from].spent[call]
    /\ bal[e.from].spent[call] < 2

Spend(b, e) == IF FirstSpend(e) THEN [b EXCEPT ![e.from].spent[call] = @ + 1] ELSE b

Transfer(e) ==
    \/ /\ CanDebit(e) /\ CanCredit(e)
       /\ bal' = Spend([Debited(e) EXCEPT ![e.to].amount = @ + e.amount], e)
       /\ Proceed
    \/ /\ ~CanDebit(e)
       /\ Stop
       /\ UNCHANGED bal
    \/ /\ CanDebit(e) /\ ~CanCredit(e)
       /\ bal' = Debited(e)
       /\ Stop

\* Writes and deletes go straight to the tree.
KeyEffect(e) ==
    \/ /\ e.kind \in {"write", "delete"}
       /\ tree' = [tree EXCEPT !.raw[e.key] = (e.kind = "write")]
       /\ Proceed
    \/ /\ e.kind \in {"write", "delete"}
       /\ "write" \in Faults
       /\ Stop
       /\ UNCHANGED tree
    \/ /\ e.kind = "read"
       /\ IF tree.raw[e.key] THEN Proceed ELSE Stop
       /\ UNCHANGED tree

ExecuteEffect ==
    /\ pc = "effects"
    /\ rest # <<>>
    /\ LET e == Head(rest) IN
         \/ e.kind = "transfer" /\ Transfer(e) /\ UNCHANGED tree
         \/ e.kind \in {"write", "read", "delete"} /\ KeyEffect(e) /\ UNCHANGED bal
         \/ e.kind = "event" /\ Proceed /\ UNCHANGED <<bal, tree>>
    /\ UNCHANGED <<header, nonce, disk, version>>

\* Fault: the nonce wraps after two transactions.
FinishWraps ==
    /\ pc = "effects"
    /\ rest = <<>>
    /\ nonce' = IF call \in Txs
                THEN [nonce EXCEPT ![TxOf[call].account] = (@ + 1) % 2] ELSE nonce
    /\ Reply(call, "ok")
    /\ UNCHANGED <<header, bal, tree, disk, version>>

\* All effects done: a transaction increments the nonce of its account.
Finish ==
    /\ pc = "effects"
    /\ rest = <<>>
    /\ nonce' = IF call \in Txs THEN [nonce EXCEPT ![TxOf[call].account] = @ + 1] ELSE nonce
    /\ Reply(call, "ok")
    /\ UNCHANGED <<header, bal, tree, disk, version>>

-----------------------------------------------------------------------------
(* Commit: flush the accounts, flush the balances, save.  Each of the      *)
(* three saves a version of the whole tree.                                *)

Commit ==
    /\ pc = "idle"
    /\ version + 3 <= MaxVersion
    /\ IF header = Nil THEN Reply("commit", "error")
                       ELSE pc' = "flushAccounts" /\ UNCHANGED <<call, rest, start, reply>>
    /\ UNCHANGED <<header, storeVars>>

\* Fault: a failed Commit closes the block.
CommitFailsCloses ==
    Reply("commit", "error") /\ header' = Nil /\ UNCHANGED <<nonce, bal, disk, version>>

CommitFails == Reply("commit", "error") /\ UNCHANGED <<header, nonce, bal, disk, version>>

Save(t) ==
    /\ tree' = t
    /\ disk' = t
    /\ version' = version + 1
    /\ UNCHANGED <<nonce, bal>>

\* What a failed flush leaves behind: it writes in key order, and fails on a
\* write or, when all are done, on SaveVersion.
Partly(old, new) ==
    {[a \in Accounts |-> IF a < bound THEN new[a] ELSE old[a]] :
        bound \in {0} \cup {a + 1 : a \in Accounts}}

\* Fault: the balances are flushed before the accounts.
FlushBalancesFirst ==
    /\ pc = "flushAccounts"
    /\ Save([tree EXCEPT !.bal = bal])
    /\ pc' = "flushBalances"
    /\ UNCHANGED <<header, call, rest, start, reply>>

FlushAccounts ==
    /\ pc = "flushAccounts"
    /\ \/ /\ Save([tree EXCEPT !.nonce = nonce])
          /\ pc' = "flushBalances"
          /\ UNCHANGED <<header, call, rest, start, reply>>
       \/ /\ "flush" \in Faults
          /\ \E part \in Partly(tree.nonce, nonce) : tree' = [tree EXCEPT !.nonce = part]
          /\ CommitFails

FlushBalances ==
    /\ pc = "flushBalances"
    /\ \/ /\ Save([tree EXCEPT !.bal = bal])
          /\ pc' = "saveVersion"
          /\ UNCHANGED <<header, call, rest, start, reply>>
       \/ /\ "flush" \in Faults
          /\ \E part \in Partly(tree.bal, bal) : tree' = [tree EXCEPT !.bal = part]
          /\ CommitFails

\* The height of the reply is the version of the tree.
SaveVersion ==
    /\ pc = "saveVersion"
    /\ \/ /\ Save(tree)
          /\ header' = Nil
          /\ Answer("commit", Nil, "ok", version')
          /\ pc' = "idle"
          /\ UNCHANGED <<call, rest, start>>
       \/ "save" \in Faults /\ CommitFails /\ UNCHANGED tree

\* The process dies and a new one opens the last saved version.
Restart ==
    /\ header' = Nil
    /\ nonce' = disk.nonce
    /\ bal' = disk.bal
    /\ tree' = disk
    /\ pc' = "idle"
    /\ call' = Nil
    /\ rest' = <<>>
    /\ start' = Nil
    /\ UNCHANGED <<disk, version, reply>>

-----------------------------------------------------------------------------
Step == ExecuteEffect \/ Finish \/ FlushAccounts \/ FlushBalances \/ SaveVersion

Next ==
    \/ \E t \in Txs : CheckTx(t) \/ ExecuteTx(t)
    \/ \E h \in 1 .. MaxHeight : BeginBlock(h)
    \/ EndBlock
    \/ Commit
    \/ Step
    \/ Restart

Spec == Init /\ [][Next]_vars

\* A call that has begun keeps running: nothing in it blocks.
FairSpec == Spec /\ WF_vars(Step)

-----------------------------------------------------------------------------
(* Properties *)

\* Every variable keeps its type; in particular a transaction whose effects run
\* has an account, and effects only run for a call.
TypeOK ==
    /\ header \in 1 .. MaxHeight \cup {Nil}
    /\ nonce \in [Accounts -> Nat \cup {Nil}]
    /\ bal \in [Accounts -> Balances]
    /\ tree \in Trees
    /\ disk \in Trees
    /\ version \in Nat
    /\ pc \in {"idle", "effects", "flushAccounts", "flushBalances", "saveVersion"}
    /\ call \in Txs \cup {"begin", "end", Nil}
    /\ rest \in Seq(Effects)
    /\ start \in [bal : [Accounts -> Balances]] \cup {Nil}
    /\ reply \in [call : {"none", "check", "begin", "end", "tx", "commit"}, tx : Txs \cup {Nil},
                  code : {"ok", "rejected", "failed", "error"}, height : Nat \cup {Nil}]
    /\ pc = "effects" <=> call # Nil
    /\ call \in Txs => nonce[TxOf[call].account] \in Nat

\* No transaction takes its sender's coins in two executions, whatever is submitted
\* again and however often the node crashes during Commit: the nonce is durable
\* before the balances are.
SpentOnce ==
    \A a \in Accounts, t \in Txs : bal[a].spent[t] <= 1 /\ disk.bal[a].spent[t] <= 1

\* The coins of all accounts.
Supply(b) == SumFunction([a \in Accounts |-> b[a].amount])

\* Transfers move coins and make none: the balances the stores answer with, and
\* those a restart would find, always add up to the same supply.
SupplyConserved == Supply(bal) = Supply(disk.bal)

\* Between blocks everything the stores answer is on disk.
BetweenBlocksDurable ==
    header = Nil => nonce = disk.nonce /\ bal = disk.bal /\ tree = disk

\* A crash never takes a durable nonce back, and no call lowers one.
NonceNeverDrops ==
    [][\A a \in Accounts : disk.nonce[a] # Nil =>
          disk'.nonce[a] # Nil /\ disk'.nonce[a] >= disk.nonce[a]]_vars

\* Every call that begins ends with a reply, or with the process.
CallsReturn == pc # "idle" ~> pc = "idle"

-----------------------------------------------------------------------------
(* The invariants behind the properties *)

\* Nonces in the order of their durability.
AtMost(m, n) == \A a \in Accounts : m[a] # Nil => n[a] # Nil /\ m[a] <= n[a]

NonceInv == AtMost(disk.nonce, tree.nonce) /\ AtMost(tree.nonce, nonce)

\* A block is open while anything runs, and Commit closes it when all is saved.
CommitInv ==
    /\ header = Nil => pc = "idle"
    /\ BetweenBlocksDurable
    /\ pc \in {"flushBalances", "saveVersion"} => tree.nonce = nonce
    /\ pc = "saveVersion" => tree.bal = bal

\* A transaction's first effect is the only one that can fail, as for a
\* transaction of one MsgSend: its transfer and then its event.
CleanTxs ==
    \A t \in Txs : \A i \in 2 .. Len(TxOf[t].effects) : TxOf[t].effects[i].kind = "event"

OnlyEvents == \A i \in 1 .. Len(rest) : rest[i].kind = "event"

Used(n, t) == n[TxOf[t].account] # Nil /\ n[TxOf[t].account] > TxOf[t].nonce

\* Wherever a transaction has spent, its nonce is used.
Covered(b, n) ==
    \A a \in Accounts, t \in Txs :
        b[a].spent[t] <= 1 /\ (b[a].spent[t] >= 1 => Used(n, t))

\* Under CleanTxs: the same, except for the transaction that is about to finish.
SpendInv ==
    /\ Covered(disk.bal, disk.nonce)
    /\ Covered(tree.bal, tree.nonce)
    /\ \A a \in Accounts, t \in Txs :
         /\ bal[a].spent[t] <= 1
         /\ bal[a].spent[t] >= 1 => Used(nonce, t) \/ (call = t /\ OnlyEvents)
    /\ call \in Txs =>
         /\ nonce[TxOf[call].account] = TxOf[call].nonce
         /\ OnlyEvents \/ rest = TxOf[call].effects

\* All coins the chain starts with fit in one uint64, so no balance can overflow.
SupplyFits == \A m \in InitialAmounts : SumFunction(m) <= MaxAmount

\* Under SupplyFits and without a flush that fails halfway: the balances in the tree,
\* which the flush of the accounts saves too, add up to the supply as well.
SupplyInv ==
    /\ Supply(tree.bal) = Supply(bal)
    /\ Supply(disk.bal) = Supply(bal)
    /\ Supply(bal) <= MaxAmount
=============================================================================
