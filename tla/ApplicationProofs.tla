-------------------------- MODULE ApplicationProofs --------------------------
(***************************************************************************)
(* Proofs about Application, for every set of accounts and transactions:   *)
(* types, durability between blocks, durable nonces, and that a            *)
(* transaction spends at most once through crashes and failed commits.     *)
(***************************************************************************)
EXTENDS Application, TLAPS

USE Zenon

-----------------------------------------------------------------------------
(* Types *)

LEMMA TxType ==
    ASSUME NEW t \in Txs
    PROVE  /\ TxOf[t].account \in Accounts
           /\ TxOf[t].nonce \in Nat
           /\ TxOf[t].effects \in Seq(Effects)
  BY TxAssumption

LEMMA ReplyType ==
    ASSUME NEW c \in Txs \cup {"begin", "end", "commit"},
           NEW code \in {"ok", "rejected", "failed", "error"}, Reply(c, code)
    PROVE  /\ reply' \in [call : {"none", "check", "begin", "end", "tx", "commit"},
                          tx : Txs \cup {Nil},
                          code : {"ok", "rejected", "failed", "error"},
                          height : Nat \cup {Nil}]
           /\ pc' = "idle" /\ call' = Nil /\ rest' = <<>> /\ start' = Nil
  BY SMT DEF Reply, Answer

LEMMA RunType ==
    ASSUME TypeOK, NEW c \in Txs \cup {"begin", "end"}, NEW es \in Seq(Effects), Run(c, es)
    PROVE  /\ rest' \in Seq(Effects)
           /\ start' \in [bal : [Accounts -> Balances]]
           /\ pc' = "effects" /\ call' = c /\ UNCHANGED reply
  BY DEF Run, TypeOK, Trees

\* A call that replies at once, or starts to run its effects, keeps every type.
LEMMA CallType ==
    ASSUME TypeOK, NEW c \in Txs \cup {"begin", "end", "commit"},
           NEW es \in Seq(Effects),
           \/ \E code \in {"ok", "rejected", "failed", "error"} : Reply(c, code)
           \/ /\ c # "commit" /\ Run(c, es)
              /\ c \in Txs => nonce[TxOf[c].account] \in Nat,
           header' \in 1 .. MaxHeight \cup {Nil},
           UNCHANGED storeVars
    PROVE  TypeOK'
  <1>1. Nil \notin Txs \cup {"begin", "end"}
    BY TxAssumption
  <1>2. CASE \E code \in {"ok", "rejected", "failed", "error"} : Reply(c, code)
    <2>1. /\ reply' \in [call : {"none", "check", "begin", "end", "tx", "commit"},
                         tx : Txs \cup {Nil},
                         code : {"ok", "rejected", "failed", "error"},
                         height : Nat \cup {Nil}]
          /\ pc' = "idle" /\ call' = Nil /\ rest' = <<>> /\ start' = Nil
      BY <1>2, ReplyType
    <2>2. rest' \in Seq(Effects)
      BY SMT, <2>1
    <2> QED
      BY <1>1, <2>1, <2>2 DEF TypeOK, storeVars
  <1>3. CASE /\ c # "commit" /\ Run(c, es)
             /\ c \in Txs => nonce[TxOf[c].account] \in Nat
    <2>1. /\ rest' \in Seq(Effects)
          /\ start' \in [bal : [Accounts -> Balances]]
          /\ pc' = "effects" /\ call' = c /\ UNCHANGED reply
      BY <1>3, RunType
    <2> QED
      BY <1>1, <1>3, <2>1 DEF TypeOK, storeVars
  <1> QED
    BY <1>2, <1>3

LEMMA TransferType ==
    ASSUME TypeOK, NEW e \in Transfers, CanDebit(e)
    PROVE  /\ Debited(e) \in [Accounts -> Balances]
           /\ CanCredit(e) =>
                Spend([Debited(e) EXCEPT ![e.to].amount = @ + e.amount], e)
                    \in [Accounts -> Balances]
  <1>1. e.from \in Accounts /\ e.to \in Accounts /\ e.amount \in 1 .. MaxAmount
    BY DEF Transfers
  <1>2. bal[e.from] \in Balances /\ bal[e.from].amount \in 0 .. MaxAmount
    BY <1>1 DEF TypeOK, Balances
  <1>3. bal[e.from].amount - e.amount \in 0 .. MaxAmount
    BY SMT, <1>1, <1>2, BoundAssumption DEF CanDebit
  <1>4. Debited(e) \in [Accounts -> Balances]
    BY <1>1, <1>2, <1>3 DEF Debited, TypeOK, Balances
  <1>5. PICK d \in [Accounts -> Balances] : d = Debited(e)
    BY <1>4
  <1>6. CASE CanCredit(e)
    <2>1. d[e.to] \in Balances /\ d[e.to].amount \in 0 .. MaxAmount
      BY <1>1 DEF Balances
    <2>2. d[e.to].amount + e.amount \in 0 .. MaxAmount
      BY SMT, <1>1, <1>5, <1>6, <2>1, BoundAssumption DEF CanCredit
    <2>3. PICK c \in [Accounts -> Balances] : c = [d EXCEPT ![e.to].amount = @ + e.amount]
      BY <1>1, <2>1, <2>2 DEF Balances
    <2>4. \A a \in Accounts : c[a].spent = bal[a].spent
      <3>1. \A a \in Accounts : d[a].spent = bal[a].spent
        BY <1>1, <1>2, <1>5 DEF Debited, TypeOK, Balances
      <3> QED
        BY <1>1, <2>1, <2>3, <3>1 DEF Balances
    <2>5. CASE FirstSpend(e)
      <3>1. call \in Txs /\ c[e.from].spent \in [Txs -> 0 .. 2] /\ c[e.from] \in Balances
        BY <1>1, <2>3, <2>5 DEF FirstSpend, Balances
      <3>2. c[e.from].spent[call] + 1 \in 0 .. 2
        BY SMT, <1>1, <2>4, <2>5, <3>1 DEF FirstSpend
      <3>3. [c[e.from].spent EXCEPT ![call] = @ + 1] \in [Txs -> 0 .. 2]
        BY <3>1, <3>2
      <3>4. [c[e.from] EXCEPT !.spent[call] = @ + 1] \in Balances
        BY <3>1, <3>3 DEF Balances
      <3> QED
        BY <1>1, <1>5, <2>3, <2>5, <3>4 DEF Spend
    <2> QED
      BY <1>5, <2>3, <2>5 DEF Spend
  <1> QED
    BY <1>4, <1>6

LEMMA EffectType ==
    ASSUME TypeOK, ExecuteEffect
    PROVE  TypeOK'
  <1>1. PICK e \in Effects : e = Head(rest)
    BY SMT DEF ExecuteEffect, TypeOK
  <1>2. Tail(rest) \in Seq(Effects)
    BY SMT DEF ExecuteEffect, TypeOK
  <1>3. call \in Txs \cup {"begin", "end"} /\ call # Nil
    BY TxAssumption DEF ExecuteEffect, TypeOK
  <1>4. UNCHANGED <<header, nonce, disk, version>>
    BY DEF ExecuteEffect
  <1>5. Proceed \/ Stop
    BY DEF ExecuteEffect, Transfer, KeyEffect
  <1>6. bal' \in [Accounts -> Balances]
    <2>1. CASE e.kind = "transfer"
      <3>1. e \in Transfers
        BY <1>1, <2>1 DEF Effects, Transfers, KeyEffects, Events
      <3> QED
        BY <1>1, <2>1, <3>1, TransferType DEF ExecuteEffect, Transfer, TypeOK
    <2>2. CASE e.kind # "transfer"
      BY <1>1, <2>2 DEF ExecuteEffect, TypeOK
    <2> QED
      BY <2>1, <2>2
  <1>7. tree' \in Trees
    <2>1. CASE e.kind \in {"write", "read", "delete"}
      <3>1. e.key \in RawKeys
        BY <1>1, <2>1 DEF Effects, Transfers, KeyEffects, Events
      <3>2. (e.kind = "write") \in BOOLEAN
        OBVIOUS
      <3>3. UNCHANGED tree \/ tree' = [tree EXCEPT !.raw[e.key] = (e.kind = "write")]
        BY <1>1, <2>1 DEF ExecuteEffect, KeyEffect
      <3>4. PICK r \in [RawKeys -> BOOLEAN] : r = [tree.raw EXCEPT ![e.key] = (e.kind = "write")]
        BY <3>1, <3>2 DEF TypeOK, Trees
      <3>5. UNCHANGED tree \/ tree' = [tree EXCEPT !.raw = r]
        BY <3>3, <3>4
      <3> QED
        BY <3>5 DEF TypeOK, Trees
    <2>2. CASE e.kind \notin {"write", "read", "delete"}
      BY <1>1, <2>2 DEF ExecuteEffect, TypeOK
    <2> QED
      BY <2>1, <2>2
  <1>8. CASE Proceed
    BY SMT, <1>2, <1>4, <1>6, <1>7, <1>8 DEF Proceed, TypeOK
  <1>9. CASE Stop
    <2>1. /\ reply' \in [call : {"none", "check", "begin", "end", "tx", "commit"},
                         tx : Txs \cup {Nil},
                         code : {"ok", "rejected", "failed", "error"},
                         height : Nat \cup {Nil}]
          /\ pc' = "idle" /\ call' = Nil /\ rest' = <<>> /\ start' = Nil
      BY <1>3, <1>9, ReplyType DEF Stop
    <2>2. rest' \in Seq(Effects) /\ call' \notin Txs
      BY SMT, <2>1, TxAssumption
    <2> QED
      BY <1>4, <1>6, <1>7, <2>1, <2>2 DEF TypeOK
  <1> QED
    BY <1>5, <1>8, <1>9

LEMMA FinishType ==
    ASSUME TypeOK, Finish
    PROVE  TypeOK'
  <1>1. call \in Txs \cup {"begin", "end"}
    BY DEF Finish, TypeOK
  <1>2. /\ reply' \in [call : {"none", "check", "begin", "end", "tx", "commit"},
                       tx : Txs \cup {Nil},
                       code : {"ok", "rejected", "failed", "error"},
                       height : Nat \cup {Nil}]
        /\ pc' = "idle" /\ call' = Nil /\ rest' = <<>> /\ start' = Nil
    BY <1>1, ReplyType DEF Finish
  <1>3. nonce' \in [Accounts -> Nat \cup {Nil}]
    <2>1. CASE call \in Txs
      <3>1. TxOf[call].account \in Accounts /\ nonce[TxOf[call].account] + 1 \in Nat
        BY SMT, <2>1, TxType DEF TypeOK
      <3> QED
        BY <2>1, <3>1 DEF Finish, TypeOK
    <2>2. CASE call \notin Txs
      BY <2>2 DEF Finish, TypeOK
    <2> QED
      BY <2>1, <2>2
  <1>4. rest' \in Seq(Effects) /\ call' \notin Txs
    BY SMT, <1>2, TxAssumption
  <1>5. UNCHANGED <<header, bal, tree, disk, version>>
    BY DEF Finish
  <1> QED
    BY <1>2, <1>3, <1>4, <1>5 DEF TypeOK

LEMMA PartlyType ==
    ASSUME NEW S, NEW old \in [Accounts -> S], NEW new \in [Accounts -> S],
           NEW part \in Partly(old, new)
    PROVE  part \in [Accounts -> S] /\ \A a \in Accounts : part[a] \in {old[a], new[a]}
  BY DEF Partly

\* A step of Commit: the tree it leaves, and how it ends.
LEMMA CommitStep ==
    ASSUME TypeOK, FlushAccounts \/ FlushBalances \/ SaveVersion
    PROVE  /\ tree' \in Trees
           /\ UNCHANGED <<nonce, bal>>
           /\ \/ CommitFails
              \/ disk' = tree' /\ version' = version + 1
  <1>1. \A n \in [Accounts -> Nat \cup {Nil}] : [tree EXCEPT !.nonce = n] \in Trees
    BY DEF TypeOK, Trees
  <1>2. \A b \in [Accounts -> Balances] : [tree EXCEPT !.bal = b] \in Trees
    BY DEF TypeOK, Trees
  <1>3. /\ tree.nonce \in [Accounts -> Nat \cup {Nil}] /\ tree.bal \in [Accounts -> Balances]
        /\ nonce \in [Accounts -> Nat \cup {Nil}] /\ bal \in [Accounts -> Balances]
        /\ tree \in Trees
    BY DEF TypeOK, Trees
  <1>4. CASE FlushAccounts
    <2>1. CASE Save([tree EXCEPT !.nonce = nonce])
      BY <1>1, <1>3, <2>1 DEF Save
    <2>2. CASE CommitFails /\ \E part \in Partly(tree.nonce, nonce) : tree' = [tree EXCEPT !.nonce = part]
      <3>1. PICK part \in Partly(tree.nonce, nonce) : tree' = [tree EXCEPT !.nonce = part]
        BY <2>2
      <3>2. part \in [Accounts -> Nat \cup {Nil}]
        BY <1>3, PartlyType
      <3> QED
        BY <1>1, <2>2, <3>1, <3>2 DEF CommitFails
    <2> QED
      BY <1>4, <2>1, <2>2 DEF FlushAccounts
  <1>5. CASE FlushBalances
    <2>1. CASE Save([tree EXCEPT !.bal = bal])
      BY <1>2, <1>3, <2>1 DEF Save
    <2>2. CASE CommitFails /\ \E part \in Partly(tree.bal, bal) : tree' = [tree EXCEPT !.bal = part]
      <3>1. PICK part \in Partly(tree.bal, bal) : tree' = [tree EXCEPT !.bal = part]
        BY <2>2
      <3>2. part \in [Accounts -> Balances]
        BY <1>3, PartlyType
      <3> QED
        BY <1>2, <2>2, <3>1, <3>2 DEF CommitFails
    <2> QED
      BY <1>5, <2>1, <2>2 DEF FlushBalances
  <1>6. CASE SaveVersion
    BY <1>3, <1>6 DEF SaveVersion, Save, CommitFails
  <1> QED
    BY <1>4, <1>5, <1>6

LEMMA CommitType ==
    ASSUME TypeOK, FlushAccounts \/ FlushBalances \/ SaveVersion
    PROVE  TypeOK'
  <1>1. tree' \in Trees /\ UNCHANGED <<nonce, bal>>
    BY CommitStep
  <1>2. call = Nil /\ call \notin Txs
    BY TxAssumption DEF TypeOK, FlushAccounts, FlushBalances, SaveVersion
  <1>3. CASE CommitFails
    <2>1. /\ reply' \in [call : {"none", "check", "begin", "end", "tx", "commit"},
                         tx : Txs \cup {Nil},
                         code : {"ok", "rejected", "failed", "error"},
                         height : Nat \cup {Nil}]
          /\ pc' = "idle" /\ call' = Nil /\ rest' = <<>> /\ start' = Nil
      BY <1>3, ReplyType DEF CommitFails
    <2>2. rest' \in Seq(Effects)
      BY SMT, <2>1
    <2> QED
      BY <1>1, <1>2, <1>3, <2>1, <2>2 DEF TypeOK, CommitFails
  <1>4. CASE ~CommitFails
    <2>1. disk' \in Trees /\ version' \in Nat /\ version' = version + 1
      BY SMT, <1>1, <1>4, CommitStep DEF TypeOK
    <2>2. /\ UNCHANGED <<call, rest, start>>
          /\ pc' \in {"flushBalances", "saveVersion", "idle"}
          /\ header' \in {header, Nil}
      BY <1>4 DEF FlushAccounts, FlushBalances, SaveVersion
    <2>3. reply' \in [call : {"none", "check", "begin", "end", "tx", "commit"},
                      tx : Txs \cup {Nil},
                      code : {"ok", "rejected", "failed", "error"},
                      height : Nat \cup {Nil}]
      BY SMT, <1>4, <2>1 DEF FlushAccounts, FlushBalances, SaveVersion, Answer, TypeOK
    <2> QED
      BY <1>1, <1>2, <2>1, <2>2, <2>3 DEF TypeOK
  <1> QED
    BY <1>3, <1>4

LEMMA TypeInductive == TypeOK /\ [Next]_vars => TypeOK'
  <1> SUFFICES ASSUME TypeOK, [Next]_vars PROVE TypeOK'
    OBVIOUS
  <1>1. ASSUME NEW t \in Txs, CheckTx(t) PROVE TypeOK'
    BY <1>1 DEF CheckTx, Answer, TypeOK, storeVars, callVars
  <1>2. ASSUME NEW t \in Txs, ExecuteTx(t) PROVE TypeOK'
    <2>1. /\ UNCHANGED <<header, storeVars>> /\ t \in Txs \cup {"begin", "end", "commit"}
          /\ TxOf[t].effects \in Seq(Effects) /\ t # "commit"
      BY <1>2, TxType, TxAssumption DEF ExecuteTx
    <2>2. Authorized(t) => nonce[TxOf[t].account] \in Nat
      BY TxType DEF Authorized
    <2>3. \/ \E code \in {"ok", "rejected", "failed", "error"} : Reply(t, code)
          \/ /\ t # "commit" /\ Run(t, TxOf[t].effects)
             /\ t \in Txs => nonce[TxOf[t].account] \in Nat
      BY <1>2, <2>1, <2>2 DEF ExecuteTx, executeTx
    <2>4. header' \in 1 .. MaxHeight \cup {Nil} /\ UNCHANGED storeVars
      BY <2>1 DEF TypeOK
    <2> QED
      BY <2>1, <2>3, <2>4, CallType
  <1>3. ASSUME NEW h \in 1 .. MaxHeight, BeginBlock(h) PROVE TypeOK'
    <2>1. header' \in 1 .. MaxHeight \cup {Nil} /\ UNCHANGED storeVars
          /\ BeginEffects \in Seq(Effects) /\ "begin" \notin Txs
      BY <1>3, HookAssumption, TxAssumption DEF BeginBlock
    <2> QED
      BY <1>3, <2>1, CallType DEF BeginBlock, callBeginBlockers
  <1>4. CASE EndBlock
    <2>1. header' \in 1 .. MaxHeight \cup {Nil} /\ UNCHANGED storeVars
          /\ EndEffects \in Seq(Effects) /\ "end" \notin Txs
      BY <1>4, HookAssumption, TxAssumption DEF EndBlock, callEndBlockers, TypeOK
    <2> QED
      BY <1>4, <2>1, CallType DEF EndBlock, callEndBlockers
  <1>5. CASE Commit
    <2>1. UNCHANGED storeVars /\ header' = header /\ header' \in 1 .. MaxHeight \cup {Nil}
      BY <1>5 DEF Commit, TypeOK
    <2>2. CASE header = Nil
      BY <1>5, <2>1, <2>2, CallType, HookAssumption DEF Commit
    <2>3. CASE header # Nil
      BY <1>5, <2>1, <2>3 DEF Commit, TypeOK, storeVars
    <2> QED
      BY <2>2, <2>3
  <1>6. CASE Step
    BY <1>6, EffectType, FinishType, CommitType DEF Step
  <1>7. CASE Restart
    <2>1. call' \notin Txs /\ rest' \in Seq(Effects)
      BY SMT, <1>7, TxAssumption DEF Restart
    <2> QED
      BY <1>7, <2>1 DEF Restart, TypeOK, Trees
  <1>8. CASE UNCHANGED vars
    BY SMT, <1>8 DEF TypeOK, vars
  <1> QED
    BY <1>1, <1>2, <1>3, <1>4, <1>5, <1>6, <1>7, <1>8 DEF Next

LEMMA TypeInit == Init => TypeOK
  <1> SUFFICES ASSUME Init PROVE TypeOK
    OBVIOUS
  <1>1. PICK n \in [Accounts -> {0, Nil}], m \in InitialAmounts :
         disk = [nonce |-> n,
                 bal |-> [a \in Accounts |-> [amount |-> m[a], spent |-> [t \in Txs |-> 0]]],
                 raw |-> [k \in RawKeys |-> FALSE]]
    BY DEF Init
  <1>2. \A a \in Accounts : [amount |-> m[a], spent |-> [t \in Txs |-> 0]] \in Balances
    BY SMT, BoundAssumption DEF Balances
  <1>3. disk \in Trees
    BY SMT, <1>1, <1>2 DEF Trees
  <1>4. rest \in Seq(Effects) /\ call = Nil /\ call \notin Txs
    BY SMT, TxAssumption DEF Init
  <1> QED
    BY <1>3, <1>4 DEF Init, TypeOK, Trees

\* Every variable keeps its type, for any accounts, transactions and hooks.
THEOREM TypeCorrect == Spec => []TypeOK
  BY TypeInit, TypeInductive, PTL DEF Spec

-----------------------------------------------------------------------------
(* Commit makes everything durable. *)

\* What ExecuteEffect may touch.
LEMMA EffectFrame ==
    ASSUME TypeOK, ExecuteEffect
    PROVE  /\ UNCHANGED <<header, nonce, disk, version>>
           /\ pc = "effects" /\ pc' \in {"effects", "idle"}
           /\ tree'.nonce = tree.nonce /\ tree'.bal = tree.bal
  <1>1. UNCHANGED <<header, nonce, disk, version>> /\ pc = "effects"
    BY DEF ExecuteEffect
  <1>2. PICK e : /\ e = Head(rest)
                 /\ \/ e.kind = "transfer" /\ Transfer(e) /\ UNCHANGED tree
                    \/ e.kind \in {"write", "read", "delete"} /\ KeyEffect(e) /\ UNCHANGED bal
                    \/ e.kind = "event" /\ Proceed /\ UNCHANGED <<bal, tree>>
    BY DEF ExecuteEffect
  <1>3. Proceed \/ Stop
    BY <1>2 DEF Transfer, KeyEffect
  <1>4. pc' \in {"effects", "idle"}
    BY <1>1, <1>3 DEF Proceed, Stop, Reply
  <1>5. tree' = tree \/ \E r : tree' = [tree EXCEPT !.raw = r]
    BY <1>2 DEF KeyEffect
  <1>6. tree'.nonce = tree.nonce /\ tree'.bal = tree.bal
    BY <1>5 DEF TypeOK, Trees
  <1> QED
    BY <1>1, <1>4, <1>6

LEMMA CommitInductive == TypeOK /\ CommitInv /\ [Next]_vars => CommitInv'
  <1> SUFFICES ASSUME TypeOK, CommitInv, [Next]_vars PROVE CommitInv'
    OBVIOUS
  <1> USE DEF CommitInv, BetweenBlocksDurable
  <1>1. ASSUME NEW t \in Txs, CheckTx(t) PROVE CommitInv'
    BY <1>1 DEF CheckTx, storeVars, callVars
  <1>2. ASSUME NEW t \in Txs, ExecuteTx(t) PROVE CommitInv'
    BY <1>2 DEF ExecuteTx, executeTx, Reply, Run, storeVars
  <1>3. ASSUME NEW h \in 1 .. MaxHeight, BeginBlock(h) PROVE CommitInv'
    <2>1. h # Nil
      BY SMT, BoundAssumption
    <2> QED
      BY <1>3, <2>1 DEF BeginBlock, callBeginBlockers, Reply, Run, storeVars
  <1>4. CASE EndBlock
    BY <1>4 DEF EndBlock, callEndBlockers, Reply, Run, storeVars
  <1>5. CASE Commit
    BY <1>5 DEF Commit, Reply, storeVars
  <1>6. CASE ExecuteEffect
    BY <1>6, EffectFrame
  <1>7. CASE Finish
    BY <1>7 DEF Finish, Reply
  <1>8. CASE FlushAccounts \/ FlushBalances \/ SaveVersion
    <2>1. CASE CommitFails
      BY <1>8, <2>1 DEF FlushAccounts, FlushBalances, SaveVersion, CommitFails, Reply
    <2>2. CASE ~CommitFails /\ FlushAccounts
      <3>1. tree'.nonce = nonce
        BY <2>2 DEF FlushAccounts, Save, TypeOK, Trees
      <3> QED
        BY <2>2, <3>1 DEF FlushAccounts, Save
    <2>3. CASE ~CommitFails /\ FlushBalances
      <3>1. tree'.nonce = tree.nonce /\ tree'.bal = bal
        BY <2>3 DEF FlushBalances, Save, TypeOK, Trees
      <3> QED
        BY <2>3, <3>1 DEF FlushBalances, Save
    <2>4. CASE ~CommitFails /\ SaveVersion
      BY <2>4 DEF SaveVersion, Save
    <2> QED
      BY <1>8, <2>1, <2>2, <2>3, <2>4
  <1>9. CASE Restart
    BY <1>9 DEF Restart
  <1>10. CASE UNCHANGED vars
    BY <1>10 DEF vars
  <1> QED
    BY <1>1, <1>2, <1>3, <1>4, <1>5, <1>6, <1>7, <1>8, <1>9, <1>10 DEF Next, Step

\* Between blocks nothing the stores answer can be lost in a crash: a block ends
\* only after its Commit has flushed both stores and saved the tree.
THEOREM CommitDurable == Spec => []BetweenBlocksDurable
  <1>1. Init => CommitInv
    BY DEF Init, CommitInv, BetweenBlocksDurable
  <1>2. CommitInv => BetweenBlocksDurable
    BY DEF CommitInv
  <1> QED
    BY <1>1, <1>2, CommitInductive, TypeCorrect, PTL DEF Spec

-----------------------------------------------------------------------------
(* Nonces: disk <= tree <= store. *)

LEMMA AtMostOrder ==
    ASSUME NEW l \in [Accounts -> Nat \cup {Nil}], NEW m \in [Accounts -> Nat \cup {Nil}],
           NEW n \in [Accounts -> Nat \cup {Nil}]
    PROVE  AtMost(l, l) /\ (AtMost(l, m) /\ AtMost(m, n) => AtMost(l, n))
  BY SMT, BoundAssumption DEF AtMost

LEMMA PartlyBetween ==
    ASSUME NEW old \in [Accounts -> Nat \cup {Nil}], NEW new \in [Accounts -> Nat \cup {Nil}],
           AtMost(old, new), NEW part \in Partly(old, new)
    PROVE  AtMost(old, part) /\ AtMost(part, new)
  <1>1. \A a \in Accounts : part[a] \in {old[a], new[a]}
    BY PartlyType
  <1> QED
    BY SMT, <1>1, BoundAssumption DEF AtMost

\* A step of Commit moves the nonces of the tree towards those of the store, and
\* the nonces on disk to those of the tree or not at all.
LEMMA CommitNonces ==
    ASSUME TypeOK, NonceInv, FlushAccounts \/ FlushBalances \/ SaveVersion
    PROVE  /\ AtMost(tree.nonce, tree'.nonce) /\ AtMost(tree'.nonce, nonce)
           /\ disk' \in {disk, tree'}
           /\ nonce' = nonce
  <1>1. /\ tree.nonce \in [Accounts -> Nat \cup {Nil}]
        /\ nonce \in [Accounts -> Nat \cup {Nil}]
    BY DEF TypeOK, Trees
  <1>2. disk' \in {disk, tree'} /\ nonce' = nonce
    BY CommitStep DEF CommitFails
  <1>3. AtMost(tree.nonce, nonce) /\ AtMost(tree.nonce, tree.nonce) /\ AtMost(nonce, nonce)
    BY <1>1, AtMostOrder DEF NonceInv
  <1>4. tree'.nonce = tree.nonce \/ tree'.nonce = nonce
        \/ \E part \in Partly(tree.nonce, nonce) : tree'.nonce = part
    BY DEF FlushAccounts, FlushBalances, SaveVersion, Save, TypeOK, Trees
  <1>5. AtMost(tree.nonce, tree'.nonce) /\ AtMost(tree'.nonce, nonce)
    BY <1>1, <1>3, <1>4, PartlyBetween
  <1> QED
    BY <1>2, <1>5

LEMMA NonceInductive == TypeOK /\ NonceInv /\ [Next]_vars
                            => NonceInv' /\ AtMost(disk.nonce, disk'.nonce)
  <1> SUFFICES ASSUME TypeOK, NonceInv, [Next]_vars
               PROVE  NonceInv' /\ AtMost(disk.nonce, disk'.nonce)
    OBVIOUS
  <1>0. TypeOK'
    BY TypeInductive
  <1>1. /\ disk.nonce \in [Accounts -> Nat \cup {Nil}]
        /\ tree.nonce \in [Accounts -> Nat \cup {Nil}]
        /\ nonce \in [Accounts -> Nat \cup {Nil}]
        /\ disk'.nonce \in [Accounts -> Nat \cup {Nil}]
        /\ tree'.nonce \in [Accounts -> Nat \cup {Nil}]
        /\ nonce' \in [Accounts -> Nat \cup {Nil}]
    BY <1>0 DEF TypeOK, Trees
  <1>2. ASSUME disk'.nonce = disk.nonce, tree'.nonce = tree.nonce, nonce' = nonce
        PROVE  NonceInv' /\ AtMost(disk.nonce, disk'.nonce)
    BY <1>1, <1>2, AtMostOrder DEF NonceInv
  <1>3. CASE FlushAccounts \/ FlushBalances \/ SaveVersion
    <2>1. /\ AtMost(tree.nonce, tree'.nonce) /\ AtMost(tree'.nonce, nonce)
          /\ disk' \in {disk, tree'} /\ nonce' = nonce
      BY <1>3, CommitNonces
    <2>2. AtMost(disk.nonce, tree'.nonce)
      BY <1>1, <2>1, AtMostOrder DEF NonceInv
    <2>3. AtMost(disk.nonce, disk.nonce) /\ AtMost(tree'.nonce, tree'.nonce)
      BY <1>1, AtMostOrder
    <2> QED
      BY <2>1, <2>2, <2>3 DEF NonceInv
  <1>4. CASE Finish
    <2>1. AtMost(nonce, nonce')
      <3>1. CASE call \in Txs
        <4>1. PICK a \in Accounts : a = TxOf[call].account
          BY <3>1, TxType
        <4>2. nonce[a] \in Nat
          BY <3>1, <4>1 DEF TypeOK
        <4>3. nonce' = [nonce EXCEPT ![a] = @ + 1]
          BY <1>4, <3>1, <4>1 DEF Finish
        <4> QED
          BY SMT, <1>1, <4>2, <4>3, BoundAssumption DEF AtMost
      <3>2. CASE call \notin Txs
        BY <1>1, <1>4, <3>2, AtMostOrder DEF Finish
      <3> QED
        BY <3>1, <3>2
    <2>2. disk' = disk /\ tree' = tree
      BY <1>4 DEF Finish
    <2> QED
      BY <1>1, <2>1, <2>2, AtMostOrder DEF NonceInv
  <1>5. CASE Restart
    BY <1>1, <1>5, AtMostOrder DEF Restart, NonceInv
  <1>6. CASE ExecuteEffect
    BY <1>2, <1>6, EffectFrame
  <1>7. CASE UNCHANGED storeVars
    BY <1>2, <1>7 DEF storeVars
  <1>8. UNCHANGED storeVars \/ Step \/ Restart
    BY DEF Next, CheckTx, ExecuteTx, BeginBlock, EndBlock, Commit, vars, storeVars
  <1> QED
    BY <1>3, <1>4, <1>5, <1>6, <1>7, <1>8 DEF Step

\* No step, crash or failed Commit takes a durable nonce back, so that a
\* transaction a node has committed stays used for good.
THEOREM NoncesDurable == Spec => NonceNeverDrops
  <1>1. Init => NonceInv
    <2> SUFFICES ASSUME Init PROVE NonceInv
      OBVIOUS
    <2>1. disk.nonce \in [Accounts -> Nat \cup {Nil}]
      BY TypeInit DEF TypeOK, Trees
    <2> QED
      BY <2>1, AtMostOrder DEF Init, NonceInv
  <1>2. TypeOK /\ NonceInv /\ [Next]_vars
          => [\A a \in Accounts : disk.nonce[a] # Nil =>
                disk'.nonce[a] # Nil /\ disk'.nonce[a] >= disk.nonce[a]]_vars
    <2> SUFFICES ASSUME TypeOK, NonceInv, [Next]_vars, NEW a \in Accounts, disk.nonce[a] # Nil
                 PROVE  disk'.nonce[a] # Nil /\ disk'.nonce[a] >= disk.nonce[a]
      OBVIOUS
    <2>1. AtMost(disk.nonce, disk'.nonce)
      BY NonceInductive
    <2>2. disk.nonce[a] \in Nat /\ disk'.nonce[a] \in Nat \cup {Nil}
      BY TypeInductive DEF TypeOK, Trees
    <2> QED
      BY <2>1, <2>2 DEF AtMost
  <1> QED
    BY <1>1, <1>2, NonceInductive, TypeCorrect, PTL DEF Spec, NonceNeverDrops

-----------------------------------------------------------------------------
(* No transaction spends twice, when only its first effect can fail. *)

LEMMA CoveredMonotone ==
    ASSUME NEW b \in [Accounts -> Balances],
           NEW m \in [Accounts -> Nat \cup {Nil}], NEW n \in [Accounts -> Nat \cup {Nil}],
           AtMost(m, n), Covered(b, m)
    PROVE  Covered(b, n)
  <1>1. \A t \in Txs : Used(m, t) => Used(n, t)
    <2> SUFFICES ASSUME NEW t \in Txs, Used(m, t) PROVE Used(n, t)
      OBVIOUS
    <2>1. PICK a \in Accounts : a = TxOf[t].account
      BY TxType
    <2>2. TxOf[t].nonce \in Nat /\ m[a] \in Nat /\ n[a] \in Nat \cup {Nil}
      BY <2>1, TxType DEF Used
    <2> QED
      BY SMT, <2>1, <2>2 DEF Used, AtMost
  <1> QED
    BY <1>1 DEF Covered

LEMMA CoveredPartly ==
    ASSUME NEW old \in [Accounts -> Balances], NEW new \in [Accounts -> Balances],
           NEW n, Covered(old, n), Covered(new, n), NEW part \in Partly(old, new)
    PROVE  Covered(part, n)
  <1>1. \A a \in Accounts : part[a] \in {old[a], new[a]}
    BY PartlyType
  <1> QED
    BY <1>1 DEF Covered

\* Outside a transaction everything spent is covered by a nonce.
LEMMA IdleCovered ==
    ASSUME TypeOK, SpendInv, call \notin Txs
    PROVE  Covered(bal, nonce)
  BY DEF SpendInv, Covered

LEMMA CommitSpends ==
    ASSUME TypeOK, CommitInv, NonceInv, SpendInv, FlushAccounts \/ FlushBalances \/ SaveVersion
    PROVE  SpendInv'
  <1>1. /\ tree' \in Trees /\ tree \in Trees /\ UNCHANGED <<nonce, bal>>
        /\ disk' \in {disk, tree'}
        /\ AtMost(tree.nonce, tree'.nonce)
    BY CommitStep, CommitNonces DEF TypeOK
  <1>2. /\ tree.nonce \in [Accounts -> Nat \cup {Nil}] /\ tree'.nonce \in [Accounts -> Nat \cup {Nil}]
        /\ tree.bal \in [Accounts -> Balances] /\ tree'.bal \in [Accounts -> Balances]
        /\ bal \in [Accounts -> Balances]
    BY <1>1 DEF Trees, TypeOK
  <1>3. call = Nil /\ call \notin Txs /\ call' = Nil /\ call' \notin Txs
    BY TxAssumption DEF TypeOK, FlushAccounts, FlushBalances, SaveVersion, CommitFails, Reply
  <1>4. Covered(bal, nonce)
    BY <1>3, IdleCovered
  <1>5. Covered(tree'.bal, tree'.nonce)
    <2>1. CASE FlushBalances
      <3>1. tree.nonce = nonce /\ tree'.nonce = tree.nonce
        BY <2>1 DEF CommitInv, FlushBalances, Save, TypeOK, Trees
      <3>2. tree'.bal = bal \/ tree'.bal \in Partly(tree.bal, bal)
        BY <2>1 DEF FlushBalances, Save, TypeOK, Trees
      <3>3. Covered(tree.bal, nonce)
        BY <3>1 DEF SpendInv
      <3> QED
        BY <1>2, <1>4, <3>1, <3>2, <3>3, CoveredPartly
    <2>2. CASE FlushAccounts \/ SaveVersion
      <3>1. tree'.bal = tree.bal
        BY <2>2 DEF FlushAccounts, SaveVersion, Save, TypeOK, Trees
      <3> QED
        BY <1>1, <1>2, <3>1, CoveredMonotone DEF SpendInv
    <2> QED
      BY <2>1, <2>2
  <1>6. Covered(disk'.bal, disk'.nonce)
    BY <1>1, <1>5 DEF SpendInv
  <1>7. \A a \in Accounts, t \in Txs : bal'[a].spent[t] <= 1
                                      /\ (bal'[a].spent[t] >= 1 => Used(nonce', t))
    BY <1>1, <1>4 DEF Covered
  <1> QED
    BY <1>3, <1>5, <1>6, <1>7 DEF SpendInv

LEMMA FinishSpends ==
    ASSUME TypeOK, SpendInv, Finish
    PROVE  SpendInv'
  <1>1. UNCHANGED <<bal, tree, disk>> /\ call' = Nil /\ call' \notin Txs
    BY TxAssumption DEF Finish, Reply
  <1>2. ASSUME NEW t \in Txs, Used(nonce, t) \/ call = t PROVE Used(nonce', t)
    <2>1. CASE call \in Txs
      <3>1. PICK c \in Accounts : c = TxOf[call].account
        BY <2>1, TxType
      <3>2. PICK a \in Accounts : a = TxOf[t].account
        BY TxType
      <3>3. nonce' = [nonce EXCEPT ![c] = @ + 1] /\ nonce[c] \in Nat /\ nonce[c] = TxOf[call].nonce
        BY <2>1, <3>1 DEF Finish, TypeOK, SpendInv
      <3>4. TxOf[t].nonce \in Nat /\ nonce \in [Accounts -> Nat \cup {Nil}]
        BY TxType DEF TypeOK
      <3> QED
        BY SMT, <1>2, <3>1, <3>2, <3>3, <3>4, BoundAssumption DEF Used
    <2>2. CASE call \notin Txs
      BY <1>2, <2>2 DEF Finish, Used
    <2> QED
      BY <2>1, <2>2
  <1> QED
    BY <1>1, <1>2 DEF SpendInv

\* The effects left after the first one are events.
LEMMA TailEvents ==
    ASSUME CleanTxs, TypeOK, rest # <<>>,
           OnlyEvents \/ (call \in Txs /\ rest = TxOf[call].effects)
    PROVE  \A i \in 1 .. Len(Tail(rest)) : Tail(rest)[i].kind = "event"
  <1>1. rest \in Seq(Effects)
    BY DEF TypeOK
  <1>2. Len(Tail(rest)) = Len(rest) - 1 /\ \A i \in 1 .. Len(Tail(rest)) : Tail(rest)[i] = rest[i + 1]
    BY SMT, <1>1
  <1>3. Len(rest) \in Nat /\ \A j \in 2 .. Len(rest) : rest[j].kind = "event"
    BY SMT, <1>1 DEF OnlyEvents, CleanTxs
  <1> QED
    BY SMT, <1>2, <1>3

LEMMA DebitSpends ==
    ASSUME bal \in [Accounts -> Balances], NEW e \in Effects, e.kind = "transfer"
    PROVE  \A a \in Accounts : Debited(e)[a].spent = bal[a].spent
  <1>1. PICK f \in Accounts : f = e.from
    BY DEF Effects, Transfers, KeyEffects, Events
  <1>2. PICK m : m = bal[f].amount - e.amount
    OBVIOUS
  <1>3. Debited(e) = [bal EXCEPT ![f].amount = m]
    BY <1>1, <1>2 DEF Debited
  <1> QED
    BY SMT, <1>1, <1>3 DEF Balances

\* What a transfer does to the counts of spending.
LEMMA SpendSpends ==
    ASSUME bal \in [Accounts -> Balances], NEW e \in Effects, e.kind = "transfer",
           bal' = Spend([Debited(e) EXCEPT ![e.to].amount = @ + e.amount], e),
           NEW a \in Accounts, NEW t \in Txs
    PROVE  /\ call # t => bal'[a].spent[t] = bal[a].spent[t]
           /\ bal'[a].spent[t] \in {bal[a].spent[t], bal[a].spent[t] + 1}
  <1>1. PICK f \in Accounts, g \in Accounts : f = e.from /\ g = e.to
    BY DEF Effects, Transfers, KeyEffects, Events
  <1>2. PICK d : d = Debited(e)
    OBVIOUS
  <1>3. PICK l : l = bal[f].amount - e.amount
    OBVIOUS
  <1>4. d = [bal EXCEPT ![f].amount = l]
    BY <1>1, <1>2, <1>3 DEF Debited
  <1>5. PICK c : c = [d EXCEPT ![e.to].amount = @ + e.amount]
    OBVIOUS
  <1>6. PICK m : m = d[g].amount + e.amount
    OBVIOUS
  <1>7. c = [d EXCEPT ![g].amount = m]
    BY <1>1, <1>5, <1>6
  <1>8. /\ DOMAIN c = Accounts
        /\ \A x \in Accounts : c[x].spent = bal[x].spent /\ c[x].spent \in [Txs -> 0 .. 2]
                               /\ DOMAIN c[x] = {"amount", "spent"}
    BY SMT, <1>1, <1>4, <1>7 DEF Balances
  <1>9. bal' = Spend(c, e)
    BY <1>2, <1>5
  <1>10. CASE FirstSpend(e)
    <2>1. bal' = [c EXCEPT ![f].spent[call] = @ + 1] /\ call \in Txs
      BY <1>1, <1>9, <1>10 DEF Spend, FirstSpend
    <2>2. PICK r : r = [c[f].spent EXCEPT ![call] = @ + 1]
      OBVIOUS
    <2>3. bal' = [c EXCEPT ![f].spent = r]
      BY <2>1, <2>2
    <2>4. bal'[a].spent = IF a = f THEN r ELSE c[a].spent
      <3>1. PICK b : b = [c[f] EXCEPT !.spent = r]
        OBVIOUS
      <3>2. bal' = [c EXCEPT ![f] = b]
        BY <2>3, <3>1
      <3>3. b.spent = r
        BY <1>1, <1>8, <3>1
      <3> QED
        BY <1>1, <1>8, <3>2, <3>3
    <2>5. \A u \in Txs : r[u] = IF u = call THEN c[f].spent[u] + 1 ELSE c[f].spent[u]
      <3>1. PICK q \in [Txs -> 0 .. 2] : q = c[f].spent
        BY <1>1, <1>8
      <3>2. r = [q EXCEPT ![call] = @ + 1]
        BY <2>2, <3>1
      <3> QED
        BY <2>1, <3>1, <3>2
    <2> QED
      BY SMT, <1>1, <1>8, <2>4, <2>5
  <1>11. CASE ~FirstSpend(e)
    BY <1>8, <1>9, <1>11 DEF Spend
  <1> QED
    BY <1>10, <1>11

LEMMA EffectSpends ==
    ASSUME CleanTxs, TypeOK, SpendInv, ExecuteEffect
    PROVE  SpendInv'
  <1>1. /\ UNCHANGED <<nonce, disk>> /\ tree'.nonce = tree.nonce /\ tree'.bal = tree.bal
        /\ rest # <<>> /\ rest \in Seq(Effects) /\ bal \in [Accounts -> Balances]
    BY EffectFrame DEF ExecuteEffect, TypeOK
  <1>2. Covered(disk'.bal, disk'.nonce) /\ Covered(tree'.bal, tree'.nonce)
    BY <1>1 DEF SpendInv
  <1>3. PICK e : /\ e = Head(rest)
                 /\ \/ e.kind = "transfer" /\ Transfer(e) /\ UNCHANGED tree
                    \/ e.kind \in {"write", "read", "delete"} /\ KeyEffect(e) /\ UNCHANGED bal
                    \/ e.kind = "event" /\ Proceed /\ UNCHANGED <<bal, tree>>
    BY DEF ExecuteEffect
  <1>4. e = rest[1] /\ 1 \in 1 .. Len(rest) /\ e \in Effects
    BY SMT, <1>1, <1>3
  <1>5. OnlyEvents => e.kind = "event"
    BY <1>4 DEF OnlyEvents
  \* Before the first effect nothing of the running transaction is spent.
  <1>6. ASSUME e.kind # "event", NEW a \in Accounts, NEW t \in Txs
        PROVE  /\ bal[a].spent[t] <= 1 /\ (bal[a].spent[t] >= 1 => Used(nonce, t))
               /\ call = t => bal[a].spent[t] = 0
    <2>1. bal[a].spent[t] <= 1 /\ (bal[a].spent[t] >= 1 => Used(nonce, t))
      BY <1>5, <1>6 DEF SpendInv
    <2>2. call = t => ~Used(nonce, t)
      <3> SUFFICES ASSUME call = t PROVE ~Used(nonce, t)
        OBVIOUS
      <3>1. nonce[TxOf[t].account] = TxOf[t].nonce /\ TxOf[t].nonce \in Nat
        BY TxType DEF SpendInv
      <3> QED
        BY SMT, <3>1 DEF Used
    <2>3. bal[a].spent[t] \in 0 .. 2
      BY SMT DEF TypeOK, Balances
    <2> QED
      BY SMT, <2>1, <2>2, <2>3
  <1>7. CASE Stop
    <2>1. e.kind # "event"
      BY <1>3, <1>7 DEF Stop, Proceed, Reply, ExecuteEffect, TypeOK
    <2>2. call' = Nil /\ call' \notin Txs
      BY <1>7, TxAssumption DEF Stop, Reply
    <2>3. \A a \in Accounts : bal'[a].spent = bal[a].spent
      <3>1. CASE UNCHANGED bal
        BY <3>1
      <3>2. CASE e.kind = "transfer" /\ bal' = Debited(e)
        BY <1>1, <1>4, <3>2, DebitSpends
      <3> QED
        BY <1>3, <1>7, <3>1, <3>2 DEF Transfer, Proceed, Stop, Reply, ExecuteEffect
    <2> QED
      BY <1>1, <1>2, <1>6, <2>1, <2>2, <2>3 DEF SpendInv, Used
  <1>8. CASE Proceed
    <2>1. rest' = Tail(rest) /\ call' = call
      BY <1>8 DEF Proceed
    <2>2. call \in Txs => OnlyEvents'
      BY <1>1, <2>1, TailEvents DEF SpendInv, OnlyEvents
    <2>3. call' \in Txs => nonce'[TxOf[call'].account] = TxOf[call'].nonce
      BY <1>1, <2>1 DEF SpendInv
    <2>4. CASE UNCHANGED bal
      BY <1>1, <1>2, <2>1, <2>2, <2>3, <2>4 DEF SpendInv, Used
    <2>5. CASE e.kind = "transfer" /\ bal' = Spend([Debited(e) EXCEPT ![e.to].amount = @ + e.amount], e)
      <3>1. ASSUME NEW a \in Accounts, NEW t \in Txs, call # t
            PROVE  bal'[a].spent[t] = bal[a].spent[t]
        BY <2>5, <3>1, SpendSpends, <1>4, <1>1
      <3>2. ASSUME NEW a \in Accounts, call \in Txs
            PROVE  bal'[a].spent[call] \in {bal[a].spent[call], bal[a].spent[call] + 1}
        BY <2>5, <3>2, SpendSpends, <1>4, <1>1
      <3>3. ASSUME NEW a \in Accounts, NEW t \in Txs
            PROVE  /\ bal'[a].spent[t] <= 1
                   /\ bal'[a].spent[t] >= 1 => Used(nonce', t) \/ (call' = t /\ OnlyEvents')
        <4>1. CASE call = t
          <5>1. bal[a].spent[t] = 0
            BY <1>6, <2>5, <4>1
          <5>2. bal'[a].spent[t] \in {0, 1}
            BY SMT, <3>2, <4>1, <5>1
          <5> QED
            BY SMT, <2>1, <2>2, <4>1, <5>2
        <4>2. CASE call # t
          BY <1>1, <1>6, <2>5, <3>1, <4>2 DEF Used
        <4> QED
          BY <4>1, <4>2
      <3> QED
        BY <1>2, <2>1, <2>2, <2>3, <3>3 DEF SpendInv
    <2> QED
      BY <1>3, <1>8, <2>4, <2>5 DEF Transfer, Proceed, Stop, Reply, ExecuteEffect, TypeOK
  <1> QED
    BY <1>3, <1>7, <1>8 DEF Transfer, KeyEffect

LEMMA SpendInductive ==
    ASSUME CleanTxs
    PROVE  TypeOK /\ CommitInv /\ NonceInv /\ SpendInv /\ [Next]_vars => SpendInv'
  <1> SUFFICES ASSUME TypeOK, CommitInv, NonceInv, SpendInv, [Next]_vars PROVE SpendInv'
    OBVIOUS
  <1>1. CASE ExecuteEffect
    BY <1>1, EffectSpends
  <1>2. CASE Finish
    BY <1>2, FinishSpends
  <1>3. CASE FlushAccounts \/ FlushBalances \/ SaveVersion
    BY <1>3, CommitSpends
  <1>4. CASE Restart
    <2>1. call' \notin Txs
      BY <1>4, TxAssumption DEF Restart
    <2> QED
      BY <1>4, <2>1 DEF Restart, SpendInv, Covered
  <1>5. CASE UNCHANGED storeVars /\ UNCHANGED <<call, rest>>
    BY <1>5 DEF storeVars, SpendInv, OnlyEvents, Used
  <1>6. CASE UNCHANGED storeVars /\ pc = "idle" /\ call' \notin Txs
    <2>1. call \notin Txs
      BY <1>6, TxAssumption DEF TypeOK
    <2> QED
      BY <1>6, <2>1 DEF storeVars, SpendInv, Used
  <1>7. ASSUME NEW t \in Txs, ExecuteTx(t) PROVE SpendInv'
    <2>1. UNCHANGED storeVars /\ pc = "idle"
      BY <1>7 DEF ExecuteTx
    <2>2. CASE call' \notin Txs
      BY <1>6, <2>1, <2>2
    <2>3. CASE call' \in Txs
      <3>1. call' = t /\ rest' = TxOf[t].effects /\ Authorized(t)
        BY <1>7, <2>3, TxAssumption DEF ExecuteTx, executeTx, Reply, Run
      <3>2. call \notin Txs
        BY <2>1, TxAssumption DEF TypeOK
      <3> QED
        BY <2>1, <3>1, <3>2 DEF storeVars, SpendInv, Used, Authorized
    <2> QED
      BY <2>2, <2>3
  <1>8. ASSUME NEW h \in 1 .. MaxHeight, BeginBlock(h) PROVE SpendInv'
    BY <1>6, <1>8, TxAssumption DEF BeginBlock, callBeginBlockers, Reply, Run
  <1>9. CASE EndBlock
    BY <1>6, <1>9, TxAssumption DEF EndBlock, callEndBlockers, Reply, Run
  <1>10. CASE Commit
    <2>1. call' \notin Txs
      BY <1>10, TxAssumption DEF Commit, Reply, TypeOK
    <2> QED
      BY <1>6, <1>10, <2>1 DEF Commit
  <1>11. ASSUME NEW t \in Txs, CheckTx(t) PROVE SpendInv'
    BY <1>5, <1>11 DEF CheckTx, callVars
  <1>12. CASE UNCHANGED vars
    BY <1>5, <1>12 DEF vars, storeVars
  <1> QED
    BY <1>1, <1>2, <1>3, <1>4, <1>7, <1>8, <1>9, <1>10, <1>11, <1>12 DEF Next, Step

\* No transaction takes its sender's coins twice, for any number of accounts and
\* transactions, any faults and any crashes, when only the first effect of a
\* transaction can fail: Commit makes the nonce durable before the balance, so that
\* a crash between the two can lose a transfer but not repeat one.
THEOREM SpendsOnce == ASSUME CleanTxs PROVE Spec => []SpentOnce
  <1>1. Init => CommitInv
    BY DEF Init, CommitInv, BetweenBlocksDurable
  <1>2. Init => NonceInv
    <2> SUFFICES ASSUME Init PROVE NonceInv
      OBVIOUS
    <2>1. disk.nonce \in [Accounts -> Nat \cup {Nil}]
      BY TypeInit DEF TypeOK, Trees
    <2> QED
      BY <2>1, AtMostOrder DEF Init, NonceInv
  <1>3. Init => SpendInv
    <2> SUFFICES ASSUME Init PROVE SpendInv
      OBVIOUS
    <2>1. \A a \in Accounts, t \in Txs : disk.bal[a].spent[t] = 0
      BY SMT DEF Init
    <2>2. call \notin Txs
      BY TxAssumption DEF Init
    <2> QED
      BY SMT, <2>1, <2>2 DEF Init, SpendInv, Covered
  <1>4. SpendInv => SpentOnce
    BY DEF SpendInv, SpentOnce, Covered
  <1> QED
    BY <1>1, <1>2, <1>3, <1>4, CommitInductive, NonceInductive, SpendInductive, TypeCorrect, PTL
    DEF Spec

-----------------------------------------------------------------------------
(* The supply *)

INSTANCE FoldLemmas

\* The supply is a sum over the accounts, and no balance exceeds it.
LEMMA SupplyIsSum ==
    ASSUME NEW b, NEW f, f = [a \in Accounts |-> b[a].amount]
    PROVE  Supply(b) = SumFunctionOnSet(f, Accounts)
  BY DEF Supply, SumFunction

\* Balances whose amounts agree have one supply.
LEMMA SameSupply ==
    ASSUME NEW b \in [Accounts -> Balances], NEW c, \A a \in Accounts : c[a].amount = b[a].amount
    PROVE  Supply(c) = Supply(b)
  BY DEF Supply

\* The amounts that a transfer leaves.
LEMMA TransferAmounts ==
    ASSUME TypeOK, NEW e \in Transfers,
           NEW c, c = Spend([Debited(e) EXCEPT ![e.to].amount = @ + e.amount], e),
           NEW a \in Accounts
    PROVE  c[a].amount =
             IF a = e.to /\ a # e.from THEN bal[a].amount + e.amount
             ELSE IF a = e.from /\ a # e.to THEN bal[a].amount - e.amount
             ELSE bal[a].amount
  <1>1. PICK f \in Accounts, g \in Accounts, n \in Nat : f = e.from /\ g = e.to /\ n = e.amount
    BY SMT DEF Transfers
  <1>2. \A x \in Accounts : bal[x].amount \in Nat /\ DOMAIN bal[x] = {"amount", "spent"}
    BY SMT, BoundAssumption DEF TypeOK, Balances
  <1>3. DOMAIN bal = Accounts
    BY DEF TypeOK
  <1>4. PICK l : l = bal[f].amount - n
    OBVIOUS
  <1>5. PICK d : d = Debited(e)
    OBVIOUS
  <1>6. d = [bal EXCEPT ![f].amount = l]
    BY <1>1, <1>4, <1>5 DEF Debited
  <1>7. /\ DOMAIN d = Accounts
        /\ \A x \in Accounts : d[x].amount = (IF x = f THEN l ELSE bal[x].amount)
                               /\ DOMAIN d[x] = {"amount", "spent"}
    BY <1>1, <1>2, <1>3, <1>6
  <1>8. PICK m : m = d[g].amount + n
    OBVIOUS
  <1>9. PICK k : k = [d EXCEPT ![g].amount = m]
    OBVIOUS
  <1>10. /\ DOMAIN k = Accounts
         /\ \A x \in Accounts : k[x].amount = (IF x = g THEN m ELSE d[x].amount)
                                /\ DOMAIN k[x] = {"amount", "spent"}
    BY <1>1, <1>7, <1>9
  <1>11. c = Spend(k, e)
    BY <1>1, <1>5, <1>8, <1>9
  <1>12. c[a].amount = k[a].amount
    <2>1. CASE FirstSpend(e)
      <3>1. PICK r : r = [k[f].spent EXCEPT ![call] = @ + 1]
        OBVIOUS
      <3>2. c = [k EXCEPT ![f].spent = r]
        BY <1>1, <1>11, <2>1, <3>1 DEF Spend
      <3>3. PICK z : z = k[f] /\ DOMAIN z = {"amount", "spent"}
        BY <1>1, <1>10
      <3>4. PICK w : w = [z EXCEPT !.spent = r]
        OBVIOUS
      <3>5. c = [k EXCEPT ![f] = w]
        BY <3>2, <3>3, <3>4
      <3>6. c[a] = IF a = f THEN w ELSE k[a]
        BY <1>1, <1>10, <3>5
      <3>7. w.amount = z.amount
        BY <3>3, <3>4
      <3>8. CASE a = f
        BY <3>3, <3>6, <3>7, <3>8
      <3>9. CASE a # f
        BY <3>6, <3>9
      <3> QED
        BY <3>8, <3>9
    <2>2. CASE ~FirstSpend(e)
      BY <1>11, <2>2 DEF Spend
    <2> QED
      BY <2>1, <2>2
  <1> QED
    BY SMT, <1>1, <1>2, <1>4, <1>7, <1>8, <1>10, <1>12

\* A transfer that can be debited can be credited, and leaves the supply as it was.
LEMMA TransferSupply ==
    ASSUME TypeOK, Supply(bal) <= MaxAmount, NEW e \in Transfers, CanDebit(e),
           NEW c, c = Spend([Debited(e) EXCEPT ![e.to].amount = @ + e.amount], e)
    PROVE  CanCredit(e) /\ Supply(c) = Supply(bal)
  <1>1. PICK f \in Accounts, g \in Accounts, n \in Nat : f = e.from /\ g = e.to /\ n = e.amount
    BY SMT DEF Transfers
  <1>2. /\ \A x \in Accounts : bal[x].amount \in Nat /\ DOMAIN bal[x] = {"amount", "spent"}
        /\ DOMAIN bal = Accounts
        /\ MaxAmount \in Nat /\ bal[f].amount >= n /\ bal[f].amount <= MaxAmount
    BY SMT, <1>1, BoundAssumption DEF TypeOK, Balances, CanDebit
  <1>3. PICK p : p = [a \in Accounts |-> bal[a].amount]
    OBVIOUS
  <1>4. PICK q : q = [a \in Accounts |-> c[a].amount]
    OBVIOUS
  <1>5. \A a \in Accounts : p[a] = bal[a].amount /\ p[a] \in Nat
    BY <1>2, <1>3
  <1>6. ASSUME NEW a \in Accounts
        PROVE  q[a] = IF a = g /\ a # f THEN p[a] + n
                      ELSE IF a = f /\ a # g THEN p[a] - n ELSE p[a]
    <2>1. q[a] = c[a].amount /\ p[a] = bal[a].amount
      BY <1>4, <1>5
    <2> QED
      BY SMT, <1>1, <2>1, TransferAmounts
  <1>7. \A a \in Accounts : q[a] \in Nat
    BY SMT, <1>1, <1>2, <1>5, <1>6
  <1>8. IsFiniteSet(Accounts)
    BY AccountsAssumption
  <1>9. Supply(bal) = SumFunctionOnSet(p, Accounts) /\ Supply(c) = SumFunctionOnSet(q, Accounts)
    BY <1>3, <1>4, SupplyIsSum
  <1>10. PICK l : l = bal[f].amount - n
    OBVIOUS
  <1>11. Debited(e)[g].amount = IF g = f THEN l ELSE bal[g].amount
    <2>1. Debited(e) = [bal EXCEPT ![f].amount = l]
      BY <1>1, <1>10 DEF Debited
    <2> QED
      BY <1>2, <2>1
  <1>12. CASE f = g
    <2>1. CanCredit(e)
      BY SMTT(30), <1>1, <1>2, <1>10, <1>11, <1>12 DEF CanCredit
    <2>2. \A a \in Accounts : c[a].amount = bal[a].amount
      BY <1>4, <1>5, <1>6, <1>12
    <2>3. bal \in [Accounts -> Balances]
      BY DEF TypeOK
    <2> QED
      BY <2>1, <2>2, <2>3, SameSupply
  <1>13. CASE f # g
    <2>1. /\ SumFunctionOnSet(p, Accounts) =
               p[f] + p[g] + SumFunctionOnSet(p, (Accounts \ {f}) \ {g})
          /\ SumFunctionOnSet(p, (Accounts \ {f}) \ {g}) \in Nat
      BY <1>5, <1>8, <1>13, SumOfTwo
    <2>2. PICK r \in Nat : SumFunctionOnSet(p, Accounts) = p[f] + p[g] + r
      BY <2>1
    <2>3. p[f] + p[g] + r <= MaxAmount
      BY <1>9, <2>2
    <2>4. p[g] <= MaxAmount - n
      BY SMT, <1>2, <1>5, <2>3
    <2>5. CanCredit(e)
      BY <1>1, <1>5, <1>11, <1>13, <2>4 DEF CanCredit
    <2>6. q[f] = p[f] - n /\ q[g] = p[g] + n
      BY <1>6, <1>13
    <2>7. p[f] + p[g] = q[f] + q[g]
      BY SMT, <1>5, <2>6
    <2>8. \A z \in Accounts : z # f /\ z # g => p[z] = q[z]
      BY <1>6
    <2>9. SumFunctionOnSet(p, Accounts) = SumFunctionOnSet(q, Accounts)
      BY SMT, <1>5, <1>7, <1>8, <1>13, <2>7, <2>8, SumMoves
    <2> QED
      BY <1>9, <2>5, <2>9
  <1> QED
    BY <1>12, <1>13

\* An effect moves coins or leaves the balances alone.
LEMMA EffectSupply ==
    ASSUME TypeOK, SupplyInv, ExecuteEffect
    PROVE  SupplyInv' /\ Supply(bal') = Supply(bal)
  <1>1. tree'.bal = tree.bal /\ UNCHANGED disk
    BY EffectFrame DEF ExecuteEffect
  <1>2. SUFFICES Supply(bal') = Supply(bal)
    BY <1>1 DEF SupplyInv
  <1>3. PICK e \in Effects :
           \/ e.kind = "transfer" /\ Transfer(e)
           \/ UNCHANGED bal
    BY SMT DEF ExecuteEffect, TypeOK
  <1>4. CASE UNCHANGED bal
    BY <1>4
  <1>5. CASE e.kind = "transfer" /\ Transfer(e)
    <2>1. e \in Transfers
      BY <1>5 DEF Effects, Transfers, KeyEffects, Events
    <2>2. Supply(bal) <= MaxAmount
      BY DEF SupplyInv
    <2>3. CanDebit(e) => CanCredit(e)
      BY <2>1, <2>2, TransferSupply
    <2>4. CASE CanDebit(e) /\ bal' = Spend([Debited(e) EXCEPT ![e.to].amount = @ + e.amount], e)
      BY <2>1, <2>2, <2>4, TransferSupply
    <2>5. CASE UNCHANGED bal
      BY <2>5
    <2> QED
      BY <1>5, <2>3, <2>4, <2>5 DEF Transfer
  <1> QED
    BY <1>3, <1>4, <1>5

\* Commit saves balances of the whole supply at each of its three versions.
LEMMA CommitSupply ==
    ASSUME "flush" \notin Faults, TypeOK, SupplyInv, FlushAccounts \/ FlushBalances \/ SaveVersion
    PROVE  SupplyInv' /\ UNCHANGED bal
  <1>1. UNCHANGED bal /\ disk' \in {disk, tree'}
    BY CommitStep DEF CommitFails
  <1>2. tree \in Trees
    BY DEF TypeOK
  <1>3. tree'.bal \in {tree.bal, bal}
    BY <1>2 DEF FlushAccounts, FlushBalances, SaveVersion, Save, CommitFails, Trees
  <1> QED
    BY <1>1, <1>3 DEF SupplyInv

LEMMA SupplyInductive ==
    ASSUME "flush" \notin Faults
    PROVE  TypeOK /\ SupplyInv /\ [Next]_vars => SupplyInv' /\ Supply(bal') = Supply(bal)
  <1> SUFFICES ASSUME TypeOK, SupplyInv, [Next]_vars
               PROVE  SupplyInv' /\ Supply(bal') = Supply(bal)
    OBVIOUS
  <1>1. CASE ExecuteEffect
    BY <1>1, EffectSupply
  <1>2. CASE FlushAccounts \/ FlushBalances \/ SaveVersion
    BY <1>2, CommitSupply
  <1>3. CASE Restart
    BY <1>3 DEF Restart, SupplyInv
  <1>4. CASE UNCHANGED <<bal, tree, disk>>
    BY <1>4 DEF SupplyInv
  <1> QED
    BY <1>1, <1>2, <1>3, <1>4 DEF Next, Step, vars, storeVars, Finish, CheckTx, ExecuteTx,
       BeginBlock, EndBlock, Commit

\* The balances the chain starts with add up to what fits.
LEMMA SupplyInit ==
    ASSUME SupplyFits, Init
    PROVE  SupplyInv
  <1>1. PICK m \in InitialAmounts : \A a \in Accounts : bal[a].amount = m[a]
    BY SMT DEF Init
  <1>2. m \in [Accounts -> 0 .. MaxAmount]
    BY BoundAssumption
  <1>3. m = [a \in Accounts |-> bal[a].amount]
    BY <1>1, <1>2
  <1>4. Supply(bal) = SumFunction(m)
    BY <1>3 DEF Supply
  <1>5. Supply(bal) <= MaxAmount
    BY <1>4 DEF SupplyFits
  <1> QED
    BY <1>5 DEF Init, SupplyInv

\* No coin is made or lost, for any number of accounts and any transactions, hooks and
\* crashes, and any faults but a flush that fails halfway, when the coins the chain
\* starts with fit in one uint64: TransferEffects debit and credit the same amount, a
\* credit after a debit cannot overflow, and each version that Commit saves holds the
\* balances of before the block or those of after it.
THEOREM SupplyKept ==
    ASSUME SupplyFits, "flush" \notin Faults
    PROVE  Spec => []SupplyConserved
  <1>1. Init => SupplyInv
    BY SupplyInit
  <1>2. SupplyInv => SupplyConserved
    BY DEF SupplyInv, SupplyConserved
  <1> QED
    BY <1>1, <1>2, SupplyInductive, TypeCorrect, PTL DEF Spec

\* Under the same conditions no step changes the supply: not an effect, not a call that
\* fails, and not the restart after a crash.
THEOREM SupplyFixed ==
    ASSUME SupplyFits, "flush" \notin Faults
    PROVE  Spec => [][Supply(bal') = Supply(bal)]_vars
  <1>1. Init => SupplyInv
    BY SupplyInit
  <1>2. TypeOK /\ SupplyInv /\ [Next]_vars => [Supply(bal') = Supply(bal)]_vars
    BY SupplyInductive
  <1> QED
    BY <1>1, <1>2, SupplyInductive, TypeCorrect, PTL DEF Spec
=============================================================================
