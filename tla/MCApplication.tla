---------------------------- MODULE MCApplication ----------------------------
(***************************************************************************)
(* Instances of Application for TLC.                                       *)
(***************************************************************************)
EXTENDS Application, TLC

MCAccounts == 1 .. 2

Send(from, to, amount) ==
    [kind |-> "transfer", from |-> from, to |-> to, amount |-> amount]

OnKey(kind, key) == [kind |-> kind, key |-> key]

Event == [kind |-> "event"]

Tx(account, n, effects) ==
    [account |-> account, nonce |-> n, valid |-> TRUE, routed |-> TRUE, effects |-> effects]

\* Transactions of one MsgSend: a transfer and its event.
SendTxs ==
    ("t1" :> Tx(1, 0, <<Send(1, 2, 1), Event>>)) @@
    ("t2" :> Tx(1, 1, <<Send(1, 2, 1), Event>>)) @@
    ("t3" :> Tx(2, 0, <<Send(2, 1, 1), Event>>))

\* Two messages, of which the second may lack funds: SpentOnce fails on these.
TwoSendTxs ==
    ("t1" :> Tx(1, 0, <<Send(1, 2, 1), Event, Send(1, 2, 1), Event>>)) @@
    ("t2" :> Tx(2, 0, <<Send(2, 1, 1), Event>>))

\* Every kind of effect, and transactions that are turned away on the way.
MixedTxs ==
    ("t1" :> Tx(1, 0, <<OnKey("write", "k"), Send(1, 2, 1)>>)) @@
    ("t2" :> Tx(2, 0, <<OnKey("read", "k"), OnKey("delete", "k"), Event>>)) @@
    ("t3" :> [Tx(1, 0, <<>>) EXCEPT !.routed = FALSE]) @@
    ("t4" :> [Tx(1, 0, <<>>) EXCEPT !.valid = FALSE]) @@
    ("t5" :> Tx(2, 0, <<>>))

NoEffects == <<>>
MarkBegin == <<OnKey("write", "b")>>
MarkEnd == <<OnKey("read", "b"), Event>>

TwoCoins == {<<2, 0>>, <<1, 1>>}
AnyCoins == [MCAccounts -> 0 .. MaxAmount]
=============================================================================
