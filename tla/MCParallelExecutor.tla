------------------------- MODULE MCParallelExecutor -------------------------
(***************************************************************************)
(* Instances of ParallelExecutor: lists of effects and balances.           *)
(***************************************************************************)
EXTENDS ParallelExecutor

Send(from, to, amount) ==
    [kind |-> "transfer", from |-> from, to |-> to, amount |-> amount]

OnKey(kind, key) == [kind |-> kind, key |-> key]

\* Lists of three effects over four accounts and one key.
MCEffects ==
    {Send("a", "b", 1), Send("b", "a", 2), Send("b", "b", 1), Send("c", "b", 2), Send("c", "d", 1),
     OnKey("write", "k"), OnKey("read", "k"), OnKey("delete", "k"), [kind |-> "event"]}
MCLists == {<<e, f, g>> : e, f, g \in MCEffects}

MCBalances == {[a |-> 1, b |-> 1, c |-> 2, d |-> 0], [a |-> 0, b |-> 2, c |-> 3, d |-> 3]}
=============================================================================
