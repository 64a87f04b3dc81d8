-------------------------- MODULE MCModuleHandlers --------------------------
(***************************************************************************)
(* ModuleHandlers for TLC: two accounts, two denominations, up to two      *)
(* inputs and two outputs, some of them not valid,                         *)
(* and balances of the application that are, or are not, those the         *)
(* capabilities hold.                                                      *)
(***************************************************************************)
EXTENDS ModuleHandlers

MCDenoms == 1 .. 2
MCAmounts == 1 .. 2

Side(a, coins) == [address |-> a, coins |-> coins]

MCSides ==
    {Side(a, c) : a \in Accounts, c \in {<<Coin(1, 1)>>, <<Coin(1, 2)>>, <<Coin(1, 1), Coin(2, 1)>>}}
        \cup {Side(NoName, <<Coin(1, 1)>>), Side("bob", <<Coin(2, 1), Coin(1, 1)>>), Side("bob", <<Coin(1, 0)>>)}

Each(n) == [d \in MCDenoms |-> n]

MCInitialFunds == {[a \in Holders |-> Each(2)], [a \in Holders |-> IF a = Pool THEN Each(3) ELSE Each(1)]}
MCInitialHeld == {[a \in Accounts |-> Each(n)] : n \in 1 .. 2}
MCInitialAccounts == {[a \in Accounts |-> x] : x \in {"keys", Nil}}
MCInitialShares == {[k \in Accounts \X PubKeys |-> n] : n \in {0, 2}}
=============================================================================
