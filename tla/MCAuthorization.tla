---------------------------- MODULE MCAuthorization ----------------------------
(***************************************************************************)
(* Three accounts that delegate to each other, two keys.  Alice can be     *)
(* satisfied through bob and carol, bob through carol or alice.            *)
(***************************************************************************)
EXTENDS Authorization, TLC

CONSTANTS alice, bob, carol, k1, k2

Auth(t, keys, accts) == [threshold |-> t, keys |-> keys, accounts |-> accts]

None == [x \in {} |-> 0]

\* The last one of alice is refused by ValidateBasic: its weights overflow.
MCAuthorities ==
    (alice :> {Auth(2, k1 :> 1, bob :> 1 @@ carol :> 1), Auth(1, k1 :> 4 @@ k2 :> 2, None)}) @@
    (bob :> {Auth(1, k2 :> 1, alice :> 1 @@ carol :> 1), Auth(2, k1 :> 1 @@ k2 :> 1, None)}) @@
    (carol :> {Auth(1, k2 :> 1, None), Auth(3, k1 :> 1, alice :> 2)})

S(k) == [key |-> k, good |-> TRUE]
Bad(k) == [key |-> k, good |-> FALSE]

\* No delegation; two delegates; a delegate named on two branches; a cycle; a
\* chain that is too long; lists with bad and repeated signatures.
MCDelegations == {
    [x \in {} |-> <<>>],
    (<<bob>> :> <<S(k2)>>) @@ (<<carol>> :> <<S(k2)>>),
    (<<bob>> :> <<>>) @@ (<<carol>> :> <<Bad(k2), S(k2)>>) @@ (<<bob, carol>> :> <<S(k2)>>),
    (<<bob>> :> <<>>) @@ (<<bob, alice>> :> <<S(k1)>>),
    (<<bob>> :> <<Bad(k2)>>) @@ (<<bob, carol>> :> <<>>) @@ (<<bob, carol, alice>> :> <<S(k1), S(k2)>>),
    (<<bob>> :> <<S(k1), S(k1)>>) }
=============================================================================
