---------------------------- MODULE MCChainSetup ----------------------------
(***************************************************************************)
(* Three modules: two that are given, and one that is built.               *)
(***************************************************************************)
EXTENDS ChainSetup, TLC

M(deps, msgs, hooks) == [deps |-> deps, msgs |-> msgs, queries |-> {}, hooks |-> hooks]

Both == {"init", "export"}

\* A module that depends on one with a larger name; two modules with the same
\* message; modules that depend on the one that is built; a module that
\* ValidateModule refuses.
MCCatalogues == {
    (1 :> M(<<3>>, {1}, Both)) @@ (3 :> M(<<>>, {}, Both)),
    (2 :> M(<<>>, {1}, {"init"})) @@ (3 :> M(<<>>, {}, Both)),
    (1 :> M(<<2>>, {}, {})) @@ (3 :> M(<<2, 1>>, {1}, Both)),
    (2 :> M(<<2>>, {}, {})) @@ (3 :> M(<<>>, {1}, {"export"})) }

MCGenesis == {
    [chain |-> "c", height |-> 1, validators |-> {}, state |-> (1 :> "x") @@ (2 :> "x") @@ (3 :> "x")],
    [chain |-> "d", height |-> 1, validators |-> {"v"}, state |-> [m \in {} |-> Nil]] }
=============================================================================
