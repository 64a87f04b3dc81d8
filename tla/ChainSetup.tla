----------------------------- MODULE ChainSetup -----------------------------
(***************************************************************************)
(* The start of a chain: the modules of a registry become an application   *)
(* (NewApplication in runtime/application.go, runtime/router.go), which is *)
(* initialized from a genesis and exports one (runtime/genesis.go).        *)
(*                                                                         *)
(* Init and export call one module after the other, in the order of their  *)
(* names, and each call is a step: a hook may fail, and the engine may     *)
(* execute a block between two exports.  What the hooks do is the modules' *)
(* own: init keeps the data it is given, export returns what is kept.      *)
(***************************************************************************)
EXTENDS ModuleRegistry

CONSTANTS
    ChainID,     \* the chain of the application
    Genesis,     \* the genesis files it may be given
    Values,      \* what a module keeps
    MaxHeight,   \* bound on blocks
    MaxInits     \* bound on calls of InitChain

\* Data of a module that is not named in the genesis.
NoData == "{}"

ASSUME ChainAssumption ==
    /\ {MaxHeight, MaxInits} \subseteq Nat
    /\ Nil \notin Values \cup {NoData}
    /\ \A g \in Genesis : DOMAIN g.state \subseteq Names

VARIABLES
    router,     \* the router of the application, or Nil
    data,       \* what each module keeps
    height,     \* of the last block
    genesis,    \* the genesis being initialized, or Nil
    pending,    \* the modules still to initialize
    settled,    \* the genesis that InitChain has returned success for, or Nil
    inits,      \* calls of InitChain so far
    exporting,  \* the modules still to export, or Nil
    exported,   \* the export so far, or Nil
    kept,       \* what the modules kept when the export began (for the properties)
    torn        \* whether a block was executed during the export

chainVars == <<router, data, height, genesis, pending, settled, inits, exporting, exported, kept, torn>>
vars == <<registryVars, chainVars>>

initVars == <<genesis, pending, settled, inits>>
exportVars == <<exporting, exported, kept, torn>>

Init ==
    /\ RegistryInit
    /\ router = Nil
    /\ data = [m \in Names |-> Nil]
    /\ height = 0
    /\ genesis = Nil /\ pending = <<>> /\ settled = Nil /\ inits = 0
    /\ exporting = Nil /\ exported = Nil /\ kept = Nil /\ torn = FALSE

-----------------------------------------------------------------------------
(* NewApplication *)

NewRouter == [ok |-> TRUE, msgs |-> [t \in MsgTypes |-> Nil], paths |-> [p \in QueryPaths |-> Nil],
              modules |-> {}]

\* Fault: a later module takes a message type over.
RegisterModuleOver(r, m) ==
    [ok |-> r.ok,
     msgs |-> [t \in MsgTypes |-> IF t \in Module(m).msgs THEN m ELSE r.msgs[t]],
     paths |-> [p \in QueryPaths |-> IF p \in Module(m).queries THEN m ELSE r.paths[p]],
     modules |-> r.modules \cup {m}]

RegisterModule(r, m) ==
    IF \/ ~r.ok
       \/ \E t \in Module(m).msgs : r.msgs[t] # Nil
       \/ \E p \in Module(m).queries : r.paths[p] # Nil
    THEN [r EXCEPT !.ok = FALSE]
    ELSE [ok |-> TRUE,
          msgs |-> [t \in MsgTypes |-> IF t \in Module(m).msgs THEN m ELSE r.msgs[t]],
          paths |-> [p \in QueryPaths |-> IF p \in Module(m).queries THEN m ELSE r.paths[p]],
          modules |-> r.modules \cup {m}]

\* The modules that Registry.Modules returns are registered in their order; a
\* duplicate handler fails the application.
NewApplication ==
    LET r == FoldLeft(RegisterModule, NewRouter, order)
    IN  /\ router = Nil
        /\ order # <<>>
        /\ r.ok
        /\ router' = r
        /\ UNCHANGED <<registryVars, data, height, initVars, exportVars>>

\* RouteMsg and RouteQuery: the module whose handler is called, or Nil.
RouteMsg(t) == router.msgs[t]

RouteQuery(p) == router.paths[p]

-----------------------------------------------------------------------------
(* InitChain *)

\* Without a file, the genesis is empty; validators are taken from the engine if
\* the file has none.
Effective(g, validators) ==
    LET file == IF g = Nil THEN [chain |-> ChainID, height |-> 1, validators |-> {}, state |-> [m \in {} |-> Nil]]
                ELSE g
    IN  IF file.validators = {} THEN [file EXCEPT !.validators = validators] ELSE file

ValidGenesis(g) == g.height # 0 /\ g.validators # {} /\ g.chain = ChainID

\* Fault: a module that has been initialized before is passed over.
ToInitializeOnce == Sorted({m \in router.modules : "init" \in Module(m).hooks /\ data[m] = Nil})

ToInitialize == Sorted({m \in router.modules : "init" \in Module(m).hooks})

initGenesis(g, validators) ==
    /\ pending = <<>>
    /\ inits < MaxInits
    /\ inits' = inits + 1
    /\ ValidGenesis(Effective(g, validators))
    /\ pending' = ToInitialize
    /\ IF ToInitialize = <<>>
       THEN settled' = Effective(g, validators) /\ genesis' = Nil
       ELSE genesis' = Effective(g, validators) /\ settled' = Nil

InitChain(g, validators) ==
    /\ router # Nil
    /\ initGenesis(g, validators)
    /\ UNCHANGED <<registryVars, router, data, height, exportVars>>

\* The hook of the next module; when it fails, InitChain ends there.
InitModule ==
    /\ pending # <<>>
    /\ LET m == Head(pending)
       IN  \/ /\ data' = [data EXCEPT ![m] = IF m \in DOMAIN genesis.state THEN genesis.state[m] ELSE NoData]
              /\ pending' = Tail(pending)
              /\ IF Tail(pending) = <<>> THEN settled' = genesis /\ genesis' = Nil
                                         ELSE UNCHANGED <<settled, genesis>>
           \/ /\ pending' = <<>>
              /\ genesis' = Nil
              /\ UNCHANGED <<data, settled>>
    /\ UNCHANGED <<registryVars, router, height, inits, exportVars>>

-----------------------------------------------------------------------------
(* Blocks, and ExportGenesis in a goroutine of its own *)

\* The engine executes a block, in which modules change what they keep.
Block(v) ==
    /\ router # Nil /\ pending = <<>>
    /\ height < MaxHeight
    /\ height' = height + 1
    /\ data' = [m \in Names |-> IF data[m] # Nil THEN v ELSE data[m]]
    /\ torn' = (torn \/ exporting # Nil)
    /\ UNCHANGED <<registryVars, router, initVars, exporting, exported, kept>>

ExportGenesis ==
    /\ router # Nil /\ pending = <<>> /\ exporting = Nil
    /\ exporting' = Sorted({m \in router.modules : "export" \in Module(m).hooks})
    /\ exported' = [chain |-> ChainID, height |-> height, validators |-> {}, state |-> [m \in {} |-> Nil]]
    /\ kept' = data
    /\ torn' = FALSE
    /\ UNCHANGED <<registryVars, router, data, height, initVars>>

\* Fault: the map is made anew for each module.
ExportModuleAlone ==
    /\ exporting # Nil /\ exporting # <<>>
    /\ LET m == Head(exporting)
       IN  exported' = IF data[m] = Nil THEN exported
                       ELSE [exported EXCEPT !.state = [n \in {m} |-> data[m]]]
    /\ exporting' = Tail(exporting)
    /\ UNCHANGED <<registryVars, router, data, height, initVars, kept, torn>>

\* A module that exports nothing is left out; when a hook fails there is no export.
ExportModule ==
    /\ exporting # Nil /\ exporting # <<>>
    /\ LET m == Head(exporting)
       IN  \/ /\ exported' = IF data[m] = Nil THEN exported
                              ELSE [exported EXCEPT !.state =
                                       [n \in DOMAIN @ \cup {m} |-> IF n = m THEN data[m] ELSE @[n]]]
              /\ exporting' = Tail(exporting)
           \/ exported' = Nil /\ exporting' = Nil
    /\ UNCHANGED <<registryVars, router, data, height, initVars, kept, torn>>

\* A new chain of the same modules is started from the export.
Restart(validators) ==
    /\ exporting = <<>>
    /\ initGenesis(exported, validators)
    /\ data' = [m \in Names |-> Nil]
    /\ height' = 0
    /\ exporting' = Nil
    /\ UNCHANGED <<registryVars, router, exported, kept, torn>>

-----------------------------------------------------------------------------
\* A program has its modules before it has its application.
Setup(A) == router = Nil /\ A /\ UNCHANGED chainVars

Next ==
    \/ Setup(BuilderNext)
    \/ Setup(RegistryNext)
    \/ NewApplication
    \/ \E g \in Genesis \cup {Nil}, validators \in {{}, {"v"}} : InitChain(g, validators)
    \/ InitModule
    \/ \E v \in Values : Block(v)
    \/ ExportGenesis
    \/ ExportModule
    \/ \E validators \in {{}, {"v"}} : Restart(validators)

Spec == Init /\ [][Next]_vars

-----------------------------------------------------------------------------
(* Properties *)

Kept == [Names -> Values \cup {NoData, Nil}]

TypeOK ==
    /\ object \in Modules
    /\ modules \subseteq Known
    /\ order \in Seq(modules)
    /\ router = Nil \/ (router.modules \subseteq modules /\ router.ok)
    /\ data \in Kept
    /\ height \in 0 .. MaxHeight
    /\ pending \in Seq(Names)
    /\ pending # <<>> => genesis # Nil
    /\ inits \in 0 .. MaxInits
    /\ exported # Nil => kept \in Kept
    /\ exporting \in Seq(Names) \cup {Nil}

\* The types hold, and a message or a query reaches the one module that has a
\* handler for it, and every handler of the application's modules is reached,
\* whatever the order in which the modules were registered.
HandlersReached ==
    /\ TypeOK
    /\ router # Nil =>
        /\ \A t \in MsgTypes, m \in Names :
             RouteMsg(t) = m <=> (m \in router.modules /\ t \in Module(m).msgs)
        /\ \A p \in QueryPaths, m \in Names :
             RouteQuery(p) = m <=> (m \in router.modules /\ p \in Module(m).queries)

\* When InitChain has succeeded, every module keeps the data of that genesis, also
\* after an attempt that failed halfway with another one.
InitIsComplete ==
    settled # Nil /\ height = 0 =>
        \A m \in router.modules : "init" \in Module(m).hooks =>
            data[m] = IF m \in DOMAIN settled.state THEN settled.state[m] ELSE NoData

\* A chain that is started from an export keeps what the exporting chain kept, if
\* no block was executed during the export.
ExportRoundTrips ==
    settled # Nil /\ exported # Nil /\ settled.state = exported.state /\ exporting = Nil
    /\ height = 0 /\ ~torn =>
        \A m \in router.modules :
            {"init", "export"} \subseteq Module(m).hooks /\ kept[m] # Nil => data[m] = kept[m]
=============================================================================
