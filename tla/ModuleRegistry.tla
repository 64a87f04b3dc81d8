--------------------------- MODULE ModuleRegistry ---------------------------
(***************************************************************************)
(* The builder of a module (module/builder.go), its validation             *)
(* (module/module.go) and the registry (module/registry.go).               *)
(*                                                                         *)
(* Build of the builder returns the module it has been filling, not a      *)
(* copy: a later call of the builder changes the module that has been      *)
(* registered.  Module and handler names are numbers, in the order of the  *)
(* strings they stand for.                                                 *)
(***************************************************************************)
EXTENDS Naturals, FiniteSets, SequencesExt

CONSTANTS
    Names,       \* names of modules
    MsgTypes,    \* message types
    QueryPaths,  \* query paths
    Hooks,       \* hooks, of "begin", "end", "init" and "export"
    MaxCalls,    \* bound on the calls of the builder before Build and after
    Catalogues,  \* the modules a program may have besides the one it builds
    Nil          \* an empty name, a nil handler, no module

Modules == [deps : Seq(Names), msgs : SUBSET MsgTypes, queries : SUBSET QueryPaths,
            hooks : SUBSET Hooks]

ASSUME CallsAssumption == MaxCalls \in Nat
ASSUME NamesAssumption == Names \subseteq Nat /\ IsFiniteSet(Names) /\ Nil \notin Names
ASSUME CataloguesAssumption == \A c \in Catalogues : DOMAIN c \subseteq Names /\ c \in [DOMAIN c -> Modules]

VARIABLES
    given,    \* the modules that are not built here
    name,     \* the name of the one that is
    object,   \* the module of the builder
    calls,    \* calls of the builder so far
    err,      \* whether the builder has recorded an error
    built,    \* whether Build has returned it
    modules,  \* Registry.modules: the names
    order,    \* Registry.order
    reused    \* whether the builder has changed the module after it was registered

registryVars == <<given, name, object, calls, err, built, modules, order, reused>>

Module(m) == IF m = name THEN object ELSE given[m]

Known == DOMAIN given \cup (IF built THEN {name} ELSE {})

Deps(m) == ToSet(Module(m).deps)

Empty == [deps |-> <<>>, msgs |-> {}, queries |-> {}, hooks |-> {}]

RegistryInit ==
    /\ given \in Catalogues
    /\ name \in Names \ DOMAIN given
    /\ object = Empty
    /\ calls = 0
    /\ err = FALSE
    /\ built = FALSE
    /\ modules = {}
    /\ order = <<>>
    /\ reused = FALSE

-----------------------------------------------------------------------------
(* ModuleBuilder.  After the first error no call does anything.            *)

Called == ~err /\ calls < MaxCalls /\ calls' = calls + 1

Fail == err' = TRUE /\ UNCHANGED <<given, name, object, built, modules, order, reused>>

Fill(o) ==
    /\ object' = o
    /\ reused' = (reused \/ name \in modules)
    /\ UNCHANGED <<given, name, err, built, modules, order>>

WithDependency(d) ==
    /\ Called
    /\ IF d = Nil \/ d = name \/ d \in ToSet(object.deps) THEN Fail
       ELSE Fill([object EXCEPT !.deps = Append(@, d)])

WithMsgHandler(t) ==
    /\ Called
    /\ IF t = Nil \/ t \in object.msgs THEN Fail ELSE Fill([object EXCEPT !.msgs = @ \cup {t}])

WithQueryHandler(p) ==
    /\ Called
    /\ IF p = Nil \/ p \in object.queries THEN Fail
       ELSE Fill([object EXCEPT !.queries = @ \cup {p}])

\* WithBeginBlocker, WithEndBlocker, WithInitGenesis, WithExportGenesis.
WithHook(h) ==
    /\ Called
    /\ IF h = Nil \/ h \in object.hooks THEN Fail ELSE Fill([object EXCEPT !.hooks = @ \cup {h}])

\* Validation of a module; a nil handler cannot come from the builder.
ValidateModule(m) ==
    LET deps == Module(m).deps
    IN  /\ \A i \in 1 .. Len(deps) : deps[i] # m
        /\ \A i, j \in 1 .. Len(deps) : deps[i] = deps[j] => i = j

Build ==
    /\ ~err /\ ~built
    /\ ValidateModule(name)
    /\ built' = TRUE
    /\ UNCHANGED <<given, name, object, calls, err, modules, order, reused>>

-----------------------------------------------------------------------------
(* Registry *)

Register(m) ==
    /\ m \in Known \ modules
    /\ ValidateModule(m)
    /\ Deps(m) \subseteq modules
    /\ modules' = modules \cup {m}
    /\ UNCHANGED <<given, name, object, calls, err, built, order, reused>>

Sorted(S) == SetToSortSeq(S, <)

\* Fault: the queue is not sorted again when modules are added to it.
NextOfUnsorted(s) ==
    LET current == Head(s.queue)
        degree == [m \in modules |-> IF current \in Deps(m) THEN s.degree[m] - 1 ELSE s.degree[m]]
    IN  [queue |-> Tail(s.queue) \o Sorted({m \in modules : current \in Deps(m) /\ degree[m] = 0}),
         degree |-> degree, result |-> Append(s.result, current)]

\* One round of Kahn's algorithm: the first module of the queue is taken, and the
\* modules that waited only for it join the queue, which is sorted again.
NextOf(s) ==
    LET current == Head(s.queue)
        degree == [m \in modules |-> IF current \in Deps(m) THEN s.degree[m] - 1 ELSE s.degree[m]]
        freed == {m \in modules : current \in Deps(m) /\ degree[m] = 0}
    IN  [queue |-> Sorted(ToSet(Tail(s.queue)) \cup freed),
         degree |-> degree, result |-> Append(s.result, current)]

topologicalSort ==
    LET degree == [m \in modules |-> Len(Module(m).deps)]
        rounds[i \in 0 .. Cardinality(modules)] ==
            IF i = 0
            THEN [queue |-> Sorted({m \in modules : degree[m] = 0}), degree |-> degree, result |-> <<>>]
            ELSE IF rounds[i - 1].queue = <<>> THEN rounds[i - 1] ELSE NextOf(rounds[i - 1])
    IN  rounds[Cardinality(modules)].result

\* Build of the registry fails if a module is left over.
Sortable == Len(topologicalSort) = Cardinality(modules)

BuildRegistry ==
    /\ modules # {}
    /\ Sortable
    /\ order' = topologicalSort
    /\ UNCHANGED <<given, name, object, calls, err, built, modules, reused>>

-----------------------------------------------------------------------------
BuilderNext ==
    \/ \E d \in Names \cup {Nil} : WithDependency(d)
    \/ \E t \in MsgTypes : WithMsgHandler(t)
    \/ \E p \in QueryPaths : WithQueryHandler(p)
    \/ \E h \in Hooks : WithHook(h)
    \/ Build

RegistryNext == (\E m \in Names : Register(m)) \/ BuildRegistry

-----------------------------------------------------------------------------
(* Properties *)

IsOrder(s) == \A i \in 1 .. Len(s) : Deps(s[i]) \subseteq {s[j] : j \in 1 .. i - 1}

Precedes(s, t) == \E i \in 1 .. Len(s) : s[i] < t[i] /\ \A j \in 1 .. i - 1 : s[j] = t[j]

\* Build of the registry never reports a cycle; the order has every module after the
\* modules it depends on, and of all such orders of these modules it is the one with
\* the smallest names first: it does not depend on the order of registration or of a
\* map.  A module that was changed through its builder after it had been registered
\* is excepted.
LeastOrder ==
    ~reused =>
        /\ Sortable
        /\ IsOrder(order)
        /\ Len(order) = Cardinality(ToSet(order))
        /\ \A s \in SetToSeqs(ToSet(order)) : IsOrder(s) /\ s # order => Precedes(order, s)
=============================================================================
