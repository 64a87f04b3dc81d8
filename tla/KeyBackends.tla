----------------------------- MODULE KeyBackends -----------------------------
(***************************************************************************)
(* The EncryptedKeyStore backends: MemoryKeyStore, FileKeyStore and        *)
(* KeychainStore (crypto/memory_keystore.go, file_keystore.go,             *)
(* keychain_store.go).  Each holds its own mutex for the whole of an       *)
(* operation, so an operation is one step from a backend state to one of   *)
(* its outcomes; every call to the disk or to the keychain in between may  *)
(* fail.                                                                   *)
(*                                                                         *)
(* A backend state is [kind, entries, index, closed].  The index is the    *)
(* keychain's list of names, which it keeps as one comma-separated string: *)
(* it is modelled by the set of names that splitting the string gives.     *)
(***************************************************************************)
EXTENDS FiniteSets

CONSTANTS
    Names,      \* valid key names
    Keys,       \* key material
    Parts,      \* Parts[n]: the pieces of n between its commas, {n} if it has none
    Faults,     \* calls to the disk or the keychain that may fail
    None,       \* no entry
    Partial     \* a key file that was not written to its end

Kinds == {"memory", "file", "keychain"}

Errors == {"exists", "notFound", "closed", "io"}

FaultKinds == {"stat", "write", "read", "remove", "get", "set", "unset", "rollback",
               "getIndex", "setIndex", "probe"}

Backends == [kind : Kinds, entries : [Names -> Keys \cup {None, Partial}],
             index : SUBSET Names, closed : BOOLEAN]

ASSUME FaultsAssumption == Faults \subseteq FaultKinds
ASSUME PartsAssumption == Parts \in [Names -> SUBSET Names]
ASSUME NoneAssumption ==
    None \notin Keys \cup Errors /\ Partial \notin Keys \cup {None} /\ Keys \cap Errors = {}

\* What an operation can end in: the state after it and its error, or None.
Outcome(b, e) == [after |-> b, err |-> e]

Ok(b) == Outcome(b, None)

\* A failing call: one outcome more if the fault is in the model.
If(fault, outcomes) == IF fault \in Faults THEN outcomes ELSE {}

Entered(b) == {n \in Names : b.entries[n] # None}

With(b, n, k) == [b EXCEPT !.entries[n] = k]

-----------------------------------------------------------------------------
(* MemoryKeyStore *)

\* Fault: a name that is taken gets the new key.
MemoryStoreOverwrites(b, n, k) == {Ok(With(b, n, k))}

MemoryStore(b, n, k) ==
    IF b.entries[n] # None THEN {Outcome(b, "exists")} ELSE {Ok(With(b, n, k))}

MemoryLoad(b, n) == IF b.entries[n] = None THEN {"notFound"} ELSE {b.entries[n]}

MemoryDelete(b, n) ==
    IF b.entries[n] = None THEN {Outcome(b, "notFound")} ELSE {Ok(With(b, n, None))}

-----------------------------------------------------------------------------
(* FileKeyStore *)

\* Any error of os.Stat counts as "no such file"; a failed os.WriteFile leaves
\* what it has written.
FileStore(b, n, k) ==
    (IF b.entries[n] # None THEN {Outcome(b, "exists")} ELSE {}) \cup
    (IF b.entries[n] = None \/ "stat" \in Faults
     THEN {Ok(With(b, n, k))} \cup If("write", {Outcome(b, "io"), Outcome(With(b, n, Partial), "io")})
     ELSE {})

\* A file that is not complete does not parse.
FileLoad(b, n) ==
    If("read", {"io"}) \cup
    (IF b.entries[n] = None THEN {"notFound"}
     ELSE IF b.entries[n] = Partial THEN {"io"} ELSE {b.entries[n]})

FileDelete(b, n) ==
    IF b.entries[n] = None THEN {Outcome(b, "notFound")}
    ELSE {Ok(With(b, n, None))} \cup If("remove", {Outcome(b, "io")})

-----------------------------------------------------------------------------
(* KeychainStore: an entry per key and the index *)

\* addToKeyList: the error of the first call that fails, or the new index.
AddToKeyList(b, n) ==
    {Ok(IF n \in b.index THEN b ELSE [b EXCEPT !.index = b.index \cup Parts[n]])} \cup
    If("getIndex", {Outcome(b, "io")}) \cup If("setIndex", {Outcome(b, "io")})

\* removeFromKeyList
RemoveFromKeyList(b, n) ==
    {Ok([b EXCEPT !.index = b.index \ {n}])} \cup
    If("getIndex", {Outcome(b, "io")}) \cup If("setIndex", {Outcome(b, "io")})

\* Fault: an index that cannot be updated leaves the entry behind.
KeychainStoreNoRollback(b, n, k) ==
    If("get", {Outcome(b, "io")}) \cup
    (IF b.entries[n] # None THEN {Outcome(b, "exists")}
     ELSE If("set", {Outcome(b, "io")}) \cup AddToKeyList(With(b, n, k), n))

\* The entry first, then the index; an index that cannot be updated rolls the
\* entry back, if the keychain lets it.
KeychainStore(b, n, k) ==
    If("get", {Outcome(b, "io")}) \cup
    (IF b.entries[n] # None THEN {Outcome(b, "exists")}
     ELSE LET set == AddToKeyList(With(b, n, k), n)
          IN  If("set", {Outcome(b, "io")}) \cup
              {o \in set : o.err = None} \cup
              {Outcome(b, o.err) : o \in {f \in set : f.err # None}} \cup
              If("rollback", {o \in set : o.err # None}))

KeychainLoad(b, n) ==
    If("get", {"io"}) \cup (IF b.entries[n] = None THEN {"notFound"} ELSE {b.entries[n]})

\* The entry first, then the index; a failure to update the index is not reported.
KeychainDelete(b, n) ==
    If("get", {Outcome(b, "io")}) \cup
    (IF b.entries[n] = None THEN {Outcome(b, "notFound")}
     ELSE If("unset", {Outcome(b, "io")}) \cup
          {Ok(o.after) : o \in RemoveFromKeyList(With(b, n, None), n)})

\* RepairIndex(probeKeys) with each probed name asked for once: indexed names
\* without an entry go, probed names with one are added.  An error of a probe is
\* taken for "no such key"; any other error ends the repair.
RepairIndex(b, probe) ==
    LET orphans == (probe \cap Entered(b)) \ b.index
        found == IF "probe" \in Faults THEN SUBSET orphans ELSE {orphans}
        Pieces(S) == UNION {Parts[n] : n \in S}
    IN  {Ok([b EXCEPT !.index = (b.index \cap Entered(b)) \cup Pieces(S)]) : S \in found} \cup
        If("getIndex", {Outcome(b, "io")}) \cup If("get", {Outcome(b, "io")}) \cup
        If("setIndex", {Outcome(b, "io")})

-----------------------------------------------------------------------------
(* The interface, by kind of backend.  A closed backend refuses everything. *)

Store(b, n, k) ==
    IF b.closed THEN {Outcome(b, "closed")}
    ELSE CASE b.kind = "memory"   -> MemoryStore(b, n, k)
           [] b.kind = "file"     -> FileStore(b, n, k)
           [] b.kind = "keychain" -> KeychainStore(b, n, k)

Load(b, n) ==
    IF b.closed THEN {"closed"}
    ELSE CASE b.kind = "memory"   -> MemoryLoad(b, n)
           [] b.kind = "file"     -> FileLoad(b, n)
           [] b.kind = "keychain" -> KeychainLoad(b, n)

Delete(b, n) ==
    IF b.closed THEN {Outcome(b, "closed")}
    ELSE CASE b.kind = "memory"   -> MemoryDelete(b, n)
           [] b.kind = "file"     -> FileDelete(b, n)
           [] b.kind = "keychain" -> KeychainDelete(b, n)

\* The names List answers with.
List(b) == IF b.kind = "keychain" THEN b.index ELSE Entered(b)

\* A crash during Store or Delete: a file may be half written, an entry may be
\* there without its index or the other way round.  Memory is lost.
Crashed(b) == IF b.kind = "memory" THEN [b EXCEPT !.entries = [n \in Names |-> None]] ELSE b

TornStores(b, n, k) ==
    IF b.closed \/ b.entries[n] # None THEN {}
    ELSE CASE b.kind = "memory"   -> {}
           [] b.kind = "file"     -> {With(b, n, Partial)}
           [] b.kind = "keychain" -> {With(b, n, k)}

TornDeletes(b, n) ==
    IF b.kind = "keychain" /\ ~b.closed /\ b.entries[n] # None THEN {With(b, n, None)} ELSE {}
=============================================================================
