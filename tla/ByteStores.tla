----------------------------- MODULE ByteStores -----------------------------
(***************************************************************************)
(* The stores of byte strings under the typed stores: a MemoryStore        *)
(* (store/memory_store.go) that several PrefixStores share                 *)
(* (store/prefix.go), their iterators, and the batches of MemDB            *)
(* (store/iavl_store.go).                                                  *)
(*                                                                         *)
(* A key is a sequence of bytes, a byte a number up to MaxByte, which      *)
(* stands for 0xFF.  An iterator is what the wrappers make of it together: *)
(* the items of the memory iterator, seen through the prefix.              *)
(***************************************************************************)
EXTENDS Naturals, FiniteSets, SequencesExt

CONSTANTS
    MaxByte,    \* the largest byte
    Namespaces, \* the prefixes of the prefix stores
    Keys,       \* keys used in the prefix stores
    RawKeys,    \* keys used in the memory store itself
    Bounds,     \* bounds given to iterators
    Accounts,   \* account names, in bytes
    Slash,      \* the byte between account and denomination
    Values,
    Iters,      \* iterators
    DbKeys,     \* keys of the database
    MaxCalls,   \* bound on calls that write
    Nil         \* nil

Bytes == 0 .. MaxByte

\* No prefix is a prefix of another one or of a raw key.
ASSUME BytesAssumption ==
    /\ {MaxByte, Slash, MaxCalls} \subseteq Nat
    /\ \A p \in Namespaces : p \in Seq(Bytes) /\ p # <<>>
    /\ Keys \cup RawKeys \subseteq Seq(Bytes)
    /\ Keys \cap {<<>>} = {}
    /\ \A p \in Namespaces, q \in Namespaces \cup RawKeys : p # q => ~IsPrefix(p, q)
    /\ RawKeys \cap Namespaces = {}
    /\ Nil \notin Seq(Bytes) \cup Values

VARIABLES
    data,      \* MemoryStore.data
    shut,      \* the prefix stores that are closed
    iter,      \* the iterators
    db,        \* MemDB.data
    batch,     \* memDBBatch.ops: for each key the value to write, "delete" or nothing
    writing,   \* keys Write has still to apply, or Nil
    calls,     \* calls so far
    writer,    \* for each key of data the store it was written through (for the properties)
    log        \* the calls on the batch and the database, oldest first (for the properties)

vars == <<data, shut, iter, db, batch, writing, calls, writer, log>>
dbVars == <<db, batch, writing, log>>

Init ==
    /\ data = [k \in {} |-> Nil]
    /\ shut = {}
    /\ iter = [i \in Iters |-> Nil]
    /\ db = [k \in DbKeys |-> Nil]
    /\ batch = [k \in {} |-> Nil]
    /\ writing = Nil
    /\ calls = 0
    /\ writer = [k \in {} |-> Nil]
    /\ log = <<>>

Call == calls < MaxCalls /\ calls' = calls + 1

With(f, k, v) == [x \in DOMAIN f \cup {k} |-> IF x = k THEN v ELSE f[x]]

Without(f, k) == [x \in DOMAIN f \ {k} |-> f[x]]

\* bytes.Compare(a, b) < 0.
Less(a, b) ==
    \/ IsStrictPrefix(a, b)
    \/ \E i \in 1 .. Len(a) : i <= Len(b) /\ a[i] < b[i] /\ \A j \in 1 .. i - 1 : a[j] = b[j]

-----------------------------------------------------------------------------
(* PrefixStore over MemoryStore *)

\* Fault: the copy of the prefix is one byte short.
prefixKeyShort(p, k) == Front(p) \o k

prefixKey(p, k) == p \o k

\* Fault: the last byte is incremented as it is.
prefixBoundWraps(p) == [p EXCEPT ![Len(p)] = (@ + 1) % (MaxByte + 1)]

\* The last byte that can be incremented is, and what follows it is cut off.
prefixBound(p) ==
    LET below == {i \in 1 .. Len(p) : p[i] < MaxByte}
        last == CHOOSE i \in below : \A j \in below : j <= i
    IN  IF below = {} THEN Nil ELSE [SubSeq(p, 1, last) EXCEPT ![last] = @ + 1]

Has(p, k) == prefixKey(p, k) \in DOMAIN data

Get(p, k) == IF Has(p, k) THEN data[prefixKey(p, k)] ELSE Nil

Set(p, k, v) ==
    /\ Call /\ p \notin shut
    /\ data' = With(data, prefixKey(p, k), v)
    /\ writer' = With(writer, prefixKey(p, k), p)
    /\ UNCHANGED <<shut, iter, dbVars>>

Delete(p, k) ==
    /\ Call /\ p \notin shut
    /\ data' = Without(data, prefixKey(p, k))
    /\ writer' = Without(writer, prefixKey(p, k))
    /\ UNCHANGED <<shut, iter, dbVars>>

\* Closing a prefix store leaves the parent open: others share it.
Close(p) ==
    /\ Call /\ p \notin shut
    /\ shut' = shut \cup {p}
    /\ UNCHANGED <<data, iter, dbVars, writer>>

\* Another user of the memory store.
SetRaw(k, v) ==
    /\ Call
    /\ data' = With(data, k, v)
    /\ writer' = With(writer, k, <<>>)
    /\ UNCHANGED <<shut, iter, dbVars>>

-----------------------------------------------------------------------------
(* Iterators *)

\* MemoryStore.iterator: the keys from start up to, not including, end.
iterator(start, end, reverse) ==
    LET inRange == {k \in DOMAIN data : (start # Nil => ~Less(k, start)) /\ (end # Nil => Less(k, end))}
        keys == SetToSortSeq(inRange, Less)
    IN  IF reverse THEN Reverse(keys) ELSE keys

\* What the iterator copies: each key with its value.
Items(keys) == [n \in 1 .. Len(keys) |-> <<keys[n], data[keys[n]]>>]

\* The entries of the store whose keys are in S, in order: what the caller wants.
Wanted(p, S, reverse) ==
    LET keys == SetToSortSeq({k \in S : p \o k \in DOMAIN data}, Less)
        entries == [n \in 1 .. Len(keys) |-> <<keys[n], data[p \o keys[n]]>>]
    IN  IF reverse THEN Reverse(entries) ELSE entries

Open(i, p, start, end, reverse, wanted) ==
    /\ Call /\ p \notin shut
    /\ iter[i] = Nil
    /\ LET from == IF start = Nil THEN p ELSE prefixKey(p, start)
           to == IF end = Nil THEN prefixBound(p) ELSE prefixKey(p, end)
       IN  iter' = [iter EXCEPT ![i] =
              [prefix |-> p, items |-> Items(iterator(from, to, reverse)), index |-> 1, closed |-> FALSE,
               got |-> <<>>, wanted |-> wanted]]
    /\ UNCHANGED <<data, shut, dbVars, writer>>

\* Iterator and ReverseIterator.
Iterator(i, p, start, end, reverse) ==
    Open(i, p, start, end, reverse,
         Wanted(p, {k \in Keys : (start # Nil => ~Less(k, start)) /\ (end # Nil => Less(k, end))}, reverse))

\* AccountIterator of the balance store: the keys that begin with the account and
\* a slash.
AccountIterator(i, p, a) ==
    LET own == a \o <<Slash>>
    IN  Open(i, p, own, prefixBound(own), FALSE, Wanted(p, {k \in Keys : IsPrefix(own, k)}, FALSE))

Valid(it) == ~it.closed /\ it.index \in 1 .. Len(it.items) /\ IsPrefix(it.prefix, it.items[it.index][1])

\* Key and Value of the entry, the prefix cut off.
Entry(it) ==
    LET item == it.items[it.index]
    IN  <<SubSeq(item[1], Len(it.prefix) + 1, Len(item[1])), item[2]>>

\* The caller reads the entry and advances.
Advance(i) ==
    /\ iter[i] # Nil
    /\ Valid(iter[i])
    /\ iter' = [iter EXCEPT ![i].got = Append(@, Entry(iter[i])), ![i].index = @ + 1]
    /\ UNCHANGED <<data, shut, dbVars, calls, writer>>

\* Closing an iterator drops its items.
CloseIterator(i) ==
    /\ iter[i] # Nil /\ ~iter[i].closed
    /\ iter' = [iter EXCEPT ![i].closed = TRUE, ![i].items = <<>>]
    /\ UNCHANGED <<data, shut, dbVars, calls, writer>>

-----------------------------------------------------------------------------
(* MemDB and its batches *)

dbFrame == UNCHANGED <<data, shut, iter, writer>>

\* Set and Delete of the database itself.
DbSet(k, v) ==
    /\ Call
    /\ db' = [db EXCEPT ![k] = v]
    /\ log' = Append(log, <<"db", k, v>>)
    /\ dbFrame /\ UNCHANGED <<batch, writing>>

\* Fault: a key that is in the batch is left as it is.
BatchFirst(k, v) ==
    /\ Call /\ writing = Nil
    /\ batch' = IF k \in DOMAIN batch THEN batch ELSE With(batch, k, v)
    /\ log' = Append(log, <<"batch", k, v>>)
    /\ dbFrame /\ UNCHANGED <<db, writing>>

\* Set and Delete of the batch; Nil deletes.
BatchPut(k, v) ==
    /\ Call /\ writing = Nil
    /\ batch' = With(batch, k, v)
    /\ log' = Append(log, <<"batch", k, v>>)
    /\ dbFrame /\ UNCHANGED <<db, writing>>

\* Write walks the map in any order, and locks the database for each key alone.
Write ==
    /\ writing = Nil /\ DOMAIN batch # {}
    /\ writing' = DOMAIN batch
    /\ dbFrame /\ UNCHANGED <<db, batch, calls, log>>

WriteKey(k) ==
    /\ writing # Nil /\ k \in writing
    /\ db' = [db EXCEPT ![k] = batch[k]]
    /\ writing' = writing \ {k}
    /\ log' = Append(log, <<"written", k, batch[k]>>)
    /\ dbFrame /\ UNCHANGED <<batch, calls>>

\* The batch is closed when it has been written.
BatchClose ==
    /\ writing = {}
    /\ writing' = Nil
    /\ batch' = [k \in {} |-> Nil]
    /\ log' = <<>>
    /\ dbFrame /\ UNCHANGED <<db, calls>>

-----------------------------------------------------------------------------
Next ==
    \/ \E p \in Namespaces, k \in Keys :
         (\E v \in Values : Set(p, k, v)) \/ Delete(p, k)
    \/ \E p \in Namespaces : Close(p)
    \/ \E k \in RawKeys, v \in Values : SetRaw(k, v)
    \/ \E i \in Iters, p \in Namespaces, start, end \in Bounds, reverse \in BOOLEAN :
         Iterator(i, p, start, end, reverse)
    \/ \E i \in Iters, p \in Namespaces, a \in Accounts : AccountIterator(i, p, a)
    \/ \E i \in Iters : Advance(i) \/ CloseIterator(i)
    \/ \E k \in DbKeys, v \in Values \cup {Nil} : DbSet(k, v) \/ BatchPut(k, v)
    \/ Write
    \/ \E k \in DbKeys : WriteKey(k)
    \/ BatchClose

Spec == Init /\ [][Next]_vars

-----------------------------------------------------------------------------
(* Properties *)

TypeOK ==
    /\ DOMAIN data \subseteq Seq(Bytes) /\ <<>> \notin DOMAIN data
    /\ \A k \in DOMAIN data : data[k] \in Values
    /\ shut \subseteq Namespaces
    /\ \A i \in Iters : iter[i] # Nil => iter[i].prefix \in Namespaces /\ iter[i].index \in Nat \ {0}
    /\ db \in [DbKeys -> Values \cup {Nil}]
    /\ DOMAIN batch \subseteq DbKeys
    /\ writing = Nil \/ writing \subseteq DOMAIN batch
    /\ calls \in 0 .. MaxCalls

\* The types hold, and a prefix store finds only what was written through a store
\* with its own prefix: prefixing is the namespace isolation that
\* createPrefixedStore promises.
StoresIsolated ==
    /\ TypeOK
    /\ \A p \in Namespaces, k \in Keys : Get(p, k) # Nil => writer[prefixKey(p, k)] = p

\* What an iterator has returned so far is the beginning of the entries that the
\* store had in the range when the iterator was made, in order and with the prefix
\* cut off, whatever has been written since and whatever follows the prefix; an
\* iterator that is exhausted has returned all of them.
IteratorExact ==
    \A i \in Iters : iter[i] # Nil =>
        /\ IsPrefix(iter[i].got, iter[i].wanted)
        /\ ~iter[i].closed /\ ~Valid(iter[i]) => iter[i].got = iter[i].wanted

\* The value that the last call of the batch on k has given it.
LastPut(k) ==
    LET puts == {n \in 1 .. Len(log) : log[n][1] = "batch" /\ log[n][2] = k}
    IN  log[CHOOSE n \in puts : \A m \in puts : m <= n][3]

\* When a batch has been written, a key has the value that the last call on it
\* gave, or the one that was written to the database itself after the batch had
\* reached it.
BatchWritten ==
    writing = {} =>
        \A k \in DOMAIN batch :
            LET at == CHOOSE n \in 1 .. Len(log) : log[n][1] = "written" /\ log[n][2] = k
                later == {n \in at + 1 .. Len(log) : log[n][1] = "db" /\ log[n][2] = k}
            IN  later = {} => db[k] = LastPut(k)
=============================================================================
