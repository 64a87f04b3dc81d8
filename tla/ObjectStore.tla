----------------------------- MODULE ObjectStore -----------------------------
(***************************************************************************)
(* What ObjectStore[T] (store/store.go) promises its callers.              *)
(*                                                                         *)
(* A store is a map from keys to objects, `view`, and the image of it that *)
(* survives a restart, `disk`.  A write changes the view and leaves its    *)
(* key pending; a flush makes the whole view durable in one step; a crash  *)
(* takes the view back to the durable image.  A Get answers from the view. *)
(* Has and the iterators may lag behind the view for a pending key only.   *)
(*                                                                         *)
(* CachedStore implements this specification under the conditions of       *)
(* CachedStoreProofs!StoreRefinement.                                      *)
(***************************************************************************)
CONSTANTS
    Keys,       \* keys of the store
    Values,     \* objects that can be stored
    Procs,      \* goroutines that call the store
    Nil         \* "no object": the key does not exist

Objects == Values \cup {Nil}

VARIABLES
    view,       \* what a Get answers
    disk,       \* what a restart finds
    pending,    \* keys written since they were last made durable
    open,       \* FALSE once the store is closed
    ret         \* the last reply any goroutine received

vars == <<view, disk, pending, open, ret>>

Reply(p, op, k, v) == [proc |-> p, op |-> op, key |-> k, val |-> v]

Answer(p, op, k, v) == ret' = Reply(p, op, k, v)

Init ==
    /\ disk \in [Keys -> Objects]
    /\ view = disk
    /\ pending = {}
    /\ open = TRUE
    /\ ret = Reply(Nil, "none", Nil, Nil)

Get(p, k) ==
    /\ open
    /\ Answer(p, "get", k, view[k])
    /\ UNCHANGED <<view, disk, pending, open>>

Write(p, k, v) ==
    /\ open
    /\ view' = [view EXCEPT ![k] = v]
    /\ pending' = pending \cup {k}
    /\ Answer(p, "write", k, v)
    /\ UNCHANGED <<disk, open>>

Has(p, k, b) ==
    /\ open
    /\ k \notin pending => b = (view[k] # Nil)
    /\ Answer(p, "has", k, b)
    /\ UNCHANGED <<view, disk, pending, open>>

Scan(p, k, v) ==
    /\ open
    /\ k \notin pending => v = view[k]
    /\ Answer(p, "scan", k, v)
    /\ UNCHANGED <<view, disk, pending, open>>

\* The flush becomes durable in one step; its caller is told later.
Flush ==
    /\ open
    /\ disk' = view
    /\ pending' = {}
    /\ UNCHANGED <<view, open, ret>>

\* A reply that carries no object: a finished flush, or an error.
Acknowledge(p) ==
    /\ \E op \in {"flush", "failed"} : Answer(p, op, Nil, Nil)
    /\ UNCHANGED <<view, disk, pending, open>>

\* Closing drops what was not flushed; nothing can be read from then on.
Close ==
    /\ open
    /\ open' = FALSE
    /\ view' = disk
    /\ pending' = {}
    /\ UNCHANGED <<disk, ret>>

\* After Close, a call that was under way ends in any way it likes.
Late(p) ==
    /\ ~open
    /\ \E op \in {"has", "scan", "close", "closed", "failed"}, k \in Keys \cup {Nil},
          v \in Objects \cup BOOLEAN : Answer(p, op, k, v)
    /\ UNCHANGED <<view, disk, pending, open>>

Restart ==
    /\ open' = TRUE
    /\ view' = disk
    /\ pending' = {}
    /\ UNCHANGED <<disk, ret>>

Next ==
    \/ \E p \in Procs, k \in Keys : Get(p, k)
    \/ \E p \in Procs, k \in Keys, v \in Objects : Write(p, k, v) \/ Scan(p, k, v)
    \/ \E p \in Procs, k \in Keys, b \in BOOLEAN : Has(p, k, b)
    \/ \E p \in Procs : Acknowledge(p) \/ Late(p)
    \/ Flush \/ Close \/ Restart

Spec == Init /\ [][Next]_vars
=============================================================================
