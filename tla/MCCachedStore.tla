--------------------------- MODULE MCCachedStore ---------------------------
(* Instances of CachedStore: who calls which operation. *)
EXTENDS CachedStore

CONSTANTS p1, p2

\* One goroutine that calls everything.
OneCaller == [p \in {p1} |-> OpKinds]

\* The block executor beside a goroutine that only asks Has and iterates.
ExecutorAndReader == [p \in {p1, p2} |-> IF p = p1 THEN OpKinds ELSE {"has", "scan"}]

\* Two goroutines that read, write and flush the same keys.
TwoCallers == [p \in {p1, p2} |-> {"get", "set", "delete", "flush", "close"}]

MCKeys == 1 .. 2
=============================================================================
