------------------------- MODULE MCCachingKeyStore -------------------------
(* Instances of CachingKeyStore. *)
EXTENDS CachingKeyStore

CONSTANTS p1, p2

\* One goroutine uses the keys while another lists, invalidates and closes; or
\* both use them.
MCOps == {[p \in {p1, p2} |-> IF p = p1 THEN OpKinds ELSE {"list", "invalidate", "close"}],
          [p \in {p1, p2} |-> {"load", "store", "delete", "close"}]}

PlainNames == [n \in Names |-> {n}]
=============================================================================
