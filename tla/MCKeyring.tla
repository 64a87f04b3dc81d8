----------------------------- MODULE MCKeyring -----------------------------
(* Instances of Keyring: two goroutines, two names, a cache of one signer. *)
EXTENDS Keyring

CONSTANTS p1, p2
=============================================================================
