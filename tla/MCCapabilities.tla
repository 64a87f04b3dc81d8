--------------------------- MODULE MCCapabilities ---------------------------
(***************************************************************************)
(* Capabilities for TLC: one module that holds all three capabilities, as  *)
(* the staking module may, two goroutines, two accounts, one denomination  *)
(* and one validator, and amounts of which two overflow.                   *)
(***************************************************************************)
EXTENDS Capabilities

MCProcs == 1 .. 2
MCAmounts == 1 .. 2
MCMaxAmount == 3
=============================================================================
