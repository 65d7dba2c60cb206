----------------------------- MODULE MCLifecycle ----------------------------
(***************************************************************************)
(* An instance of Lifecycle for TLC: two bridges, any two of a running one,  *)
(* its successor, a validation, a leftover and an orphan.                   *)
(***************************************************************************)
EXTENDS Lifecycle
=============================================================================
