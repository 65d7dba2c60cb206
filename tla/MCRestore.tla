------------------------------ MODULE MCRestore ------------------------------
(***************************************************************************)
(* One number and one switch, each with two values.                         *)
(***************************************************************************)
EXTENDS Restore, TLC

CONSTANTS num, sw

OneOfEach == (num :> "number") @@ (sw :> "enum")
=============================================================================
