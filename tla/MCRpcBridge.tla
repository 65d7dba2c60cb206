---------------------------- MODULE MCRpcBridge -----------------------------
(***************************************************************************)
(* Instances of RpcBridge for TLC: two calls that overlap in every way the  *)
(* wire, the timers and the threads allow.                                  *)
(***************************************************************************)
EXTENDS RpcBridge, TLC

CONSTANTS c1, c2, s1, s2

\* Concurrent writes to one entity.  The tokens are interchangeable, and so
\* are calls that do the same thing to the same setting.
SameEntityOp == [c \in Calls |-> "set"]
SameEntitySetting == [c \in Calls |-> s1]
SameEntitySymmetry == Permutations(Tokens) \cup Permutations(Calls)

\* The fault button beside a read.
PressReadOp == (c1 :> "press") @@ (c2 :> "read")
PressReadSetting == (c1 :> s2) @@ (c2 :> s1)
=============================================================================
