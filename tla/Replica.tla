------------------------------- MODULE Replica ------------------------------
(***************************************************************************)
(* What the read path promises to the entities, without threads, messages   *)
(* and notifications: there is a source that changes and a copy of it, which *)
(* is only ever replaced by the whole source as it is at that moment, and    *)
(* which follows every change in the end.                                   *)
(***************************************************************************)
VARIABLES
  source,  \* RWB1Bridge.state
  copy     \* coordinator.data

Init == copy = source

Change == source' # source /\ UNCHANGED copy
Copy   == copy' = source /\ UNCHANGED source

Next == Change \/ Copy

Spec == Init /\ [][Next]_<<source, copy>>

\* A difference does not last: the copy is made anew.
FairSpec == Spec /\ WF_<<source, copy>>(Copy)
=============================================================================
