------------------------------ MODULE MCPolling -----------------------------
(***************************************************************************)
(* Instances of Polling for TLC, in units of 40 seconds.                    *)
(***************************************************************************)
EXTENDS Polling

ScanInterval == 3
=============================================================================
