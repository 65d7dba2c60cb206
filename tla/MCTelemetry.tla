---------------------------- MODULE MCTelemetry -----------------------------
(***************************************************************************)
(* Instances of Telemetry for TLC: one message of every shape the handlers  *)
(* tell apart.                                                              *)
(***************************************************************************)
EXTENDS Telemetry

CONSTANTS pv, load

Message(kind, keys, ts, up, bad) ==
  [kind |-> kind, keys |-> keys, ts |-> ts, up |-> up, bad |-> bad]

Shapes ==
  {Message("prop", {pv}, TRUE, TRUE, FALSE),
   Message("prop", {pv, load}, FALSE, TRUE, FALSE),
   Message("prop", {}, TRUE, TRUE, FALSE),
   Message("prop", {pv}, TRUE, TRUE, TRUE),
   Message("dump", {load}, TRUE, TRUE, FALSE),
   Message("event", {}, TRUE, TRUE, FALSE),
   Message("event", {}, TRUE, FALSE, FALSE),
   Message("identity", {}, FALSE, TRUE, FALSE)}
=============================================================================
