---------------------------- MODULE WriteContract ----------------------------
(***************************************************************************)
(* What a service call may rely on, with the tokens, the futures, the event *)
(* loop, the timers and the wire left out: a call is refused or submitted;  *)
(* the dongle decides each call at most once, possibly after the caller has *)
(* given up; a call that succeeds was decided and shows its value, and the  *)
(* display never goes back in the dongle's order; any other end leaves the  *)
(* display alone.  RpcBridge implements this specification.                 *)
(***************************************************************************)
EXTENDS Naturals

CONSTANTS Calls, Settings, Op, SettingOf, None

VARIABLES phase, shown, device, verdict, rank, handled

vars == <<phase, shown, device, verdict, rank, handled>>

Init ==
  /\ phase = [c \in Calls |-> "idle"]
  /\ shown = [s \in Settings |-> None]
  /\ device = [s \in Settings |-> None]
  /\ verdict = [c \in Calls |-> "none"]
  /\ rank = [c \in Calls |-> 0]
  /\ handled = 0

Begin(c) ==
  /\ phase[c] = "idle"
  /\ \E p \in {"waiting", "offline"} : phase' = [phase EXCEPT ![c] = p]
  /\ UNCHANGED <<shown, device, verdict, rank, handled>>

\* A call the dongle never heard of cannot be decided, and none is twice.
Decide(c, a) ==
  /\ phase[c] \notin {"idle", "offline"}
  /\ verdict[c] = "none"
  /\ verdict' = [verdict EXCEPT ![c] = a]
  /\ handled' = handled + 1
  /\ rank' = [rank EXCEPT ![c] = handled']
  /\ \/ a # "nak" /\ Op[c] = "set" /\ device' = [device EXCEPT ![SettingOf[c]] = c]
     \/ (a # "ack" \/ Op[c] # "set") /\ device' = device
  /\ UNCHANGED <<phase, shown>>

Succeed(c) ==
  /\ phase[c] = "waiting"
  /\ phase' = [phase EXCEPT ![c] = "ok"]
  /\ \/ /\ Op[c] = "set"
        /\ verdict[c] \in {"ack", "other"}
        /\ LET s == SettingOf[c]
           IN  /\ shown[s] # None => rank[shown[s]] < rank[c]
               /\ shown' = [shown EXCEPT ![s] = c]
     \/ /\ Op[c] # "set"
        /\ verdict[c] \in {"ack", "other"} \cup (IF Op[c] = "read" THEN {"nak"} ELSE {})
        /\ shown' = shown
  /\ UNCHANGED <<device, verdict, rank, handled>>

Fail(c, how) ==
  /\ phase[c] = "waiting"
  /\ how = "rejected" => verdict[c] = "nak"
  /\ how = "exception" => verdict[c] = "bad"
  /\ phase' = [phase EXCEPT ![c] = how]
  /\ UNCHANGED <<shown, device, verdict, rank, handled>>

Next ==
  \E c \in Calls :
    \/ Begin(c)
    \/ \E a \in {"ack", "nak", "other", "bad"} : Decide(c, a)
    \/ Succeed(c)
    \/ \E how \in {"rejected", "exception", "timeout", "cancelled"} : Fail(c, how)

Spec == Init /\ [][Next]_vars
=============================================================================
