------------------------------- MODULE Polling ------------------------------
(***************************************************************************)
(* The refresh timer of RWB1Coordinator in discrete time (coordinator.py    *)
(* 25-59, const.py 27-32).  DataUpdateCoordinator arms it anew for whatever  *)
(* is handed to async_set_updated_data: fresh values, but also a heartbeat, *)
(* the dongle's identity, and the notice of a disconnection or of a refused *)
(* attempt to connect.  What is due happens before time passes.             *)
(***************************************************************************)
EXTENDS Integers

CONSTANTS
  Interval,  \* DEFAULT_SCAN_INTERVAL, in units of time
  Latency,   \* what the dongle takes to answer a request for a dump
  Horizon,   \* bound on the ages: what is older is as old as this
  Faults     \* requests get lost and connections drop

ASSUME ConstantsOK ==
  /\ Interval \in Nat \ {0} /\ Latency \in Nat
  /\ Horizon \in Nat /\ Horizon > Interval + Latency
  /\ Faults \in BOOLEAN

VARIABLES
  connected,  \* RWB1Bridge.connected
  timer,      \* time left until the refresh
  asked,      \* time left for the answer to the last request; -1 for none
  success,    \* coordinator.last_update_success: entities are available
  valuesAge,  \* history: time since the last values
  noticeAge,  \* history: time since the last notice without values
  faultAge,   \* history: time since a request was lost or the link was down
  downAge     \* history: how long the link has been down

ages == <<valuesAge, noticeAge, faultAge, downAge>>
vars == <<connected, timer, asked, success, ages>>

TypeOK ==
  /\ connected \in BOOLEAN
  /\ timer \in 0..Interval
  /\ asked \in -1..Latency
  /\ success \in BOOLEAN
  /\ valuesAge \in 0..Horizon /\ noticeAge \in 0..Horizon
  /\ faultAge \in 0..Horizon /\ downAge \in 0..Horizon

\* The entry has just been set up: connected, and a first dump requested.
Init ==
  /\ connected = TRUE
  /\ timer = Interval
  /\ asked = Latency
  /\ success = TRUE
  /\ valuesAge = 0 /\ noticeAge = Horizon /\ faultAge = Horizon /\ downAge = 0

\* _schedule_refresh
Armed == Interval

\* async_set_updated_data, from _handle_push.
Pushed == timer' = Armed /\ success' = TRUE

\* Telemetry, pushed or in answer to a request: both are ingested alike.
Values ==
  /\ connected
  /\ Pushed
  /\ valuesAge' = 0
  /\ asked' \in {asked, -1}
  /\ UNCHANGED <<connected, noticeAge, faultAge, downAge>>

\* A heartbeat, an event or the identity of the dongle.
Heartbeat ==
  /\ connected
  /\ Pushed
  /\ noticeAge' = 0
  /\ UNCHANGED <<connected, asked, valuesAge, faultAge, downAge>>

\* request_dump: with one under way already, its answer is the first to come.
Request == IF asked = -1 THEN Latency ELSE asked

\* Mutants of Refresh: nothing is requested; the broker is not looked at.
RefreshUnasked ==
  /\ timer = 0
  /\ timer' = Armed
  /\ success' = connected
  /\ UNCHANGED <<connected, asked, ages>>
RefreshBlind ==
  /\ timer = 0
  /\ timer' = Armed
  /\ success' = TRUE
  /\ asked' = IF connected THEN Request ELSE asked
  /\ UNCHANGED <<connected, ages>>

\* _async_update_data, and the timer armed again whether it raises or not.
Refresh ==
  /\ timer = 0
  /\ timer' = Armed
  /\ success' = connected
  /\ asked' = IF connected THEN Request ELSE asked
  /\ UNCHANGED <<connected, ages>>

\* The refresh button of an available entity.
Press ==
  /\ connected /\ success
  /\ asked' = Request
  /\ UNCHANGED <<connected, timer, success, ages>>

\* A request or its answer is lost: nobody notices.
Lost ==
  /\ Faults /\ asked # -1
  /\ asked' = -1
  /\ faultAge' = 0
  /\ UNCHANGED <<connected, timer, success, valuesAge, noticeAge, downAge>>

\* _on_disconnect and its _notify: for a lost connection, and again for every
\* attempt that the broker refuses.
Disconnected ==
  /\ Faults
  /\ connected' = FALSE
  /\ asked' = -1
  /\ Pushed
  /\ noticeAge' = 0 /\ faultAge' = 0
  /\ UNCHANGED <<valuesAge, downAge>>

\* _on_connect requests a dump, and notifies nobody.
Reconnected ==
  /\ ~connected
  /\ connected' = TRUE
  /\ asked' = Request
  /\ downAge' = 0
  /\ UNCHANGED <<timer, success, valuesAge, noticeAge, faultAge>>

Older(age) == IF age < Horizon THEN age + 1 ELSE age

\* Time passes when neither the refresh nor an answer is due.
Tick ==
  /\ timer # 0 /\ asked # 0
  /\ timer' = timer - 1
  /\ asked' = IF asked = -1 THEN -1 ELSE asked - 1
  /\ valuesAge' = Older(valuesAge) /\ noticeAge' = Older(noticeAge)
  /\ faultAge' = IF connected THEN Older(faultAge) ELSE 0
  /\ downAge' = IF connected THEN 0 ELSE Older(downAge)
  /\ UNCHANGED <<connected, success>>

Next ==
  \/ Values \/ Heartbeat \/ Refresh \/ Press
  \/ Lost \/ Disconnected \/ Reconnected
  \/ Tick

Spec == Init /\ [][Next]_vars

-----------------------------------------------------------------------------
(* Properties.                                                              *)

\* Values are older than the interval, and the time an answer takes, only if a
\* notice without values put the refresh off within that time, a request was
\* lost, or the link was down.
StaleForAReason ==
  \/ valuesAge <= Interval + Latency
  \/ noticeAge <= Interval + Latency
  \/ faultAge <= Interval + Latency

\* coordinator.py:5-6: the refresh detects a dropped connection within the
\* interval: unless refused attempts go on announcing themselves, each of which
\* makes the entities available again.
DownIsDetected ==
  downAge > Interval => ~success \/ noticeAge <= Interval
=============================================================================
