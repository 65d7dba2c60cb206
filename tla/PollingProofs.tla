---------------------------- MODULE PollingProofs ---------------------------
(***************************************************************************)
(* Proofs about the refresh timer for any interval, any time an answer takes *)
(* (even longer than the interval), with and without faults.                *)
(***************************************************************************)
EXTENDS Polling, TLAPS

\* The last arming of the timer had a reason as old as the timer; or it was the
\* refresh, whose answer is still to come: then there was one before.
Reason(age) ==
  \/ age <= Interval - timer
  \/ asked # -1 /\ age <= Interval + Latency - asked

Inductive ==
  /\ TypeOK
  /\ Reason(valuesAge) \/ Reason(noticeAge) \/ Reason(faultAge)
  /\ ~connected => faultAge = 0
  /\ downAge # 0 => ~connected
  /\ ~connected => ~success \/ noticeAge <= Interval - timer

LEMMA OlderByOne ==
  ASSUME NEW age \in 0..Horizon
  PROVE  Older(age) \in 0..Horizon /\ Older(age) <= age + 1
BY ConstantsOK DEF Older

LEMMA TypesStep ==
  ASSUME TypeOK, [Next]_vars PROVE TypeOK'
<1> USE ConstantsOK DEF TypeOK, ages, vars
<1>1. CASE Values
  BY <1>1 DEF Values, Pushed, Armed
<1>2. CASE Heartbeat
  BY <1>2 DEF Heartbeat, Pushed, Armed
<1>3. CASE Refresh
  BY <1>3 DEF Refresh, Armed, Request
<1>4. CASE Press
  BY <1>4 DEF Press, Request
<1>5. CASE Lost
  BY <1>5 DEF Lost
<1>6. CASE Disconnected
  <2>1. timer' = Interval /\ asked' = -1 /\ noticeAge' = 0 /\ faultAge' = 0
    BY <1>6 DEF Disconnected, Pushed, Armed
  <2>2. /\ connected' = FALSE /\ success' = TRUE
        /\ valuesAge' = valuesAge /\ downAge' = downAge
    BY <1>6 DEF Disconnected, Pushed
  <2>3. /\ timer' \in 0..Interval /\ asked' \in -1..Latency
        /\ noticeAge' \in 0..Horizon /\ faultAge' \in 0..Horizon
    BY <2>1
  <2>4. connected' \in BOOLEAN /\ success' \in BOOLEAN
    BY <2>2
  <2> QED BY <2>2, <2>3, <2>4
<1>7. CASE Reconnected
  BY <1>7 DEF Reconnected, Request
<1>8. CASE Tick
  <2>1. /\ valuesAge' \in 0..Horizon /\ noticeAge' \in 0..Horizon
        /\ faultAge' \in 0..Horizon /\ downAge' \in 0..Horizon
    BY <1>8, OlderByOne DEF Tick
  <2>2. timer' \in 0..Interval /\ asked' \in -1..Latency
    BY <1>8 DEF Tick
  <2> QED BY <1>8, <2>1, <2>2 DEF Tick
<1>9. CASE UNCHANGED vars
  BY <1>9
<1> QED BY <1>1, <1>2, <1>3, <1>4, <1>5, <1>6, <1>7, <1>8, <1>9 DEF Next

LEMMA InductiveInit == Init => Inductive
BY ConstantsOK DEF Init, Inductive, TypeOK, Reason

LEMMA InductiveStep ==
  ASSUME Inductive, [Next]_vars PROVE Inductive'
<1> USE ConstantsOK DEF Inductive, Reason, ages
<1>0. TypeOK /\ TypeOK'
  BY TypesStep
<1>1. CASE Values
  BY <1>0, <1>1 DEF Values, Pushed, Armed, TypeOK
<1>2. CASE Heartbeat
  BY <1>0, <1>2 DEF Heartbeat, Pushed, Armed, TypeOK
<1>3. CASE Refresh
  BY <1>0, <1>3 DEF Refresh, Armed, Request, TypeOK
<1>4. CASE Press
  BY <1>0, <1>4 DEF Press, Request, TypeOK
<1>5. CASE Lost
  BY <1>0, <1>5 DEF Lost, TypeOK
<1>6. CASE Disconnected
  BY <1>0, <1>6 DEF Disconnected, Pushed, Armed, TypeOK
<1>7. CASE Reconnected
  BY <1>0, <1>7 DEF Reconnected, Request, TypeOK
<1>8. CASE Tick
  <2>1. valuesAge' <= valuesAge + 1 /\ noticeAge' <= noticeAge + 1
    BY <1>0, <1>8, OlderByOne DEF Tick, TypeOK
  <2>2. faultAge' <= faultAge + 1 /\ (~connected => faultAge' = 0)
    BY <1>0, <1>8, OlderByOne DEF Tick, TypeOK
  <2>3. ASSUME NEW age \in Nat, NEW later \in Nat, later <= age + 1, Reason(age)
        PROVE  \/ later <= Interval - timer'
               \/ asked' # -1 /\ later <= Interval + Latency - asked'
    BY <1>0, <1>8, <2>3 DEF Tick, TypeOK
  <2>4. (Reason(valuesAge) \/ Reason(noticeAge) \/ Reason(faultAge))'
    <3>1. /\ valuesAge \in Nat /\ noticeAge \in Nat /\ faultAge \in Nat
          /\ valuesAge' \in Nat /\ noticeAge' \in Nat /\ faultAge' \in Nat
      BY <1>0 DEF TypeOK
    <3>2. CASE Reason(valuesAge)
      BY <2>1, <2>3, <3>1, <3>2
    <3>3. CASE Reason(noticeAge)
      BY <2>1, <2>3, <3>1, <3>3
    <3>4. CASE Reason(faultAge)
      BY <2>2, <2>3, <3>1, <3>4
    <3> QED BY <3>2, <3>3, <3>4
  <2>5. ~connected' => ~success' \/ noticeAge' <= Interval - timer'
    BY <1>0, <1>8, <2>1 DEF Tick, TypeOK
  <2> QED BY <1>0, <1>8, <2>2, <2>4, <2>5 DEF Tick
<1>9. CASE UNCHANGED vars
  BY <1>0, <1>9 DEF vars
<1> QED BY <1>1, <1>2, <1>3, <1>4, <1>5, <1>6, <1>7, <1>8, <1>9 DEF Next

\* Whatever arms the timer leaves its reason behind.
THEOREM InductiveHolds == Spec => []Inductive
<1> QED BY InductiveInit, InductiveStep, PTL DEF Spec

\* The timer, the request and the ages stay in their ranges.
THEOREM PollingTypes == Spec => []TypeOK
<1>1. Inductive => TypeOK
  BY DEF Inductive
<1> QED BY <1>1, InductiveHolds, PTL

\* However often the timer is put off: values are only stale after a notice
\* without values, a lost request or a lost connection (coordinator.py:49-59).
THEOREM StalenessExplained == Spec => []StaleForAReason
<1>1. Inductive => StaleForAReason
  BY ConstantsOK DEF Inductive, Reason, TypeOK, StaleForAReason
<1> QED BY <1>1, InductiveHolds, PTL

\* A link that stays down is detected within the interval, unless refused
\* attempts announce themselves (coordinator.py:5-6).
THEOREM DownDetected == Spec => []DownIsDetected
<1>1. Inductive => DownIsDetected
  BY ConstantsOK DEF Inductive, TypeOK, DownIsDetected
<1> QED BY <1>1, InductiveHolds, PTL

=============================================================================
