-------------------------- MODULE TelemetryProofs ---------------------------
(***************************************************************************)
(* Proofs about the read path for any groups of values, any messages and    *)
(* any bounds: its type correctness, and by way of Inductive the safety     *)
(* properties of Telemetry.                                                 *)
(***************************************************************************)
EXTENDS Telemetry, SequenceTheorems, TLAPS

-----------------------------------------------------------------------------
(* What the scripts look like.                                              *)

Has(t, step) == \E i \in 1..Len(t) : t[i] = step

\* The scripts of _ingest_telemetry, with and without a time and a reply.
Readings ==
  {<<"merge", "online", "notify">>, <<"merge", "online", "stamp", "notify">>,
   <<"merge", "online", "notify", "ack">>, <<"merge", "online", "stamp", "notify", "ack">>}

OfEvent == <<"status", "event", "ack", "notify">>

\* The scripts that leave the online flag alone.
Neutral == {<<>>, <<"ack">>, <<"identity", "notify">>, OnConnect}

\* What every script keeps to, whatever it is a script of.
WellFormed(t) ==
  /\ t \in Seq(Steps)
  /\ \A i \in 1..Len(t) :
       t[i] \in Changes => \E j \in 1..Len(t) : i < j /\ t[j] = "notify"
  /\ \A i, j \in 1..Len(t) : t[i] \in OnlineSteps /\ t[j] \in OnlineSteps => i = j
  /\ \A i \in 1..Len(t) : t[i] = "stamp" => \E j \in 1..Len(t) : j < i /\ t[j] = "merge"

LEMMA ReadingSteps ==
  ASSUME NEW t \in Readings
  PROVE  /\ WellFormed(t)
         /\ Has(t, "online") /\ ~Has(t, "status") /\ ~Has(t, "offline")
<1>1. CASE t = <<"merge", "online", "notify">>
  BY <1>1 DEF WellFormed, Has, Steps, Changes, OnlineSteps
<1>2. CASE t = <<"merge", "online", "stamp", "notify">>
  BY <1>2 DEF WellFormed, Has, Steps, Changes, OnlineSteps
<1>3. CASE t = <<"merge", "online", "notify", "ack">>
  BY <1>3 DEF WellFormed, Has, Steps, Changes, OnlineSteps
<1>4. CASE t = <<"merge", "online", "stamp", "notify", "ack">>
  BY <1>4 DEF WellFormed, Has, Steps, Changes, OnlineSteps
<1> QED BY <1>1, <1>2, <1>3, <1>4 DEF Readings

LEMMA EventSteps ==
  /\ WellFormed(OfEvent)
  /\ Has(OfEvent, "status") /\ ~Has(OfEvent, "online") /\ ~Has(OfEvent, "offline")
BY DEF OfEvent, WellFormed, Has, Steps, Changes, OnlineSteps

LEMMA DisconnectSteps ==
  /\ WellFormed(OnDisconnect)
  /\ Has(OnDisconnect, "offline") /\ ~Has(OnDisconnect, "online")
  /\ ~Has(OnDisconnect, "status")
BY DEF OnDisconnect, WellFormed, Has, Steps, Changes, OnlineSteps

LEMMA NeutralSteps ==
  ASSUME NEW t \in Neutral
  PROVE  /\ WellFormed(t)
         /\ \A i \in 1..Len(t) : t[i] \notin OnlineSteps
         /\ ~Has(t, "merge") /\ ~Has(t, "stamp")
<1>1. CASE t = <<>>
  BY <1>1 DEF WellFormed, Has
<1>2. CASE t = <<"ack">>
  BY <1>2 DEF WellFormed, Has, Steps, Changes, OnlineSteps
<1>3. CASE t = <<"identity", "notify">>
  BY <1>3 DEF WellFormed, Has, Steps, Changes, OnlineSteps
<1>4. CASE t = OnConnect
  BY <1>4 DEF OnConnect, WellFormed, Has, Steps, Changes, OnlineSteps
<1> QED BY <1>1, <1>2, <1>3, <1>4 DEF Neutral

LEMMA AppendIs ==
  ASSUME NEW S, NEW s \in Seq(S), NEW e \in S, NEW t \in Seq(S),
         Len(t) = Len(s) + 1, \A i \in 1..Len(s) : t[i] = s[i], t[Len(s) + 1] = e
  PROVE  Append(s, e) = t
<1>1. /\ Append(s, e) \in Seq(S) /\ Len(Append(s, e)) = Len(s) + 1
      /\ \A i \in 1..Len(s) : Append(s, e)[i] = s[i]
      /\ Append(s, e)[Len(s) + 1] = e
  OBVIOUS
<1> QED BY <1>1, SeqEqual, LenProperties

LEMMA AckLast ==
  /\ Append(<<>>, "ack") = <<"ack">>
  /\ Append(<<"merge", "online", "notify">>, "ack") = <<"merge", "online", "notify", "ack">>
  /\ Append(<<"merge", "online", "stamp", "notify">>, "ack") =
       <<"merge", "online", "stamp", "notify", "ack">>
<1>1. Append(<<>>, "ack") = <<"ack">>
  OBVIOUS
<1>2. ASSUME NEW s, s = <<"merge", "online", "notify">>,
             NEW t, t = <<"merge", "online", "notify", "ack">>
      PROVE  Append(s, "ack") = t
  <2>1. s \in Seq(Steps) /\ Len(s) = 3 /\ s[1] = "merge" /\ s[2] = "online" /\ s[3] = "notify"
    BY <1>2 DEF Steps
  <2>2. /\ t \in Seq(Steps) /\ Len(t) = 4
        /\ t[1] = "merge" /\ t[2] = "online" /\ t[3] = "notify" /\ t[4] = "ack"
    BY <1>2 DEF Steps
  <2>3. \A i \in 1..Len(s) : t[i] = s[i]
    BY <2>1, <2>2
  <2>4. "ack" \in Steps
    BY DEF Steps
  <2>5. Len(t) = Len(s) + 1 /\ t[Len(s) + 1] = "ack"
    BY <2>1, <2>2
  <2>6. s \in Seq(Steps) /\ t \in Seq(Steps)
    BY <2>1, <2>2
  <2> QED BY <2>3, <2>4, <2>5, <2>6, AppendIs
<1>3. ASSUME NEW s, s = <<"merge", "online", "stamp", "notify">>,
             NEW t, t = <<"merge", "online", "stamp", "notify", "ack">>
      PROVE  Append(s, "ack") = t
  <2>1. /\ s \in Seq(Steps) /\ Len(s) = 4
        /\ s[1] = "merge" /\ s[2] = "online" /\ s[3] = "stamp" /\ s[4] = "notify"
    BY <1>3 DEF Steps
  <2>2. /\ t \in Seq(Steps) /\ Len(t) = 5
        /\ t[1] = "merge" /\ t[2] = "online" /\ t[3] = "stamp" /\ t[4] = "notify" /\ t[5] = "ack"
    BY <1>3 DEF Steps
  <2>3. \A i \in 1..Len(s) : t[i] = s[i]
    BY <2>1, <2>2
  <2>4. "ack" \in Steps
    BY DEF Steps
  <2>5. Len(t) = Len(s) + 1 /\ t[Len(s) + 1] = "ack"
    BY <2>1, <2>2
  <2>6. s \in Seq(Steps) /\ t \in Seq(Steps)
    BY <2>1, <2>2
  <2> QED BY <2>3, <2>4, <2>5, <2>6, AppendIs
<1> QED BY <1>1, <1>2, <1>3

\* Every script _dispatch can run, and what the history says of its message.
LEMMA ScriptShapes ==
  ASSUME NEW m \in MessageType
  PROVE  \/ Script(m) \in Neutral /\ Word(m) = heard
         \/ Script(m) = OfEvent /\ Word(m) = IF m.up THEN "up" ELSE "down"
         \/ Script(m) \in Readings /\ Word(m) = "up"
<1>1. m.kind \in Kinds /\ m.bad \in BOOLEAN /\ m.up \in BOOLEAN /\ m.ts \in BOOLEAN
  BY DEF MessageType
<1>2. CASE m.bad
  BY <1>2 DEF Script, Word, Neutral
<1>3. CASE ~m.bad /\ m.kind = "event"
  BY <1>3 DEF Script, Word, OfEvent
<1>4. CASE ~m.bad /\ m.kind = "identity"
  BY <1>4 DEF Script, Word, Neutral
<1>5. CASE ~m.bad /\ m.kind = "dump"
  <2>1. Script(m) = Ingest(m)
    BY <1>5 DEF Script
  <2> QED BY <1>5, <2>1 DEF Ingest, Word, Readings, Neutral
<1>6. CASE ~m.bad /\ m.kind = "prop"
  <2>1. Script(m) = Append(Ingest(m), "ack")
    BY <1>6 DEF Script
  <2>2. CASE m.keys = {}
    <3>1. Script(m) = <<"ack">>
      BY <2>1, <2>2, AckLast DEF Ingest
    <3> QED BY <1>6, <2>2, <3>1 DEF Word, Neutral
  <2>3. CASE m.keys # {} /\ m.ts
    <3>1. Script(m) = <<"merge", "online", "stamp", "notify", "ack">>
      BY <2>1, <2>3, AckLast DEF Ingest
    <3> QED BY <1>6, <2>3, <3>1 DEF Word, Readings
  <2>4. CASE m.keys # {} /\ ~m.ts
    <3>1. Script(m) = <<"merge", "online", "notify", "ack">>
      BY <2>1, <2>4, AckLast DEF Ingest
    <3> QED BY <1>6, <2>4, <3>1 DEF Word, Readings
  <2> QED BY <1>1, <2>2, <2>3, <2>4
<1> QED BY <1>1, <1>2, <1>3, <1>4, <1>5, <1>6 DEF Kinds

-----------------------------------------------------------------------------
(* Type correctness.                                                        *)

LEMMA TypesInit == Init => TypeOK
<1>1. [k \in Keys |-> 0] \in [Keys -> Nat]
  OBVIOUS
<1>2. NoState \in StateType
  BY <1>1 DEF NoState, StateType
<1>3. \A S : <<>> \in Seq(S)
  OBVIOUS
<1>4. Init => todo \in Seq(Steps) /\ sent \in Seq(Messages) /\ acked \subseteq Nat
  BY <1>3 DEF Init
<1>5. Init => /\ link \in {"new", "up", "down"} /\ connected \in BOOLEAN
              /\ state \in StateType /\ data \in StateType /\ asked \in BOOLEAN
              /\ ticking \in BOOLEAN /\ success \in BOOLEAN /\ alive \in BOOLEAN
  BY <1>2 DEF Init
<1>6. Init => notices \in Nat /\ drops \in Nat /\ heard \in {"nothing", "up", "down"}
  BY DEF Init
<1> QED BY <1>4, <1>5, <1>6 DEF TypeOK

\* A step of the callback takes one entry from the script.
LEMMA Popped ==
  ASSUME TypeOK, NEW step, Do(step)
  PROVE  /\ todo' \in Seq(Steps)
         /\ Len(todo) \in Nat \ {0} /\ Len(todo') = Len(todo) - 1
         /\ todo[1] = step /\ step \in Steps
         /\ \A i \in 1..Len(todo') : i + 1 \in 1..Len(todo) /\ todo'[i] = todo[i + 1]
         /\ \A i \in 1..Len(todo) : i # 1 => i - 1 \in 1..Len(todo') /\ todo'[i - 1] = todo[i]
<1>1. /\ todo' = Tail(todo) /\ todo' \in Seq(Steps)
      /\ Len(todo) \in Nat \ {0} /\ Len(todo') = Len(todo) - 1
      /\ todo[1] = step /\ step \in Steps
      /\ \A i \in 1..Len(todo') : todo'[i] = todo[i + 1]
  BY HeadTailProperties, EmptySeq DEF Do, TypeOK
<1>2. \A i \in 1..Len(todo') : i + 1 \in 1..Len(todo)
  BY <1>1
<1>3. ASSUME NEW i \in 1..Len(todo), i # 1
      PROVE  i - 1 \in 1..Len(todo') /\ (i - 1) + 1 = i
  BY <1>1, <1>3
<1> QED BY <1>1, <1>2, <1>3

LEMMA ScriptType ==
  ASSUME ConstantsOK, NEW m \in Messages, heard \in {"nothing", "up", "down"}
  PROVE  Script(m) \in Seq(Steps) /\ Word(m) \in {"nothing", "up", "down"}
<1>1. m \in MessageType
  BY DEF ConstantsOK
<1> QED BY <1>1, ScriptShapes, ReadingSteps, EventSteps, NeutralSteps DEF WellFormed

\* The message a callback is about.
LEMMA CurrentType ==
  ASSUME ConstantsOK, TypeOK, Len(sent) # 0
  PROVE  /\ Current \in MessageType /\ Current.keys \subseteq Keys /\ Current.up \in BOOLEAN
         /\ Len(sent) \in Nat \ {0}
<1>1. Len(sent) \in Nat \ {0}
  BY DEF TypeOK
<1>2. sent[Len(sent)] \in Messages
  BY <1>1 DEF TypeOK
<1> QED BY <1>1, <1>2 DEF ConstantsOK, Current, MessageType

LEMMA UpdatedType ==
  ASSUME TypeOK, NEW keys
  PROVE  Updated(keys) \in [Keys -> Nat]
<1>1. Len(sent) \in Nat /\ state.values \in [Keys -> Nat]
  BY DEF TypeOK, StateType
<1> QED BY <1>1 DEF Updated

LEMMA TypesStep ==
  ASSUME ConstantsOK, TypeOK, CurrentKnown, [Next]_vars
  PROVE  TypeOK'
<1> USE DEF linkVars, pahoVars, loopVars, envVars
<1>1. ASSUME NEW m \in Messages, Receive(m) PROVE TypeOK'
  <2>1. Script(m) \in Seq(Steps) /\ Word(m) \in {"nothing", "up", "down"}
    BY ScriptType DEF TypeOK
  <2>2. Append(sent, m) \in Seq(Messages)
    BY DEF TypeOK
  <2> QED BY <1>1, <2>1, <2>2 DEF Receive, TypeOK
<1>2. CASE Accepted
  <2>1. OnConnect \in Seq(Steps)
    BY NeutralSteps DEF Neutral, WellFormed
  <2> QED BY <1>2, <2>1 DEF Accepted, TypeOK
<1>3. CASE Dropped
  <2>1. OnDisconnect \in Seq(Steps)
    BY DisconnectSteps DEF WellFormed
  <2>2. drops' \in Nat /\ link' \in {"new", "up", "down"} /\ heard' \in {"nothing", "up", "down"}
    BY <1>3 DEF Dropped, TypeOK
  <2> QED BY <1>3, <2>1, <2>2 DEF Dropped, TypeOK
<1>4. CASE PahoStep
  <2> Len(sent) \in Nat
    BY DEF TypeOK
  <2>1. ASSUME NEW step, NEW new \in StateType, ChangeState(step, new) PROVE TypeOK'
    BY <2>1, Popped DEF ChangeState, TypeOK
  <2>2. CASE MergeValues
    <3>1. Updated(Current.keys) \in [Keys -> Nat]
      BY UpdatedType
    <3>2. [state EXCEPT !.values = Updated(Current.keys)] \in StateType
      BY <3>1 DEF TypeOK, StateType
    <3> QED BY <2>1, <2>2, <3>2 DEF MergeValues
  <2>3. CASE SetOnline
    <3>1. [state EXCEPT !.online = TRUE] \in StateType
      BY DEF TypeOK, StateType
    <3> QED BY <2>1, <2>3, <3>1 DEF SetOnline
  <2>4. CASE StampTelemetry
    <3>1. [state EXCEPT !.last_telemetry = Len(sent)] \in StateType
      BY DEF TypeOK, StateType
    <3> QED BY <2>1, <2>4, <3>1 DEF StampTelemetry
  <2>5. CASE TakeStatus
    <3>1. Len(sent) # 0
      <4>1. Do("status")
        BY <2>5 DEF TakeStatus, ChangeState
      <4>2. Remains("status")
        BY <4>1, Popped DEF Remains
      <4> QED BY <4>2 DEF CurrentKnown
    <3>2. [state EXCEPT !.online = Current.up] \in StateType
      BY <3>1, CurrentType DEF TypeOK, StateType
    <3> QED BY <2>1, <2>5, <3>2 DEF TakeStatus
  <2>6. CASE RecordEvent
    <3>1. [state EXCEPT !.last_event = Len(sent)] \in StateType
      BY DEF TypeOK, StateType
    <3> QED BY <2>1, <2>6, <3>1 DEF RecordEvent
  <2>7. CASE TakeIdentity
    <3>1. [state EXCEPT !.identity = Len(sent)] \in StateType
      BY DEF TypeOK, StateType
    <3> QED BY <2>1, <2>7, <3>1 DEF TakeIdentity
  <2>8. CASE SetOffline
    <3>1. [state EXCEPT !.online = FALSE] \in StateType
      BY DEF TypeOK, StateType
    <3> QED BY <2>1, <2>8, <3>1 DEF SetOffline
  <2>9. ASSUME NEW step, NEW up \in BOOLEAN, SetConnected(step, up) PROVE TypeOK'
    BY <2>9, Popped DEF SetConnected, TypeOK
  <2>10. CASE Notify
    BY <2>10, Popped DEF Notify, TypeOK
  <2>11. CASE Ack
    <3>1. acked' \subseteq Nat
      BY <2>11 DEF Ack, TypeOK
    <3> QED BY <2>11, <3>1, Popped DEF Ack, TypeOK
  <2>12. CASE AskOnConnect
    BY <2>12, Popped DEF AskOnConnect, RequestDump, TypeOK
  <2> QED BY <1>4, <2>2, <2>3, <2>4, <2>5, <2>6, <2>7, <2>8, <2>9, <2>10, <2>11, <2>12 DEF PahoStep
<1>5. CASE RunNotify
  BY <1>5 DEF RunNotify, TypeOK
<1>6. CASE TickStarts
  BY <1>6 DEF TickStarts, TypeOK
<1>7. CASE TickEnds
  BY <1>7 DEF TickEnds, RequestDump, TypeOK
<1>8. CASE PressRefresh
  BY <1>8 DEF PressRefresh, RequestDump, TypeOK
<1>9. CASE DongleDies
  BY <1>9 DEF DongleDies, TypeOK
<1>10. CASE UNCHANGED vars
  BY <1>10 DEF vars, TypeOK
<1> QED BY <1>1, <1>2, <1>3, <1>4, <1>5, <1>6, <1>7, <1>8, <1>9, <1>10 DEF Next

-----------------------------------------------------------------------------
(* A step of the callback: what is left of the script.                      *)

LEMMA PoppedParts ==
  ASSUME TypeOK, ChangesAnnounced, OnlineDecided, NEW step, Do(step)
  PROVE  /\ Remains(step)
         /\ \A x : Remains(x)' => Remains(x)
         /\ \A x : x # step /\ Remains(x) => Remains(x)'
         /\ ChangesAnnounced'
         /\ step \in Changes => Remains("notify")'
         /\ \A i, j \in 1..Len(todo') :
              todo'[i] \in OnlineSteps /\ todo'[j] \in OnlineSteps => i = j
         /\ step \in OnlineSteps => \A i \in 1..Len(todo') : todo'[i] \notin OnlineSteps
         /\ step \notin OnlineSteps /\ (\A i \in 1..Len(todo') : todo'[i] \notin OnlineSteps)
              => \A i \in 1..Len(todo) : todo[i] \notin OnlineSteps
<1>1. /\ todo' \in Seq(Steps)
      /\ Len(todo) \in Nat \ {0} /\ Len(todo') = Len(todo) - 1
      /\ todo[1] = step /\ step \in Steps
      /\ \A i \in 1..Len(todo') : i + 1 \in 1..Len(todo) /\ todo'[i] = todo[i + 1]
      /\ \A i \in 1..Len(todo) : i # 1 => i - 1 \in 1..Len(todo') /\ todo'[i - 1] = todo[i]
  BY Popped
<1>2. 1 \in 1..Len(todo)
  BY <1>1
<1>3. Remains(step)
  BY <1>1, <1>2 DEF Remains
<1>4. \A x : Remains(x)' => Remains(x)
  BY <1>1 DEF Remains
<1>5. \A x : x # step /\ Remains(x) => Remains(x)'
  BY <1>1 DEF Remains
<1>6. ASSUME NEW i \in 1..Len(todo'), todo'[i] \in Changes
      PROVE  \E j \in 1..Len(todo') : i < j /\ todo'[j] = "notify"
  <2>1. i + 1 \in 1..Len(todo) /\ todo[i + 1] \in Changes
    BY <1>1, <1>6
  <2>2. PICK j \in 1..Len(todo) : i + 1 < j /\ todo[j] = "notify"
    BY <2>1 DEF ChangesAnnounced
  <2>3. j # 1 /\ i < j - 1
    BY <1>1, <2>1, <2>2
  <2> QED BY <1>1, <2>2, <2>3
<1>7. ASSUME step \in Changes PROVE Remains("notify")'
  <2>1. PICK j \in 1..Len(todo) : 1 < j /\ todo[j] = "notify"
    BY <1>1, <1>2, <1>7 DEF ChangesAnnounced
  <2>2. j # 1
    BY <2>1
  <2> QED BY <1>1, <2>1, <2>2 DEF Remains
<1>8. ASSUME NEW i \in 1..Len(todo'), NEW j \in 1..Len(todo'),
             todo'[i] \in OnlineSteps, todo'[j] \in OnlineSteps
      PROVE  i = j
  <2>1. i + 1 = j + 1
    BY <1>1, <1>8 DEF OnlineDecided
  <2> QED BY <1>1, <2>1
<1>9. ASSUME step \in OnlineSteps, NEW i \in 1..Len(todo') PROVE todo'[i] \notin OnlineSteps
  <2>1. i + 1 \in 1..Len(todo) /\ i + 1 # 1 /\ todo'[i] = todo[i + 1]
    BY <1>1
  <2> QED BY <1>1, <1>2, <1>9, <2>1 DEF OnlineDecided
<1>10. ASSUME step \notin OnlineSteps, \A i \in 1..Len(todo') : todo'[i] \notin OnlineSteps,
              NEW i \in 1..Len(todo)
       PROVE  todo[i] \notin OnlineSteps
  BY <1>1, <1>10
<1> QED BY <1>3, <1>4, <1>5, <1>6, <1>7, <1>8, <1>9, <1>10 DEF ChangesAnnounced

\* What is still to be stamped has been merged, or is about to be.
LEMMA PoppedStamp ==
  ASSUME TypeOK, MergedFirst, NEW step, Do(step)
  PROVE  /\ step # "merge" =>
              \A i \in 1..Len(todo') :
                todo'[i] = "stamp" =>
                  \/ \E j \in 1..Len(todo') : j < i /\ todo'[j] = "merge"
                  \/ \A k \in Current.keys : state.values[k] = Len(sent)
         /\ step = "stamp" => \A k \in Current.keys : state.values[k] = Len(sent)
<1>1. /\ Len(todo) \in Nat \ {0} /\ Len(todo') = Len(todo) - 1
      /\ todo[1] = step
      /\ \A i \in 1..Len(todo') : i + 1 \in 1..Len(todo) /\ todo'[i] = todo[i + 1]
      /\ \A i \in 1..Len(todo) : i # 1 => i - 1 \in 1..Len(todo') /\ todo'[i - 1] = todo[i]
  BY Popped
<1>2. 1 \in 1..Len(todo)
  BY <1>1
<1>3. ASSUME step # "merge", NEW i \in 1..Len(todo'), todo'[i] = "stamp",
             ~ \A k \in Current.keys : state.values[k] = Len(sent)
      PROVE  \E j \in 1..Len(todo') : j < i /\ todo'[j] = "merge"
  <2>1. i + 1 \in 1..Len(todo) /\ todo[i + 1] = "stamp"
    BY <1>1, <1>3
  <2>2. PICK j \in 1..Len(todo) : j < i + 1 /\ todo[j] = "merge"
    BY <1>3, <2>1 DEF MergedFirst
  <2>3. j # 1 /\ j - 1 < i
    BY <1>1, <1>3, <2>2
  <2> QED BY <1>1, <2>2, <2>3
<1>4. ASSUME step = "stamp" PROVE \A k \in Current.keys : state.values[k] = Len(sent)
  <2>1. ~ \E j \in 1..Len(todo) : j < 1 /\ todo[j] = "merge"
    BY <1>1
  <2> QED BY <1>1, <1>2, <1>4, <2>1 DEF MergedFirst
<1> QED BY <1>3, <1>4

-----------------------------------------------------------------------------
(* The invariant, one lemma per kind of step.                               *)

LEMMA InductiveInit == Init => Inductive
<1> SUFFICES ASSUME Init PROVE Inductive
  OBVIOUS
<1>1. TypeOK
  BY TypesInit
<1>2. Len(todo) = 0 /\ 1..Len(todo) = {} /\ Len(sent) = 0
  BY DEF Init
<1>3. /\ data = NoState /\ state = NoState /\ NoState.online = FALSE
      /\ NoState.last_telemetry = 0 /\ \A k \in Keys : NoState.values[k] = 0
  BY DEF Init, NoState
<1>4. Announced /\ ChangesAnnounced /\ CurrentKnown /\ MergedFirst
  BY <1>2, <1>3 DEF Announced, ChangesAnnounced, CurrentKnown, MergedFirst, Remains
<1>5. OnlineDecided
  BY <1>2, <1>3 DEF Init, OnlineDecided, Remains
<1>6. ReadingsKnown /\ HasReading(state) /\ HasReading(data)
  BY <1>2, <1>3 DEF ReadingsKnown, HasReading
<1> QED BY <1>1, <1>4, <1>5, <1>6 DEF Inductive

\* A callback starts on a well-formed script.
LEMMA NewScript ==
  ASSUME WellFormed(todo')
  PROVE  /\ ChangesAnnounced'
         /\ MergedFirst'
         /\ \A i, j \in 1..Len(todo') :
              todo'[i] \in OnlineSteps /\ todo'[j] \in OnlineSteps => i = j
BY DEF WellFormed, ChangesAnnounced, MergedFirst

\* Between two callbacks the online flag is decided.
LEMMA DecidedBetween ==
  ASSUME OnlineDecided, todo = <<>>
  PROVE  (state.online <=> link = "up" /\ heard = "up") /\ \A x : ~Remains(x)
<1>1. 1..Len(todo) = {}
  OBVIOUS
<1> QED BY <1>1 DEF OnlineDecided, Remains

LEMMA InductiveReceive ==
  ASSUME ConstantsOK, Inductive, TypeOK', NEW m \in Messages, Receive(m)
  PROVE  Inductive'
<1> USE DEF linkVars, loopVars
<1>1. m \in MessageType /\ m.up \in BOOLEAN
  BY DEF ConstantsOK, MessageType
<1>2. TypeOK /\ sent \in Seq(Messages) /\ Len(sent) \in Nat
  BY DEF Inductive, TypeOK
<1>3. /\ todo = <<>> /\ link = "up"
      /\ todo' = Script(m) /\ heard' = Word(m) /\ sent' = Append(sent, m)
      /\ UNCHANGED <<link, state, data, notices, ticking>>
  BY DEF Receive
<1>4. /\ Len(sent') = Len(sent) + 1 /\ sent'[Len(sent) + 1] = m
      /\ \A i \in 1..Len(sent) : sent'[i] = sent[i]
  BY <1>2, <1>3
<1>5. Current' = m
  BY <1>4 DEF Current
<1>6. WellFormed(todo')
  BY <1>1, <1>3, ScriptShapes, NeutralSteps, EventSteps, ReadingSteps
<1>7. (state.online <=> link = "up" /\ heard = "up") /\ \A x : ~Remains(x)
  BY <1>3, DecidedBetween DEF Inductive
<1>8. Announced'
  BY <1>3, <1>7 DEF Inductive, Announced
<1>9. CurrentKnown'
  BY <1>2, <1>4 DEF CurrentKnown
<1>10. OnlineDecided'
  <2>1. CASE Script(m) \in Neutral /\ Word(m) = heard
    <3>1. \A i \in 1..Len(todo') : todo'[i] \notin OnlineSteps
      BY <1>3, <2>1, NeutralSteps
    <3>2. ~Remains("online")' /\ ~Remains("status")' /\ ~Remains("offline")'
      BY <3>1 DEF Remains, OnlineSteps
    <3> QED BY <1>3, <1>7, <2>1, <3>1, <3>2 DEF OnlineDecided
  <2>2. CASE Script(m) = OfEvent /\ Word(m) = IF m.up THEN "up" ELSE "down"
    <3>1. Remains("status")' /\ ~Remains("online")' /\ ~Remains("offline")'
      BY <1>3, <2>2, EventSteps DEF Remains, Has
    <3>2. ~ \A i \in 1..Len(todo') : todo'[i] \notin OnlineSteps
      BY <3>1 DEF Remains, OnlineSteps
    <3>3. heard' = "up" <=> Current'.up
      BY <1>1, <1>3, <1>5, <2>2
    <3> QED BY <1>3, <1>6, <3>1, <3>2, <3>3, NewScript DEF OnlineDecided
  <2>3. CASE Script(m) \in Readings /\ Word(m) = "up"
    <3>1. Remains("online")' /\ ~Remains("status")' /\ ~Remains("offline")'
      BY <1>3, <2>3, ReadingSteps DEF Remains, Has
    <3>2. ~ \A i \in 1..Len(todo') : todo'[i] \notin OnlineSteps
      BY <3>1 DEF Remains, OnlineSteps
    <3> QED BY <1>3, <1>6, <2>3, <3>1, <3>2, NewScript DEF OnlineDecided
  <2> QED BY <1>1, <2>1, <2>2, <2>3, ScriptShapes
<1>11. ReadingsKnown'
  <2>1. state.last_telemetry \in Nat /\ data.last_telemetry \in Nat
    BY <1>2 DEF TypeOK, StateType
  <2>2. \A k \in Keys : state.values[k] \in Nat
    BY <1>2 DEF TypeOK, StateType
  <2> QED BY <1>2, <1>3, <1>4, <2>1, <2>2 DEF Inductive, ReadingsKnown
<1>12. ASSUME NEW s \in StateType, HasReading(s), s.last_telemetry <= Len(sent),
              s.last_telemetry # 0
       PROVE  \A k \in sent'[s.last_telemetry].keys : s.values[k] >= s.last_telemetry
  <2>1. s.last_telemetry \in 1..Len(sent)
    BY <1>2, <1>12 DEF StateType
  <2> QED BY <1>4, <1>12, <2>1 DEF HasReading
<1>13. HasReading(state)' /\ HasReading(data)'
  BY <1>2, <1>3, <1>12 DEF Inductive, TypeOK, ReadingsKnown, HasReading
<1> QED BY <1>6, <1>8, <1>9, <1>10, <1>11, <1>13, NewScript DEF Inductive

LEMMA InductiveAccepted ==
  ASSUME Inductive, TypeOK', Accepted
  PROVE  Inductive'
<1> USE DEF loopVars
<1>1. /\ todo = <<>> /\ link # "up" /\ todo' = OnConnect
      /\ link' = "up" /\ heard' = "nothing"
      /\ UNCHANGED <<state, data, notices, ticking, sent>>
  BY DEF Accepted
<1>2. /\ WellFormed(todo') /\ \A i \in 1..Len(todo') : todo'[i] \notin OnlineSteps
      /\ ~Remains("merge")' /\ ~Remains("stamp")'
  BY <1>1, NeutralSteps DEF Neutral, Has, Remains
<1>3. ~Remains("online")' /\ ~Remains("status")' /\ ~Remains("offline")'
  BY <1>2 DEF Remains, OnlineSteps
<1>4. (state.online <=> link = "up" /\ heard = "up") /\ \A x : ~Remains(x)
  BY <1>1, DecidedBetween DEF Inductive
<1>5. Announced'
  BY <1>1, <1>4 DEF Inductive, Announced
<1>6. CurrentKnown'
  BY <1>2, <1>3 DEF CurrentKnown
<1>7. OnlineDecided'
  BY <1>1, <1>2, <1>3, <1>4 DEF OnlineDecided
<1>8. ReadingsKnown' /\ HasReading(state)' /\ HasReading(data)'
  BY <1>1 DEF Inductive, ReadingsKnown, HasReading
<1> QED BY <1>2, <1>5, <1>6, <1>7, <1>8, NewScript DEF Inductive

LEMMA InductiveDropped ==
  ASSUME Inductive, TypeOK', Dropped
  PROVE  Inductive'
<1> USE DEF loopVars
<1>1. /\ todo = <<>> /\ todo' = OnDisconnect /\ link' = "down"
      /\ UNCHANGED <<state, data, notices, ticking, sent>>
  BY DEF Dropped
<1>2. /\ WellFormed(todo')
      /\ Remains("offline")' /\ ~Remains("online")' /\ ~Remains("status")'
  BY <1>1, DisconnectSteps DEF Has, Remains
<1>3. ~ \A i \in 1..Len(todo') : todo'[i] \notin OnlineSteps
  BY <1>2 DEF Remains, OnlineSteps
<1>4. ~Remains("merge")' /\ ~Remains("stamp")'
  BY <1>1 DEF OnDisconnect, Remains
<1>5. \A x : ~Remains(x)
  BY <1>1, DecidedBetween DEF Inductive
<1>6. Announced'
  BY <1>1, <1>5 DEF Inductive, Announced
<1>7. CurrentKnown'
  BY <1>2, <1>4 DEF CurrentKnown
<1>8. OnlineDecided'
  BY <1>1, <1>2, <1>3, NewScript DEF OnlineDecided
<1>9. ReadingsKnown' /\ HasReading(state)' /\ HasReading(data)'
  BY <1>1 DEF Inductive, ReadingsKnown, HasReading
<1> QED BY <1>2, <1>6, <1>7, <1>8, <1>9, NewScript DEF Inductive

\* A step that only takes its entry from the script, and may tell the loop.
LEMMA InductiveNoChange ==
  ASSUME Inductive, TypeOK', NEW step, Do(step),
         step \notin Changes,
         UNCHANGED <<link, state, data, ticking, sent, heard>>,
         \/ notices' = notices /\ step # "notify"
         \/ notices' = notices + 1
  PROVE  Inductive'
<1>1. TypeOK /\ ChangesAnnounced /\ OnlineDecided /\ MergedFirst
  BY DEF Inductive
<1>2. step \notin OnlineSteps /\ step # "merge"
  BY DEF Changes, OnlineSteps
<1>3. /\ \A x : Remains(x)' => Remains(x)
      /\ \A x : x # step /\ Remains(x) => Remains(x)'
      /\ ChangesAnnounced'
      /\ \A i, j \in 1..Len(todo') :
           todo'[i] \in OnlineSteps /\ todo'[j] \in OnlineSteps => i = j
      /\ (\A i \in 1..Len(todo') : todo'[i] \notin OnlineSteps)
           => \A i \in 1..Len(todo) : todo[i] \notin OnlineSteps
  BY <1>1, <1>2, PoppedParts
<1>4. Announced'
  <2>1. notices \in Nat
    BY <1>1 DEF TypeOK
  <2> QED BY <1>3, <2>1 DEF Inductive, Announced
<1>5. CurrentKnown'
  BY <1>3 DEF Inductive, CurrentKnown
<1>6. MergedFirst'
  BY <1>1, <1>2, PoppedStamp DEF MergedFirst, Current
<1>7. OnlineDecided'
  BY <1>1, <1>3 DEF OnlineDecided, Current
<1>8. ReadingsKnown' /\ HasReading(state)' /\ HasReading(data)'
  BY DEF Inductive, ReadingsKnown, HasReading
<1> QED BY <1>3, <1>4, <1>5, <1>6, <1>7, <1>8 DEF Inductive

\* What a step that changes the state leaves to be shown: the same readings
\* or newer ones, the time of a reading only with it, and the online flag that
\* the step was to decide.
LEMMA InductiveChange ==
  ASSUME Inductive, TypeOK', NEW step \in Changes, NEW new, ChangeState(step, new),
         \A k \in Keys : state.values[k] <= new.values[k] /\ new.values[k] <= Len(sent),
         new.last_telemetry <= Len(sent),
         HasReading(new),
         IF step = "merge" THEN \A k \in Current.keys : new.values[k] = Len(sent)
                           ELSE new.values = state.values,
         IF step \in OnlineSteps THEN new.online <=> link = "up" /\ heard = "up"
                                 ELSE new.online = state.online
  PROVE  Inductive'
<1>1. TypeOK /\ ChangesAnnounced /\ OnlineDecided /\ MergedFirst
  BY DEF Inductive
<1>2. /\ Do(step) /\ state' = new
      /\ UNCHANGED <<link, data, notices, ticking, sent, heard>>
  BY DEF ChangeState, linkVars, loopVars, envVars
<1>3. /\ \A x : Remains(x)' => Remains(x)
      /\ ChangesAnnounced' /\ Remains("notify")'
      /\ \A i, j \in 1..Len(todo') :
           todo'[i] \in OnlineSteps /\ todo'[j] \in OnlineSteps => i = j
      /\ step \notin OnlineSteps /\ (\A i \in 1..Len(todo') : todo'[i] \notin OnlineSteps)
           => \A i \in 1..Len(todo) : todo[i] \notin OnlineSteps
  BY <1>1, <1>2, PoppedParts
<1>4. Announced'
  BY <1>3 DEF Announced
<1>5. CurrentKnown'
  BY <1>2, <1>3 DEF Inductive, CurrentKnown
<1>6. MergedFirst'
  BY <1>1, <1>2, PoppedStamp DEF MergedFirst, Current
<1>7. OnlineDecided'
  BY <1>1, <1>2, <1>3 DEF OnlineDecided, Current
<1>8. ReadingsKnown'
  <2>1. ASSUME NEW k \in Keys PROVE data.values[k] <= new.values[k]
    <3>1. data.values[k] \in Nat /\ state.values[k] \in Nat /\ new.values[k] \in Nat
      BY <1>1, <1>2 DEF TypeOK, StateType
    <3>2. data.values[k] <= state.values[k] /\ state.values[k] <= new.values[k]
      BY DEF Inductive, ReadingsKnown
    <3> QED BY <3>1, <3>2
  <2> QED BY <1>2, <2>1 DEF Inductive, ReadingsKnown
<1>9. HasReading(state)' /\ HasReading(data)'
  BY <1>2 DEF Inductive, HasReading
<1> QED BY <1>3, <1>4, <1>5, <1>6, <1>7, <1>8, <1>9 DEF Inductive

LEMMA InductivePaho ==
  ASSUME ConstantsOK, Inductive, TypeOK', PahoStep
  PROVE  Inductive'
<1> USE DEF linkVars, loopVars, envVars
<1>1. TypeOK /\ OnlineDecided /\ CurrentKnown /\ ReadingsKnown /\ HasReading(state)
  BY DEF Inductive
<1>2. ASSUME NEW step, Do(step)
      PROVE  Remains(step)
  BY <1>1, <1>2, PoppedParts DEF Inductive
<1>3. /\ Len(sent) \in Nat /\ state \in StateType
      /\ \A k \in Keys : state.values[k] \in Nat /\ state.values[k] <= state.values[k]
                        /\ state.values[k] <= Len(sent)
      /\ state.last_telemetry \in Nat /\ state.last_telemetry <= Len(sent)
  <2>1. Len(sent) \in Nat /\ state \in StateType
    BY <1>1 DEF TypeOK
  <2>2. state.last_telemetry \in Nat /\ \A k \in Keys : state.values[k] \in Nat
    BY <2>1 DEF StateType
  <2> QED BY <1>1, <2>1, <2>2 DEF ReadingsKnown
<1>4. CASE MergeValues
  <2> DEFINE new == [state EXCEPT !.values = Updated(Current.keys)]
  <2>1. ChangeState("merge", new) /\ Do("merge")
    BY <1>4 DEF MergeValues, ChangeState
  <2>2. Current.keys \subseteq Keys
    BY <1>1, <1>2, <2>1, CurrentType DEF CurrentKnown
  <2>3. /\ new.values = Updated(Current.keys) /\ new.online = state.online
        /\ new.last_telemetry = state.last_telemetry
    BY <1>3 DEF StateType
  <2>4. \A k \in Keys : new.values[k] = IF k \in Current.keys THEN Len(sent) ELSE state.values[k]
    BY <2>3 DEF Updated
  <2>5. \A k \in Keys : state.values[k] <= new.values[k] /\ new.values[k] <= Len(sent)
    BY <1>3, <2>4
  <2>6. \A k \in Current.keys : new.values[k] = Len(sent)
    BY <2>2, <2>4
  <2>7. HasReading(new)
    <3>1. SUFFICES ASSUME state.last_telemetry # 0,
                          NEW k \in sent[state.last_telemetry].keys
                   PROVE  new.values[k] >= state.last_telemetry
      BY <2>3 DEF HasReading
    <3>2. sent[state.last_telemetry] \in MessageType
      BY <1>1, <1>3, <3>1 DEF TypeOK, ConstantsOK
    <3>3. k \in Keys
      BY <3>1, <3>2 DEF MessageType
    <3>4. state.values[k] >= state.last_telemetry
      BY <1>1, <3>1 DEF HasReading
    <3>5. new.values[k] \in Nat
      BY <1>3, <2>4, <3>3
    <3> QED BY <1>3, <2>5, <3>3, <3>4, <3>5
  <2> HIDE DEF new
  <2> QED BY <1>3, <2>1, <2>3, <2>5, <2>6, <2>7, InductiveChange DEF Changes, OnlineSteps
<1>5. CASE SetOnline
  <2> DEFINE new == [state EXCEPT !.online = TRUE]
  <2>1. ChangeState("online", new) /\ Do("online")
    BY <1>5 DEF SetOnline, ChangeState
  <2>2. link = "up" /\ heard = "up"
    BY <1>1, <1>2, <2>1 DEF OnlineDecided
  <2>3. /\ new.values = state.values /\ new.online = TRUE
        /\ new.last_telemetry = state.last_telemetry
    BY <1>3 DEF StateType
  <2>4. HasReading(new)
    BY <1>1, <2>3 DEF HasReading
  <2> HIDE DEF new
  <2> QED BY <1>3, <2>1, <2>2, <2>3, <2>4, InductiveChange DEF Changes, OnlineSteps
<1>6. CASE StampTelemetry
  <2> DEFINE new == [state EXCEPT !.last_telemetry = Len(sent)]
  <2>1. ChangeState("stamp", new) /\ Do("stamp")
    BY <1>6 DEF StampTelemetry, ChangeState
  <2>2. new.values = state.values /\ new.online = state.online /\ new.last_telemetry = Len(sent)
    BY <1>3 DEF StateType
  <2>3. \A k \in Current.keys : state.values[k] = Len(sent)
    BY <2>1, PoppedStamp DEF Inductive
  <2>4. HasReading(new)
    BY <1>3, <2>2, <2>3 DEF HasReading, Current
  <2> HIDE DEF new
  <2> QED BY <1>3, <2>1, <2>2, <2>4, InductiveChange DEF Changes, OnlineSteps
<1>7. CASE TakeStatus
  <2> DEFINE new == [state EXCEPT !.online = Current.up]
  <2>1. ChangeState("status", new) /\ Do("status")
    BY <1>7 DEF TakeStatus, ChangeState
  <2>2. Current.up <=> link = "up" /\ heard = "up"
    BY <1>1, <1>2, <2>1 DEF OnlineDecided
  <2>3. /\ new.values = state.values /\ new.online = Current.up
        /\ new.last_telemetry = state.last_telemetry
    BY <1>3 DEF StateType
  <2>4. HasReading(new)
    BY <1>1, <2>3 DEF HasReading
  <2> HIDE DEF new
  <2> QED BY <1>3, <2>1, <2>2, <2>3, <2>4, InductiveChange DEF Changes, OnlineSteps
<1>8. CASE RecordEvent
  <2> DEFINE new == [state EXCEPT !.last_event = Len(sent)]
  <2>1. ChangeState("event", new)
    BY <1>8 DEF RecordEvent
  <2>2. /\ new.values = state.values /\ new.online = state.online
        /\ new.last_telemetry = state.last_telemetry
    BY <1>3 DEF StateType
  <2>3. HasReading(new)
    BY <1>1, <2>2 DEF HasReading
  <2> HIDE DEF new
  <2> QED BY <1>3, <2>1, <2>2, <2>3, InductiveChange DEF Changes, OnlineSteps
<1>9. CASE TakeIdentity
  <2> DEFINE new == [state EXCEPT !.identity = Len(sent)]
  <2>1. ChangeState("identity", new)
    BY <1>9 DEF TakeIdentity
  <2>2. /\ new.values = state.values /\ new.online = state.online
        /\ new.last_telemetry = state.last_telemetry
    BY <1>3 DEF StateType
  <2>3. HasReading(new)
    BY <1>1, <2>2 DEF HasReading
  <2> HIDE DEF new
  <2> QED BY <1>3, <2>1, <2>2, <2>3, InductiveChange DEF Changes, OnlineSteps
<1>10. CASE SetOffline
  <2> DEFINE new == [state EXCEPT !.online = FALSE]
  <2>1. ChangeState("offline", new) /\ Do("offline")
    BY <1>10 DEF SetOffline, ChangeState
  <2>2. link # "up"
    BY <1>1, <1>2, <2>1 DEF OnlineDecided
  <2>3. /\ new.values = state.values /\ new.online = FALSE
        /\ new.last_telemetry = state.last_telemetry
    BY <1>3 DEF StateType
  <2>4. HasReading(new)
    BY <1>1, <2>3 DEF HasReading
  <2> HIDE DEF new
  <2> QED BY <1>3, <2>1, <2>2, <2>3, <2>4, InductiveChange DEF Changes, OnlineSteps
<1>11. CASE SetConnected("up", TRUE)
  BY <1>11, InductiveNoChange DEF SetConnected, Changes
<1>12. CASE SetConnected("down", FALSE)
  BY <1>12, InductiveNoChange DEF SetConnected, Changes
<1>13. CASE Notify
  BY <1>13, InductiveNoChange DEF Notify, Changes
<1>14. CASE Ack
  BY <1>14, InductiveNoChange DEF Ack, Changes
<1>15. CASE AskOnConnect
  BY <1>15, InductiveNoChange DEF AskOnConnect, Changes
<1> QED BY <1>4, <1>5, <1>6, <1>7, <1>8, <1>9, <1>10, <1>11, <1>12, <1>13, <1>14, <1>15 DEF PahoStep

\* The event loop copies the state, or leaves it and the data alone.
LEMMA InductiveLoop ==
  ASSUME Inductive, TypeOK',
         UNCHANGED <<link, state, todo, sent, heard>>,
         \/ data' = state
         \/ (data' = data /\ notices' = notices) /\ (ticking' \/ ~ticking)
  PROVE  Inductive'
<1>1. /\ ChangesAnnounced' /\ CurrentKnown' /\ MergedFirst' /\ OnlineDecided'
      /\ HasReading(state)' /\ HasReading(data)'
  BY DEF Inductive, ChangesAnnounced, CurrentKnown, MergedFirst, OnlineDecided,
         Remains, Current, HasReading
<1>2. Announced'
  BY DEF Inductive, Announced, Remains
<1>3. ReadingsKnown'
  <2>1. \A k \in Keys : state.values[k] \in Nat
    BY DEF Inductive, TypeOK, StateType
  <2>2. \A k \in Keys : state.values[k] <= state.values[k]
    BY <2>1
  <2> QED BY <2>2 DEF Inductive, ReadingsKnown
<1> QED BY <1>1, <1>2, <1>3 DEF Inductive

LEMMA InductiveStep ==
  ASSUME ConstantsOK, Inductive, [Next]_vars
  PROVE  Inductive'
<1> USE DEF linkVars, pahoVars, loopVars, envVars
<1>1. TypeOK'
  BY TypesStep DEF Inductive
<1>2. ASSUME NEW m \in Messages, Receive(m) PROVE Inductive'
  BY <1>1, <1>2, InductiveReceive
<1>3. CASE Accepted
  BY <1>1, <1>3, InductiveAccepted
<1>4. CASE Dropped
  BY <1>1, <1>4, InductiveDropped
<1>5. CASE PahoStep
  BY <1>1, <1>5, InductivePaho
<1>6. CASE RunNotify
  BY <1>1, <1>6, InductiveLoop DEF RunNotify
<1>7. CASE TickStarts
  BY <1>1, <1>7, InductiveLoop DEF TickStarts
<1>8. CASE TickEnds
  BY <1>1, <1>8, InductiveLoop DEF TickEnds
<1>9. CASE PressRefresh
  BY <1>1, <1>9, InductiveLoop DEF PressRefresh
<1>10. CASE DongleDies
  BY <1>1, <1>10, InductiveLoop DEF DongleDies
<1>11. CASE UNCHANGED vars
  BY <1>1, <1>11, InductiveLoop DEF vars
<1> QED BY <1>2, <1>3, <1>4, <1>5, <1>6, <1>7, <1>8, <1>9, <1>10, <1>11 DEF Next

-----------------------------------------------------------------------------
(* The theorems.                                                            *)

\* What the callbacks still have to do and what the history says of the dongle
\* determine, at every moment, how far the entities are behind the bridge.
THEOREM InductiveHolds == Spec => []Inductive
<1>1. Init => Inductive
  BY InductiveInit
<1>2. Inductive /\ [Next]_vars => Inductive'
  BY InductiveStep, ConstantsOK
<1> QED BY <1>1, <1>2, PTL DEF Spec

\* The types of both threads' state (mqtt_client.py:47-63, coordinator.py).
THEOREM TelemetryTypes == Spec => []TypeOK
<1>1. Inductive => TypeOK
  BY DEF Inductive
<1> QED BY <1>1, InductiveHolds, PTL

\* Whatever messages interleave with notifications and ticks: when nothing is
\* under way, the entities' data is the bridge's state.
THEOREM QuietIsFresh == Spec => []FreshWhenQuiet
<1>1. Inductive => FreshWhenQuiet
  <2> SUFFICES ASSUME Inductive, Quiet PROVE data = state
    BY DEF FreshWhenQuiet
  <2>1. ~Remains("notify")
    BY DEF Quiet, Remains
  <2> QED BY <2>1 DEF Inductive, Announced, Quiet
<1> QED BY <1>1, InductiveHolds, PTL

\* The Online sensor shows the dongle's last word in the present session, for
\* any number of sessions, messages and interleavings.
THEOREM OnlineShowsLastWord == Spec => []OnlineIsCurrent
<1>1. Inductive => OnlineIsCurrent
  <2> SUFFICES ASSUME Inductive, Quiet
               PROVE  data.online <=> link = "up" /\ heard = "up"
    BY DEF OnlineIsCurrent
  <2>1. data = state
    <3>1. ~Remains("notify")
      BY DEF Quiet, Remains
    <3> QED BY <3>1 DEF Inductive, Announced, Quiet
  <2>2. state.online <=> link = "up" /\ heard = "up"
    BY DecidedBetween DEF Inductive, Quiet
  <2> QED BY <2>1, <2>2
<1> QED BY <1>1, InductiveHolds, PTL

\* A snapshot that has the time of a reading has the reading, at whichever of
\* the assignments of _ingest_telemetry it was taken.
THEOREM TimeNeedsReading == Spec => []StampHasReading
<1>1. Inductive => StampHasReading
  BY DEF Inductive, StampHasReading
<1> QED BY <1>1, InductiveHolds, PTL

\* No sensor ever goes back to an older reading.
THEOREM ReadingsAdvance == Spec => NeverOlder
<1>1. ASSUME Inductive, Inductive', [Next]_vars
      PROVE  [\A k \in Keys : data.values[k] <= data'.values[k]]_vars
  <2> SUFFICES ASSUME NEW k \in Keys PROVE data.values[k] <= data'.values[k]
    OBVIOUS
  <2>1. data.values[k] \in Nat /\ data.values[k] <= state.values[k]
    BY <1>1 DEF Inductive, TypeOK, StateType, ReadingsKnown
  <2>2. data' = data \/ data' = state
    BY <1>1 DEF Next, Receive, Accepted, Dropped, PahoStep, MergeValues, SetOnline,
                StampTelemetry, TakeStatus, RecordEvent, TakeIdentity, SetOffline,
                ChangeState, SetConnected, Notify, Ack, AskOnConnect, RunNotify,
                TickStarts, TickEnds, PressRefresh, DongleDies,
                vars, linkVars, pahoVars, loopVars, envVars
  <2> QED BY <2>1, <2>2
<1> QED BY <1>1, InductiveHolds, PTL DEF Spec, NeverOlder

\* The read path implements Replica: whatever the threads interleave, the data
\* of the entities is only ever replaced by the whole state of the bridge, and
\* no step changes both.
THEOREM SnapshotsAreWhole == Spec => SnapshotsOnly
<1>1. Init => Shown!Init
  BY DEF Init, Shown!Init
<1>2. [Next]_vars => [Shown!Next]_<<state, data>>
  <2> SUFFICES ASSUME [Next]_vars PROVE [Shown!Next]_<<state, data>>
    OBVIOUS
  <2> USE DEF linkVars, pahoVars, loopVars, envVars
  <2>1. ASSUME UNCHANGED data PROVE [Shown!Next]_<<state, data>>
    BY <2>1 DEF Shown!Next, Shown!Change
  <2>2. ASSUME data' = state, UNCHANGED state PROVE [Shown!Next]_<<state, data>>
    BY <2>2 DEF Shown!Next, Shown!Copy
  <2>3. CASE (\E m \in Messages : Receive(m)) \/ Accepted \/ Dropped
    BY <2>1, <2>3 DEF Receive, Accepted, Dropped
  <2>4. CASE PahoStep
    BY <2>1, <2>4
    DEF PahoStep, MergeValues, SetOnline, StampTelemetry, TakeStatus, RecordEvent,
        TakeIdentity, SetOffline, ChangeState, SetConnected, Notify, Ack, AskOnConnect
  <2>5. CASE RunNotify \/ TickEnds
    BY <2>2, <2>5 DEF RunNotify, TickEnds
  <2>6. CASE TickStarts \/ PressRefresh \/ DongleDies \/ UNCHANGED vars
    BY <2>1, <2>6 DEF TickStarts, PressRefresh, DongleDies, vars
  <2> QED BY <2>3, <2>4, <2>5, <2>6 DEF Next
<1> QED BY <1>1, <1>2, PTL DEF Spec, SnapshotsOnly, Shown!Spec

=============================================================================
