----------------------------- MODULE Telemetry ------------------------------
(***************************************************************************)
(* The read path: what the dongle reports becomes the state of RWB1Bridge   *)
(* (mqtt_client.py _on_connect, _on_disconnect, _dispatch and the _ingest   *)
(* methods), and a snapshot of it becomes the data of RWB1Coordinator, from *)
(* which sensors and binary sensors read (coordinator.py, entity.py).       *)
(*                                                                         *)
(* paho's thread changes the state in place, one field after the other; the *)
(* event loop copies it whenever a queued _notify or the refresh tick runs. *)
(* A callback is therefore a script of steps that the loop interleaves with. *)
(*                                                                         *)
(* A reading is named by the number of the message that brought it, and a   *)
(* message says which groups of values its frames decode to.                *)
(***************************************************************************)
EXTENDS Naturals, Sequences

CONSTANTS
  Keys,         \* groups of telemetry values, one per kind of frame
  Messages,     \* what the dongle may publish
  MaxMessages,  \* bound on the messages received
  MaxDrops      \* bound on lost connections and refused attempts

Kinds == {"prop", "dump", "event", "identity"}

\* bad: the body is malformed, so that decoding it raises before any change.
MessageType ==
  [kind : Kinds, keys : SUBSET Keys, ts : BOOLEAN, up : BOOLEAN, bad : BOOLEAN]

ASSUME ConstantsOK ==
  /\ Messages \subseteq MessageType
  /\ MaxMessages \in Nat /\ MaxDrops \in Nat

VARIABLES
  link,       \* paho's session: "new" before the first CONNACK, "up", "down"
  connected,  \* RWB1Bridge.connected
  state,      \* RWB1Bridge.state
  todo,       \* the steps paho's thread has still to do in its callback
  acked,      \* the messages the dongle got an e:0 reply for
  asked,      \* a dump request is on its way to the dongle
  notices,    \* _notify handles queued on the event loop
  ticking,    \* the refresh tick has found the broker connected
  data,       \* coordinator.data
  success,    \* coordinator.last_update_success: entities are available
  alive,      \* the dongle still publishes
  sent,       \* history: the messages received so far
  heard,      \* history: the dongle's last word on itself in this session
  drops       \* how often the connection was lost or refused

linkVars == <<link, drops>>
pahoVars == <<connected, state, todo, acked>>
loopVars == <<ticking, data, success>>
envVars  == <<alive, sent, heard>>
vars     == <<linkVars, pahoVars, asked, notices, loopVars, envVars>>

\* The keys of the state dict that matter; 0 where there is no such key yet.
StateType ==
  [online : BOOLEAN, values : [Keys -> Nat], last_telemetry : Nat,
   last_event : Nat, identity : Nat]

Steps == {"up", "ask", "down", "offline", "merge", "online", "stamp",
          "status", "event", "identity", "notify", "ack"}

TypeOK ==
  /\ link \in {"new", "up", "down"}
  /\ connected \in BOOLEAN
  /\ state \in StateType
  /\ todo \in Seq(Steps)
  /\ acked \subseteq Nat
  /\ asked \in BOOLEAN
  /\ notices \in Nat
  /\ ticking \in BOOLEAN
  /\ data \in StateType
  /\ success \in BOOLEAN
  /\ alive \in BOOLEAN
  /\ sent \in Seq(Messages)
  /\ heard \in {"nothing", "up", "down"}
  /\ drops \in Nat

NoState ==
  [online |-> FALSE, values |-> [k \in Keys |-> 0], last_telemetry |-> 0,
   last_event |-> 0, identity |-> 0]

Init ==
  /\ link = "new"
  /\ connected = FALSE
  /\ state = NoState
  /\ todo = <<>>
  /\ acked = {}
  /\ asked = FALSE
  /\ notices = 0
  /\ ticking = FALSE
  /\ data = NoState
  /\ success = TRUE
  /\ alive = TRUE
  /\ sent = <<>>
  /\ heard = "nothing"
  /\ drops = 0

-----------------------------------------------------------------------------
(* The callbacks of paho's thread, as scripts.                              *)

\* Mutants of Ingest: the time of the reading before the reading; a reading
\* without a time ignored.
IngestStampedFirst(m) ==
  IF m.keys = {} THEN <<>> ELSE <<"stamp", "merge", "online", "notify">>
IngestStampedOnly(m) ==
  IF m.keys = {} \/ ~m.ts THEN <<>> ELSE <<"merge", "online", "stamp", "notify">>

\* _ingest_telemetry: nothing at all for a ct without a recognised frame.
Ingest(m) ==
  IF m.keys = {} THEN <<>>
  ELSE IF m.ts THEN <<"merge", "online", "stamp", "notify">>
  ELSE <<"merge", "online", "notify">>

\* _dispatch, for each kind of message.  A dump is acknowledged by nobody.
Script(m) ==
  IF m.bad THEN <<>>
  ELSE CASE m.kind = "prop"     -> Append(Ingest(m), "ack")
         [] m.kind = "dump"     -> Ingest(m)
         [] m.kind = "event"    -> <<"status", "event", "ack", "notify">>
         [] m.kind = "identity" -> <<"identity", "notify">>

\* Mutants of OnDisconnect: the loop is not told; the dongle stays online.
OnDisconnectUntold == <<"down", "offline">>
OnDisconnectOnline == <<"down", "notify">>

\* Mutant of OnConnect: the session is taken for the dongle's word.
OnConnectOnline == <<"up", "online", "notify", "ask">>

OnConnect    == <<"up", "ask">>
OnDisconnect == <<"down", "offline", "notify">>

\* What a message says of the dongle, for the code and for the history.
Word(m) ==
  IF m.bad \/ m.kind = "identity" \/ (m.kind # "event" /\ m.keys = {}) THEN heard
  ELSE IF m.kind # "event" \/ m.up THEN "up"
  ELSE "down"

\* The thread delivers one message or one connection event at a time.
Receive(m) ==
  /\ todo = <<>>
  /\ link = "up" /\ alive
  /\ Len(sent) < MaxMessages
  /\ m.kind = "dump" => asked
  /\ asked' \in (IF m.kind = "dump" THEN BOOLEAN ELSE {asked})
  /\ sent' = Append(sent, m)
  /\ heard' = Word(m)
  /\ todo' = Script(m)
  /\ UNCHANGED <<linkVars, connected, state, acked, notices, loopVars, alive>>

\* A CONNACK with rc = 0.
Accepted ==
  /\ todo = <<>>
  /\ link # "up"
  /\ link' = "up"
  /\ heard' = "nothing"
  /\ todo' = OnConnect
  /\ UNCHANGED <<drops, connected, state, acked, asked, notices, loopVars, alive, sent>>

\* The connection is lost, and with it a request not yet delivered; or a new
\* attempt is refused: paho calls on_disconnect after that as well.
Dropped ==
  /\ todo = <<>>
  /\ link # "new"
  /\ drops < MaxDrops
  /\ drops' = drops + 1
  /\ link' = "down"
  /\ asked' = FALSE
  /\ heard' = "nothing"
  /\ todo' = OnDisconnect
  /\ UNCHANGED <<connected, state, acked, notices, loopVars, alive, sent>>

\* One step of the running callback: the state dict is changed in place.
Do(step) == todo # <<>> /\ Head(todo) = step /\ todo' = Tail(todo)

Current == sent[Len(sent)]

ChangeState(step, new) ==
  /\ Do(step)
  /\ state' = new
  /\ UNCHANGED <<linkVars, connected, acked, asked, notices, loopVars, envVars>>

\* Mutant of Updated: the new values replace the old ones.
Replaced(keys) == [k \in Keys |-> IF k \in keys THEN Len(sent) ELSE 0]

\* dict.update: what a message does not carry stays.
Updated(keys) == [k \in Keys |-> IF k \in keys THEN Len(sent) ELSE state.values[k]]

MergeValues    == ChangeState("merge", [state EXCEPT !.values = Updated(Current.keys)])
SetOnline      == ChangeState("online", [state EXCEPT !.online = TRUE])
StampTelemetry == ChangeState("stamp", [state EXCEPT !.last_telemetry = Len(sent)])
TakeStatus     == ChangeState("status", [state EXCEPT !.online = Current.up])
RecordEvent    == ChangeState("event", [state EXCEPT !.last_event = Len(sent)])
TakeIdentity   == ChangeState("identity", [state EXCEPT !.identity = Len(sent)])
SetOffline     == ChangeState("offline", [state EXCEPT !.online = FALSE])

SetConnected(step, up) ==
  /\ Do(step)
  /\ connected' = up
  /\ UNCHANGED <<linkVars, state, acked, asked, notices, loopVars, envVars>>

Notify ==
  /\ Do("notify")
  /\ notices' = notices + 1
  /\ UNCHANGED <<linkVars, connected, state, acked, asked, loopVars, envVars>>

Ack ==
  /\ Do("ack")
  /\ acked' = acked \cup {Len(sent)}
  /\ UNCHANGED <<linkVars, connected, state, asked, notices, loopVars, envVars>>

\* request_dump: a QoS 0 publish, dropped without a session.
RequestDump == asked' = (asked \/ link = "up")

AskOnConnect ==
  /\ Do("ask")
  /\ RequestDump
  /\ UNCHANGED <<linkVars, connected, state, acked, notices, loopVars, envVars>>

PahoStep ==
  \/ MergeValues \/ SetOnline \/ StampTelemetry
  \/ TakeStatus \/ RecordEvent \/ TakeIdentity \/ SetOffline
  \/ SetConnected("up", TRUE) \/ SetConnected("down", FALSE)
  \/ Notify \/ Ack \/ AskOnConnect

-----------------------------------------------------------------------------
(* The event loop.                                                          *)

\* Mutant of RunNotify: the readings are taken over, the rest is not.
RunNotifyValues ==
  /\ notices > 0 /\ ~ticking
  /\ notices' = notices - 1
  /\ data' = [data EXCEPT !.values = state.values]
  /\ success' = TRUE
  /\ UNCHANGED <<linkVars, pahoVars, asked, ticking, envVars>>

\* _notify and _handle_push: async_set_updated_data also sets the success.
RunNotify ==
  /\ notices > 0 /\ ~ticking
  /\ notices' = notices - 1
  /\ data' = state
  /\ success' = TRUE
  /\ UNCHANGED <<linkVars, pahoVars, asked, ticking, envVars>>

\* _async_update_data; setup makes the first one after the first CONNACK.
TickStarts ==
  /\ link # "new" /\ ~ticking
  /\ ticking' = connected
  /\ success' = (connected /\ success)
  /\ UNCHANGED <<linkVars, pahoVars, asked, notices, data, envVars>>

\* The rest of it: paho's thread may have run since connected was read.
TickEnds ==
  /\ ticking
  /\ ticking' = FALSE
  /\ RequestDump
  /\ data' = state
  /\ success' = TRUE
  /\ UNCHANGED <<linkVars, pahoVars, notices, envVars>>

\* The refresh button (Home Assistant skips an entity that is unavailable).
PressRefresh ==
  /\ success /\ ~ticking
  /\ link # "new"
  /\ RequestDump
  /\ UNCHANGED <<linkVars, pahoVars, notices, loopVars, envVars>>

-----------------------------------------------------------------------------
\* The dongle loses power, or its way to the broker.
DongleDies ==
  /\ alive
  /\ alive' = FALSE
  /\ UNCHANGED <<linkVars, pahoVars, asked, notices, loopVars, sent, heard>>

Next ==
  \/ \E m \in Messages : Receive(m)
  \/ Accepted
  \/ Dropped
  \/ PahoStep
  \/ RunNotify
  \/ TickStarts
  \/ TickEnds
  \/ PressRefresh
  \/ DongleDies

Spec == Init /\ [][Next]_vars

\* Threads run and timers fire; nothing is assumed of broker or dongle.
FairSpec ==
  /\ Spec
  /\ WF_vars(PahoStep) /\ WF_vars(RunNotify) /\ WF_vars(TickStarts) /\ WF_vars(TickEnds)

-----------------------------------------------------------------------------
(* Properties.                                                              *)

Quiet == todo = <<>> /\ notices = 0 /\ ~ticking

\* Whatever was interleaved, once paho's callback, the queue and the tick are
\* through, the entities' data is the bridge's state: no change of the state
\* is left that nobody tells the loop about (_notify ends every callback).
FreshWhenQuiet == Quiet => data = state

\* Once quiet, the Online sensor is on exactly if the dongle's last word in
\* the present session was that it is up: no word of an earlier session and
\* none of before a lost connection lingers.
OnlineIsCurrent == Quiet => (data.online <=> link = "up" /\ heard = "up")

\* A sensor never goes back to an older reading, although pushes, dumps and
\* ticks hand it snapshots taken at different moments.
NeverOlder == [][\A k \in Keys : data.values[k] <= data'.values[k]]_vars

\* A snapshot taken between two assignments of _ingest_telemetry may lack the
\* time of the reading, but never carries the time without the reading.
HasReading(s) ==
  s.last_telemetry # 0 =>
    \A k \in sent[s.last_telemetry].keys : s.values[k] >= s.last_telemetry
StampHasReading == HasReading(data)

\* An acknowledged push is not lost: the entities come to show its values, or
\* newer ones, and the dongle will not send it again.
AckedIsShown ==
  \A n \in 1..MaxMessages, k \in Keys :
    n \in acked /\ k \in sent[n].keys ~> data.values[k] >= n

\* A lost connection turns the Online sensor off, unless it comes back.
DropIsShown == ~connected ~> connected \/ ~data.online

\* Replica, with the bridge's state for the source and the coordinator's data
\* for the copy.
Shown == INSTANCE Replica WITH source <- state, copy <- data

\* The entities never see a mixture of two states of the bridge, only the whole
\* of the present one: no snapshot is kept and used later.
SnapshotsOnly == Shown!Spec

\* Nor do they stay behind it: every change is followed by a copy.
ReplicatesState == Shown!FairSpec

\* binary_sensor.py:51: "Whether the dongle is currently reporting to the
\* broker."  Only our own disconnection or an ol:0 event ever turns it off.
OnlineMeansReporting == ~alive ~> ~data.online

-----------------------------------------------------------------------------
(* The inductive invariant of the safety properties: they speak of the      *)
(* moments when nothing is under way, so it says what the steps still to be *)
(* done are about to bring.                                                 *)

Remains(step) == \E i \in 1..Len(todo) : todo[i] = step

Changes     == {"offline", "merge", "online", "stamp", "status", "event", "identity"}
OnlineSteps == {"online", "status", "offline"}

\* A change that entities do not show yet is announced, or a tick will see it.
Announced == data = state \/ notices > 0 \/ ticking \/ Remains("notify")

\* No script changes the state after its last notification.
ChangesAnnounced ==
  \A i \in 1..Len(todo) :
    todo[i] \in Changes => \E j \in 1..Len(todo) : i < j /\ todo[j] = "notify"

\* The steps that are about the last message received.
CurrentKnown ==
  (Remains("merge") \/ Remains("stamp") \/ Remains("status")) => Len(sent) # 0

\* A reading is on its way in before its time is.
MergedFirst ==
  \A i \in 1..Len(todo) :
    todo[i] = "stamp" =>
      \/ \E j \in 1..Len(todo) : j < i /\ todo[j] = "merge"
      \/ \A k \in Current.keys : state.values[k] = Len(sent)

\* At most one step to come decides on the online flag, and it decides by the
\* dongle's last word in the session there is.
OnlineDecided ==
  /\ \A i, j \in 1..Len(todo) :
       todo[i] \in OnlineSteps /\ todo[j] \in OnlineSteps => i = j
  /\ Remains("online") => link = "up" /\ heard = "up"
  /\ Remains("status") => link = "up" /\ (heard = "up" <=> Current.up)
  /\ Remains("offline") => link # "up"
  /\ (\A i \in 1..Len(todo) : todo[i] \notin OnlineSteps) =>
       (state.online <=> link = "up" /\ heard = "up")

\* The entities never know more than the bridge, nor the bridge than was sent.
ReadingsKnown ==
  /\ \A k \in Keys : data.values[k] <= state.values[k] /\ state.values[k] <= Len(sent)
  /\ state.last_telemetry <= Len(sent) /\ data.last_telemetry <= Len(sent)

Inductive ==
  /\ TypeOK
  /\ Announced
  /\ ChangesAnnounced
  /\ CurrentKnown
  /\ MergedFirst
  /\ OnlineDecided
  /\ ReadingsKnown
  /\ HasReading(state)
  /\ HasReading(data)
=============================================================================
