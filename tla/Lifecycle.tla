------------------------------ MODULE Lifecycle -----------------------------
(***************************************************************************)
(* Bridges come and go: the config flow opens a throw-away one to validate   *)
(* its input (config_flow.py), the config entry one that stays (__init__.py, *)
(* coordinator.py async_setup); all of one dongle use the same MQTT client   *)
(* id, so that the broker keeps the session of the last one it accepted.     *)
(* async_start waits on the event loop for the first answer of the broker,   *)
(* which paho's thread reports; loop_stop waits for that thread to end, in   *)
(* async_start on the event loop itself (mqtt_client.py 113-151, 305-310).   *)
(***************************************************************************)
EXTENDS Naturals, Sequences, FiniteSets

CONSTANTS
  Bridges,    \* the RWB1Bridge objects; a collected one is used again
  None,       \* no bridge
  MaxHandles, \* bound on the handles waiting in the event loop
  MaxOrphans  \* bound on the setups that are cancelled

ASSUME ConstantsOK ==
  None \notin Bridges /\ MaxHandles \in Nat \ {0} /\ MaxOrphans \in Nat

VARIABLES
  stage,    \* how far the task that made a bridge has come
  owner,    \* whose bridge it is
  looping,  \* its paho thread runs
  link,     \* paho's view of its connection: "asking" once CONNECT is sent
  future,   \* RWB1Bridge._connect_future
  first,    \* history: the broker's first answer to it
  session,  \* the bridge whose connection the broker keeps
  handles,  \* _resolve_connect handles queued on the event loop
  entry,    \* the config entry's state
  current   \* the bridge of the config flow in progress, if it validates

entryVars == <<entry, current>>
wireVars  == <<link, session>>
vars == <<stage, owner, looping, wireVars, future, first, handles, entryVars>>

Stages == {"unused", "starting", "joining", "failed", "seeding", "running",
           "stopping", "stopped", "orphaned"}

Handle == [bridge : Bridges, ok : BOOLEAN]

TypeOK ==
  /\ stage \in [Bridges -> Stages]
  /\ owner \in [Bridges -> {"entry", "flow"}]
  /\ looping \in [Bridges -> BOOLEAN]
  /\ link \in [Bridges -> {"down", "asking", "up"}]
  /\ future \in [Bridges -> {"pending", "ok", "refused", "timeout", "cancelled"}]
  /\ first \in [Bridges -> {"none", "accepted", "refused"}]
  /\ session \in Bridges \cup {None}
  /\ handles \in Seq(Handle)
  /\ entry \in {"absent", "due", "loading", "loaded", "unloading", "stuck"}
  /\ current \in Bridges \cup {None}

Init ==
  /\ stage = [b \in Bridges |-> "unused"]
  /\ owner = [b \in Bridges |-> "flow"]
  /\ looping = [b \in Bridges |-> FALSE]
  /\ link = [b \in Bridges |-> "down"]
  /\ future = [b \in Bridges |-> "pending"]
  /\ first = [b \in Bridges |-> "none"]
  /\ session = None
  /\ handles = <<>>
  /\ entry = "absent"
  /\ current = None

-----------------------------------------------------------------------------
(* The event loop.  It stands still while it waits in loop_stop.            *)

Blocked == \E b \in Bridges : stage[b] = "joining"

Enter(b, new) == ~Blocked /\ stage' = [stage EXCEPT ![b] = new]

\* The bridge is made, and async_start runs up to its await.
Start(b, who) ==
  /\ stage[b] = "unused" /\ Enter(b, "starting")
  /\ owner' = [owner EXCEPT ![b] = who]
  /\ looping' = [looping EXCEPT ![b] = TRUE]
  /\ UNCHANGED <<wireVars, future, first, handles>>

\* Mutant of MayValidate: a dongle that has an entry is not refused.
MayValidateAgain == current = None

\* async_step_user: neither an entry for this dongle nor another flow.
MayValidate == entry = "absent" /\ current = None

Validate(b) ==
  /\ MayValidate
  /\ Start(b, "flow")
  /\ current' = b
  /\ UNCHANGED entry

\* connect_async refuses the address itself: there is no thread to stop.
ValidateBadAddress(b) ==
  /\ MayValidate
  /\ stage[b] = "unused" /\ Enter(b, "stopping")
  /\ owner' = [owner EXCEPT ![b] = "flow"]
  /\ future' = [future EXCEPT ![b] = "cancelled"]
  /\ current' = b
  /\ UNCHANGED <<looping, wireVars, first, handles, entry>>

\* The user closes the dialog; the step goes on, its result will be dropped.
Dismiss ==
  /\ current # None /\ ~Blocked
  /\ current' = None
  /\ UNCHANGED <<stage, owner, looping, wireVars, future, first, handles, entry>>

\* async_setup_entry, at first or again after ConfigEntryNotReady.
Setup(b) ==
  /\ entry = "due"
  /\ Start(b, "entry")
  /\ entry' = "loading"
  /\ UNCHANGED current

\* Mutant of Resolved: the last answer counts.
ResolvedAnew(h) == [future EXCEPT ![h.bridge] = IF h.ok THEN "ok" ELSE "refused"]

Resolved(h) ==
  IF future[h.bridge] # "pending" THEN future
  ELSE [future EXCEPT ![h.bridge] = IF h.ok THEN "ok" ELSE "refused"]

\* _resolve_connect
RunHandle ==
  /\ ~Blocked /\ handles # <<>>
  /\ handles' = Tail(handles)
  /\ future' = Resolved(Head(handles))
  /\ UNCHANGED <<stage, owner, looping, wireVars, first, session, entryVars>>

\* Mutant of Expire: the answer is awaited without wait_for.
ExpireNever(b) == FALSE

\* The timer of wait_for cancels the task, which overrides an answer that the
\* task has not been resumed for.
Expire(b) ==
  /\ ~Blocked
  /\ stage[b] = "starting" /\ future[b] # "timeout"
  /\ future' = [future EXCEPT ![b] = "timeout"]
  /\ UNCHANGED <<stage, owner, looping, wireVars, first, handles, entryVars>>

\* TimeoutError and OSError, that is the ConnectionError of a refusal.
Joins(b) == future[b] \in {"timeout", "refused"}

\* What comes after async_start: the first refresh, or the flow's async_stop; a
\* failed start goes through loop_stop first.
Resume(b) ==
  /\ stage[b] = "starting" /\ future[b] # "pending"
  /\ Enter(b, IF Joins(b) THEN "joining"
              ELSE IF owner[b] = "entry" THEN "seeding" ELSE "stopping")
  /\ UNCHANGED <<owner, looping, wireVars, future, first, handles, entryVars>>

\* disconnect(): without a thread, it closes the connection by itself.
Disconnect(b) ==
  /\ link' = [link EXCEPT ![b] = "down"]
  /\ session' = IF session = b THEN None ELSE session

\* Mutant of LoopStopped: the thread is told to end, and not waited for.
LoopStoppedAtOnce(b) == TRUE

\* loop_stop returns once the thread has ended.
LoopStopped(b) == ~looping[b]

\* It was called in async_start, which now raises ConnectionError.
Joined(b) ==
  /\ stage[b] = "joining" /\ LoopStopped(b)
  /\ \/ /\ owner[b] = "flow"
        /\ stage' = [stage EXCEPT ![b] = "stopping"]
        /\ Disconnect(b)
        /\ UNCHANGED entry
     \/ /\ owner[b] = "entry"
        /\ stage' = [stage EXCEPT ![b] = "failed"]
        /\ entry' = "due"
        /\ UNCHANGED wireVars
  /\ UNCHANGED <<owner, looping, future, first, handles, current>>

\* The rest of async_setup_entry, which cannot fail any more.
Load(b) ==
  /\ stage[b] = "seeding" /\ Enter(b, "running")
  /\ entry' = "loaded"
  /\ UNCHANGED <<owner, looping, wireVars, future, first, handles, current>>

\* async_unload_entry: if a platform refuses, nothing is stopped.
Unload(b) ==
  /\ stage[b] = "running" /\ entry = "loaded"
  /\ \/ Enter(b, "stopping") /\ entry' = "unloading"
     \/ ~Blocked /\ entry' = "stuck" /\ UNCHANGED stage
  /\ UNCHANGED <<owner, looping, wireVars, future, first, handles, current>>

\* It was called in the executor by async_stop, after disconnect().  An entry is
\* then set up again, or removed.  A flow in progress that was
\* successful makes an entry; its form is shown again if not.
Stop(b) ==
  /\ stage[b] = "stopping" /\ LoopStopped(b) /\ Enter(b, "stopped")
  /\ \/ /\ owner[b] = "entry"
        /\ entry' \in {"due", "absent"}
        /\ UNCHANGED current
     \/ /\ owner[b] = "flow"
        /\ entry' = IF current = b /\ future[b] = "ok" THEN "due" ELSE entry
        /\ current' = IF current = b THEN None ELSE current
  /\ UNCHANGED <<owner, looping, wireVars, future, first, handles>>

\* The task is cancelled: neither clause of async_start catches that, but the
\* flow's "finally" stops the bridge.
Cancel(b) ==
  /\ stage[b] \in {"starting", "seeding"}
  /\ owner[b] = "entry" => Cardinality({c \in Bridges : stage[c] = "orphaned"}) < MaxOrphans
  /\ Enter(b, IF owner[b] = "flow" THEN "stopping" ELSE "orphaned")
  /\ future' = [future EXCEPT ![b] = "cancelled"]
  /\ entry' = IF owner[b] = "entry" THEN "due" ELSE entry
  /\ UNCHANGED <<owner, looping, wireVars, first, handles, current>>

\* The bridge is garbage, and paho's client closes its socket.
Collect(b) ==
  /\ stage[b] \in {"failed", "stopped"} /\ ~looping[b] /\ current # b
  /\ \A i \in 1..Len(handles) : handles[i].bridge # b
  /\ Enter(b, "unused")
  /\ Disconnect(b)
  /\ future' = [future EXCEPT ![b] = "pending"]
  /\ first' = [first EXCEPT ![b] = "none"]
  /\ owner' = [owner EXCEPT ![b] = "flow"]
  /\ UNCHANGED <<looping, handles, entryVars>>

-----------------------------------------------------------------------------
(* The threads and the broker.                                              *)

\* loop_forever connects again and again, until it is told to end.
Ask(b) ==
  /\ looping[b] /\ link[b] = "down"
  /\ stage[b] \notin {"joining", "stopping"}
  /\ link' = [link EXCEPT ![b] = "asking"]
  /\ UNCHANGED <<stage, owner, looping, session, future, first, handles, entryVars>>

\* _on_connect, if there is still a thread to run it.
Report(b, ok) ==
  /\ first' = IF first[b] # "none" THEN first
              ELSE [first EXCEPT ![b] = IF ok THEN "accepted" ELSE "refused"]
  /\ handles' = Append(handles, [bridge |-> b, ok |-> ok])

Accept(b) ==
  /\ link[b] = "asking" /\ looping[b] /\ Len(handles) < MaxHandles
  /\ link' = [link EXCEPT ![b] = "up"]
  /\ session' = b
  /\ Report(b, TRUE)
  /\ UNCHANGED <<stage, owner, looping, future, entryVars>>

Refuse(b) ==
  /\ link[b] = "asking" /\ looping[b] /\ Len(handles) < MaxHandles
  /\ link' = [link EXCEPT ![b] = "down"]
  /\ Report(b, FALSE)
  /\ UNCHANGED <<stage, owner, looping, session, future, entryVars>>

\* The thread is gone before it could read the broker's answer.
AcceptUnread(b) ==
  /\ link[b] = "asking" /\ ~looping[b]
  /\ link' = [link EXCEPT ![b] = "up"]
  /\ session' = b
  /\ UNCHANGED <<stage, owner, looping, future, first, handles, entryVars>>

\* A connection is lost, or was closed for a newer one of the same client id.
Lose(b) ==
  /\ link[b] = "up" /\ looping[b]
  /\ Disconnect(b)
  /\ UNCHANGED <<stage, owner, looping, future, first, handles, entryVars>>

\* The thread ends: told to by loop_stop alone it leaves its socket open, after
\* disconnect() not.
Exit(b) ==
  /\ looping[b]
  /\ looping' = [looping EXCEPT ![b] = FALSE]
  /\ \/ stage[b] = "joining" /\ UNCHANGED wireVars
     \/ stage[b] = "stopping" /\ Disconnect(b)
  /\ UNCHANGED <<stage, owner, future, first, handles, entryVars>>

-----------------------------------------------------------------------------
LoopStep(b)   == Expire(b) \/ Resume(b) \/ Joined(b) \/ Load(b) \/ Stop(b)
ThreadStep(b) == Ask(b) \/ Exit(b)
BrokerStep(b) == Accept(b) \/ Refuse(b) \/ AcceptUnread(b) \/ Lose(b)

Next ==
  \/ RunHandle
  \/ Dismiss
  \/ \E b \in Bridges :
       \/ Validate(b) \/ ValidateBadAddress(b) \/ Setup(b)
       \/ LoopStep(b) \/ ThreadStep(b) \/ BrokerStep(b)
       \/ Unload(b) \/ Cancel(b) \/ Collect(b)

Spec == Init /\ [][Next]_vars

\* The event loop runs what is due whenever it is not blocked, a thread that is
\* told to end does so, and paho keeps trying to connect.
FairSpec ==
  /\ Spec
  /\ WF_vars(RunHandle)
  /\ \A b \in Bridges : SF_vars(LoopStep(b)) /\ WF_vars(ThreadStep(b))

-----------------------------------------------------------------------------
(* Properties.                                                              *)

\* No thread is left behind by a start that failed, a validation or an unload,
\* where it would connect for ever with the client id of the dongle's bridge.
NoThreadLeftBehind ==
  \A b \in Bridges : looping[b] => stage[b] \notin {"unused", "failed", "stopped"}

\* Whatever is retried, unloaded and set up again, the entry has one bridge with
\* a running thread (unless the task of a setup was cancelled).
OneEntryBridge ==
  \A b, c \in Bridges :
    /\ owner[b] = "entry" /\ looping[b] /\ stage[b] # "orphaned"
    /\ owner[c] = "entry" /\ looping[c] /\ stage[c] # "orphaned"
    => b = c

\* An entry is set up, and a validation successful, only if the first thing the
\* broker answered was yes, whatever came later or crossed the timeout.
StartedWasAccepted ==
  \A b \in Bridges :
    (stage[b] \in {"seeding", "running"} \/ (stage[b] = "stopping" /\ future[b] = "ok"))
      => first[b] = "accepted"

Mine == {b \in Bridges : owner[b] = "entry" /\ stage[b] \in {"seeding", "running"}}

\* The validation of a dialog that was closed, a connection that a failed start
\* did not close, or the thread of a cancelled setup.
Leftover(b) ==
  \/ owner[b] = "flow" /\ b # current
  \/ stage[b] \in {"failed", "orphaned"}

\* The session of the entry's bridge is never taken by a bridge in use, such as
\* that of a config flow in progress, although all share the client id.
TakenByLeftoversOnly ==
  [][\A b \in Mine, c \in Bridges :
       b # c /\ session = b /\ session' = c => Leftover(c)]_vars

\* Setup, validation and unload come to an end, whatever the broker does, although
\* each may stop the event loop for the others.
TasksEnd ==
  \A b \in Bridges :
    stage[b] \in {"starting", "joining", "seeding", "stopping"}
      ~> stage[b] \notin {"starting", "joining", "seeding", "stopping"}

\* The broker accepts what it is asked often enough, and whoever it threw out
\* notices.
BrokerWilling == \A b \in Bridges : SF_vars(Accept(b)) /\ WF_vars(session # b /\ Lose(b))

\* With such a broker, an entry that stays loaded has its session again and
\* again, and from some moment on nothing takes it but a lost connection:
\* leftovers come to an end, unless a cancelled setup left a thread behind.
SessionKept ==
  BrokerWilling /\ <>[](Mine # {} /\ \A b \in Bridges : stage[b] # "orphaned") =>
    /\ []<>(session \in Mine)
    /\ <>[][(session \in Mine) => session' \in Mine \cup {None}]_vars
=============================================================================
