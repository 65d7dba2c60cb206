------------------------------- MODULE Restore -------------------------------
(***************************************************************************)
(* What the optimistic entities remember across reloads and restarts        *)
(* (async_added_to_hass of switch.py, select.py and number.py), with the    *)
(* part of Home Assistant they rely on: the state machine, into which an    *)
(* entity that is unavailable writes "unavailable", and RestoreEntity, which *)
(* keeps the written state and, for a number, the value itself beside it.   *)
(* A call may still wait for its reply when its entity is removed.          *)
(***************************************************************************)
EXTENDS Naturals

CONSTANTS
  Entities,
  Kind,       \* Kind[e]: "number", or "enum" for switches and selects
  Values,     \* what can be written to a setting: "on", "off", options, numbers
  None,       \* no value; Home Assistant writes "unknown" for it
  Lost        \* a value the dongle took and no entity learnt of

ASSUME ConstantsOK ==
  /\ Kind \in [Entities -> {"number", "enum"}]
  /\ None \notin Values /\ Lost \notin Values \cup {None}
  /\ "unavailable" \notin Values \cup {None}

VARIABLES
  loaded,     \* the config entry is set up, its entities exist
  available,  \* coordinator.last_update_success
  writing,    \* the value of the call that waits for its reply
  removed,    \* the entities removed under such a call
  shown,      \* the optimistic attribute of each entity
  written,    \* what Home Assistant's state machine holds for it
  last,       \* RestoreStateData.last_states, in memory
  disk,       \* its file
  expected,   \* history: the value last written successfully and not lost
  dumped      \* history: expected, when the file was written

callVars    == <<writing, removed>>
entityVars  == <<shown, written>>
storeVars   == <<last, disk>>
historyVars == <<expected, dumped>>
vars == <<loaded, available, callVars, entityVars, storeVars, historyVars>>

\* A stored state: the written state and the extra data of RestoreNumber.
Stored == [state : Values \cup {None, "unavailable"}, extra : Values \cup {None}]

TypeOK ==
  /\ loaded \in BOOLEAN /\ available \in BOOLEAN
  /\ writing \in [Entities -> Values \cup {None}]
  /\ removed \subseteq Entities
  /\ shown \in [Entities -> Values \cup {None}]
  /\ written \in [Entities -> Values \cup {None, "unavailable"}]
  /\ last \in [Entities -> Stored] /\ disk \in [Entities -> Stored]
  /\ expected \in [Entities -> Values \cup {None, Lost}]
  /\ dumped \in [Entities -> Values \cup {None, Lost}]

Nothing == [state |-> None, extra |-> None]

Init ==
  /\ loaded = FALSE /\ available = FALSE
  /\ writing = [e \in Entities |-> None] /\ removed = {}
  /\ shown = [e \in Entities |-> None]
  /\ written = [e \in Entities |-> "unavailable"]
  /\ last = [e \in Entities |-> Nothing] /\ disk = last
  /\ expected = [e \in Entities |-> None] /\ dumped = expected

\* async_write_ha_state.
Written(e, value, ok) == IF ok THEN value ELSE "unavailable"

\* What RestoreEntity stores of an entity that exists.
Saved ==
  [e \in Entities |->
     [state |-> written[e], extra |-> IF Kind[e] = "number" THEN shown[e] ELSE None]]
Snapshot == IF loaded THEN Saved ELSE last

\* Mutants: a number takes its state, like a switch; a switch takes any state.
RestoredFromState(e) == IF last[e].state \in Values THEN last[e].state ELSE None
RestoredUnchecked(e) == last[e].state

\* async_added_to_hass: a number takes its extra data, a switch or a select
\* the state, if that is one of its values.
RestoredNumber(e) == last[e].extra
RestoredEnum(e)   == IF last[e].state \in Values THEN last[e].state ELSE None
Restored(e)       == IF Kind[e] = "number" THEN RestoredNumber(e) ELSE RestoredEnum(e)

\* async_setup_entry: the broker was reached, the first refresh succeeded.
Setup ==
  /\ ~loaded
  /\ loaded' = TRUE /\ available' = TRUE
  /\ shown' = [e \in Entities |-> Restored(e)]
  /\ written' = shown'
  /\ UNCHANGED <<callVars, storeVars, historyVars>>

\* A service call on an available entity; one waits for its reply at a time.
Begin(e, v) ==
  /\ loaded /\ available /\ writing[e] = None
  /\ writing' = [writing EXCEPT ![e] = v]
  /\ UNCHANGED <<loaded, available, removed, entityVars, storeVars, historyVars>>

Ends(e) ==
  /\ writing[e] # None
  /\ writing' = [writing EXCEPT ![e] = None]
  /\ removed' = removed \ {e}

\* Mutant of Set: without its async_write_ha_state.
SetUnwritten(e) ==
  /\ Ends(e) /\ e \notin removed
  /\ shown' = [shown EXCEPT ![e] = writing[e]]
  /\ expected' = [expected EXCEPT ![e] = writing[e]]
  /\ UNCHANGED <<loaded, available, written, storeVars, dumped>>

\* The write is acknowledged; the entity need not be available any more.
Set(e) ==
  /\ Ends(e) /\ e \notin removed
  /\ shown' = [shown EXCEPT ![e] = writing[e]]
  /\ written' = [written EXCEPT ![e] = Written(e, writing[e], available)]
  /\ expected' = [expected EXCEPT ![e] = writing[e]]
  /\ UNCHANGED <<loaded, available, storeVars, dumped>>

\* It is acknowledged when its entity is removed already and the bridge not yet
\* stopped: a removed entity writes no state, and its value is kept nowhere.
SetRemoved(e) ==
  /\ ~loaded
  /\ Ends(e) /\ e \in removed
  /\ expected' = [expected EXCEPT ![e] = Lost]
  /\ UNCHANGED <<loaded, available, entityVars, storeVars, dumped>>

\* It is rejected or times out: a later bridge does not know its token.
Fail(e) ==
  /\ Ends(e)
  /\ UNCHANGED <<loaded, available, entityVars, storeVars, historyVars>>

\* The coordinator's success flips: every entity writes its state.
AvailabilityChanges ==
  /\ loaded
  /\ available' = ~available
  /\ written' = [e \in Entities |-> Written(e, shown[e], available')]
  /\ UNCHANGED <<loaded, callVars, shown, storeVars, historyVars>>

\* async_unload_entry, for a reload: the entities are removed and remembered.
Unload ==
  /\ loaded
  /\ last' = Saved
  /\ loaded' = FALSE /\ available' = FALSE
  /\ removed' = {e \in Entities : writing[e] # None}
  /\ UNCHANGED <<writing, entityVars, disk, historyVars>>

\* Home Assistant writes the file every 15 minutes.
Dump ==
  /\ disk' = Snapshot
  /\ dumped' = expected
  /\ UNCHANGED <<loaded, available, callVars, entityVars, last, expected>>

\* The calls die with the process, and the dongle's answers with them.
CallsDie == writing' = [e \in Entities |-> None] /\ removed' = {}

\* An orderly restart writes the file; a crash does not.
Restart ==
  /\ disk' = Snapshot /\ last' = disk'
  /\ dumped' = expected
  /\ loaded' = FALSE /\ available' = FALSE
  /\ CallsDie
  /\ UNCHANGED <<entityVars, expected>>

Crash ==
  /\ last' = disk
  /\ expected' = dumped
  /\ loaded' = FALSE /\ available' = FALSE
  /\ CallsDie
  /\ UNCHANGED <<entityVars, disk, dumped>>

Next ==
  \/ Setup
  \/ \E e \in Entities : (\E v \in Values : Begin(e, v)) \/ Set(e) \/ SetRemoved(e) \/ Fail(e)
  \/ AvailabilityChanges
  \/ Unload
  \/ Dump
  \/ Restart
  \/ Crash

Spec == Init /\ [][Next]_vars

-----------------------------------------------------------------------------
(* Properties.                                                              *)

Known(e) == loaded /\ expected[e] # Lost

\* A number shows the last value written to it, through any sequence of lost
\* connections, reloads and restarts; after a crash, the one of the last dump.
\* The one way to miss a value is an acknowledgement for a removed entity.
NumbersRemember ==
  \A e \in Entities : Known(e) /\ Kind[e] = "number" => shown[e] = expected[e]

\* No entity comes back with a value older than the one to be expected: a
\* switch or a select that cannot tell shows none.
NeverOutdated ==
  \A e \in Entities : Known(e) => shown[e] \in {expected[e], None}

\* README.md:103-104: control entities "show the last value you successfully
\* wrote and restore it across restarts".  A switch or a select stopped while
\* the broker was away stored "unavailable", and forgets (switch.py:56).
RestoredAcrossRestarts ==
  \A e \in Entities : Known(e) => shown[e] = expected[e]
=============================================================================
