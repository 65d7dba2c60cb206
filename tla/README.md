# RWB1 Solar DTU emulator: TLA+ verification

The program (`src/custom_components/sot_rwb1/`) is a Home Assistant integration
that plays the vendor's cloud for one RWB1 solar dongle: it connects to the MQTT
broker the dongle was redirected to, takes the dongle's telemetry, and reads and
writes the inverter's settings. This directory models that program in TLA+,
checks it with TLC and proves theorems about it with TLAPS. `PROJECT.json` lists
the runs, the source lines of every definition, the hazards and the findings.

## The system

| Component | State | Operations | Talks to |
|---|---|---|---|
| RPC write path (`mqtt_client.py` 220-226, 256-315) | `_pending` (token to future), the futures and timers of the calls | `async_write_setting`, `async_read_setting`, `_async_rpc`, `_handle_rpc_reply`, `_resolve_pending` | called by the control entities on the event loop; replies come from paho's thread through `call_soon_threadsafe` |
| Telemetry read path (`mqtt_client.py` 136-218, 230-254, 317-319) | `connected`, the `state` dict | `_on_connect`, `_on_disconnect`, `_on_message`, `_dispatch`, `_ingest_telemetry`, `_ingest_identity`, `_ack`, `request_dump`, `_notify` | paho's thread changes the state in place; the loop copies it |
| Coordinator (`coordinator.py`) | `data`, `last_update_success`, the 120 s timer | `_handle_push`, `_async_update_data` | copies the bridge's state; every entity reads it |
| Control entities (`number.py`, `switch.py`, `select.py`, `button.py`) | the optimistic value | set, turn on/off, select, press, restore | the write path; Home Assistant's state machine and restore store |
| Sensors (`sensor.py`, `binary_sensor.py`, `entity.py`) | none | read `coordinator.data` | coordinator |
| Protocol (`protocol.py`) | none | envelope, `ci`/`co`, CRC, `format_value`, frame matchers | called by all of the above |
| Bridge start and stop (`mqtt_client.py` 113-151, 305-310) | `_connect_future`, paho's thread, the MQTT session | `async_start`, `async_stop`, `_resolve_connect` | broker; called by the two below |
| Config flow (`config_flow.py`), entry setup and unload (`__init__.py`) | the entry, a bridge each | `async_step_user`, `_validate`, `async_setup_entry`, `async_unload_entry` | Home Assistant; bridges that share one MQTT client id |
| Tables (`const.py`) | none | number, select, switch, sensor and binary sensor definitions | entities, matchers |

What is hard here:

* **Two threads and one queue.** paho's thread runs the MQTT callbacks and may
  only append handles to the event loop; the state dict is nevertheless shared
  and changed one key after the other while the loop copies it.
* **A wire that promises nothing.** Everything is QoS 0. A lost request, a lost
  reply and a lost connection look the same to a caller; a reply may come late
  or twice. Only the 15 s timer ends such a call.
* **Races at the end of a call.** Reply, timer and cancellation can fall into
  one pass of the loop, in any order, and the task resumes only later.
* **Shared client id, blocking stop.** The config flow validates with a bridge of
  its own under the client id of the dongle, so that the broker throws older
  sessions out; a failed `async_start` joins paho's thread on the event loop.
* **One timer for two purposes.** The refresh that nudges the dongle and detects a
  lost connection is put off by every push, heartbeat and notice.
* **Frames without names.** The channels of the dongle are scrambled: frames are
  told apart by the shape of their fields, and texts written are a channel and a
  value with nothing between them.
* **Optimistic entities.** There is no read-back, so what an entity shows is
  only as right as the order in which concurrent writes finish, the rounding of
  the text that was sent, and what the restore store kept.

What makes it correct: a call ends exactly once, by the answer to itself, and
leaves nothing behind; the display follows the inverter; the entities end up
with the last state of the bridge and never go back; the texts written are in
range, fill their fields and cannot be taken for others; what was written
survives reloads and restarts; no thread is left behind by a start that failed,
and one bridge at a time serves the entry; a frame is recognised by one matcher,
and a bad one costs no good one.

## Modules

### RpcBridge (the write path) and WriteContract (what it promises)

| Model | Code |
|---|---|
| `pending`, `token`, `fut` | `_pending`, the local `token`, the future with its `wait_for` timer |
| `phase` | where the coroutine is, and the way it returned or raised |
| `ready` | the loop's FIFO of handles: `_resolve_pending` calls and task wake-ups |
| `shown` | `_attr_native_value`, `_attr_is_on`, `_attr_current_option` |
| `Refuse`, `Submit` | `_async_rpc` up to its `await` |
| `RunResolve` | `_resolve_pending` |
| `Finish` | the rest of `_async_rpc` (its `finally` too), of `async_write_setting` or `async_read_setting`, and of the entity |
| `Expire`, `Cancel` | the timer of `asyncio.wait_for`, Home Assistant cancelling the task |
| `Connect`, `Disconnect`, `ReceiveReply` | paho's callbacks, as far as calls see them |
| `DongleHandles`, `Lose*`, `DuplicateReply` | the dongle and the broker, external |

A coroutine runs without interruption between two awaits, so `Submit` and
`Finish` are single actions. `wait_for` has the semantics of Python 3.12 and
later, which Home Assistant requires: the timer cancels the task, and a
cancellation that finds the future already done overrides its result when the
task resumes (`Interrupt`). Values are named by the call that writes them, so
that "the value shown" and "the value in the inverter" can be compared with the
order in which the dongle handled the calls (`rank`). A reply is one of four
kinds: an ACK, a NAK, a readable text with neither, or `bad`, which stands for
every reply that makes `decode_co` raise (also the `None` a reply with `ct`
resolves the future with). Tokens are drawn fresh: 8 of 62 characters. `Op`
tells writes of an entity from the fault button and from a read; nothing limits
parallel calls (the platforms declare no PARALLEL_UPDATES). paho drops a QoS 0
publish made without a session; that, and a request the broker loses, are both
`LoseRequest`. Replies waiting in the socket are lost with the connection.

`WriteContract` leaves out tokens, futures, the loop, the timers and the wire: a
call is refused or submitted, the dongle decides it at most once (perhaps after
its caller gave up), and it ends in a way that fits the decision, the display
moving only forward in the dongle's order. `KeepsContract` states that
`RpcBridge` implements it (the variables keep their names, so the refinement
mapping is the identity).

### Telemetry (the read path)

A callback of paho's thread is a script, the sequence `todo` of the steps it has
still to do; each step is one assignment to the shared state or one call to
`call_soon_threadsafe` or `publish`. The event loop interleaves between any two
steps: `RunNotify` (a queued `_notify`, with `_handle_push`), `TickStarts` and
`TickEnds` (`_async_update_data`, split because `connected` is read before the
state is copied), `PressRefresh`. Within the loop's own code nothing else of
the loop runs, hence `~ticking` in their guards.

`dict.update` of one message's values is one step: it is one call, atomic under
the interpreter's lock, and readers copy the dict in one call too. A message is
a record of what `_dispatch` can tell apart: its kind, which groups of values
its frames decode to, whether it has a `ts`, whether an event says `ol:1`, and
whether its body makes the decoder raise. Values are named by the number of the
message that brought them, which makes "older" meaningful. `Dropped` stands for a
lost connection and for a refused attempt: paho calls `on_disconnect` for both.
The refresh timer may fire at any time; its period is in `Polling`.

`Replica` is what the entities may rely on: a source that changes, and a copy
that is only ever replaced by the whole source and follows it in the end.
`SnapshotsOnly` and `ReplicatesState` state that `Telemetry` implements its safe
and its fair form, with `state` for the source and the coordinator's `data` for
the copy.

### Polling (the refresh timer)

`DataUpdateCoordinator` in discrete time. `Armed` is its `_schedule_refresh`, which
`async_set_updated_data` (`_handle_push`) and the refresh itself go through, whatever
the news: values, a heartbeat, the notice of a disconnection. Ages count the time
since the last event of a kind, up to `Horizon`; what is due (the refresh, the
answer of the dongle) happens before time passes. `_on_connect` requests a dump but
notifies nobody, so `Reconnected` leaves the timer alone.

### NumberSetting (numbers and their texts)

`Round` is Python's `round` (halves to even), `Fixed` is `f"{v:.1f}"` or `f"{v:.2f}"`,
in which a half may go either way, as the binary value of the float decides.
Values are counted in thousandths, one digit finer than the finest text, so that
every format has values to round, PBEQV's two decimals too: a finer value still is
rounded like the thousandth next to it that lies away from the half. Bounds are
enforced by Home Assistant from `native_min_value` and `native_max_value`; the
step is not, which is what makes values between two digits possible.
`MCNumberSetting.Table` is the table of `const.py`.

### Restore (what entities remember)

One number and one switch or select with the parts of Home Assistant they rely
on: `written`, the state machine, in which an unavailable entity is
"unavailable"; the restore store in memory and on disk; reload, orderly restart,
periodic dump and crash. A number restores its extra data, a switch or select
its written state. A call is two steps, `Begin` and one of `Set`, `SetRemoved` and
`Fail`: while it waits, the entry may be unloaded and set up again. Platforms are
unloaded before the bridge is stopped (`__init__.py` 79-81), so that an answer may
still come for an entity that is gone; its value is kept nowhere (`Lost`).

### Lifecycle (bridges, config flow, config entry)

| Model | Code |
|---|---|
| `stage` | where the task that made a bridge is: in `async_start` (`starting`; `joining` inside `loop_stop`), between it and the loaded entry (`seeding`), `running`, in `async_stop` (`stopping`) |
| `looping`, `link` | paho's thread and its view of the connection |
| `future`, `handles` | `_connect_future`, queued `_resolve_connect` |
| `session` | the one session the broker keeps for the client id, external |
| `entry`, `current` | the config entry's state, the config flow in progress |
| `Validate`, `ValidateBadAddress`, `Dismiss` | `async_step_user` and `_validate`, the dialog closed meanwhile |
| `Setup`, `Load`, `Unload` | `async_setup_entry` before and after the bridge's start, `async_unload_entry` |
| `Expire`, `Resume`, `Joined`, `Stop`, `Cancel` | timer of the start, its `except` clauses, `loop_stop`, `async_stop`, cancellation |
| `Ask`, `Exit`, `Accept`, `Refuse`, `Lose` | paho's thread and the broker |

`loop_stop` joins paho's thread. `async_start` calls it on the event loop, where
nothing else runs until it returns (`Blocked`); `async_stop` in the executor.
Without `disconnect()` before it, as in a failed start, the thread leaves its socket
to the garbage collector (`Collect`); until then the broker may still take the
connection for a live one (`AcceptUnread`). After a refusal paho connects again, so
that later answers follow the first; `first` records which one that was. A
cancelled `async_start` is caught by neither of its `except` clauses: a cancelled
setup leaves a thread (`orphaned`), a validation is saved by the flow's `finally`.

### FrameDecode (pushes into readings)

A field is abstracted to what the regular expressions and conversions look at: the
digits before and behind the point, a sign, a time, what only `float` takes
(`special`), and the rest. `TakeEntry` is one round of `decode_ct`'s loop, `Raise` an
exception that leaves `_ingest_telemetry`, `Return` the update of the state as far as
entities see it. `Takes` and `IntKeys` say which field each matcher makes into which
value and by which conversion; `SensorKeys` and `BinarySensorKeys` are the keys the
entities read. A reading is named by the entry that brought it, so that
`derive_binary_state`, which turns a text into a Boolean under the same key, is not
seen.

### WriteFrame (texts and their checksum) and CommandTables

`CommandTables` are the texts that numbers, selects, switches and the fault button can
send, from the tables of `const.py` and the entities' code. `WriteFrame` knows of them
only what its two assumptions say: no channel's name begins with another one's, and
two choices of one channel differ in their value. TLC evaluates both on the tables.

A byte is the set of its one bits, and so are the 16 bits of the checksum: `^` is the
symmetric difference (`Plus`), `<<` adds to every member (`Times`), `& 0xFFFF` is an
intersection. The same sets read as polynomials over two elements, which is what
checksums are about. `TakeByte` is the outer loop of `crc16_xmodem` up to the inner
one, `Shift` a round of the inner one; `quotient` is a history variable, the powers at
which the polynomial was taken off so far. `FrameDivides` then says that what was
taken off, in all, is the frame. `SampleOK` in `MCWriteFrame` is the sample that the
docstring gives.

## Runs

| Run | Instance | Shows |
|---|---|---|
| `bridge_writes` | 2 writes to one entity, 2 tokens, 2 repeated replies, symmetry on tokens and calls | `Inductive` (checked before it was proved), `ShownWasAccepted`, `AgreesWhenSettled`, `DriftIsExplained`, `DisplayFollowsDongle`, `KeepsContract` |
| `bridge_mixed` | the fault button beside a read, 1 repeated reply, fair loop and timers | `PendingIsWaiting`, `OutcomeIsOwnAnswer`, `EveryCallEnds` |
| `bridge_sticks` | 2 writes to one entity | counterexample to "a write only sticks once the dongle ACKs it" |
| `telemetry_fair` | 2 messages of 8 shapes, 2 lost or refused connections, fair threads | `Inductive`, `FreshWhenQuiet`, `OnlineIsCurrent`, `StampHasReading`, `NeverOlder`, `AckedIsShown`, `DropIsShown`, `SnapshotsOnly`, `ReplicatesState` |
| `telemetry_silent` | 1 message, fair threads | counterexample: a dead dongle stays Online |
| `polling_timer` | interval 3, answers after 1, ages up to 7 (units of 40 s) | `StaleForAReason`, `DownIsDetected` |
| `number_table` | all rows, values around both bounds in tenths of a text's last digit | `StoredInRange`, `FixedWidth`, `StepRespected`, `ShownNearStored` |
| `restore_remember` | 1 number, 1 switch, 2 values each | `TypeOK`, `NumbersRemember`, `NeverOutdated` |
| `restore_forgets` | the same | counterexample: a switch forgets across a restart |
| `lifecycle_bridges` | 2 bridges, 1 queued answer, 1 cancelled setup, fair loop and threads | `NoThreadLeftBehind`, `OneEntryBridge`, `StartedWasAccepted`, `TakenByLeftoversOnly`, `TasksEnd`, `SessionKept` |
| `frame_pushes` | the six documented frames cut, lengthened and with each field in each of 13 shapes; all pushes of up to 3 of 8 entries | `OneClaimant`, `OnlyAliensRaise`, `LastReadingWins`, `ReadingsAreShown`, `NothingUnreported` |
| `write_frames` | every command the tables allow against every other, numbers with texts of each length, the loops bit by bit | `TextsTellCommands`, `FrameDivides` |

**Bounds.** Two calls are enough for every race between calls, since the only
things calls share are the pending table, the queue and one entity, and each
property speaks of at most two calls. `MaxDup` 2 lets both replies be repeated.
Two messages let a reading be replaced and the replacement be overtaken by a
notification; two drops let a session end, come back and end again. Two bridges
are one in use and one that may take its session: a leftover, a retry or a
validation; a collected bridge is used again, so that retries and reloads go on for
ever. One queued answer still leaves room for a second, later one after it ran.
The horizon of `Polling` lies beyond interval and latency, where ages no longer
matter. The shapes of `MCFrameDecode` lie on both sides of every regular expression;
three entries are one reading with something before and behind it. The number table
is complete, and its values lie where rounding can cross a bound. The other
variables of `Restore` are finite by themselves. The commands are all the tables allow, but
for the numbers, which have a text of each length. Every safety property of the passing
runs is proved without these bounds.

**Type invariants.** Each module has one, `TypeOK`. It is a conjunct of the `Inductive`
that the runs of `RpcBridge` and `Telemetry` check; `Restore`'s is checked by
`restore_remember`, `WriteFrame`'s is the first half of its `Inductive`; the others are proved for every value of the constants, and listed
under "Theorems".

**Deadlock** is checked in every run but `frame_pushes`, where the decoding of a push
ends. Elsewhere something can always happen: a broker comes or goes
(`Connect`/`Disconnect`), the tick and the refresh button come, a service call is
made, time passes, a bridge asks for a connection.

**Fairness.** `RpcBridge!FairSpec` assumes that the loop keeps running the
handle at the head of its queue and that timers fire; asyncio promises both.
`Telemetry!FairSpec` assumes that paho's thread goes on with its callback, that
the loop runs queued notifications, and that the coordinator's timer fires now
and then. (Each push re-arms that timer. The runs receive finitely many
messages, so it does fire.) `Lifecycle!FairSpec` assumes that the loop runs what is
due whenever it is not blocked (strong fairness, since `loop_stop` blocks it again
and again), and that a thread told to end does so and otherwise goes on trying to
connect. Nothing is assumed of the broker, of the dongle, or of the connection ever
coming back; only `SessionKept` has a willing broker as its hypothesis.

**Findings.** Six statements of the documentation are not what the code does.
Three have a run that shows it:

* `bridge_sticks`: a reply with neither ACK nor NAK is only logged, and the write
  "sticks" (README.md:104, number.py:6-7).
* `telemetry_silent`: nothing turns Online off for a dongle that just stops reporting
  (binary_sensor.py:51).
* `restore_forgets`: a switch or select stopped while the broker was away forgets its
  value (README.md:103-104).

Three more are visible in what the properties have to allow for:

* Every notice of a disconnection, and of every refused attempt after it, sets
  `last_update_success` again, so that the entities are available while the broker is
  down (coordinator.py:5-7): the second disjunct of `DownIsDetected`.
* Heartbeats and events re-arm the timer too, so that a dongle that sends them more
  often than every 120 s is never nudged and its values grow stale without any fault
  (README.md:43-44): the second disjunct of `StaleForAReason`.
* A number shows the value asked, not the one its text says (README.md:103,
  number.py:5): `ShownNearStored` bounds the difference by half a digit.

## Theorems

`RpcBridgeProofs` proves for any sets of calls, settings and tokens:

* `TypeCorrect`, `InductiveHolds`, and from it `NoPendingLeak`, `EndsByOwnAnswer` and
  `DisplaysAccepted`.

None of the three properties is inductive. A reply is matched by its token alone,
so what keeps them true is that a token belongs to one call for good
(`SubmittedOwnsToken`, `TokensDistinct`), that a request still on its way was
not answered and is alone (`RequestsOpen`), and that whatever is on its way back
- a reply in the wire, a handle in the queue, a future's result - is the dongle's
answer to the owner of its token (`RepliesTrue`, `HandlesTrue`, `FuturesTrue`).
`Inductive` is their conjunction. The proof has one lemma per action that
matters, and a common one for the actions that only move messages. It assumes
`ConstantsOK`.

* `DisplayInOrder` and `ContractKept`, by a second invariant, and `DriftExplained` and
  `SettledAgrees` from the contract.

`Ordered` follows an answer back along its path: what an entity shows was handled by
the dongle before the calls that have their answers and wait to resume (`ShownFirst`),
those resume in order (`WakesOrdered`) and come before the calls whose answers are
still under way (`AnsweredFirst`), and on that way the loop's queue comes before the
wire (`RouteOrdered`). Every link is needed: a handle that overtakes another, or a wake-up
that does, would let an older value replace a newer one. `LastShown` and `LastTaken`
say that entity and inverter each hold the last of the writes that got as far. `Ordered` is inductive given `Inductive`.
`ContractKept` is the step simulation of `WriteContract`: `Refuse` and `Submit` begin,
`DongleHandles` decides, `Finish` succeeds or fails, all else stutters.

`NumberSettingProofs` proves for any table that satisfies `RowOK` and any values
asked: `NumberTypes`, `NeverOutOfRange`, `NeverOffStep`, `WidthIsFixed` and
`ShownStaysNear`. The invariant `Sound` is the type invariant with the range and
the step; it is inductive because rounding keeps bounds that the format can
express (`RoundKeepsBounds`, `FixedKeepBounds`), and `WidthIsFixed` follows from
the range by counting digits.

`TelemetryProofs` proves for any groups of values, any messages and any number of
sessions: `TelemetryTypes`, `InductiveHolds`, `QuietIsFresh`,
`OnlineShowsLastWord`, `TimeNeedsReading` and `ReadingsAdvance`. The properties
speak of the moments when nothing is under way, so the invariant has to say what
the rest of the running callback is about to bring: that every change left in
the script is followed by a notification (`ChangesAnnounced`), that a stamp left
in it has its values merged or before it (`MergedFirst`), that one step at most
decides on the online flag, and by the dongle's last word in this session
(`OnlineDecided`); a state the entities do not have yet is announced by a queued
notification, a running tick or the script (`Announced`). `ScriptShapes` lists
the scripts that `_dispatch` can run; `PoppedParts` and `PoppedStamp` say what
taking a step leaves of one; `InductiveChange` is the common case of the seven
steps that assign to the state. `ConstantsOK` is assumed. `SnapshotsAreWhole` is the
step simulation of `Replica`: every action changes the source, copies the whole of
it, or stutters.

`RestoreProofs` proves `RestoreTypes`, `NumbersSurvive` and `NothingOutdated` for any
entities, values and sequence of reloads, restarts and crashes. The invariant speaks
of every place a value is kept in: an entity that exists shows what is expected and
has written it or "unavailable" (`Shows`), the store in memory is worth what is
expected while there is none, and the file what was expected when it was written
(`Worth`); a call that waits while nothing is loaded is known to be of a removed
entity (`CallsRemoved`), so that it can only lose its value.

`PollingProofs` proves `PollingTypes`, `StalenessExplained` and `DownDetected` for any
interval and latency. The timer runs down from its last arming, which had a reason
as old as that, or was the refresh, whose request is then under way (`Reason`).

`LifecycleProofs` proves for any number of bridges: `LifecycleTypes`, `NoThreadLeaks`,
`EntryHasOneBridge`, `OnlyTheAcceptedStart` and `OnlyLeftoversTake`. The invariant ties
threads and connections to the stages (`Threads`), the entry's state to the one bridge
that is active for it (`Entries`), and a pending future to the queue: the next handle
of that bridge is the broker's first answer (`Answers`).

`FrameDecodeProofs` proves for any frames and pushes: `DecodeTypes`, `OneMatcherClaims`,
`FramesNeverRaise`, `LastReadingStays`, `UnknownIsReported` and `DecodedIsShown`. The
matchers are compared pair by pair (`Disjoint`), what a matcher takes lies within the
length it demands, and the loop's invariant says of the entries before `next` what the
properties say of all.

`WriteFrameProofs` proves for any commands, texts of any length and any bytes, given the
two assumptions about the tables: `DivisionHolds`, `FramesDivide`, `TextsAreTold`. The
invariant `Inductive` is the one of long division: the bytes taken so far are a multiple
of the polynomial plus the checksum, at the power of the shifts still to come. A shift
of a checksum whose top bit is set trades that bit for the three others, which is the
polynomial times one more power. Two theorems say what such a frame is good for:
`ChecksumIsTheOnly`, no other two bytes would do, and `DamageIsSeen`, no damage within 16
neighbouring bits yields another frame that would. They rest on one lemma,
`NoShortMultiple`: the lowest and the highest power of a multiple that is not zero lie at
least 16 apart, since the least and the greatest element of the quotient cannot be
cancelled. That such elements exist is the library's theorem on minima of well-founded
orders, which takes no operator as a parameter and so needs no induction over data.

`WriteContract` is worth its place: `ContractExplains`, `ContractSettles`,
`ContractTellsOutcomes` and `ContractOrders` in `RpcBridgeProofs` prove that whatever keeps
the contract lets display and inverter differ for the named reasons only, agrees with
the inverter once it is settled, ends its calls by their own answers, and displays in
the dongle's order. Their invariant `Kept` speaks of the contract's variables alone,
without tokens, queue, timers or wire. `DriftExplained` and `SettledAgrees` are these
theorems and `ContractKept`, nothing else: the bridge inherits them.

`DriftIsExplained` is what can be said of writes that timed out or were cancelled. There is
no read-back, so a difference may stay for good; but the inverter then has a newer value,
of a write whose caller was not told of success, or the value shown had an answer with
neither ACK nor NAK. `AgreesWhenSettled` is the case in which there is no such write.

`WakesAreNotPutOff` is the part of `EveryCallEnds` that needs no fairness. By `WakesAdvance`
a wake-up in the loop's queue keeps its place, moves up by one, or is first and ends its
call; so its place is a variant that nothing which arrives later can raise. What remains
for fairness is that the loop takes handles at all, and that the timers fire.

**Only model-checked:** the six liveness properties `EveryCallEnds`, `AckedIsShown`,
`DropIsShown`, `ReplicatesState`, `TasksEnd` and `SessionKept`. They need fairness and
`ENABLED`, which are out of the prover's reach.

## Not modelled, and the plan

What the plan has left is **System**, the write path, read path and lifecycle composed.
They share `connected`, paho's thread and the loop's queue, and nothing of what one puts
there is read by another, which is why they are modelled apart. What stopping a bridge
does to calls in flight is in `Restore`.

Left out for good: icons, units, names and translations; logging; JSON and base64
(they carry the token and the text unchanged; a body that is not an object is
dropped); random nonces, TLS and credentials; packaging. Whether the dongle reads
on behind a checksum byte that equals the closing CR is not to be seen in this
repository.
