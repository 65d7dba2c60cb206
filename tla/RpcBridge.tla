----------------------------- MODULE RpcBridge ------------------------------
(***************************************************************************)
(* The write path of the integration: service calls on the Home Assistant  *)
(* event loop send a dev_rpc request to the dongle through RWB1Bridge, and  *)
(* wait for the reply that carries the same token (mqtt_client.py           *)
(* async_write_setting, async_read_setting, _async_rpc, _handle_rpc_reply,  *)
(* _resolve_pending), after which the optimistic entity shows the value     *)
(* (number.py, switch.py, select.py) or the button returns (button.py).     *)
(*                                                                         *)
(* Four actors interleave: the asyncio loop, which runs its ready handles   *)
(* in FIFO order; paho's network thread, which only appends handles to it   *)
(* (call_soon_threadsafe); the 15 s timer of each call; and the dongle,     *)
(* behind a broker that delivers at most once, in order (QoS 0).            *)
(*                                                                         *)
(* A value written to a setting is named by the call that writes it.        *)
(***************************************************************************)
EXTENDS Naturals, Sequences

CONSTANTS
  Calls,      \* the service calls and reads of one run, each made at most once
  Settings,   \* the writable settings, one entity each
  Tokens,     \* what gen_token can draw
  Op,         \* Op[c]: "set" (an entity's write), "press" (FAULTC), "read"
  SettingOf,  \* SettingOf[c]: the setting whose channel call c names
  MaxDup,     \* bound on the replies delivered twice
  None

ASSUME ConstantsOK ==
  /\ Op \in [Calls -> {"set", "press", "read"}]
  /\ SettingOf \in [Calls -> Settings]
  /\ MaxDup \in Nat
  /\ None \notin Calls \cup Tokens

VARIABLES
  connected,  \* RWB1Bridge.connected
  pending,    \* RWB1Bridge._pending; None where the dict has no such key
  token,      \* the token a call drew, a local of _async_rpc
  fut,        \* the state of a call's future and of its timer
  phase,      \* where a call is, and then how it ended
  ready,      \* the event loop's queue of handles
  shown,      \* the optimistic value of each entity (_attr_is_on, ...)
  outbox,     \* requests on their way to the dongle
  inbox,      \* replies on their way to paho's thread
  device,     \* the value each setting really has in the inverter
  verdict,    \* history: what the dongle answered to each call
  rank,       \* history: in which order the dongle handled the calls
  handled,    \* history: how many calls it handled
  dups        \* how many replies were delivered twice so far

bridgeVars == <<connected, pending, token, fut, phase, ready, shown>>
wireVars   == <<outbox, inbox, dups>>
dongleVars == <<device, verdict, rank, handled>>
vars       == <<bridgeVars, wireVars, dongleVars>>

(***************************************************************************)
(* What a reply can say.  "ack" and "nak" are the texts co_is_ack and       *)
(* co_is_nak look for; "other" is a readable text with neither; "bad"       *)
(* stands for a co that decode_co cannot decode, and for the None that a    *)
(* reply carrying ct resolves the future with: both raise a TypeError or a  *)
(* ValueError that no entity catches.                                       *)
(***************************************************************************)
Answers  == {"ack", "nak", "other", "bad"}
Failures == {"offline", "rejected", "timeout", "cancelled", "exception"}
Phases   == {"idle", "waiting", "ok"} \cup Failures

ResolveHandle(t, a) == [fn |-> "resolve", token |-> t, co |-> a]
WakeHandle(c)       == [fn |-> "wake", call |-> c]
Handles == [fn : {"resolve"}, token : Tokens, co : Answers] \cup [fn : {"wake"}, call : Calls]

Requests == [token : Tokens, ci : Calls]
Replies  == [token : Tokens, co : Answers]

TypeOK ==
  /\ connected \in BOOLEAN
  /\ pending \in [Tokens -> Calls \cup {None}]
  /\ token \in [Calls -> Tokens \cup {None}]
  /\ fut \in [Calls -> Answers \cup {"none", "pending", "expired", "cancelled"}]
  /\ phase \in [Calls -> Phases]
  /\ ready \in Seq(Handles)
  /\ shown \in [Settings -> Calls \cup {None}]
  /\ outbox \in Seq(Requests)
  /\ inbox \in Seq(Replies)
  /\ device \in [Settings -> Calls \cup {None}]
  /\ verdict \in [Calls -> Answers \cup {"none"}]
  /\ rank \in [Calls -> Nat]
  /\ handled \in Nat
  /\ dups \in Nat

Init ==
  /\ connected = FALSE
  /\ pending = [t \in Tokens |-> None]
  /\ token = [c \in Calls |-> None]
  /\ fut = [c \in Calls |-> "none"]
  /\ phase = [c \in Calls |-> "idle"]
  /\ ready = <<>>
  /\ shown = [s \in Settings |-> None]
  /\ outbox = <<>>
  /\ inbox = <<>>
  /\ device = [s \in Settings |-> None]
  /\ verdict = [c \in Calls |-> "none"]
  /\ rank = [c \in Calls |-> 0]
  /\ handled = 0
  /\ dups = 0

-----------------------------------------------------------------------------
(* The event loop: a call starts, its future is resolved, it goes on.       *)

\* Mutant of FreshTokens: tokens are drawn again.
AnyToken == Tokens

\* gen_token draws 8 of 62 characters: two live requests never share a token.
FreshTokens == Tokens \ {token[c] : c \in Calls}

\* _async_rpc raises before it creates anything when the broker is away.
Refuse(c) ==
  /\ phase[c] = "idle"
  /\ ~connected
  /\ phase' = [phase EXCEPT ![c] = "offline"]
  /\ UNCHANGED <<connected, pending, token, fut, ready, shown, wireVars, dongleVars>>

\* _async_rpc up to its await: nothing of it can be interleaved on the loop.
Submit(c) ==
  /\ phase[c] = "idle"
  /\ connected
  /\ \E t \in FreshTokens :
       /\ token' = [token EXCEPT ![c] = t]
       /\ pending' = [pending EXCEPT ![t] = c]
       /\ outbox' = Append(outbox, [token |-> t, ci |-> c])
  /\ fut' = [fut EXCEPT ![c] = "pending"]
  /\ phase' = [phase EXCEPT ![c] = "waiting"]
  /\ UNCHANGED <<connected, ready, shown, inbox, dups, dongleVars>>

\* Mutant of Awaiting: a reply is taken for that of whichever call waits.
AwaitingAny(t) ==
  LET live == {pending[u] : u \in Tokens} \ {None}
  IN  IF live = {} THEN None ELSE CHOOSE c \in live : TRUE

\* The future that _resolve_pending finds under a token.
Awaiting(t) == pending[t]

\* future.done() spares set_result an InvalidStateError.
Resolves(c) == c # None /\ fut[c] = "pending"

\* The handle of _resolve_pending: an unknown token or a finished future is
\* ignored; otherwise the future's waiter is scheduled behind what is queued.
RunResolve ==
  /\ ready # <<>>
  /\ Head(ready).fn = "resolve"
  /\ LET c == Awaiting(Head(ready).token)
     IN  IF Resolves(c)
         THEN /\ fut' = [fut EXCEPT ![c] = Head(ready).co]
              /\ ready' = Append(Tail(ready), WakeHandle(c))
         ELSE /\ fut' = fut
              /\ ready' = Tail(ready)
  /\ UNCHANGED <<connected, pending, token, phase, shown, wireVars, dongleVars>>

\* Mutant of Raises: a NAK is taken for an answer like any other.
RaisesNever(c) == FALSE

\* async_write_setting raises for a NAK; a read returns it.
Raises(c) == fut[c] = "nak" /\ Op[c] # "read"

\* Mutant of OutcomeOf: a write without an answer is taken for one that worked.
OutcomeHoped(c) ==
  CASE fut[c] = "cancelled" -> "cancelled"
    [] fut[c] = "bad"       -> "exception"
    [] Raises(c)            -> "rejected"
    [] OTHER                -> "ok"

\* How the awaiting coroutine ends, given what its future and timer say.
OutcomeOf(c) ==
  CASE fut[c] = "expired"                   -> "timeout"
    [] fut[c] = "cancelled"                 -> "cancelled"
    [] fut[c] = "bad"                       -> "exception"
    [] Raises(c)                            -> "rejected"
    [] OTHER                                -> "ok"

\* Mutant of Forget: the token is dropped after an answer only, not in finally.
ForgetAnswered(c) ==
  IF fut[c] \in Answers THEN [pending EXCEPT ![token[c]] = None] ELSE pending

Forget(c) == [pending EXCEPT ![token[c]] = None]

\* Mutant of Shows: the value is assigned whether the write raised or not.
ShowsAnyway(c) == Op[c] = "set"

Shows(c) == OutcomeOf(c) = "ok" /\ Op[c] = "set"

\* The task resumes: the token leaves _pending whatever happened (finally),
\* a NAK raises, an ambiguous reply is only logged, and the entity takes the
\* value.  There is no await between the reply and the last of these.
Finish(c) ==
  /\ ready # <<>>
  /\ Head(ready) = WakeHandle(c)
  /\ ready' = Tail(ready)
  /\ pending' = Forget(c)
  /\ phase' = [phase EXCEPT ![c] = OutcomeOf(c)]
  /\ shown' = IF Shows(c)
              THEN [shown EXCEPT ![SettingOf[c]] = c]
              ELSE shown
  /\ UNCHANGED <<connected, token, fut, wireVars, dongleVars>>

\* Cancelling the task cancels a pending future, which schedules the waiter;
\* a future that is already done has its waiter queued, and the cancellation
\* overrides the result when the task gets to run.
Interrupt(c, why) ==
  /\ phase[c] = "waiting"
  /\ fut' = [fut EXCEPT ![c] = why]
  /\ ready' = IF fut[c] = "pending" THEN Append(ready, WakeHandle(c)) ELSE ready
  /\ UNCHANGED <<connected, pending, token, phase, shown, wireVars, dongleVars>>

\* Mutant of Expire: a call is timed only as long as the broker is there.
ExpireWhileConnected(c) ==
  connected /\ fut[c] \notin {"expired", "cancelled"} /\ Interrupt(c, "expired")

\* The timer of asyncio.wait_for runs before the task has resumed.
Expire(c) == fut[c] \notin {"expired", "cancelled"} /\ Interrupt(c, "expired")

\* Home Assistant cancels the task that runs the service call.
Cancel(c) == fut[c] # "cancelled" /\ Interrupt(c, "cancelled")

-----------------------------------------------------------------------------
(* paho's network thread.                                                   *)

\* _on_connect with rc = 0.
Connect ==
  /\ ~connected
  /\ connected' = TRUE
  /\ UNCHANGED <<pending, token, fut, phase, ready, shown, wireVars, dongleVars>>

\* _on_disconnect; what the socket still held is gone.  Nobody tells the
\* calls that wait: they are left to their timers.
Disconnect ==
  /\ connected
  /\ connected' = FALSE
  /\ inbox' = <<>>
  /\ UNCHANGED <<pending, token, fut, phase, ready, shown, outbox, dups, dongleVars>>

\* Mutant of CallSoon: the newest handle runs first.
CallSoonFirst(handle) == <<handle>> \o ready

\* call_soon_threadsafe.
CallSoon(handle) == Append(ready, handle)

\* _on_message, _dispatch and _handle_rpc_reply for a reply.
ReceiveReply ==
  /\ inbox # <<>>
  /\ ready' = CallSoon(ResolveHandle(Head(inbox).token, Head(inbox).co))
  /\ inbox' = Tail(inbox)
  /\ UNCHANGED <<connected, pending, token, fut, phase, shown, outbox, dups, dongleVars>>

-----------------------------------------------------------------------------
(* The dongle and the broker, known only through how the code uses them.    *)

\* The dongle obeys an acknowledged write and leaves a rejected one alone;
\* after any other answer it may have done either.  The answer reaches the
\* integration only while that is subscribed (clean session).
DongleHandles ==
  /\ outbox # <<>>
  /\ LET t == Head(outbox).token
         c == Head(outbox).ci
     IN  \E a \in Answers :
           /\ verdict' = [verdict EXCEPT ![c] = a]
           /\ rank' = [rank EXCEPT ![c] = handled + 1]
           /\ inbox' = IF connected THEN Append(inbox, [token |-> t, co |-> a]) ELSE inbox
           /\ \/ /\ a # "nak" /\ Op[c] = "set"
                 /\ device' = [device EXCEPT ![SettingOf[c]] = c]
              \/ /\ a # "ack" \/ Op[c] # "set"
                 /\ device' = device
  /\ handled' = handled + 1
  /\ outbox' = Tail(outbox)
  /\ UNCHANGED <<bridgeVars, dups>>

LoseRequest ==
  /\ outbox # <<>>
  /\ outbox' = Tail(outbox)
  /\ UNCHANGED <<bridgeVars, inbox, dups, dongleVars>>

LoseReply ==
  /\ inbox # <<>>
  /\ inbox' = Tail(inbox)
  /\ UNCHANGED <<bridgeVars, outbox, dups, dongleVars>>

\* The dongle's own publish may be repeated (its QoS is not ours to choose).
DuplicateReply ==
  /\ inbox # <<>>
  /\ dups < MaxDup
  /\ dups' = dups + 1
  /\ inbox' = <<Head(inbox)>> \o inbox
  /\ UNCHANGED <<bridgeVars, outbox, dongleVars>>

-----------------------------------------------------------------------------
Next ==
  \/ \E c \in Calls : \/ Refuse(c)
                      \/ Submit(c)
                      \/ Finish(c)
                      \/ Expire(c)
                      \/ Cancel(c)
  \/ RunResolve
  \/ Connect
  \/ Disconnect
  \/ ReceiveReply
  \/ DongleHandles
  \/ LoseRequest
  \/ LoseReply
  \/ DuplicateReply

Spec == Init /\ [][Next]_vars

\* The loop keeps running the handle at the head of its queue, and timers
\* fire.  Nothing is assumed of the broker, the dongle or the connection.
LoopRuns == RunResolve \/ \E c \in Calls : Finish(c)
FairSpec == Spec /\ WF_vars(LoopRuns) /\ \A c \in Calls : WF_vars(Expire(c))

-----------------------------------------------------------------------------
(* Properties.                                                              *)

\* The pending table holds exactly the calls that wait, each under the token
\* it drew: no entry survives a timeout, a cancellation, an error or an
\* answer, and none goes while its call still waits (_async_rpc's finally).
PendingIsWaiting ==
  /\ \A c \in Calls : phase[c] = "waiting" => pending[token[c]] = c
  /\ \A t \in Tokens :
       pending[t] # None => phase[pending[t]] = "waiting" /\ token[pending[t]] = t

\* A call ends the way the dongle answered that very call, never another
\* one's answer and never one given after it had ended: whatever concurrent
\* writes, late or repeated replies and reconnections there were.
OutcomeIsOwnAnswer ==
  \A c \in Calls :
    /\ phase[c] = "ok" =>
         \/ verdict[c] \in {"ack", "other"}
         \/ verdict[c] = "nak" /\ Op[c] = "read"
    /\ phase[c] = "rejected" => verdict[c] = "nak"
    /\ phase[c] = "exception" => verdict[c] = "bad"

\* An entity shows only what a finished call wrote to its own setting and the
\* dongle did not reject: neither a value still in flight nor one whose call
\* failed is ever displayed (_attr_* is assigned after the await).
ShownWasAccepted ==
  \A s \in Settings :
    shown[s] # None =>
      /\ phase[shown[s]] = "ok"
      /\ Op[shown[s]] = "set" /\ SettingOf[shown[s]] = s
      /\ verdict[shown[s]] \in {"ack", "other"}

\* Concurrent writes to one entity: the display moves only forward in the
\* order in which the dongle handled them (the FIFO path from its replies
\* through paho's thread and the loop's queue to the task that resumes).
DisplayFollowsDongle ==
  [][\A s \in Settings :
       shown[s] # None /\ shown'[s] # shown[s] => rank[shown[s]] < rank[shown'[s]]]_vars

\* When no write to a setting is in flight and none of them timed out, was
\* cancelled or got an unclear answer, the entity shows the inverter's value.
AgreesWhenSettled ==
  \A s \in Settings :
    (\A c \in Calls :
       SettingOf[c] = s /\ Op[c] = "set" =>
         /\ phase[c] \in {"idle", "offline", "ok", "rejected"}
         /\ verdict[c] \in {"none", "ack", "nak"})
    => shown[s] = device[s]

\* There is no read-back: display and inverter may drift apart for good.  But never
\* behind the back of a caller that was told of success: the inverter has a newer
\* value, of a write that still waits, timed out, was cancelled or had an answer
\* that cannot be read; or what is shown had an answer with neither ACK nor NAK,
\* which was logged.
DriftIsExplained ==
  \A s \in Settings :
    shown[s] # device[s] =>
      \/ /\ device[s] # None
         /\ phase[device[s]] \in {"waiting", "timeout", "cancelled", "exception"}
         /\ shown[s] # None => rank[shown[s]] < rank[device[s]]
      \/ shown[s] # None /\ verdict[shown[s]] = "other"

\* README.md:104 and number.py:6-7: "A write only 'sticks' once the dongle
\* ACKs it".  The code lets a reply that is neither ACK nor NAK pass with a
\* warning (mqtt_client.py:268), so this does not hold.
SticksOnlyOnAck ==
  \A s \in Settings : shown[s] # None => verdict[shown[s]] = "ack"

\* No call waits for ever, although a lost request, a lost reply or a
\* disconnection tells it nothing: each ends at its timer at the latest.
EveryCallEnds ==
  \A c \in Calls : phase[c] = "waiting" ~> phase[c] \notin {"idle", "waiting"}

\* The write path keeps the contract its callers rely on (WriteContract).
Contract == INSTANCE WriteContract
KeepsContract == Contract!Spec

-----------------------------------------------------------------------------
(* The inductive invariant: what keeps the properties true from step to     *)
(* step is that a token belongs to one call for good, and that everything   *)
(* on the way carries the token and the answer of the call it is about.     *)

\* A call owns a token, a future and an answer only once it was submitted.
SubmittedOwnsToken ==
  \A c \in Calls :
    /\ token[c] = None <=> phase[c] \in {"idle", "offline"}
    /\ token[c] = None <=> fut[c] = "none"
    /\ token[c] = None => verdict[c] = "none"
    /\ fut[c] = "pending" => phase[c] = "waiting"

\* The loop's own guarantee: exactly one wake-up is queued for a waiting call whose
\* future is done, and none for any other.
OneWakeUp ==
  /\ \A c \in Calls :
       phase[c] = "waiting" /\ fut[c] # "pending" => \E i \in 1..Len(ready) : ready[i] = WakeHandle(c)
  /\ \A i \in 1..Len(ready) :
       ready[i].fn = "wake" =>
         /\ phase[ready[i].call] = "waiting" /\ fut[ready[i].call] # "pending"
         /\ \A j \in 1..Len(ready) : ready[j] = ready[i] => j = i

TokensDistinct ==
  \A c, d \in Calls : token[c] = token[d] /\ token[c] # None => c = d

\* t and a are the token of some call and what the dongle answered to it.
Answered(t, a) == \E c \in Calls : token[c] = t /\ verdict[c] = a

\* A request on its way was not answered, and no call has two of them.
RequestsOpen ==
  \A i \in 1..Len(outbox) :
    /\ token[outbox[i].ci] = outbox[i].token
    /\ verdict[outbox[i].ci] = "none"
    /\ \A j \in 1..Len(outbox) : outbox[j].ci = outbox[i].ci => j = i

RepliesTrue == \A i \in 1..Len(inbox) : Answered(inbox[i].token, inbox[i].co)

HandlesTrue ==
  \A i \in 1..Len(ready) :
    ready[i].fn = "resolve" => Answered(ready[i].token, ready[i].co)

FuturesTrue == \A c \in Calls : fut[c] \in Answers => verdict[c] = fut[c]

Inductive ==
  /\ TypeOK
  /\ PendingIsWaiting
  /\ OneWakeUp
  /\ SubmittedOwnsToken
  /\ TokensDistinct
  /\ RequestsOpen
  /\ RepliesTrue
  /\ HandlesTrue
  /\ FuturesTrue
  /\ OutcomeIsOwnAnswer
  /\ ShownWasAccepted
=============================================================================
