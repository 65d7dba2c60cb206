-------------------------- MODULE RpcBridgeProofs ---------------------------
(***************************************************************************)
(* Proofs about the write path for any calls, settings and tokens: its type *)
(* correctness, the safety invariants of RpcBridge by way of Inductive, the *)
(* order of the display by way of Ordered, and that the write path          *)
(* implements WriteContract.                                                *)
(***************************************************************************)
EXTENDS RpcBridge, SequenceTheorems, TLAPS

-----------------------------------------------------------------------------
(* What Append, Tail and a repeated head do to the elements of a queue: the *)
(* channels and the event loop's handles change in no other way.            *)

\* An appended element is the last; the others keep their places.
LEMMA AppendElements ==
  ASSUME NEW S, NEW s \in Seq(S), NEW e \in S
  PROVE  /\ Append(s, e) \in Seq(S)
         /\ Len(Append(s, e)) = Len(s) + 1
         /\ \A i \in 1..Len(s) : Append(s, e)[i] = s[i]
         /\ Append(s, e)[Len(s) + 1] = e
OBVIOUS

\* Taking the head moves every other element one place forward.
LEMMA TailElements ==
  ASSUME NEW S, NEW s \in Seq(S), s # <<>>
  PROVE  /\ Tail(s) \in Seq(S)
         /\ Len(s) \in Nat \ {0}
         /\ Len(Tail(s)) = Len(s) - 1
         /\ Head(s) = s[1] /\ s[1] \in S
         /\ \A i \in 1..Len(Tail(s)) : i + 1 \in 1..Len(s) /\ Tail(s)[i] = s[i + 1]
         /\ \A i \in 1..Len(s) : i # 1 => i - 1 \in 1..Len(Tail(s)) /\ Tail(s)[i - 1] = s[i]
<1>1. /\ Tail(s) \in Seq(S)
      /\ Len(s) \in Nat \ {0}
      /\ Len(Tail(s)) = Len(s) - 1
      /\ Head(s) = s[1] /\ s[1] \in S
      /\ \A i \in 1..Len(Tail(s)) : Tail(s)[i] = s[i + 1]
  BY HeadTailProperties, EmptySeq
<1>2. \A i \in 1..Len(Tail(s)) : i + 1 \in 1..Len(s)
  BY <1>1
<1>3. ASSUME NEW i \in 1..Len(s), i # 1
      PROVE  i - 1 \in 1..Len(Tail(s)) /\ Tail(s)[i - 1] = s[i]
  <2>1. i - 1 \in 1..Len(Tail(s)) /\ (i - 1) + 1 = i
    BY <1>1, <1>3
  <2> QED BY <1>1, <2>1
<1> QED BY <1>1, <1>2, <1>3

\* A handle that runs and queues another one.
LEMMA PopThenAppend ==
  ASSUME NEW S, NEW s \in Seq(S), s # <<>>, NEW e \in S, NEW r, r = Append(Tail(s), e)
  PROVE  /\ r \in Seq(S)
         /\ Len(r) = Len(s) /\ Len(s) \in 1..Len(s) /\ r[Len(s)] = e
         /\ \A i \in 1..Len(s) : i # Len(s) => i + 1 \in 1..Len(s) /\ r[i] = s[i + 1]
         /\ \A i \in 1..Len(s) : i # 1 => i - 1 \in 1..Len(s) /\ r[i - 1] = s[i]
<1>1. /\ Tail(s) \in Seq(S) /\ Len(s) \in Nat \ {0} /\ Len(Tail(s)) = Len(s) - 1
      /\ \A i \in 1..Len(Tail(s)) : i + 1 \in 1..Len(s) /\ Tail(s)[i] = s[i + 1]
      /\ \A i \in 1..Len(s) : i # 1 => i - 1 \in 1..Len(Tail(s)) /\ Tail(s)[i - 1] = s[i]
  BY TailElements
<1>2. /\ r \in Seq(S)
      /\ Len(r) = Len(Tail(s)) + 1
      /\ \A i \in 1..Len(Tail(s)) : r[i] = Tail(s)[i]
      /\ r[Len(Tail(s)) + 1] = e
  BY <1>1, AppendElements
<1>3. Len(r) = Len(s) /\ Len(s) \in 1..Len(s) /\ r[Len(s)] = e
  BY <1>1, <1>2
<1>4. ASSUME NEW i \in 1..Len(s), i # Len(s)
      PROVE  i + 1 \in 1..Len(s) /\ r[i] = s[i + 1]
  <2>1. Len(s) \in Nat
    BY <1>1
  <2>2. i \in 1..(Len(s) - 1)
    BY <1>4, <2>1
  <2> QED BY <1>1, <1>2, <2>2
<1>5. ASSUME NEW i \in 1..Len(s), i # 1
      PROVE  i - 1 \in 1..Len(s) /\ r[i - 1] = s[i]
  <2>1. i - 1 \in 1..Len(s)
    BY <1>1, <1>5
  <2> QED BY <1>1, <1>2, <1>5, <2>1
<1> QED BY <1>2, <1>3, <1>4, <1>5

\* A message delivered twice.
LEMMA RepeatedHead ==
  ASSUME NEW S, NEW s \in Seq(S), s # <<>>
  PROVE  /\ <<Head(s)>> \o s \in Seq(S)
         /\ \A i \in 1..Len(<<Head(s)>> \o s) :
              \E j \in 1..Len(s) : (<<Head(s)>> \o s)[i] = s[j]
<1>1. <<Head(s)>> \in Seq(S) /\ Len(<<Head(s)>>) = 1 /\ <<Head(s)>>[1] = s[1]
  BY TailElements
<1>2. Len(s) \in Nat \ {0}
  BY EmptySeq
<1>3. /\ <<Head(s)>> \o s \in Seq(S)
      /\ Len(<<Head(s)>> \o s) = 1 + Len(s)
      /\ \A i \in 1..(1 + Len(s)) :
           (<<Head(s)>> \o s)[i] = IF i <= 1 THEN <<Head(s)>>[i] ELSE s[i - 1]
  BY <1>1, ConcatProperties
<1>4. ASSUME NEW i \in 1..(1 + Len(s))
      PROVE  \E j \in 1..Len(s) : (<<Head(s)>> \o s)[i] = s[j]
  <2>1. CASE i = 1
    BY <1>1, <1>2, <1>3, <2>1
  <2>2. CASE i # 1
    <3>1. i - 1 \in 1..Len(s) /\ ~(i <= 1)
      BY <1>2, <2>2
    <3>2. (<<Head(s)>> \o s)[i] = s[i - 1]
      BY <1>3, <3>1
    <3> QED BY <3>1, <3>2
  <2> QED BY <2>1, <2>2
<1> QED BY <1>3, <1>4

\* The two kinds of handle, taken apart.
LEMMA HandleForms ==
  /\ \A t \in Tokens, a \in Answers :
       /\ ResolveHandle(t, a) \in Handles
       /\ ResolveHandle(t, a).fn = "resolve"
       /\ ResolveHandle(t, a).token = t /\ ResolveHandle(t, a).co = a
  /\ \A c \in Calls :
       WakeHandle(c) \in Handles /\ WakeHandle(c).fn = "wake" /\ WakeHandle(c).call = c
  /\ \A h \in Handles :
       \/ h.fn = "resolve" /\ h.token \in Tokens /\ h.co \in Answers
       \/ h.fn = "wake" /\ h.call \in Calls /\ h = WakeHandle(h.call)
BY DEF Handles, ResolveHandle, WakeHandle

-----------------------------------------------------------------------------
(* Type correctness.                                                        *)

LEMMA InitTypeOK == Init => TypeOK
<1>1. <<>> \in Seq(Handles) /\ <<>> \in Seq(Requests) /\ <<>> \in Seq(Replies)
  BY EmptySeq
<1> SUFFICES ASSUME Init PROVE TypeOK
  OBVIOUS
<1>2. ready \in Seq(Handles) /\ outbox \in Seq(Requests) /\ inbox \in Seq(Replies)
  BY <1>1 DEF Init
<1>3. /\ connected \in BOOLEAN
      /\ pending \in [Tokens -> Calls \cup {None}]
      /\ token \in [Calls -> Tokens \cup {None}]
      /\ shown \in [Settings -> Calls \cup {None}]
      /\ device \in [Settings -> Calls \cup {None}]
  BY DEF Init
<1>4. /\ fut \in [Calls -> Answers \cup {"none", "pending", "expired", "cancelled"}]
      /\ phase \in [Calls -> Phases]
      /\ verdict \in [Calls -> Answers \cup {"none"}]
      /\ rank \in [Calls -> Nat]
      /\ handled \in Nat
      /\ dups \in Nat
  BY DEF Init, Phases
<1> QED BY <1>2, <1>3, <1>4 DEF TypeOK

LEMMA StepTypeOK == TypeOK /\ [Next]_vars => TypeOK'
<1> SUFFICES ASSUME TypeOK, [Next]_vars PROVE TypeOK'
  OBVIOUS
<1> USE DEF TypeOK
<1>1. ASSUME NEW c \in Calls, Refuse(c) PROVE TypeOK'
  BY <1>1 DEF Refuse, Phases, Failures, wireVars, dongleVars
<1>2. ASSUME NEW c \in Calls, Submit(c) PROVE TypeOK'
  <2> PICK t \in FreshTokens :
         /\ token' = [token EXCEPT ![c] = t]
         /\ pending' = [pending EXCEPT ![t] = c]
         /\ outbox' = Append(outbox, [token |-> t, ci |-> c])
    BY <1>2 DEF Submit
  <2>1. t \in Tokens /\ [token |-> t, ci |-> c] \in Requests
    BY DEF FreshTokens, Requests
  <2>2. outbox' \in Seq(Requests)
    BY <2>1, AppendElements
  <2> QED BY <1>2, <2>1, <2>2 DEF Submit, Phases, dongleVars
<1>3. ASSUME NEW c \in Calls, Finish(c) PROVE TypeOK'
  <2>1. ready' \in Seq(Handles)
    BY <1>3, TailElements DEF Finish, Forget, Shows
  <2>2. OutcomeOf(c) \in Phases
    BY DEF OutcomeOf, Raises, Phases, Failures
  <2>3. shown' \in [Settings -> Calls \cup {None}]
    BY <1>3, ConstantsOK DEF Finish, Forget, Shows
  <2>4. pending' \in [Tokens -> Calls \cup {None}]
    BY <1>3 DEF Finish, Forget, Shows
  <2> QED BY <1>3, <2>1, <2>2, <2>3, <2>4 DEF Finish, Forget, Shows, wireVars, dongleVars
<1>4. ASSUME NEW c \in Calls, NEW why \in {"expired", "cancelled"}, Interrupt(c, why)
      PROVE TypeOK'
  <2>1. ready' \in Seq(Handles)
    BY <1>4, HandleForms, AppendElements DEF Interrupt
  <2> QED BY <1>4, <2>1 DEF Interrupt, wireVars, dongleVars
<1>5. CASE RunResolve
  <2>1. /\ Tail(ready) \in Seq(Handles)
        /\ Head(ready).token \in Tokens /\ Head(ready).co \in Answers
    BY <1>5, TailElements, HandleForms DEF RunResolve, Awaiting, Resolves
  <2> DEFINE c == pending[Head(ready).token]
  <2>2. c \in Calls \cup {None}
    BY <2>1
  <2>3. CASE c # None /\ fut[c] = "pending"
    <3>1. c \in Calls
      BY <2>2, <2>3
    <3>2. WakeHandle(c) \in Handles /\ ready' = Append(Tail(ready), WakeHandle(c))
      BY <1>5, <2>3, <3>1, HandleForms DEF RunResolve, Awaiting, Resolves
    <3>3. ready' \in Seq(Handles)
      BY <2>1, <3>2, AppendElements
    <3>4. fut' = [fut EXCEPT ![c] = Head(ready).co]
      BY <1>5, <2>3 DEF RunResolve, Awaiting, Resolves
    <3> QED BY <1>5, <2>1, <3>1, <3>3, <3>4 DEF RunResolve, Awaiting, Resolves, wireVars, dongleVars
  <2>4. CASE ~(c # None /\ fut[c] = "pending")
    BY <1>5, <2>1, <2>4 DEF RunResolve, Awaiting, Resolves, wireVars, dongleVars
  <2> QED BY <2>3, <2>4
<1>6. CASE Connect
  BY <1>6 DEF Connect, wireVars, dongleVars
<1>7. CASE Disconnect
  BY <1>7, EmptySeq DEF Disconnect, dongleVars
<1>8. CASE ReceiveReply
  <2>0. Tail(inbox) \in Seq(Replies) /\ Head(inbox) \in Replies
    BY <1>8, TailElements DEF ReceiveReply, CallSoon
  <2>1. Head(inbox).token \in Tokens /\ Head(inbox).co \in Answers
    BY <2>0 DEF Replies
  <2>2. ready' \in Seq(Handles)
    BY <1>8, <2>1, HandleForms, AppendElements DEF ReceiveReply, CallSoon
  <2> QED BY <1>8, <2>0, <2>2 DEF ReceiveReply, CallSoon, dongleVars
<1>9. CASE DongleHandles
  <2> DEFINE t == Head(outbox).token
             c == Head(outbox).ci
  <2>0. Tail(outbox) \in Seq(Requests) /\ Head(outbox) \in Requests
    BY <1>9, TailElements DEF DongleHandles
  <2>1. t \in Tokens /\ c \in Calls
    BY <2>0 DEF Requests
  <2> PICK a \in Answers :
        /\ verdict' = [verdict EXCEPT ![c] = a]
        /\ rank' = [rank EXCEPT ![c] = handled + 1]
        /\ inbox' = IF connected THEN Append(inbox, [token |-> t, co |-> a]) ELSE inbox
        /\ \/ device' = [device EXCEPT ![SettingOf[c]] = c]
           \/ device' = device
    BY <1>9 DEF DongleHandles
  <2>2. inbox' \in Seq(Replies)
    BY <2>1, AppendElements DEF Replies
  <2>3. device' \in [Settings -> Calls \cup {None}]
    BY <2>1, ConstantsOK
  <2> QED BY <1>9, <2>0, <2>1, <2>2, <2>3 DEF DongleHandles, bridgeVars
<1>10. CASE LoseRequest
  BY <1>10, TailElements DEF LoseRequest, bridgeVars, dongleVars
<1>11. CASE LoseReply
  BY <1>11, TailElements DEF LoseReply, bridgeVars, dongleVars
<1>12. CASE DuplicateReply
  <2>1. inbox' \in Seq(Replies)
    BY <1>12, RepeatedHead DEF DuplicateReply
  <2> QED BY <1>12, <2>1 DEF DuplicateReply, bridgeVars, dongleVars
<1>13. CASE UNCHANGED vars
  BY <1>13 DEF vars, bridgeVars, wireVars, dongleVars
<1> QED
  BY <1>1, <1>2, <1>3, <1>4, <1>5, <1>6, <1>7, <1>8, <1>9, <1>10, <1>11, <1>12, <1>13
     DEF Next, Expire, Cancel

\* Every variable keeps its type: in particular the loop only ever queues the
\* two kinds of handle, and _pending only ever maps tokens to calls.
THEOREM TypeCorrect == Spec => []TypeOK
BY InitTypeOK, StepTypeOK, PTL DEF Spec

-----------------------------------------------------------------------------
(* The inductive invariant, one lemma per action.  What is on the way stays *)
(* true because a token and an answer, once given to a call, never change.  *)

LEMMA QueueElements ==
  ASSUME TypeOK
  PROVE  /\ \A i \in 1..Len(outbox) : outbox[i].token \in Tokens /\ outbox[i].ci \in Calls
         /\ \A i \in 1..Len(inbox) : inbox[i].token \in Tokens /\ inbox[i].co \in Answers
         /\ \A i \in 1..Len(ready) :
              \/ ready[i].fn = "resolve" /\ ready[i].token \in Tokens /\ ready[i].co \in Answers
              \/ ready[i].fn = "wake" /\ ready[i].call \in Calls /\ ready[i] = WakeHandle(ready[i].call)
<1> USE DEF TypeOK
<1>1. \A i \in 1..Len(outbox) : outbox[i] \in Requests
  BY ElementOfSeq
<1>2. \A i \in 1..Len(inbox) : inbox[i] \in Replies
  BY ElementOfSeq
<1>3. \A i \in 1..Len(ready) : ready[i] \in Handles
  BY ElementOfSeq
<1> QED BY <1>1, <1>2, <1>3, HandleForms DEF Requests, Replies

LEMMA InitInductive == Init => Inductive
<1> SUFFICES ASSUME Init PROVE Inductive
  OBVIOUS
<1>1. TypeOK
  BY InitTypeOK
<1>2. Len(ready) = 0 /\ Len(outbox) = 0 /\ Len(inbox) = 0
  BY EmptySeq DEF Init
<1>3. \A i \in 1..0 : FALSE
  OBVIOUS
<1>4. OneWakeUp /\ RequestsOpen /\ RepliesTrue /\ HandlesTrue
  BY <1>2, <1>3 DEF Init, OneWakeUp, RequestsOpen, RepliesTrue, HandlesTrue
<1>5. PendingIsWaiting /\ SubmittedOwnsToken /\ TokensDistinct /\ FuturesTrue
  BY DEF Init, PendingIsWaiting, SubmittedOwnsToken, TokensDistinct, FuturesTrue, Answers
<1>6. OutcomeIsOwnAnswer /\ ShownWasAccepted
  BY DEF Init, OutcomeIsOwnAnswer, ShownWasAccepted
<1> QED BY <1>1, <1>4, <1>5, <1>6 DEF Inductive

LEMMA RefuseInductive ==
  ASSUME Inductive, TypeOK', NEW c \in Calls, Refuse(c)
  PROVE  Inductive'
<1> USE DEF Inductive, TypeOK
<1>1. /\ phase[c] = "idle" /\ phase' = [phase EXCEPT ![c] = "offline"]
      /\ UNCHANGED <<pending, token, fut, ready, shown, outbox, inbox, verdict>>
  BY DEF Refuse, wireVars, dongleVars
<1>2. PendingIsWaiting' /\ SubmittedOwnsToken' /\ TokensDistinct' /\ FuturesTrue'
  BY <1>1 DEF PendingIsWaiting, SubmittedOwnsToken, TokensDistinct, FuturesTrue
<1>3. OneWakeUp'
  BY <1>1, QueueElements DEF OneWakeUp
<1>4. RequestsOpen' /\ RepliesTrue' /\ HandlesTrue'
  <2>1. RequestsOpen'
    BY <1>1 DEF RequestsOpen
  <2>2. RepliesTrue'
    BY <1>1 DEF RepliesTrue, Answered
  <2>3. HandlesTrue'
    BY <1>1 DEF HandlesTrue, Answered
  <2> QED BY <2>1, <2>2, <2>3
<1>5. OutcomeIsOwnAnswer' /\ ShownWasAccepted'
  BY <1>1 DEF OutcomeIsOwnAnswer, ShownWasAccepted
<1> QED BY <1>2, <1>3, <1>4, <1>5

LEMMA SubmitInductive ==
  ASSUME Inductive, TypeOK', NEW c \in Calls, Submit(c)
  PROVE  Inductive'
<1> USE DEF Inductive, TypeOK
<1> PICK t \in FreshTokens :
       /\ token' = [token EXCEPT ![c] = t]
       /\ pending' = [pending EXCEPT ![t] = c]
       /\ outbox' = Append(outbox, [token |-> t, ci |-> c])
  BY DEF Submit
<1>1. /\ phase[c] = "idle" /\ phase' = [phase EXCEPT ![c] = "waiting"]
      /\ fut' = [fut EXCEPT ![c] = "pending"]
      /\ UNCHANGED <<ready, shown, inbox, verdict>>
  BY DEF Submit, dongleVars
<1>2. t \in Tokens /\ t # None /\ \A d \in Calls : token[d] # t
  BY ConstantsOK DEF FreshTokens
<1>3. token[c] = None /\ verdict[c] = "none"
  BY <1>1 DEF SubmittedOwnsToken
<1>4. PendingIsWaiting'
  BY <1>1, <1>2, <1>3, ConstantsOK DEF PendingIsWaiting, SubmittedOwnsToken
<1>5. SubmittedOwnsToken' /\ TokensDistinct'
  BY <1>1, <1>2, <1>3 DEF SubmittedOwnsToken, TokensDistinct
<1>6. OneWakeUp'
  BY <1>1, QueueElements DEF OneWakeUp
<1>7. RequestsOpen'
  <2>1. [token |-> t, ci |-> c] \in Requests
    BY <1>2 DEF Requests
  <2>2. /\ Len(outbox') = Len(outbox) + 1
        /\ \A i \in 1..Len(outbox) : outbox'[i] = outbox[i]
        /\ outbox'[Len(outbox) + 1] = [token |-> t, ci |-> c]
    BY <2>1, AppendElements
  <2>3. \A i \in 1..Len(outbox) : outbox[i].token \in Tokens /\ outbox[i].ci \in Calls
    BY QueueElements
  <2>4. ASSUME NEW i \in 1..Len(outbox) PROVE outbox[i].ci # c
    <3>1. token[outbox[i].ci] = outbox[i].token /\ outbox[i].token # None
      BY <2>3, ConstantsOK DEF RequestsOpen
    <3> QED BY <1>3, <3>1
  <2>5. \A i \in 1..Len(outbox') : i \in 1..Len(outbox) \/ i = Len(outbox) + 1
    BY <2>2, LenProperties
  <2> QED BY <1>1, <1>3, <2>2, <2>3, <2>4, <2>5 DEF RequestsOpen
<1>8. \A u \in Tokens, a \in Answers : Answered(u, a) => Answered(u, a)'
  BY <1>1, <1>3, ConstantsOK DEF Answered
<1>9. RepliesTrue' /\ HandlesTrue'
  BY <1>1, <1>8, QueueElements DEF RepliesTrue, HandlesTrue
<1>10. FuturesTrue' /\ OutcomeIsOwnAnswer' /\ ShownWasAccepted'
  BY <1>1 DEF FuturesTrue, OutcomeIsOwnAnswer, ShownWasAccepted, Answers
<1> QED BY <1>4, <1>5, <1>6, <1>7, <1>9, <1>10

\* A future takes the answer that was given to its own call.
LEMMA RunResolveInductive ==
  ASSUME Inductive, TypeOK', RunResolve
  PROVE  Inductive'
<1> USE DEF Inductive, TypeOK
<1> DEFINE c == pending[Head(ready).token]
<1>1. /\ ready # <<>> /\ Head(ready).fn = "resolve"
      /\ UNCHANGED <<pending, token, phase, shown, outbox, inbox, verdict>>
  BY DEF RunResolve, Awaiting, Resolves, wireVars, dongleVars
<1>2. /\ Tail(ready) \in Seq(Handles) /\ Len(ready) \in Nat \ {0}
      /\ Len(Tail(ready)) = Len(ready) - 1
      /\ Head(ready) = ready[1]
      /\ \A i \in 1..Len(Tail(ready)) : i + 1 \in 1..Len(ready) /\ Tail(ready)[i] = ready[i + 1]
      /\ \A i \in 1..Len(ready) :
           i # 1 => i - 1 \in 1..Len(Tail(ready)) /\ Tail(ready)[i - 1] = ready[i]
  BY <1>1, TailElements
<1>3. ready[1].fn = "resolve" /\ ready[1].token \in Tokens /\ ready[1].co \in Answers
  BY <1>1, <1>2, QueueElements
<1>4. \A u \in Tokens, a \in Answers : Answered(u, a) => Answered(u, a)'
  BY <1>1 DEF Answered
<1>5. RequestsOpen' /\ RepliesTrue'
  BY <1>1, <1>4, QueueElements DEF RequestsOpen, RepliesTrue
<1>6. PendingIsWaiting' /\ TokensDistinct' /\ OutcomeIsOwnAnswer' /\ ShownWasAccepted'
  BY <1>1 DEF PendingIsWaiting, TokensDistinct, OutcomeIsOwnAnswer, ShownWasAccepted
<1>7. CASE c # None /\ fut[c] = "pending"
  <2>1. c \in Calls /\ token[c] = ready[1].token /\ phase[c] = "waiting"
    BY <1>2, <1>3, <1>7 DEF PendingIsWaiting
  <2>2. /\ fut' = [fut EXCEPT ![c] = ready[1].co]
        /\ ready' = Append(Tail(ready), WakeHandle(c))
        /\ fut[c] = "pending"
    BY <1>2, <1>7 DEF RunResolve, Awaiting, Resolves
  <2> HIDE DEF c
  <2>3. verdict[c] = ready[1].co
    <3>1. PICK d \in Calls : token[d] = ready[1].token /\ verdict[d] = ready[1].co
      BY <1>2, <1>3 DEF HandlesTrue, Answered
    <3>2. d = c
      BY <1>3, <2>1, <3>1, ConstantsOK DEF TokensDistinct
    <3> QED BY <3>1, <3>2
  <2>4. FuturesTrue' /\ SubmittedOwnsToken'
    BY <1>1, <1>3, <2>1, <2>2, <2>3 DEF FuturesTrue, SubmittedOwnsToken, Answers
  <2>5. /\ Len(ready') = Len(ready) /\ Len(ready) \in 1..Len(ready)
        /\ ready'[Len(ready)] = WakeHandle(c)
        /\ \A i \in 1..Len(ready) : i # Len(ready) => i + 1 \in 1..Len(ready) /\ ready'[i] = ready[i + 1]
        /\ \A i \in 1..Len(ready) : i # 1 => i - 1 \in 1..Len(ready) /\ ready'[i - 1] = ready[i]
    <3>1. WakeHandle(c) \in Handles
      BY <2>1, HandleForms
    <3> QED BY <1>1, <2>2, <3>1, PopThenAppend
  <2>6. HandlesTrue'
    <3>1. ASSUME NEW i \in 1..Len(ready'), ready'[i].fn = "resolve"
          PROVE  i # Len(ready)
      BY <2>1, <2>5, <3>1, HandleForms
    <3> QED BY <1>4, <2>5, <3>1, QueueElements DEF HandlesTrue
  <2>7. OneWakeUp'
    <3>1. ASSUME NEW d \in Calls, phase'[d] = "waiting", fut'[d] # "pending"
          PROVE  \E i \in 1..Len(ready') : ready'[i] = WakeHandle(d)
      <4>1. CASE d = c
        BY <2>5, <4>1
      <4>2. CASE d # c
        <5>1. PICK i \in 1..Len(ready) : ready[i] = WakeHandle(d)
          BY <1>1, <2>1, <2>2, <3>1, <4>2 DEF OneWakeUp
        <5>2. i # 1
          BY <1>3, <5>1, HandleForms
        <5> QED BY <2>5, <5>1, <5>2
      <4> QED BY <4>1, <4>2
    <3>2. \A i \in 1..Len(ready) : ready[i] # WakeHandle(c)
      BY SMTT(30), <2>1, <2>2, HandleForms DEF OneWakeUp
    <3>3. ASSUME NEW i \in 1..Len(ready'), ready'[i].fn = "wake"
          PROVE  /\ phase'[ready'[i].call] = "waiting" /\ fut'[ready'[i].call] # "pending"
                 /\ \A j \in 1..Len(ready') : ready'[j] = ready'[i] => j = i
      <4>1. CASE i # Len(ready)
        <5>0. i + 1 \in 1..Len(ready) /\ ready'[i] = ready[i + 1]
          BY <2>5, <4>1
        <5>1. /\ ready[i + 1].call \in Calls /\ ready[i + 1] = WakeHandle(ready[i + 1].call)
              /\ phase[ready[i + 1].call] = "waiting" /\ fut[ready[i + 1].call] # "pending"
              /\ \A j \in 1..Len(ready) : ready[j] = ready[i + 1] => j = i + 1
          BY <3>3, <5>0, QueueElements DEF OneWakeUp
        <5>2. ready[i + 1].call # c
          BY <2>2, <5>1
        <5>3. ASSUME NEW j \in 1..Len(ready'), ready'[j] = ready'[i] PROVE j = i
          <6>1. j # Len(ready)
            BY <2>5, <3>2, <5>0, <5>3
          <6>2. j + 1 \in 1..Len(ready) /\ ready[j + 1] = ready[i + 1]
            BY <2>5, <5>0, <5>3, <6>1
          <6>3. j + 1 = i + 1
            BY <5>1, <6>2
          <6> QED BY <6>3
        <5> QED BY <1>1, <2>1, <2>2, <5>0, <5>1, <5>2, <5>3
      <4>2. CASE i = Len(ready)
        <5>1. \A j \in 1..Len(ready') : ready'[j] = ready'[i] => j = i
          BY <2>5, <3>2, <4>2
        <5>2. fut'[c] = ready[1].co
          BY <2>1, <2>2
        <5>3. ready'[i].call = c
          BY <2>1, <2>5, <4>2, HandleForms
        <5> QED BY <1>1, <1>3, <2>1, <5>1, <5>2, <5>3 DEF Answers
      <4> QED BY <4>1, <4>2
    <3> QED BY <3>1, <3>3 DEF OneWakeUp
  <2> QED BY <1>5, <1>6, <2>4, <2>6, <2>7
<1>8. CASE ~(c # None /\ fut[c] = "pending")
  <2>1. fut' = fut /\ ready' = Tail(ready)
    BY <1>8 DEF RunResolve, Awaiting, Resolves
  <2>2. FuturesTrue' /\ SubmittedOwnsToken'
    BY <1>1, <2>1 DEF FuturesTrue, SubmittedOwnsToken
  <2>3. HandlesTrue'
    BY <1>2, <1>4, <2>1, QueueElements DEF HandlesTrue
  <2>4. OneWakeUp'
    <3>1. ASSUME NEW d \in Calls, phase[d] = "waiting", fut[d] # "pending"
          PROVE  \E i \in 1..Len(ready') : ready'[i] = WakeHandle(d)
      <4>1. PICK i \in 1..Len(ready) : ready[i] = WakeHandle(d)
        BY <3>1 DEF OneWakeUp
      <4>2. i # 1
        BY <1>3, <4>1, HandleForms
      <4>3. i - 1 \in 1..Len(ready') /\ ready'[i - 1] = ready[i]
        BY <1>2, <2>1, <4>2
      <4> QED BY <4>1, <4>3
    <3>2. ASSUME NEW i \in 1..Len(ready'), ready'[i].fn = "wake"
          PROVE  /\ phase[ready'[i].call] = "waiting" /\ fut[ready'[i].call] # "pending"
                 /\ \A j \in 1..Len(ready') : ready'[j] = ready'[i] => j = i
      <4>1. i + 1 \in 1..Len(ready) /\ ready'[i] = ready[i + 1]
        BY <1>2, <2>1
      <4>2. /\ phase[ready[i + 1].call] = "waiting" /\ fut[ready[i + 1].call] # "pending"
            /\ \A j \in 1..Len(ready) : ready[j] = ready[i + 1] => j = i + 1
        BY <3>2, <4>1 DEF OneWakeUp
      <4>3. \A j \in 1..Len(ready') : ready'[j] = ready'[i] => j = i
        BY <1>2, <2>1, <4>1, <4>2
      <4> QED BY <4>1, <4>2, <4>3
    <3> QED BY <1>1, <2>1, <3>1, <3>2 DEF OneWakeUp
  <2> QED BY <1>5, <1>6, <2>2, <2>3, <2>4
<1> QED BY <1>7, <1>8

\* The call whose wake-up runs is waiting, with its answer or failure set.
LEMMA FinishInductive ==
  ASSUME Inductive, TypeOK', NEW c \in Calls, Finish(c)
  PROVE  Inductive'
<1> USE DEF Inductive, TypeOK
<1>1. /\ ready # <<>> /\ Head(ready) = WakeHandle(c) /\ ready' = Tail(ready)
      /\ pending' = [pending EXCEPT ![token[c]] = None]
      /\ phase' = [phase EXCEPT ![c] = OutcomeOf(c)]
      /\ UNCHANGED <<token, fut, outbox, inbox, verdict>>
  BY DEF Finish, Forget, Shows, wireVars, dongleVars
<1>2. /\ Len(ready) \in Nat \ {0} /\ 1 \in 1..Len(ready) /\ Head(ready) = ready[1]
      /\ \A i \in 1..Len(Tail(ready)) : i + 1 \in 1..Len(ready) /\ Tail(ready)[i] = ready[i + 1]
      /\ \A i \in 1..Len(ready) :
           i # 1 => i - 1 \in 1..Len(Tail(ready)) /\ Tail(ready)[i - 1] = ready[i]
  BY <1>1, TailElements
<1>3. /\ phase[c] = "waiting" /\ fut[c] # "pending"
      /\ \A j \in 1..Len(ready) : ready[j] = WakeHandle(c) => j = 1
  <2>1. ready[1] = WakeHandle(c) /\ ready[1].fn = "wake" /\ ready[1].call = c
    BY <1>1, <1>2, HandleForms
  <2> QED BY <1>2, <2>1 DEF OneWakeUp
<1>4. token[c] \in Tokens /\ pending[token[c]] = c /\ fut[c] # "none"
  <2>1. token[c] # None /\ fut[c] # "none"
    BY <1>3 DEF SubmittedOwnsToken
  <2> QED BY <1>3, <2>1 DEF PendingIsWaiting
<1>5. OutcomeOf(c) \notin {"idle", "offline", "waiting"}
  BY DEF OutcomeOf, Raises
<1>6. PendingIsWaiting'
  BY <1>1, <1>3, <1>4, <1>5, ConstantsOK DEF PendingIsWaiting
<1>7. SubmittedOwnsToken' /\ TokensDistinct' /\ FuturesTrue'
  BY <1>1, <1>3, <1>5 DEF SubmittedOwnsToken, TokensDistinct, FuturesTrue
<1>8. RequestsOpen' /\ RepliesTrue'
  BY <1>1 DEF RequestsOpen, RepliesTrue, Answered
<1>9. HandlesTrue'
  <2>1. \A i \in 1..Len(ready') : i + 1 \in 1..Len(ready) /\ ready'[i] = ready[i + 1]
    BY <1>1, <1>2
  <2>2. \A u \in Tokens, a \in Answers : Answered(u, a) => Answered(u, a)'
    BY <1>1 DEF Answered
  <2> QED BY <2>1, <2>2, QueueElements DEF HandlesTrue
<1>10. OneWakeUp'
  <2>1. ASSUME NEW d \in Calls, phase'[d] = "waiting", fut[d] # "pending"
        PROVE  \E i \in 1..Len(ready') : ready'[i] = WakeHandle(d)
    <3>1. d # c /\ phase[d] = "waiting"
      BY <1>1, <1>5, <2>1
    <3>2. PICK i \in 1..Len(ready) : ready[i] = WakeHandle(d)
      BY <2>1, <3>1 DEF OneWakeUp
    <3>3. i # 1
      BY <1>1, <1>2, <3>1, <3>2, HandleForms
    <3>4. i - 1 \in 1..Len(ready') /\ ready'[i - 1] = ready[i]
      BY <1>1, <1>2, <3>3
    <3> QED BY <3>2, <3>4
  <2>2. ASSUME NEW i \in 1..Len(ready'), ready'[i].fn = "wake"
        PROVE  /\ phase'[ready'[i].call] = "waiting" /\ fut[ready'[i].call] # "pending"
               /\ \A j \in 1..Len(ready') : ready'[j] = ready'[i] => j = i
    <3>1. i + 1 \in 1..Len(ready) /\ ready'[i] = ready[i + 1]
      BY <1>1, <1>2
    <3>2. /\ phase[ready[i + 1].call] = "waiting" /\ fut[ready[i + 1].call] # "pending"
          /\ \A j \in 1..Len(ready) : ready[j] = ready[i + 1] => j = i + 1
          /\ ready[i + 1] = WakeHandle(ready[i + 1].call)
      BY <2>2, <3>1, QueueElements DEF OneWakeUp
    <3>3. ready[i + 1].call # c
      <4>1. SUFFICES ASSUME ready[i + 1] = WakeHandle(c) PROVE FALSE
        BY <3>2
      <4>2. i + 1 = 1
        BY <1>3, <3>1, <4>1
      <4> QED BY <4>2
    <3>4. ASSUME NEW j \in 1..Len(ready'), ready'[j] = ready'[i] PROVE j = i
      <4>1. j + 1 \in 1..Len(ready) /\ ready[j + 1] = ready[i + 1]
        BY <1>1, <1>2, <3>1, <3>4
      <4>2. j + 1 = i + 1
        BY <3>2, <4>1
      <4> QED BY <4>2
    <3> QED BY <1>1, <3>1, <3>2, <3>3, <3>4
  <2> QED BY <1>1, <2>1, <2>2 DEF OneWakeUp
<1>11. /\ OutcomeOf(c) = "ok" =>
            \/ verdict[c] \in {"ack", "other"}
            \/ verdict[c] = "nak" /\ Op[c] = "read"
       /\ OutcomeOf(c) = "rejected" => verdict[c] = "nak"
       /\ OutcomeOf(c) = "exception" => verdict[c] = "bad"
  <2>1. CASE fut[c] \in Answers
    <3>1. verdict[c] = fut[c]
      BY <2>1 DEF FuturesTrue
    <3>2. fut[c] \notin {"expired", "cancelled"}
      BY <2>1 DEF Answers
    <3>3. CASE fut[c] = "bad"
      BY <3>1, <3>2, <3>3 DEF OutcomeOf, Raises
    <3>4. CASE fut[c] = "nak" /\ Op[c] # "read"
      BY <3>1, <3>2, <3>4 DEF OutcomeOf, Raises
    <3>5. CASE fut[c] # "bad" /\ ~(fut[c] = "nak" /\ Op[c] # "read")
      <4>1. OutcomeOf(c) = "ok"
        BY <3>2, <3>5 DEF OutcomeOf, Raises
      <4>2. fut[c] \in {"ack", "other"} \/ (fut[c] = "nak" /\ Op[c] = "read")
        BY <2>1, <3>5 DEF Answers
      <4> QED BY <3>1, <4>1, <4>2
    <3> QED BY <3>3, <3>4, <3>5
  <2>2. CASE fut[c] \notin Answers
    <3>1. fut[c] \in {"expired", "cancelled"}
      BY <1>3, <1>4, <2>2
    <3> QED BY <3>1 DEF OutcomeOf, Raises
  <2> QED BY <2>1, <2>2
<1>12. OutcomeIsOwnAnswer'
  BY <1>1, <1>11 DEF OutcomeIsOwnAnswer
<1>13. ShownWasAccepted'
  <2>1. CASE OutcomeOf(c) = "ok" /\ Op[c] = "set"
    <3>1. shown' = [shown EXCEPT ![SettingOf[c]] = c]
      BY <2>1 DEF Finish, Forget, Shows
    <3> QED BY <1>1, <1>3, <1>11, <2>1, <3>1, ConstantsOK DEF ShownWasAccepted
  <2>2. CASE ~(OutcomeOf(c) = "ok" /\ Op[c] = "set")
    <3>1. shown' = shown
      BY <2>2 DEF Finish, Forget, Shows
    <3> QED BY <1>1, <1>3, <3>1 DEF ShownWasAccepted
  <2> QED BY <2>1, <2>2
<1> QED BY <1>6, <1>7, <1>8, <1>9, <1>10, <1>12, <1>13

\* A timer or a cancellation schedules the waiter only if nothing else has.
LEMMA InterruptInductive ==
  ASSUME Inductive, TypeOK', NEW c \in Calls, NEW why \in {"expired", "cancelled"},
         Interrupt(c, why)
  PROVE  Inductive'
<1> USE DEF Inductive, TypeOK
<1>1. /\ phase[c] = "waiting" /\ fut' = [fut EXCEPT ![c] = why]
      /\ ready' = IF fut[c] = "pending" THEN Append(ready, WakeHandle(c)) ELSE ready
      /\ UNCHANGED <<pending, token, phase, shown, outbox, inbox, verdict>>
  BY DEF Interrupt, wireVars, dongleVars
<1>2. PendingIsWaiting' /\ TokensDistinct' /\ RequestsOpen' /\ RepliesTrue'
      /\ OutcomeIsOwnAnswer' /\ ShownWasAccepted'
  BY <1>1 DEF PendingIsWaiting, TokensDistinct, RequestsOpen, RepliesTrue, Answered,
              OutcomeIsOwnAnswer, ShownWasAccepted
<1>3. SubmittedOwnsToken' /\ FuturesTrue'
  BY <1>1 DEF SubmittedOwnsToken, FuturesTrue, Answers
<1>4. CASE fut[c] # "pending"
  <2>1. ready' = ready
    BY <1>1, <1>4
  <2>2. HandlesTrue'
    BY <1>1, <2>1 DEF HandlesTrue, Answered
  <2>3. OneWakeUp'
    <3>1. \A d \in Calls : fut'[d] # "pending" <=> fut[d] # "pending"
      BY <1>1, <1>4
    <3> QED BY SMTT(30), <1>1, <2>1, <3>1, QueueElements DEF OneWakeUp
  <2> QED BY <1>2, <1>3, <2>2, <2>3
<1>5. CASE fut[c] = "pending"
  <2>1. WakeHandle(c) \in Handles /\ WakeHandle(c).fn = "wake" /\ WakeHandle(c).call = c
    BY HandleForms
  <2>2. /\ Len(ready') = Len(ready) + 1
        /\ \A i \in 1..Len(ready) : i \in 1..Len(ready') /\ ready'[i] = ready[i]
        /\ Len(ready') \in 1..Len(ready') /\ ready'[Len(ready')] = WakeHandle(c)
        /\ \A i \in 1..Len(ready') : i # Len(ready') => i \in 1..Len(ready)
    <3>1. /\ Len(ready') = Len(ready) + 1 /\ Len(ready) \in Nat
          /\ \A i \in 1..Len(ready) : ready'[i] = ready[i]
          /\ ready'[Len(ready) + 1] = WakeHandle(c)
      BY <1>1, <1>5, <2>1, AppendElements, LenProperties
    <3> QED BY <3>1
  <2>3. HandlesTrue'
    BY <1>1, <2>1, <2>2 DEF HandlesTrue, Answered
  <2>4. \A i \in 1..Len(ready) : ready[i] # WakeHandle(c)
    BY <1>5, <2>1 DEF OneWakeUp
  <2>5. OneWakeUp'
    <3>1. ASSUME NEW d \in Calls, phase[d] = "waiting", fut'[d] # "pending"
          PROVE  \E i \in 1..Len(ready') : ready'[i] = WakeHandle(d)
      <4>1. CASE d = c
        BY <2>2, <4>1
      <4>2. CASE d # c
        BY <1>1, <2>2, <3>1, <4>2 DEF OneWakeUp
      <4> QED BY <4>1, <4>2
    <3>2. ASSUME NEW i \in 1..Len(ready'), ready'[i].fn = "wake"
          PROVE  /\ phase[ready'[i].call] = "waiting" /\ fut'[ready'[i].call] # "pending"
                 /\ \A j \in 1..Len(ready') : ready'[j] = ready'[i] => j = i
      <4>1. CASE i = Len(ready')
        BY <1>1, <2>1, <2>2, <2>4, <4>1
      <4>2. CASE i # Len(ready')
        <5>1. /\ i \in 1..Len(ready) /\ ready'[i] = ready[i] /\ ready[i].call \in Calls
              /\ phase[ready[i].call] = "waiting" /\ fut[ready[i].call] # "pending"
              /\ \A j \in 1..Len(ready) : ready[j] = ready[i] => j = i
          BY SMTT(30), <2>2, <3>2, <4>2, QueueElements DEF OneWakeUp
        <5>2. \A j \in 1..Len(ready') : ready'[j] = ready'[i] => j = i
          BY <2>2, <2>4, <5>1
        <5> QED BY <1>1, <1>5, <5>1, <5>2
      <4> QED BY <4>1, <4>2
    <3> QED BY <1>1, <3>1, <3>2 DEF OneWakeUp
  <2> QED BY <1>2, <1>3, <2>3, <2>5
<1> QED BY <1>4, <1>5

LEMMA ReceiveReplyInductive ==
  ASSUME Inductive, TypeOK', ReceiveReply
  PROVE  Inductive'
<1> USE DEF Inductive, TypeOK
<1>1. /\ inbox # <<>> /\ inbox' = Tail(inbox)
      /\ ready' = Append(ready, ResolveHandle(Head(inbox).token, Head(inbox).co))
      /\ UNCHANGED <<pending, token, fut, phase, shown, outbox, verdict>>
  BY DEF ReceiveReply, CallSoon, dongleVars
<1>2. /\ Len(inbox) \in Nat \ {0} /\ 1 \in 1..Len(inbox) /\ Head(inbox) = inbox[1]
      /\ \A i \in 1..Len(inbox') : i + 1 \in 1..Len(inbox) /\ inbox'[i] = inbox[i + 1]
  BY <1>1, TailElements
<1>3. \A u \in Tokens, a \in Answers : Answered(u, a) => Answered(u, a)'
  BY <1>1 DEF Answered
<1> DEFINE h == ResolveHandle(Head(inbox).token, Head(inbox).co)
<1>4. /\ inbox[1].token \in Tokens /\ inbox[1].co \in Answers
      /\ Answered(inbox[1].token, inbox[1].co)
  BY <1>2, QueueElements DEF RepliesTrue
<1>5. h \in Handles /\ h.fn = "resolve" /\ h.token = inbox[1].token /\ h.co = inbox[1].co
  BY <1>2, <1>4, HandleForms
<1>6. ready' = Append(ready, h)
  BY <1>1
<1> HIDE DEF h
<1>7. /\ \A i \in 1..Len(ready) : i \in 1..Len(ready') /\ ready'[i] = ready[i]
      /\ \A i \in 1..Len(ready') :
           \/ i \in 1..Len(ready) /\ ready'[i] = ready[i]
           \/ ready'[i] = h
  <2>1. /\ Len(ready') = Len(ready) + 1 /\ Len(ready) \in Nat
        /\ \A i \in 1..Len(ready) : ready'[i] = ready[i]
        /\ ready'[Len(ready) + 1] = h
    BY <1>5, <1>6, AppendElements, LenProperties
  <2> QED BY <2>1
<1>8. PendingIsWaiting' /\ TokensDistinct' /\ RequestsOpen' /\ OutcomeIsOwnAnswer'
      /\ ShownWasAccepted' /\ SubmittedOwnsToken' /\ FuturesTrue'
  BY <1>1 DEF PendingIsWaiting, TokensDistinct, RequestsOpen, OutcomeIsOwnAnswer,
              ShownWasAccepted, SubmittedOwnsToken, FuturesTrue
<1>9. RepliesTrue'
  <2>1. ASSUME NEW i \in 1..Len(inbox') PROVE Answered(inbox[i].token, inbox[i].co)'
    <3>1. PICK u \in Tokens, b \in Answers :
            inbox'[i].token = u /\ inbox'[i].co = b /\ Answered(u, b)
      BY <1>2, QueueElements DEF RepliesTrue
    <3>2. Answered(u, b)'
      BY <1>3, <3>1
    <3> QED BY <3>1, <3>2
  <2> QED BY <2>1 DEF RepliesTrue
<1>10. HandlesTrue'
  BY <1>3, <1>4, <1>5, <1>7, QueueElements DEF HandlesTrue
<1>11. OneWakeUp'
  <2>1. ASSUME NEW d \in Calls, phase[d] = "waiting", fut[d] # "pending"
        PROVE  \E i \in 1..Len(ready') : ready'[i] = WakeHandle(d)
    <3>1. PICK i \in 1..Len(ready) : ready[i] = WakeHandle(d)
      BY <2>1 DEF OneWakeUp
    <3> QED BY <1>7, <3>1
  <2>2. ASSUME NEW i \in 1..Len(ready'), ready'[i].fn = "wake"
        PROVE  /\ phase[ready'[i].call] = "waiting" /\ fut[ready'[i].call] # "pending"
               /\ \A j \in 1..Len(ready') : ready'[j] = ready'[i] => j = i
    <3>1. i \in 1..Len(ready) /\ ready'[i] = ready[i]
      BY <1>5, <1>7, <2>2
    <3>2. /\ phase[ready[i].call] = "waiting" /\ fut[ready[i].call] # "pending"
          /\ \A j \in 1..Len(ready) : ready[j] = ready[i] => j = i
      BY <2>2, <3>1 DEF OneWakeUp
    <3>3. ASSUME NEW j \in 1..Len(ready'), ready'[j] = ready'[i] PROVE j = i
      <4>1. j \in 1..Len(ready) /\ ready'[j] = ready[j]
        BY <1>5, <1>7, <2>2, <3>3
      <4> QED BY <3>1, <3>2, <3>3, <4>1
    <3> QED BY <3>1, <3>2, <3>3
  <2> QED BY <1>1, <2>1, <2>2 DEF OneWakeUp
<1> QED BY <1>8, <1>9, <1>10, <1>11

\* The dongle answers a request that was not answered before.
LEMMA DongleHandlesInductive ==
  ASSUME Inductive, TypeOK', DongleHandles
  PROVE  Inductive'
<1> USE DEF Inductive, TypeOK
<1>1. outbox # <<>> /\ outbox' = Tail(outbox)
      /\ UNCHANGED <<pending, token, fut, phase, ready, shown>>
  BY DEF DongleHandles, bridgeVars
<1>2. /\ Len(outbox) \in Nat \ {0} /\ 1 \in 1..Len(outbox) /\ Head(outbox) = outbox[1]
      /\ \A i \in 1..Len(outbox') : i + 1 \in 1..Len(outbox) /\ outbox'[i] = outbox[i + 1]
  BY <1>1, TailElements
<1> PICK t \in Tokens, c \in Calls : t = Head(outbox).token /\ c = Head(outbox).ci
  BY <1>2, QueueElements
<1> PICK a \in Answers :
      /\ verdict' = [verdict EXCEPT ![c] = a]
      /\ inbox' = IF connected THEN Append(inbox, [token |-> t, co |-> a]) ELSE inbox
  BY DEF DongleHandles
<1>3. /\ token[c] = t /\ verdict[c] = "none"
      /\ \A j \in 1..Len(outbox) : outbox[j].ci = c => j = 1
  BY <1>2 DEF RequestsOpen
<1>4. \A u \in Tokens, b \in Answers : Answered(u, b) => Answered(u, b)'
  BY <1>1, <1>3 DEF Answered, Answers
<1>5. Answered(t, a)'
  BY <1>1, <1>3 DEF Answered
<1>6. PendingIsWaiting' /\ TokensDistinct'
  BY <1>1 DEF PendingIsWaiting, TokensDistinct
<1>7. SubmittedOwnsToken' /\ FuturesTrue'
  <2>1. token[c] # None
    BY <1>3, ConstantsOK
  <2> QED BY <1>1, <1>3, <2>1 DEF SubmittedOwnsToken, FuturesTrue, Answers
<1>8. RequestsOpen'
  <2>1. ASSUME NEW i \in 1..Len(outbox')
        PROVE  /\ token[outbox'[i].ci] = outbox'[i].token
               /\ verdict'[outbox'[i].ci] = "none"
               /\ \A j \in 1..Len(outbox') : outbox'[j].ci = outbox'[i].ci => j = i
    <3>1. i + 1 \in 1..Len(outbox) /\ outbox'[i] = outbox[i + 1]
      BY <1>2
    <3>2. outbox[i + 1].ci # c
      <4>1. i + 1 # 1
        OBVIOUS
      <4> QED BY <1>3, <3>1, <4>1
    <3>3. /\ token[outbox[i + 1].ci] = outbox[i + 1].token
          /\ verdict[outbox[i + 1].ci] = "none"
          /\ \A j \in 1..Len(outbox) : outbox[j].ci = outbox[i + 1].ci => j = i + 1
      BY <3>1 DEF RequestsOpen
    <3>4. ASSUME NEW j \in 1..Len(outbox'), outbox'[j].ci = outbox'[i].ci PROVE j = i
      <4>1. j + 1 \in 1..Len(outbox) /\ outbox'[j] = outbox[j + 1]
        BY <1>2
      <4>2. j + 1 = i + 1
        BY <3>1, <3>3, <3>4, <4>1
      <4> QED BY <4>2
    <3> QED BY <3>1, <3>2, <3>3, <3>4
  <2> QED BY <1>1, <2>1 DEF RequestsOpen
<1>9. RepliesTrue'
  <2>1. CASE connected
    <3>1. inbox' = Append(inbox, [token |-> t, co |-> a]) /\ [token |-> t, co |-> a] \in Replies
      BY <1>3, <2>1 DEF Replies
    <3>2. /\ Len(inbox') = Len(inbox) + 1 /\ Len(inbox) \in Nat
          /\ \A i \in 1..Len(inbox) : inbox'[i] = inbox[i]
          /\ inbox'[Len(inbox) + 1] = [token |-> t, co |-> a]
      BY <3>1, AppendElements, LenProperties
    <3>3. \A i \in 1..Len(inbox') : \/ i \in 1..Len(inbox) /\ inbox'[i] = inbox[i]
                                    \/ inbox'[i] = [token |-> t, co |-> a]
      BY <3>2
    <3>4. ASSUME NEW i \in 1..Len(inbox') PROVE Answered(inbox[i].token, inbox[i].co)'
      <4>1. CASE i \in 1..Len(inbox) /\ inbox'[i] = inbox[i]
        <5>1. PICK u \in Tokens, b \in Answers :
                inbox'[i].token = u /\ inbox'[i].co = b /\ Answered(u, b)
          BY <4>1, QueueElements DEF RepliesTrue
        <5>2. Answered(u, b)'
          BY <1>4, <5>1
        <5> QED BY <5>1, <5>2
      <4>2. CASE inbox'[i] = [token |-> t, co |-> a]
        BY <1>5, <4>2
      <4> QED BY <3>3, <4>1, <4>2
    <3> QED BY <3>4 DEF RepliesTrue
  <2>2. CASE ~connected
    BY <1>4, <2>2, QueueElements DEF RepliesTrue
  <2> QED BY <2>1, <2>2
<1>10. HandlesTrue'
  BY <1>1, <1>4, QueueElements DEF HandlesTrue
<1>11. OutcomeIsOwnAnswer' /\ ShownWasAccepted'
  <2>1. phase[c] \notin {"ok", "rejected", "exception"}
    BY <1>3 DEF OutcomeIsOwnAnswer
  <2> QED BY <1>1, <1>3, <2>1 DEF OutcomeIsOwnAnswer, ShownWasAccepted
<1>12. OneWakeUp'
  BY <1>1 DEF OneWakeUp
<1> QED BY <1>6, <1>7, <1>8, <1>9, <1>10, <1>11, <1>12

\* Connecting, and losing or repeating what is on the wire, adds nothing new.
LEMMA WireInductive ==
  ASSUME Inductive, TypeOK',
         Connect \/ Disconnect \/ LoseRequest \/ LoseReply \/ DuplicateReply \/ UNCHANGED vars
  PROVE  Inductive'
<1> USE DEF Inductive, TypeOK
<1>1. UNCHANGED <<pending, token, fut, phase, ready, shown, verdict>>
  BY DEF Connect, Disconnect, LoseRequest, LoseReply, DuplicateReply,
         vars, bridgeVars, wireVars, dongleVars
<1>2. PendingIsWaiting' /\ OneWakeUp' /\ SubmittedOwnsToken' /\ TokensDistinct'
      /\ HandlesTrue' /\ FuturesTrue' /\ OutcomeIsOwnAnswer' /\ ShownWasAccepted'
  BY <1>1 DEF PendingIsWaiting, OneWakeUp, SubmittedOwnsToken, TokensDistinct, HandlesTrue,
              Answered, FuturesTrue, OutcomeIsOwnAnswer, ShownWasAccepted
<1>3. RequestsOpen'
  <2>1. CASE outbox' = outbox
    BY <1>1, <2>1 DEF RequestsOpen
  <2>2. CASE LoseRequest
    <3>1. \A i \in 1..Len(outbox') : i + 1 \in 1..Len(outbox) /\ outbox'[i] = outbox[i + 1]
      BY <2>2, TailElements DEF LoseRequest
    <3>2. ASSUME NEW i \in 1..Len(outbox'), NEW j \in 1..Len(outbox'),
                 outbox'[j].ci = outbox'[i].ci
          PROVE  j = i
      <4>1. i + 1 \in 1..Len(outbox) /\ j + 1 \in 1..Len(outbox) /\ outbox[j + 1].ci = outbox[i + 1].ci
        BY <3>1, <3>2
      <4>2. j + 1 = i + 1
        BY <4>1 DEF RequestsOpen
      <4> QED BY <4>2
    <3> QED BY SMTT(30), <1>1, <3>1, <3>2 DEF RequestsOpen
  <2> QED BY <2>1, <2>2 DEF Connect, Disconnect, LoseReply, DuplicateReply,
                            vars, wireVars, bridgeVars
<1>4. RepliesTrue'
  <2>1. \A i \in 1..Len(inbox') : \E j \in 1..Len(inbox) : inbox'[i] = inbox[j]
    <3>1. CASE inbox' = inbox
      BY <3>1
    <3>2. CASE Disconnect
      <4>1. Len(inbox') = 0
        BY <3>2, EmptySeq DEF Disconnect
      <4> QED BY <4>1
    <3>3. CASE LoseReply
      BY <3>3, TailElements DEF LoseReply
    <3>4. CASE DuplicateReply
      BY <3>4, RepeatedHead DEF DuplicateReply
    <3> QED BY <3>1, <3>2, <3>3, <3>4 DEF Connect, LoseRequest, vars, wireVars
  <2>2. \A u \in Tokens, a \in Answers : Answered(u, a) => Answered(u, a)'
    BY <1>1 DEF Answered
  <2> QED BY <2>1, <2>2, QueueElements DEF RepliesTrue
<1> QED BY <1>2, <1>3, <1>4

LEMMA StepInductive == Inductive /\ [Next]_vars => Inductive'
<1> SUFFICES ASSUME Inductive, [Next]_vars PROVE Inductive'
  OBVIOUS
<1>1. TypeOK'
  BY StepTypeOK DEF Inductive
<1> QED
  BY <1>1, RefuseInductive, SubmitInductive, RunResolveInductive, FinishInductive,
     InterruptInductive, ReceiveReplyInductive, DongleHandlesInductive, WireInductive
     DEF Next, Expire, Cancel

\* The strengthening that makes the safety properties below provable.
THEOREM InductiveHolds == Spec => []Inductive
BY InitInductive, StepInductive, PTL DEF Spec

\* No pending entry leaks and none goes early: _pending holds exactly the
\* calls that wait, however they end (mqtt_client.py _async_rpc).
THEOREM NoPendingLeak == Spec => []PendingIsWaiting
<1>1. Inductive => PendingIsWaiting
  BY DEF Inductive
<1> QED BY InductiveHolds, <1>1, PTL

\* A call ends by the dongle's answer to that very call, or by no answer.
THEOREM EndsByOwnAnswer == Spec => []OutcomeIsOwnAnswer
<1>1. Inductive => OutcomeIsOwnAnswer
  BY DEF Inductive
<1> QED BY InductiveHolds, <1>1, PTL

\* An entity never displays a value the dongle rejected or has not answered.
THEOREM DisplaysAccepted == Spec => []ShownWasAccepted
<1>1. Inductive => ShownWasAccepted
  BY DEF Inductive
<1> QED BY InductiveHolds, <1>1, PTL

-----------------------------------------------------------------------------
(* The order of the display.  Ranks grow along the one path that an answer  *)
(* takes: from the entity, over the calls that have their answers and wait  *)
(* for the loop, the queue of the loop and the wire, back to the dongle.    *)

\* A reply to c is queued as the i-th handle, or waits as the i-th message.
Handled(i, c) == ready[i].fn = "resolve" /\ ready[i].token = token[c]
Waits(i, c)   == inbox[i].token = token[c]

OnRoute(c) == (\E i \in 1..Len(ready) : Handled(i, c)) \/ (\E i \in 1..Len(inbox) : Waits(i, c))

\* The future of c has its answer, and its task has not resumed.
HasAnswer(c) == phase[c] = "waiting" /\ fut[c] \in Answers

\* The dongle ranks each call it answers, and no two alike.
Ranks ==
  /\ \A c \in Calls : rank[c] <= handled /\ (rank[c] = 0 <=> verdict[c] = "none")
  /\ \A c, d \in Calls : rank[c] = rank[d] /\ rank[c] # 0 => c = d

\* The queue of the loop comes before the wire, and each is in order.
RouteOrdered ==
  \A c, d \in Calls :
    /\ \A i, j \in 1..Len(ready) : i < j /\ Handled(i, c) /\ Handled(j, d) => rank[c] <= rank[d]
    /\ \A i \in 1..Len(ready), j \in 1..Len(inbox) : Handled(i, c) /\ Waits(j, d) => rank[c] <= rank[d]
    /\ \A i, j \in 1..Len(inbox) : i < j /\ Waits(i, c) /\ Waits(j, d) => rank[c] <= rank[d]

\* Calls that have their answers resume in order.
WakesOrdered ==
  \A c, d \in Calls, i, j \in 1..Len(ready) :
    /\ i < j /\ HasAnswer(c) /\ HasAnswer(d)
    /\ ready[i] = WakeHandle(c) /\ ready[j] = WakeHandle(d)
    => rank[c] < rank[d]

\* They come before those whose answer is still on its way.
AnsweredFirst ==
  \A c, d \in Calls :
    HasAnswer(c) /\ fut[d] = "pending" /\ OnRoute(d) => rank[c] < rank[d]

\* What an entity shows comes before all that it can still show.
ShownFirst ==
  \A s \in Settings, c \in Calls :
    shown[s] # None /\ (HasAnswer(c) \/ (fut[c] = "pending" /\ OnRoute(c)))
      => rank[shown[s]] < rank[c]

\* An entity shows the last of the writes that succeeded.
LastShown ==
  \A c \in Calls :
    phase[c] = "ok" /\ Op[c] = "set" =>
      shown[SettingOf[c]] # None /\ rank[c] <= rank[shown[SettingOf[c]]]

\* The inverter has taken the last of the writes it acknowledged, or one after.
LastTaken ==
  /\ \A s \in Settings :
       device[s] # None =>
         Op[device[s]] = "set" /\ SettingOf[device[s]] = s
         /\ verdict[device[s]] \in {"ack", "other", "bad"}
  /\ \A c \in Calls :
       verdict[c] = "ack" /\ Op[c] = "set" =>
         device[SettingOf[c]] # None /\ rank[c] <= rank[device[SettingOf[c]]]

Ordered ==
  /\ Ranks
  /\ RouteOrdered
  /\ WakesOrdered
  /\ AnsweredFirst
  /\ ShownFirst
  /\ LastShown
  /\ LastTaken

-----------------------------------------------------------------------------
(* What is on the way to a call was answered by the dongle.                 *)

LEMMA AnswerOwner ==
  ASSUME Inductive, NEW c \in Calls, NEW t \in Tokens, NEW a \in Answers,
         Answered(t, a), t = token[c]
  PROVE  verdict[c] = a /\ verdict[c] # "none" /\ token[c] # None
<1>1. PICK d \in Calls : token[d] = t /\ verdict[d] = a
  BY DEF Answered
<1>2. d = c
  BY <1>1, ConstantsOK DEF Inductive, TokensDistinct
<1> QED BY <1>1, <1>2, ConstantsOK DEF Answers

LEMMA RouteAnswered ==
  ASSUME Inductive, NEW c \in Calls
  PROVE  /\ \A i \in 1..Len(ready) : Handled(i, c) => verdict[c] # "none" /\ token[c] # None
         /\ \A i \in 1..Len(inbox) : Waits(i, c) => verdict[c] # "none" /\ token[c] # None
         /\ OnRoute(c) => verdict[c] # "none" /\ token[c] # None
         /\ HasAnswer(c) => verdict[c] # "none" /\ token[c] # None
<1>1. ASSUME NEW i \in 1..Len(ready), Handled(i, c)
      PROVE  verdict[c] # "none" /\ token[c] # None
  <2>1. ready[i].token \in Tokens /\ ready[i].co \in Answers
    BY <1>1, QueueElements DEF Inductive, Handled
  <2>2. Answered(ready[i].token, ready[i].co)
    BY <1>1 DEF Inductive, Handled, HandlesTrue
  <2> QED BY <1>1, <2>1, <2>2, AnswerOwner DEF Handled
<1>2. ASSUME NEW i \in 1..Len(inbox), Waits(i, c)
      PROVE  verdict[c] # "none" /\ token[c] # None
  <2>1. inbox[i].token \in Tokens /\ inbox[i].co \in Answers
    BY <1>2, QueueElements DEF Inductive, Waits
  <2>2. Answered(inbox[i].token, inbox[i].co)
    BY <1>2 DEF Inductive, RepliesTrue
  <2> QED BY <1>2, <2>1, <2>2, AnswerOwner DEF Waits
<1>3. HasAnswer(c) => verdict[c] # "none" /\ token[c] # None
  BY DEF HasAnswer, Inductive, FuturesTrue, SubmittedOwnsToken, Answers
<1> QED BY <1>1, <1>2, <1>3 DEF OnRoute

\* A call with its answer has its wake-up queued.
LEMMA AnswerWakes ==
  ASSUME Inductive, NEW c \in Calls, HasAnswer(c)
  PROVE  \E i \in 1..Len(ready) : ready[i] = WakeHandle(c)
BY DEF Inductive, OneWakeUp, HasAnswer, Answers

LEMMA SameCall ==
  ASSUME Inductive, NEW c \in Calls, NEW d \in Calls, token[c] = token[d], token[c] # None
  PROVE  c = d
BY DEF Inductive, TokensDistinct

\* Two replies in the wire, or one twice.
LEMMA WireOrder ==
  ASSUME Inductive, RouteOrdered, TypeOK, NEW c \in Calls, NEW d \in Calls,
         NEW i \in 1..Len(inbox), NEW j \in 1..Len(inbox), i <= j, Waits(i, c), Waits(j, d)
  PROVE  rank[c] <= rank[d]
<1>1. CASE i < j
  BY <1>1 DEF RouteOrdered
<1>2. CASE i = j
  <2>1. c = d
    BY <1>2, RouteAnswered, SameCall DEF Waits
  <2> QED BY <2>1 DEF TypeOK
<1>3. i \in Nat /\ j \in Nat
  BY LenProperties DEF TypeOK
<1> QED BY <1>1, <1>2, <1>3

LEMMA InitOrdered == Init => Ordered
<1> SUFFICES ASSUME Init PROVE Ordered
  OBVIOUS
<1>1. Len(ready) = 0 /\ Len(inbox) = 0 /\ \A i \in 1..0 : FALSE
  BY EmptySeq DEF Init
<1>2. RouteOrdered /\ WakesOrdered
  BY <1>1 DEF RouteOrdered, WakesOrdered
<1>3. Ranks /\ AnsweredFirst /\ ShownFirst /\ LastShown /\ LastTaken
  BY DEF Init, Ranks, AnsweredFirst, ShownFirst, LastShown, LastTaken, HasAnswer
<1> QED BY <1>2, <1>3 DEF Ordered

\* Nothing of the order is touched.
LEMMA QuietOrdered ==
  ASSUME Inductive, Ordered,
         UNCHANGED <<token, fut, ready, inbox, rank, handled, verdict, shown, device>>,
         \A c \in Calls : phase'[c] # phase[c] => phase[c] = "idle" /\ phase'[c] = "offline"
  PROVE  Ordered'
<1>1. \A c \in Calls : /\ HasAnswer(c)' => HasAnswer(c)
                       /\ OnRoute(c)' => OnRoute(c)
                       /\ phase'[c] = "ok" => phase[c] = "ok"
  BY DEF HasAnswer, OnRoute, Handled, Waits
<1>2. Ranks'
  BY DEF Ordered, Ranks
<1>3. RouteOrdered'
  BY DEF Ordered, RouteOrdered, Handled, Waits
<1>4. WakesOrdered'
  BY <1>1 DEF Ordered, WakesOrdered
<1>5. AnsweredFirst'
  BY <1>1 DEF Ordered, AnsweredFirst
<1>6. ShownFirst'
  BY <1>1 DEF Ordered, ShownFirst
<1>7. LastShown'
  BY <1>1 DEF Ordered, LastShown
<1>8. LastTaken'
  BY DEF Ordered, LastTaken
<1> QED BY <1>2, <1>3, <1>4, <1>5, <1>6, <1>7, <1>8 DEF Ordered

\* Replies are lost, all at once or the first, or the first comes twice.
LEMMA WireOrdered ==
  ASSUME Inductive, Ordered, Disconnect \/ LoseReply \/ DuplicateReply
  PROVE  Ordered'
<1> USE DEF Ordered
<1>0. TypeOK
  BY DEF Inductive
<1>1. UNCHANGED <<token, fut, phase, ready, rank, handled, verdict, shown, device>>
  BY DEF Disconnect, LoseReply, DuplicateReply, bridgeVars, dongleVars
<1>2. \A i, j \in 1..Len(inbox') : i < j =>
        \E k, l \in 1..Len(inbox) : k <= l /\ inbox'[i] = inbox[k] /\ inbox'[j] = inbox[l]
  <2>1. CASE Disconnect
    <3>1. Len(inbox') = 0
      BY <2>1, EmptySeq DEF Disconnect
    <3> QED BY <3>1
  <2>2. CASE LoseReply
    <3>1. \A i \in 1..Len(inbox') : i + 1 \in 1..Len(inbox) /\ inbox'[i] = inbox[i + 1]
      BY <1>0, <2>2, TailElements DEF LoseReply, TypeOK
    <3>2. ASSUME NEW i \in 1..Len(inbox'), NEW j \in 1..Len(inbox'), i < j
          PROVE  i + 1 <= j + 1
      BY <3>2
    <3> QED BY <3>1, <3>2
  <2>3. CASE DuplicateReply
    <3>1. /\ Len(inbox') = 1 + Len(inbox) /\ Len(inbox) \in Nat
          /\ \A i \in 1..Len(inbox') :
               inbox'[i] = IF i <= 1 THEN inbox[1] ELSE inbox[i - 1]
      <4>1. inbox \in Seq(Replies) /\ inbox # <<>> /\ Head(inbox) \in Replies
        BY <1>0, <2>3, TailElements DEF DuplicateReply, TypeOK
      <4>2. <<Head(inbox)>> \in Seq(Replies) /\ Len(<<Head(inbox)>>) = 1
            /\ <<Head(inbox)>>[1] = Head(inbox)
        BY <4>1
      <4>3. inbox' = <<Head(inbox)>> \o inbox /\ Head(inbox) = inbox[1]
        BY <2>3, <4>1, TailElements DEF DuplicateReply
      <4>4. /\ Len(inbox') = 1 + Len(inbox)
            /\ \A i \in 1..(1 + Len(inbox)) :
                 inbox'[i] = IF i <= 1 THEN <<Head(inbox)>>[i] ELSE inbox[i - 1]
        BY <4>1, <4>2, <4>3, ConcatProperties
      <4>5. \A i \in 1..(1 + Len(inbox)) : i <= 1 => i = 1
        BY <4>1, LenProperties
      <4> QED BY <4>1, <4>2, <4>3, <4>4, <4>5, LenProperties
    <3>2. inbox # <<>> /\ 1 \in 1..Len(inbox)
      BY <1>0, <2>3, TailElements DEF DuplicateReply, TypeOK
    <3>3. ASSUME NEW i \in 1..Len(inbox'), NEW j \in 1..Len(inbox'), i < j
          PROVE  \E k, l \in 1..Len(inbox) :
                   k <= l /\ inbox'[i] = inbox[k] /\ inbox'[j] = inbox[l]
      <4>1. j - 1 \in 1..Len(inbox) /\ inbox'[j] = inbox[j - 1]
        BY <3>1, <3>3
      <4>2. CASE i <= 1
        BY <3>1, <3>2, <4>1, <4>2
      <4>3. CASE ~(i <= 1)
        <5>1. i - 1 \in 1..Len(inbox) /\ inbox'[i] = inbox[i - 1] /\ i - 1 <= j - 1
          BY <3>1, <3>3, <4>3
        <5> QED BY <4>1, <5>1
      <4> QED BY <4>2, <4>3
    <3> QED BY <3>3
  <2> QED BY <2>1, <2>2, <2>3
<1>3. \A i \in 1..Len(inbox') : \E k \in 1..Len(inbox) : inbox'[i] = inbox[k]
  <2>1. CASE Disconnect
    BY <2>1, EmptySeq DEF Disconnect
  <2>2. CASE LoseReply
    BY <1>0, <2>2, TailElements DEF LoseReply, TypeOK
  <2>3. CASE DuplicateReply
    BY <1>0, <2>3, RepeatedHead DEF DuplicateReply, TypeOK
  <2> QED BY <2>1, <2>2, <2>3
<1>4. \A c \in Calls : (HasAnswer(c)' <=> HasAnswer(c)) /\ (OnRoute(c)' => OnRoute(c))
  BY <1>1, <1>3 DEF HasAnswer, OnRoute, Handled, Waits
<1>5. RouteOrdered'
  <2>1. ASSUME NEW c \in Calls, NEW d \in Calls, NEW i \in 1..Len(inbox'),
               NEW j \in 1..Len(inbox'), i < j, Waits(i, c)', Waits(j, d)'
        PROVE  rank[c] <= rank[d]
    <3>1. PICK k, l \in 1..Len(inbox) : k <= l /\ inbox'[i] = inbox[k] /\ inbox'[j] = inbox[l]
      BY <1>2, <2>1
    <3>2. Waits(k, c) /\ Waits(l, d)
      BY <1>1, <2>1, <3>1 DEF Waits
    <3> QED BY <1>0, <3>1, <3>2, WireOrder
  <2>2. ASSUME NEW c \in Calls, NEW d \in Calls, NEW i \in 1..Len(ready),
               NEW j \in 1..Len(inbox'), Handled(i, c), Waits(j, d)'
        PROVE  rank[c] <= rank[d]
    <3>1. PICK l \in 1..Len(inbox) : inbox'[j] = inbox[l]
      BY <1>3
    <3>2. Waits(l, d)
      BY <1>1, <2>2, <3>1 DEF Waits
    <3> QED BY <2>2, <3>2 DEF RouteOrdered
  <2> QED BY <1>1, <2>1, <2>2 DEF RouteOrdered, Handled
<1>6. Ranks' /\ LastShown' /\ LastTaken'
  BY <1>1 DEF Ranks, LastShown, LastTaken
<1>7. WakesOrdered' /\ AnsweredFirst' /\ ShownFirst'
  BY <1>1, <1>4 DEF WakesOrdered, AnsweredFirst, ShownFirst
<1> QED BY <1>5, <1>6, <1>7

\* A new token is not on the way yet.
LEMMA SubmitOrdered ==
  ASSUME Inductive, Inductive', Ordered, NEW e \in Calls, Submit(e)
  PROVE  Ordered'
<1> USE DEF Ordered
<1>1. /\ phase[e] = "idle" /\ phase' = [phase EXCEPT ![e] = "waiting"]
      /\ fut' = [fut EXCEPT ![e] = "pending"]
      /\ UNCHANGED <<ready, shown, inbox, rank, handled, verdict, device>>
      /\ \E t \in FreshTokens : token' = [token EXCEPT ![e] = t]
  BY DEF Submit, dongleVars
<1>2. /\ phase \in [Calls -> Phases] /\ token \in [Calls -> Tokens \cup {None}]
      /\ fut \in [Calls -> Answers \cup {"none", "pending", "expired", "cancelled"}]
  BY DEF Inductive, TypeOK
<1>3. \A c \in Calls \ {e} : token'[c] = token[c] /\ fut'[c] = fut[c] /\ phase'[c] = phase[c]
  BY <1>1, <1>2
<1>4. verdict'[e] = "none" /\ fut'[e] = "pending" /\ phase'[e] = "waiting"
  BY <1>1, <1>2 DEF Inductive, SubmittedOwnsToken
<1>5. ~HasAnswer(e)' /\ ~OnRoute(e)'
      /\ (\A i \in 1..Len(ready) : ~Handled(i, e)') /\ (\A i \in 1..Len(inbox) : ~Waits(i, e)')
  <2>1. PICK t \in FreshTokens : token'[e] = t /\ t \in Tokens /\ \A c \in Calls : token[c] # t
    BY <1>1, <1>2 DEF FreshTokens
  <2>2. ~HasAnswer(e)'
    BY <1>4 DEF HasAnswer, Answers
  <2>3. ASSUME NEW i \in 1..Len(ready) PROVE ~Handled(i, e)'
    <3>1. ready[i].fn = "resolve" => Answered(ready[i].token, ready[i].co)
      BY DEF Inductive, HandlesTrue
    <3> QED BY <1>1, <2>1, <3>1 DEF Handled, Answered
  <2>4. ASSUME NEW i \in 1..Len(inbox) PROVE ~Waits(i, e)'
    <3>1. Answered(inbox[i].token, inbox[i].co)
      BY DEF Inductive, RepliesTrue
    <3> QED BY <1>1, <2>1, <3>1 DEF Waits, Answered
  <2> QED BY <1>1, <2>2, <2>3, <2>4 DEF OnRoute
<1>6. \A c \in Calls \ {e} :
        /\ HasAnswer(c)' = HasAnswer(c) /\ OnRoute(c)' = OnRoute(c)
        /\ \A i \in 1..Len(ready) : Handled(i, c)' = Handled(i, c)
        /\ \A i \in 1..Len(inbox) : Waits(i, c)' = Waits(i, c)
  BY <1>1, <1>3 DEF HasAnswer, OnRoute, Handled, Waits
<1>7. Ranks' /\ LastTaken'
  BY <1>1 DEF Ranks, LastTaken
<1>8. RouteOrdered'
  BY <1>1, <1>5, <1>6 DEF RouteOrdered
<1>9. WakesOrdered'
  BY <1>1, <1>5, <1>6 DEF WakesOrdered
<1>10. AnsweredFirst' /\ ShownFirst'
  BY <1>1, <1>3, <1>5, <1>6 DEF AnsweredFirst, ShownFirst
<1>11. LastShown'
  BY <1>1, <1>3, <1>4 DEF LastShown
<1> QED BY <1>7, <1>8, <1>9, <1>10, <1>11

\* The first reply of the wire becomes the last handle of the loop.
LEMMA ReceiveOrdered ==
  ASSUME Inductive, Ordered, ReceiveReply
  PROVE  Ordered'
<1> USE DEF Ordered
<1>0. TypeOK
  BY DEF Inductive
<1> DEFINE h == ResolveHandle(Head(inbox).token, Head(inbox).co)
<1>1. /\ inbox # <<>> /\ inbox' = Tail(inbox) /\ ready' = Append(ready, h)
      /\ UNCHANGED <<token, fut, phase, rank, handled, verdict, shown, device>>
  BY DEF ReceiveReply, CallSoon, dongleVars
<1>2. /\ Len(inbox) \in Nat \ {0} /\ 1 \in 1..Len(inbox) /\ Head(inbox) = inbox[1]
      /\ \A i \in 1..Len(inbox') : i + 1 \in 1..Len(inbox) /\ inbox'[i] = inbox[i + 1]
  BY <1>0, <1>1, TailElements DEF TypeOK
<1>3. h \in Handles /\ h.fn = "resolve" /\ h.token = inbox[1].token
  BY <1>0, <1>2, QueueElements, HandleForms
<1> HIDE DEF h
<1> PICK last \in Nat : last = Len(ready) + 1
  BY <1>0, LenProperties DEF TypeOK
<1>4. /\ Len(ready) \in Nat /\ Len(ready') = last
      /\ \A i \in 1..Len(ready) : ready'[i] = ready[i]
      /\ ready'[last] = h
  BY <1>0, <1>1, <1>3, AppendElements, LenProperties DEF TypeOK
<1>5. \A i \in 1..Len(ready') : i \in 1..Len(ready) \/ i = last
  BY <1>4
<1>6. ASSUME NEW c \in Calls
      PROVE  /\ \A i \in 1..Len(ready) : Handled(i, c)' <=> Handled(i, c)
             /\ Handled(last, c)' <=> Waits(1, c)
             /\ \A i \in 1..Len(inbox') : i + 1 \in 1..Len(inbox) /\ (Waits(i, c)' <=> Waits(i + 1, c))
  <2>1. (ready'[last]).fn = "resolve" /\ (ready'[last]).token = inbox[1].token
    BY <1>3, <1>4
  <2> QED BY <1>1, <1>2, <1>4, <2>1 DEF Handled, Waits
<1>7. \A c \in Calls : (HasAnswer(c)' <=> HasAnswer(c)) /\ (OnRoute(c)' => OnRoute(c))
  <2>1. ASSUME NEW c \in Calls, OnRoute(c)' PROVE OnRoute(c)
    <3>1. CASE \E i \in 1..Len(ready') : Handled(i, c)'
      BY <1>2, <1>5, <1>6, <3>1 DEF OnRoute
    <3>2. CASE \E i \in 1..Len(inbox') : Waits(i, c)'
      BY <1>6, <3>2 DEF OnRoute
    <3> QED BY <2>1, <3>1, <3>2 DEF OnRoute
  <2> QED BY <1>1, <2>1 DEF HasAnswer
<1>8. RouteOrdered'
  <2>1. ASSUME NEW c \in Calls, NEW d \in Calls, NEW i \in 1..Len(ready'),
               NEW j \in 1..Len(ready'), i < j, Handled(i, c)', Handled(j, d)'
        PROVE  rank[c] <= rank[d]
    <3>1. i \in 1..Len(ready) /\ Handled(i, c)
      <4>1. i # last
        BY <1>4, <2>1
      <4> QED BY <1>5, <1>6, <2>1, <4>1
    <3>2. CASE j \in 1..Len(ready)
      BY <1>6, <2>1, <3>1, <3>2 DEF RouteOrdered
    <3>3. CASE j = last
      <4>1. Waits(1, d)
        BY <1>6, <2>1, <3>3
      <4> QED BY <1>2, <3>1, <4>1 DEF RouteOrdered
    <3> QED BY <1>5, <3>2, <3>3
  <2>2. ASSUME NEW c \in Calls, NEW d \in Calls, NEW i \in 1..Len(ready'),
               NEW j \in 1..Len(inbox'), Handled(i, c)', Waits(j, d)'
        PROVE  rank[c] <= rank[d]
    <3>1. j + 1 \in 1..Len(inbox) /\ Waits(j + 1, d) /\ 1 < j + 1
      BY <1>2, <1>6, <2>2
    <3>2. CASE i \in 1..Len(ready)
      BY <1>6, <2>2, <3>1, <3>2 DEF RouteOrdered
    <3>3. CASE i = last
      <4>1. Waits(1, c)
        BY <1>6, <2>2, <3>3
      <4> QED BY <1>2, <3>1, <4>1 DEF RouteOrdered
    <3> QED BY <1>5, <3>2, <3>3
  <2>3. ASSUME NEW c \in Calls, NEW d \in Calls, NEW i \in 1..Len(inbox'),
               NEW j \in 1..Len(inbox'), i < j, Waits(i, c)', Waits(j, d)'
        PROVE  rank[c] <= rank[d]
    <3>1. i + 1 \in 1..Len(inbox) /\ j + 1 \in 1..Len(inbox) /\ i + 1 < j + 1
          /\ Waits(i + 1, c) /\ Waits(j + 1, d)
      BY <1>6, <2>3
    <3> QED BY <3>1 DEF RouteOrdered
  <2> QED BY <1>1, <2>1, <2>2, <2>3 DEF RouteOrdered
<1>9. WakesOrdered'
  <2>1. ASSUME NEW c \in Calls, NEW i \in 1..Len(ready'), ready'[i] = WakeHandle(c)
        PROVE  i \in 1..Len(ready) /\ ready[i] = WakeHandle(c)
    <3>1. i # last
      BY <1>3, <1>4, <2>1, HandleForms
    <3> QED BY <1>4, <1>5, <2>1, <3>1
  <2> QED BY <1>1, <1>7, <2>1 DEF WakesOrdered
<1>10. Ranks' /\ LastShown' /\ LastTaken'
  BY <1>1 DEF Ranks, LastShown, LastTaken
<1>11. AnsweredFirst' /\ ShownFirst'
  BY <1>1, <1>7 DEF AnsweredFirst, ShownFirst
<1> QED BY <1>8, <1>9, <1>10, <1>11

\* A timer or a cancellation takes an answer away, and gives none.
LEMMA InterruptOrdered ==
  ASSUME Inductive, Ordered, NEW e \in Calls, NEW why \in {"expired", "cancelled"},
         Interrupt(e, why)
  PROVE  Ordered'
<1> USE DEF Ordered
<1>0. TypeOK
  BY DEF Inductive
<1>1. /\ fut' = [fut EXCEPT ![e] = why]
      /\ ready' = IF fut[e] = "pending" THEN Append(ready, WakeHandle(e)) ELSE ready
      /\ UNCHANGED <<token, phase, inbox, rank, handled, verdict, shown, device>>
  BY DEF Interrupt, wireVars, dongleVars
<1>2. \A c \in Calls : /\ HasAnswer(c)' => HasAnswer(c)
                       /\ fut'[c] = "pending" => fut[c] = "pending"
  BY <1>0, <1>1 DEF HasAnswer, Answers, TypeOK
<1>3. ~HasAnswer(e)'
  BY <1>0, <1>1 DEF HasAnswer, Answers, TypeOK
<1>4. \A i \in 1..Len(ready') :
        \/ i \in 1..Len(ready) /\ ready'[i] = ready[i]
        \/ ready'[i] = WakeHandle(e)
  <2>1. CASE fut[e] = "pending"
    <3>1. /\ Len(ready) \in Nat /\ Len(ready') = Len(ready) + 1
          /\ \A i \in 1..Len(ready) : ready'[i] = ready[i]
          /\ ready'[Len(ready) + 1] = WakeHandle(e)
      BY <1>0, <1>1, <2>1, HandleForms, AppendElements, LenProperties DEF TypeOK
    <3> QED BY <3>1
  <2>2. CASE fut[e] # "pending"
    BY <1>1, <2>2
  <2> QED BY <2>1, <2>2
<1>5. \A c \in Calls, i \in 1..Len(ready') :
        Handled(i, c)' => i \in 1..Len(ready) /\ Handled(i, c)
  BY <1>1, <1>4, HandleForms DEF Handled
<1>6. \A c \in Calls : /\ OnRoute(c)' => OnRoute(c)
                       /\ \A i \in 1..Len(inbox) : Waits(i, c)' <=> Waits(i, c)
  BY <1>1, <1>5 DEF OnRoute, Waits
<1>7. RouteOrdered'
  BY <1>1, <1>5, <1>6 DEF RouteOrdered
<1>8. WakesOrdered'
  <2>1. ASSUME NEW c \in Calls, NEW i \in 1..Len(ready'), HasAnswer(c)', ready'[i] = WakeHandle(c)
        PROVE  i \in 1..Len(ready) /\ ready[i] = WakeHandle(c)
    <3>1. c # e
      BY <1>3, <2>1
    <3> QED BY <1>4, <2>1, <3>1, HandleForms
  <2> QED BY <1>1, <1>2, <2>1 DEF WakesOrdered
<1>9. Ranks' /\ LastShown' /\ LastTaken'
  BY <1>1 DEF Ranks, LastShown, LastTaken
<1>10. AnsweredFirst' /\ ShownFirst'
  BY <1>1, <1>2, <1>6 DEF AnsweredFirst, ShownFirst
<1> QED BY <1>7, <1>8, <1>9, <1>10

\* The call the dongle handles last has the highest rank, and its reply is the
\* last in the wire.
LEMMA DongleHandlesOrdered ==
  ASSUME Inductive, Ordered, DongleHandles
  PROVE  Ordered'
<1> USE DEF Ordered
<1>0. TypeOK
  BY DEF Inductive
<1> DEFINE e == Head(outbox).ci
           m(a) == [token |-> Head(outbox).token, co |-> a]
<1>1. /\ outbox # <<>> /\ handled' = handled + 1
      /\ UNCHANGED <<token, fut, phase, ready, shown>>
  BY DEF DongleHandles, bridgeVars
<1>2. PICK a \in Answers :
        /\ verdict' = [verdict EXCEPT ![e] = a]
        /\ rank' = [rank EXCEPT ![e] = handled + 1]
        /\ inbox' = IF connected THEN Append(inbox, m(a)) ELSE inbox
        /\ \/ /\ a # "nak" /\ Op[e] = "set"
              /\ device' = [device EXCEPT ![SettingOf[e]] = e]
           \/ /\ a # "ack" \/ Op[e] # "set"
              /\ device' = device
  BY DEF DongleHandles
<1>3. /\ e \in Calls /\ Head(outbox).token = token[e] /\ token[e] \in Tokens
      /\ verdict[e] = "none"
  <2>1. Head(outbox) = outbox[1] /\ 1 \in 1..Len(outbox)
    BY <1>0, <1>1, TailElements DEF TypeOK
  <2> QED BY <1>0, <2>1, QueueElements DEF Inductive, RequestsOpen
<1> HIDE DEF e
<1>4. m(a) \in Replies /\ m(a).token = token[e]
  BY <1>3 DEF Replies
<1> HIDE DEF m
<1>5. /\ handled \in Nat /\ rank \in [Calls -> Nat] /\ verdict \in [Calls -> Answers \cup {"none"}]
      /\ device \in [Settings -> Calls \cup {None}] /\ shown \in [Settings -> Calls \cup {None}]
      /\ SettingOf \in [Calls -> Settings] /\ None \notin Calls
  BY <1>0, ConstantsOK DEF TypeOK
<1>6. /\ rank'[e] = handled + 1 /\ verdict'[e] = a
      /\ \A c \in Calls \ {e} : rank'[c] = rank[c] /\ verdict'[c] = verdict[c] /\ rank'[c] <= handled
      /\ \A c \in Calls : rank'[c] \in Nat /\ rank'[c] <= rank'[e]
  BY <1>2, <1>3, <1>5 DEF Ranks
<1>7. /\ \A i \in 1..Len(ready) : ~Handled(i, e)
      /\ \A i \in 1..Len(inbox) : ~Waits(i, e)
      /\ ~OnRoute(e) /\ ~HasAnswer(e)
  BY <1>3, RouteAnswered
<1>8. \A c \in Calls : /\ HasAnswer(c)' <=> HasAnswer(c)
                       /\ \A i \in 1..Len(ready) : Handled(i, c)' <=> Handled(i, c)
  BY <1>1 DEF HasAnswer, Handled
<1>9. \A j \in 1..Len(inbox') :
        \/ j \in 1..Len(inbox) /\ inbox'[j] = inbox[j]
        \/ inbox'[j].token = token[e] /\ \A k \in 1..Len(inbox') : k <= j
  <2>1. CASE connected
    <3>1. /\ Len(inbox) \in Nat /\ Len(inbox') = Len(inbox) + 1
          /\ \A i \in 1..Len(inbox) : inbox'[i] = inbox[i]
          /\ inbox'[Len(inbox) + 1] = m(a)
      BY <1>0, <1>2, <1>4, <2>1, AppendElements, LenProperties DEF TypeOK
    <3> QED BY <1>4, <3>1
  <2>2. CASE ~connected
    BY <1>2, <2>2
  <2> QED BY <2>1, <2>2
<1>10. \A c \in Calls, j \in 1..Len(inbox') :
         Waits(j, c)' => \/ c # e /\ j \in 1..Len(inbox) /\ Waits(j, c)
                         \/ c = e /\ \A k \in 1..Len(inbox') : k <= j
  <2>1. ASSUME NEW c \in Calls, NEW j \in 1..Len(inbox'), Waits(j, c)'
        PROVE  \/ c # e /\ j \in 1..Len(inbox) /\ Waits(j, c)
               \/ c = e /\ \A k \in 1..Len(inbox') : k <= j
    <3>1. CASE j \in 1..Len(inbox) /\ inbox'[j] = inbox[j]
      BY <1>1, <1>7, <2>1, <3>1 DEF Waits
    <3>2. CASE inbox'[j].token = token[e] /\ \A k \in 1..Len(inbox') : k <= j
      <4>1. token[c] = token[e] /\ token[c] # None
        BY <1>1, <1>3, <2>1, <3>2, ConstantsOK DEF Waits
      <4> QED BY <1>3, <3>2, <4>1, SameCall
    <3> QED BY <1>9, <3>1, <3>2
  <2> QED BY <2>1
<1>11. \A c \in Calls \ {e} : OnRoute(c)' => OnRoute(c)
  BY <1>1, <1>8, <1>10 DEF OnRoute
<1>12. Len(inbox') \in Nat
  BY <1>0, <1>2, <1>4, AppendElements, LenProperties DEF TypeOK
<1>13. Ranks'
  BY <1>1, <1>2, <1>3, <1>5, <1>6 DEF Ranks, Answers
<1>14. RouteOrdered'
  <2>1. ASSUME NEW c \in Calls, NEW d \in Calls, NEW i \in 1..Len(ready),
               NEW j \in 1..Len(ready), i < j, Handled(i, c), Handled(j, d)
        PROVE  rank'[c] <= rank'[d]
    BY <1>6, <1>7, <2>1 DEF RouteOrdered
  <2>2. ASSUME NEW c \in Calls, NEW d \in Calls, NEW i \in 1..Len(ready),
               NEW j \in 1..Len(inbox'), Handled(i, c), Waits(j, d)'
        PROVE  rank'[c] <= rank'[d]
    BY <1>6, <1>7, <1>10, <2>2 DEF RouteOrdered
  <2>3. ASSUME NEW c \in Calls, NEW d \in Calls, NEW i \in 1..Len(inbox'),
               NEW j \in 1..Len(inbox'), i < j, Waits(i, c)', Waits(j, d)'
        PROVE  rank'[c] <= rank'[d]
    <3>1. CASE d = e
      BY <1>6, <3>1
    <3>2. CASE d # e
      <4>1. c # e
        BY <1>10, <1>12, <2>3
      <4>2. i \in 1..Len(inbox) /\ Waits(i, c) /\ j \in 1..Len(inbox) /\ Waits(j, d)
        BY <1>10, <2>3, <3>2, <4>1
      <4> QED BY <1>6, <2>3, <3>2, <4>1, <4>2 DEF RouteOrdered
    <3> QED BY <3>1, <3>2
  <2> QED BY <1>1, <1>8, <2>1, <2>2, <2>3 DEF RouteOrdered
<1>15. WakesOrdered'
  BY <1>1, <1>6, <1>7, <1>8 DEF WakesOrdered
<1>16. AnsweredFirst'
  <2>1. ASSUME NEW c \in Calls, NEW d \in Calls,
               HasAnswer(c), fut[d] = "pending", OnRoute(d)'
        PROVE  rank'[c] < rank'[d]
    <3>1. c # e /\ rank'[c] = rank[c] /\ rank[c] <= handled
      BY <1>6, <1>7, <2>1
    <3>2. CASE d = e
      BY <1>5, <1>6, <3>1, <3>2
    <3>3. CASE d # e
      BY <1>6, <1>11, <2>1, <3>1, <3>3 DEF AnsweredFirst
    <3> QED BY <3>2, <3>3
  <2> QED BY <1>1, <1>8, <2>1 DEF AnsweredFirst
<1>17. \A s \in Settings : shown[s] # None => shown[s] \in Calls \ {e}
  BY <1>3, <1>5 DEF Inductive, ShownWasAccepted
<1>18. ShownFirst'
  <2>1. ASSUME NEW s \in Settings, NEW c \in Calls, shown[s] # None,
               HasAnswer(c) \/ (fut[c] = "pending" /\ OnRoute(c)')
        PROVE  rank'[shown[s]] < rank'[c]
    <3>1. rank'[shown[s]] = rank[shown[s]] /\ rank[shown[s]] <= handled
      BY <1>6, <1>17, <2>1
    <3>2. CASE c = e
      BY <1>5, <1>6, <1>17, <2>1, <3>1, <3>2
    <3>3. CASE c # e
      BY <1>6, <1>11, <2>1, <3>1, <3>3 DEF ShownFirst
    <3> QED BY <3>2, <3>3
  <2> QED BY <1>1, <1>8, <2>1 DEF ShownFirst
<1>19. LastShown'
  <2>1. ASSUME NEW c \in Calls, phase[c] = "ok", Op[c] = "set"
        PROVE  shown[SettingOf[c]] # None /\ rank'[c] <= rank'[shown[SettingOf[c]]]
    <3>1. c # e
      BY <1>3, <2>1 DEF Inductive, OutcomeIsOwnAnswer
    <3> QED BY <1>5, <1>6, <1>17, <2>1, <3>1 DEF LastShown
  <2> QED BY <1>1, <2>1 DEF LastShown
<1>20. LastTaken'
  <2>1. ASSUME NEW s \in Settings, device'[s] # None
        PROVE  Op[device'[s]] = "set" /\ SettingOf[device'[s]] = s
               /\ verdict'[device'[s]] \in {"ack", "other", "bad"}
    <3>1. CASE device'[s] = device[s]
      <4>1. device[s] \in Calls \ {e}
        BY <1>3, <1>5, <2>1, <3>1 DEF LastTaken
      <4> QED BY <1>6, <2>1, <3>1, <4>1 DEF LastTaken
    <3>2. CASE device'[s] # device[s]
      <4>1. a # "nak" /\ Op[e] = "set" /\ device'[s] = e /\ SettingOf[e] = s
        BY <1>2, <1>5, <3>2
      <4> QED BY <1>6, <4>1 DEF Answers
    <3> QED BY <3>1, <3>2
  <2>2. ASSUME NEW c \in Calls, verdict'[c] = "ack", Op[c] = "set"
        PROVE  device'[SettingOf[c]] # None /\ rank'[c] <= rank'[device'[SettingOf[c]]]
    <3>1. CASE device'[SettingOf[c]] = e
      BY <1>3, <1>5, <1>6, <3>1
    <3>2. CASE device'[SettingOf[c]] # e
      <4>1. c # e
        BY <1>2, <1>3, <1>5, <1>6, <2>2, <3>2
      <4>2. device'[SettingOf[c]] = device[SettingOf[c]]
        BY <1>2, <1>3, <1>5, <3>2
      <4>3. device[SettingOf[c]] # None /\ rank[c] <= rank[device[SettingOf[c]]]
        BY <1>6, <2>2, <4>1 DEF LastTaken
      <4> QED BY <1>5, <1>6, <3>2, <4>1, <4>2, <4>3
    <3> QED BY <3>1, <3>2
  <2> QED BY <2>1, <2>2 DEF LastTaken
<1> QED BY <1>13, <1>14, <1>15, <1>16, <1>18, <1>19, <1>20

\* The replies on the way keep their order when the loop takes the first handle.
LEMMA PopKeepsRoute ==
  ASSUME RouteOrdered, UNCHANGED <<token, inbox, rank>>, Len(ready) \in Nat, Len(ready') \in Nat,
         \A c \in Calls, i \in 1..Len(ready') :
           Handled(i, c)' => i + 1 \in 1..Len(ready) /\ Handled(i + 1, c)
  PROVE  /\ RouteOrdered'
         /\ \A c \in Calls : OnRoute(c)' => OnRoute(c)
<1>1. \A c \in Calls, i \in 1..Len(inbox) : Waits(i, c)' <=> Waits(i, c)
  BY DEF Waits
<1>2. ASSUME NEW c \in Calls, NEW d \in Calls, NEW i \in 1..Len(ready'),
             NEW j \in 1..Len(ready'), i < j, Handled(i, c)', Handled(j, d)'
      PROVE  rank[c] <= rank[d]
  <2>1. i + 1 < j + 1
    BY <1>2
  <2> QED BY <1>2, <2>1 DEF RouteOrdered
<1>3. RouteOrdered'
  BY <1>1, <1>2 DEF RouteOrdered
<1>4. \A c \in Calls : OnRoute(c)' => OnRoute(c)
  BY <1>1 DEF OnRoute
<1> QED BY <1>3, <1>4

\* The call whose future is resolved is behind those that have their answers
\* and before those whose replies are still on the way.
LEMMA RunResolveOrdered ==
  ASSUME Inductive, Ordered, RunResolve
  PROVE  Ordered'
<1> USE DEF Ordered
<1>0. TypeOK
  BY DEF Inductive
<1> DEFINE e == pending[Head(ready).token]
<1>1. /\ ready # <<>> /\ Head(ready).fn = "resolve"
      /\ UNCHANGED <<token, phase, shown, inbox, rank, handled, verdict, device>>
      /\ \/ /\ e # None /\ fut[e] = "pending"
            /\ fut' = [fut EXCEPT ![e] = Head(ready).co]
            /\ ready' = Append(Tail(ready), WakeHandle(e))
         \/ fut' = fut /\ ready' = Tail(ready)
  BY DEF RunResolve, Resolves, Awaiting, wireVars, dongleVars
<1>2. /\ Len(ready) \in Nat \ {0} /\ 1 \in 1..Len(ready) /\ Head(ready) = ready[1]
      /\ Head(ready).token \in Tokens /\ Head(ready).co \in Answers
  <2>1. Len(ready) \in Nat \ {0} /\ 1 \in 1..Len(ready) /\ Head(ready) = ready[1]
    BY <1>0, <1>1, TailElements DEF TypeOK
  <2> QED BY <1>0, <1>1, <2>1, QueueElements
<1>3. CASE fut' = fut /\ ready' = Tail(ready)
  <2>1. /\ Len(ready') \in Nat
        /\ \A i \in 1..Len(ready') : i + 1 \in 1..Len(ready) /\ ready'[i] = ready[i + 1]
    BY <1>0, <1>1, <1>3, TailElements, LenProperties DEF TypeOK
  <2>2. RouteOrdered' /\ \A c \in Calls : OnRoute(c)' => OnRoute(c)
    <3>1. \A c \in Calls, i \in 1..Len(ready') :
            Handled(i, c)' => i + 1 \in 1..Len(ready) /\ Handled(i + 1, c)
      BY <1>1, <2>1 DEF Handled
    <3> QED BY <1>1, <1>2, <2>1, <3>1, PopKeepsRoute
  <2>3. \A c \in Calls : HasAnswer(c)' <=> HasAnswer(c)
    BY <1>1, <1>3 DEF HasAnswer
  <2>4. WakesOrdered'
    <3>1. ASSUME NEW c \in Calls, NEW d \in Calls, NEW i \in 1..Len(ready'),
                 NEW j \in 1..Len(ready'), i < j, HasAnswer(c), HasAnswer(d),
                 ready'[i] = WakeHandle(c), ready'[j] = WakeHandle(d)
          PROVE  rank[c] < rank[d]
      <4>1. i + 1 < j + 1
        BY <3>1
      <4> QED BY <2>1, <3>1, <4>1 DEF WakesOrdered
    <3> QED BY <1>1, <2>3, <3>1 DEF WakesOrdered
  <2>5. AnsweredFirst' /\ ShownFirst'
    BY <1>1, <1>3, <2>2, <2>3 DEF AnsweredFirst, ShownFirst
  <2>6. Ranks' /\ LastShown' /\ LastTaken'
    BY <1>1 DEF Ranks, LastShown, LastTaken
  <2> QED BY <2>2, <2>4, <2>5, <2>6
<1>4. CASE /\ e # None /\ fut[e] = "pending"
           /\ fut' = [fut EXCEPT ![e] = Head(ready).co]
           /\ ready' = Append(Tail(ready), WakeHandle(e))
  <2>1. e \in Calls /\ phase[e] = "waiting" /\ token[e] = Head(ready).token
    BY <1>0, <1>2, <1>4 DEF Inductive, PendingIsWaiting, TypeOK
  <2> HIDE DEF e
  <2>2. Handled(1, e) /\ OnRoute(e)
    BY <1>1, <1>2, <2>1 DEF Handled, OnRoute
  <2>3. rank[e] # 0
    BY <2>1, <2>2, RouteAnswered DEF Ranks
  <2>4. WakeHandle(e) \in Handles
    BY <2>1, HandleForms
  <2>5. /\ Len(ready') = Len(ready)
        /\ \A i \in 1..Len(ready) :
             \/ i + 1 \in 1..Len(ready) /\ ready'[i] = ready[i + 1]
             \/ i = Len(ready) /\ ready'[i] = WakeHandle(e)
    BY <1>0, <1>1, <1>4, <2>4, PopThenAppend DEF TypeOK
  <2>6. RouteOrdered' /\ \A c \in Calls : OnRoute(c)' => OnRoute(c)
    <3>1. \A c \in Calls, i \in 1..Len(ready') :
            Handled(i, c)' => i + 1 \in 1..Len(ready) /\ Handled(i + 1, c)
      BY <1>1, <2>1, <2>5, HandleForms DEF Handled
    <3> QED BY <1>1, <1>2, <2>5, <3>1, PopKeepsRoute
  <2>7. /\ fut \in [Calls -> Answers \cup {"none", "pending", "expired", "cancelled"}]
        /\ rank \in [Calls -> Nat]
    BY <1>0 DEF TypeOK
  <2>8. /\ ~HasAnswer(e) /\ fut'[e] # "pending"
        /\ \A c \in Calls \ {e} : (HasAnswer(c)' <=> HasAnswer(c)) /\ fut'[c] = fut[c]
    BY <1>1, <1>2, <1>4, <2>1, <2>7 DEF HasAnswer, Answers
  <2>9. WakesOrdered'
    <3>1. ASSUME NEW c \in Calls, NEW d \in Calls, NEW i \in 1..Len(ready),
                 NEW j \in 1..Len(ready), i < j, HasAnswer(c)', HasAnswer(d)',
                 ready'[i] = WakeHandle(c), ready'[j] = WakeHandle(d)
          PROVE  rank[c] < rank[d]
      <4>1. i + 1 \in 1..Len(ready) /\ ready[i + 1] = WakeHandle(c)
        BY <1>2, <2>5, <3>1
      <4>2. c # e /\ HasAnswer(c)
        <5>1. fut[c] # "pending"
          BY <4>1, HandleForms DEF Inductive, OneWakeUp
        <5> QED BY <1>4, <2>8, <3>1, <5>1
      <4>3. CASE d = e
        BY <1>4, <2>1, <2>2, <4>2, <4>3 DEF AnsweredFirst
      <4>4. CASE d # e
        <5>1. j + 1 \in 1..Len(ready) /\ ready[j + 1] = WakeHandle(d)
          BY <2>1, <2>5, <3>1, <4>4, HandleForms
        <5>2. i + 1 < j + 1 /\ HasAnswer(d)
          BY <2>8, <3>1, <4>4
        <5> QED BY <4>1, <4>2, <5>1, <5>2 DEF WakesOrdered
      <4> QED BY <4>3, <4>4
    <3> QED BY <1>1, <2>5, <3>1 DEF WakesOrdered
  <2>10. AnsweredFirst'
    <3>1. ASSUME NEW c \in Calls, NEW d \in Calls,
                 HasAnswer(c)', fut'[d] = "pending", OnRoute(d)'
          PROVE  rank[c] < rank[d]
      <4>1. d # e /\ fut[d] = "pending" /\ OnRoute(d)
        BY <2>6, <2>8, <3>1
      <4>2. CASE c # e
        BY <2>8, <3>1, <4>1, <4>2 DEF AnsweredFirst
      <4>3. CASE c = e
        <5>1. rank[e] <= rank[d]
          <6>1. CASE \E i \in 1..Len(ready') : Handled(i, d)'
            <7>1. PICK i \in 1..Len(ready') : Handled(i, d)'
              BY <6>1
            <7>2. i + 1 \in 1..Len(ready) /\ Handled(i + 1, d) /\ 1 < i + 1
              BY <1>1, <1>2, <2>1, <2>5, <7>1, HandleForms DEF Handled
            <7> QED BY <1>2, <2>1, <2>2, <7>2 DEF RouteOrdered
          <6>2. CASE \E i \in 1..Len(inbox) : Waits(i, d)
            BY <1>2, <2>1, <2>2, <6>2 DEF RouteOrdered
          <6> QED BY <1>1, <3>1, <6>1, <6>2 DEF OnRoute, Waits
        <5>2. rank[e] # rank[d]
          BY <2>1, <2>3, <4>1 DEF Ranks
        <5> QED BY <2>1, <2>7, <4>3, <5>1, <5>2
      <4> QED BY <4>2, <4>3
    <3> QED BY <1>1, <3>1 DEF AnsweredFirst
  <2>11. ShownFirst'
    <3>1. ASSUME NEW c \in Calls, HasAnswer(c)' \/ (fut'[c] = "pending" /\ OnRoute(c)')
          PROVE  HasAnswer(c) \/ (fut[c] = "pending" /\ OnRoute(c))
      BY <1>4, <2>2, <2>6, <2>8, <3>1
    <3> QED BY <1>1, <3>1 DEF ShownFirst
  <2>12. Ranks' /\ LastShown' /\ LastTaken'
    BY <1>1 DEF Ranks, LastShown, LastTaken
  <2> QED BY <2>6, <2>9, <2>10, <2>11, <2>12
<1> QED BY <1>1, <1>3, <1>4

\* What Finish(c) finds: its future is done, and whoever else has an answer, or
\* has one on the way, was handled by the dongle after it.
LEMMA FinishFirst ==
  ASSUME Inductive, Ordered, NEW c \in Calls, Finish(c)
  PROVE  /\ phase[c] = "waiting" /\ fut[c] # "pending"
         /\ OutcomeOf(c) = "ok" => fut[c] \in Answers /\ HasAnswer(c)
         /\ HasAnswer(c) =>
              \A d \in Calls \ {c} :
                HasAnswer(d) \/ (fut[d] = "pending" /\ OnRoute(d)) => rank[c] < rank[d]
<1>1. TypeOK /\ ready # <<>> /\ Head(ready) = WakeHandle(c)
  BY DEF Finish, Inductive
<1>2. Len(ready) \in Nat \ {0} /\ 1 \in 1..Len(ready) /\ ready[1] = WakeHandle(c)
  BY <1>1, TailElements DEF TypeOK
<1>3. phase[c] = "waiting" /\ fut[c] # "pending"
  BY <1>2, HandleForms DEF Inductive, OneWakeUp
<1>4. OutcomeOf(c) = "ok" => fut[c] \in Answers /\ HasAnswer(c)
  <2>1. fut[c] \in Answers \cup {"expired", "cancelled"}
    BY <1>1, <1>3, ConstantsOK DEF TypeOK, Inductive, SubmittedOwnsToken
  <2>2. fut[c] \in {"expired", "cancelled"} => OutcomeOf(c) # "ok"
    BY DEF OutcomeOf
  <2> QED BY <1>3, <2>1, <2>2 DEF HasAnswer
<1>5. ASSUME HasAnswer(c), NEW d \in Calls \ {c}, HasAnswer(d)
      PROVE  rank[c] < rank[d]
  <2>1. PICK j \in 1..Len(ready) : ready[j] = WakeHandle(d)
    BY <1>5, AnswerWakes
  <2>2. j # 1
    BY <1>2, <1>5, <2>1, HandleForms
  <2>3. 1 < j
    BY <1>2, <2>1, <2>2
  <2> QED BY <1>2, <1>5, <2>1, <2>3 DEF Ordered, WakesOrdered
<1>6. ASSUME HasAnswer(c), NEW d \in Calls \ {c}, fut[d] = "pending" /\ OnRoute(d)
      PROVE  rank[c] < rank[d]
  BY <1>6 DEF Ordered, AnsweredFirst
<1> QED BY <1>3, <1>4, <1>5, <1>6

\* The call that resumes shows a value that is newer than the one shown, and
\* older than all that can still be shown.
LEMMA FinishOrdered ==
  ASSUME Inductive, Ordered, NEW e \in Calls, Finish(e)
  PROVE  /\ Ordered'
         /\ \A s \in Settings : shown'[s] # shown[s] =>
              /\ Shows(e) /\ s = SettingOf[e] /\ shown'[s] = e
              /\ shown[s] # None => rank[shown[s]] < rank[e]
<1> USE DEF Ordered
<1>0. /\ TypeOK /\ shown \in [Settings -> Calls \cup {None}] /\ phase \in [Calls -> Phases]
      /\ rank \in [Calls -> Nat] /\ SettingOf \in [Calls -> Settings] /\ None \notin Calls
  BY ConstantsOK DEF Inductive, TypeOK
<1>1. /\ ready # <<>> /\ Head(ready) = WakeHandle(e) /\ ready' = Tail(ready)
      /\ phase' = [phase EXCEPT ![e] = OutcomeOf(e)]
      /\ shown' = IF Shows(e) THEN [shown EXCEPT ![SettingOf[e]] = e] ELSE shown
      /\ UNCHANGED <<token, fut, inbox, rank, handled, verdict, device>>
  BY DEF Finish, wireVars, dongleVars
<1>2. /\ phase[e] = "waiting" /\ fut[e] # "pending"
      /\ OutcomeOf(e) = "ok" => fut[e] \in Answers /\ HasAnswer(e)
      /\ HasAnswer(e) =>
           \A d \in Calls \ {e} :
             HasAnswer(d) \/ (fut[d] = "pending" /\ OnRoute(d)) => rank[e] < rank[d]
  BY FinishFirst
<1>3. OutcomeOf(e) # "waiting"
  BY DEF OutcomeOf
<1>4. /\ ~HasAnswer(e)' /\ phase'[e] = OutcomeOf(e)
      /\ \A c \in Calls \ {e} : (HasAnswer(c)' <=> HasAnswer(c)) /\ phase'[c] = phase[c]
  BY <1>0, <1>1, <1>3 DEF HasAnswer
<1>5. /\ Len(ready) \in Nat /\ Len(ready') \in Nat
      /\ \A i \in 1..Len(ready') : i + 1 \in 1..Len(ready) /\ ready'[i] = ready[i + 1]
  BY <1>0, <1>1, TailElements, LenProperties DEF TypeOK
<1>6. RouteOrdered' /\ \A c \in Calls : OnRoute(c)' => OnRoute(c)
  <2>1. \A c \in Calls, i \in 1..Len(ready') :
          Handled(i, c)' => i + 1 \in 1..Len(ready) /\ Handled(i + 1, c)
    BY <1>1, <1>5 DEF Handled
  <2> QED BY <1>1, <1>5, <2>1, PopKeepsRoute
<1>7. WakesOrdered'
  <2>1. ASSUME NEW c \in Calls, NEW d \in Calls, NEW i \in 1..Len(ready'),
               NEW j \in 1..Len(ready'), i < j, HasAnswer(c), HasAnswer(d),
               ready'[i] = WakeHandle(c), ready'[j] = WakeHandle(d)
        PROVE  rank[c] < rank[d]
    <3>1. i + 1 < j + 1
      BY <2>1, <1>5
    <3> QED BY <1>5, <2>1, <3>1 DEF WakesOrdered
  <2> QED BY <1>1, <1>4, <2>1 DEF WakesOrdered
<1>8. AnsweredFirst'
  BY <1>1, <1>4, <1>6 DEF AnsweredFirst
<1>9. \A s \in Settings :
        \/ shown'[s] = shown[s]
        \/ /\ Shows(e) /\ HasAnswer(e) /\ s = SettingOf[e] /\ shown'[s] = e
           /\ shown[s] # None => rank[shown[s]] < rank[e]
  BY <1>0, <1>1, <1>2 DEF Shows, ShownFirst
<1>10. ShownFirst'
  <2>1. ASSUME NEW s \in Settings, NEW c \in Calls, shown'[s] # None,
               HasAnswer(c)' \/ (fut[c] = "pending" /\ OnRoute(c)')
        PROVE  rank[shown'[s]] < rank[c]
    <3>1. c # e /\ (HasAnswer(c) \/ (fut[c] = "pending" /\ OnRoute(c)))
      BY <1>2, <1>4, <1>6, <2>1
    <3>2. CASE shown'[s] = shown[s]
      BY <2>1, <3>1, <3>2 DEF ShownFirst
    <3>3. CASE HasAnswer(e) /\ shown'[s] = e
      BY <1>2, <3>1, <3>3
    <3> QED BY <1>9, <3>2, <3>3
  <2> QED BY <1>1, <2>1 DEF ShownFirst
<1>11. LastShown'
  <2>1. ASSUME NEW c \in Calls, phase'[c] = "ok", Op[c] = "set"
        PROVE  shown'[SettingOf[c]] # None /\ rank[c] <= rank[shown'[SettingOf[c]]]
    <3>1. CASE c = e
      <4>1. Shows(e)
        BY <1>4, <2>1, <3>1 DEF Shows
      <4> QED BY <1>0, <1>1, <3>1, <4>1
    <3>2. CASE c # e
      <4>1. shown[SettingOf[c]] # None /\ rank[c] <= rank[shown[SettingOf[c]]]
        BY <1>4, <2>1, <3>2 DEF LastShown
      <4>2. shown[SettingOf[c]] \in Calls
        BY <1>0, <4>1
      <4> QED BY <1>0, <1>9, <4>1, <4>2
    <3> QED BY <3>1, <3>2
  <2> QED BY <1>1, <2>1 DEF LastShown
<1>12. Ranks' /\ LastTaken'
  BY <1>1 DEF Ranks, LastTaken
<1> QED BY <1>6, <1>7, <1>8, <1>9, <1>10, <1>11, <1>12

LEMMA StepOrdered ==
  Inductive /\ Inductive' /\ Ordered /\ [Next]_vars => Ordered'
<1> SUFFICES ASSUME Inductive, Inductive', Ordered, [Next]_vars PROVE Ordered'
  OBVIOUS
<1>1. ASSUME NEW c \in Calls, Refuse(c) PROVE Ordered'
  <2>1. /\ UNCHANGED <<token, fut, ready, inbox, rank, handled, verdict, shown, device>>
        /\ phase[c] = "idle" /\ phase' = [phase EXCEPT ![c] = "offline"]
    BY <1>1 DEF Refuse, wireVars, dongleVars
  <2>2. \A d \in Calls : phase'[d] # phase[d] => phase[d] = "idle" /\ phase'[d] = "offline"
    BY <2>1 DEF Inductive, TypeOK
  <2> QED BY <2>1, <2>2, QuietOrdered
<1>2. ASSUME Connect \/ LoseRequest \/ UNCHANGED vars PROVE Ordered'
  <2>1. UNCHANGED <<token, fut, phase, ready, inbox, rank, handled, verdict, shown, device>>
    BY <1>2 DEF Connect, LoseRequest, vars, bridgeVars, wireVars, dongleVars
  <2> QED BY <2>1, QuietOrdered
<1>3. ASSUME NEW c \in Calls, Expire(c) \/ Cancel(c) PROVE Ordered'
  BY <1>3, InterruptOrdered DEF Expire, Cancel
<1> QED
  BY <1>1, <1>2, <1>3, SubmitOrdered, RunResolveOrdered, FinishOrdered, ReceiveOrdered,
     DongleHandlesOrdered, WireOrdered DEF Next

LEMMA OrderHolds == Spec => [](Inductive /\ Ordered)
<1>1. Init => Inductive /\ Ordered
  BY InitInductive, InitOrdered
<1>2. Inductive /\ Ordered /\ [Next]_vars => Inductive' /\ Ordered'
  BY StepInductive, StepOrdered
<1> QED BY <1>1, <1>2, PTL DEF Spec

LEMMA OnlyFinishShows ==
  ASSUME [Next]_vars, shown' # shown
  PROVE  \E c \in Calls : Finish(c)
BY DEF Next, Refuse, Submit, Expire, Cancel, Interrupt, RunResolve, Connect, Disconnect,
       ReceiveReply, DongleHandles, LoseRequest, LoseReply, DuplicateReply,
       vars, bridgeVars, wireVars, dongleVars

\* The display of every setting moves forward in the order in which the dongle
\* handled the writes (number.py, switch.py, select.py assign after the await).
THEOREM DisplayInOrder == Spec => DisplayFollowsDongle
<1> DEFINE Forward == \A s \in Settings :
             shown[s] # None /\ shown'[s] # shown[s] => rank[shown[s]] < rank[shown'[s]]
<1>1. Inductive /\ Ordered /\ [Next]_vars => [Forward]_vars
  <2> SUFFICES ASSUME Inductive, Ordered, [Next]_vars PROVE Forward
    OBVIOUS
  <2>1. CASE shown' = shown
    BY <2>1
  <2>2. CASE shown' # shown
    <3>1. PICK c \in Calls : Finish(c)
      BY <2>2, OnlyFinishShows
    <3> QED BY <3>1, FinishOrdered
  <2> QED BY <2>1, <2>2
<1>2. Spec => [][Forward]_vars
  BY <1>1, OrderHolds, PTL DEF Spec
<1> QED BY <1>2 DEF DisplayFollowsDongle

-----------------------------------------------------------------------------
(* The part of EveryCallEnds that needs no fairness: a queued wake-up is     *)
(* neither dropped nor overtaken, so that its place in the queue is a        *)
(* variant, which every handle that runs makes smaller.                      *)

\* A wake-up stays where it is, moves up by one place, or runs and ends its call.
WakesAdvance ==
  [][\A c \in Calls : \A i \in 1..Len(ready) :
       ready[i] = WakeHandle(c) =>
         \/ i \in 1..Len(ready') /\ ready'[i] = WakeHandle(c)
         \/ i - 1 \in 1..Len(ready') /\ ready'[i - 1] = WakeHandle(c)
         \/ i = 1 /\ phase'[c] \notin {"idle", "waiting"}]_vars

LEMMA StepAdvances ==
  ASSUME TypeOK, [Next]_vars, NEW c \in Calls, NEW i \in 1..Len(ready), ready[i] = WakeHandle(c)
  PROVE  \/ i \in 1..Len(ready') /\ ready'[i] = WakeHandle(c)
         \/ i - 1 \in 1..Len(ready') /\ ready'[i - 1] = WakeHandle(c)
         \/ i = 1 /\ phase'[c] \notin {"idle", "waiting"}
<1> DEFINE Advances == \/ i \in 1..Len(ready') /\ ready'[i] = WakeHandle(c)
                       \/ i - 1 \in 1..Len(ready') /\ ready'[i - 1] = WakeHandle(c)
                       \/ i = 1 /\ phase'[c] \notin {"idle", "waiting"}
<1>1. /\ ready \in Seq(Handles) /\ Len(ready) \in Nat /\ ready # <<>>
      /\ WakeHandle(c).fn = "wake" /\ WakeHandle(c) \in Handles
  BY HandleForms, LenProperties DEF TypeOK
<1>2. ASSUME ready' = ready PROVE Advances
  BY <1>2
<1>3. ASSUME NEW h \in Handles, ready' = Append(ready, h) PROVE Advances
  <2>1. Len(ready') = Len(ready) + 1 /\ ready'[i] = ready[i]
    BY <1>1, <1>3, AppendElements
  <2> QED BY <1>1, <2>1
<1>4. ASSUME ready' = Tail(ready), i # 1 PROVE Advances
  BY <1>1, <1>4, TailElements
<1>5. CASE RunResolve
  <2>1. Head(ready).fn = "resolve" /\ Head(ready) = ready[1]
    BY <1>1, <1>5, TailElements DEF RunResolve
  <2>2. i # 1
    BY <1>1, <2>1
  <2>3. CASE ready' = Tail(ready)
    BY <1>4, <2>2, <2>3
  <2>4. CASE ready' # Tail(ready)
    <3> DEFINE d == Awaiting(Head(ready).token)
    <3>1. d # None /\ ready' = Append(Tail(ready), WakeHandle(d))
      BY <1>5, <2>4 DEF RunResolve, Resolves
    <3>2. Head(ready) \in Handles
      BY <1>1, <2>1, ElementOfSeq
    <3>3. d \in Calls
      BY <2>1, <3>1, <3>2, HandleForms DEF Awaiting, TypeOK
    <3>4. WakeHandle(d) \in Handles
      BY <3>3, HandleForms
    <3> HIDE DEF d
    <3>5. /\ Len(ready') = Len(ready)
          /\ \A j \in 1..Len(ready) : j # 1 => j - 1 \in 1..Len(ready) /\ ready'[j - 1] = ready[j]
      BY <1>1, <3>1, <3>4, PopThenAppend
    <3> QED BY <2>2, <3>5
  <2> QED BY <2>3, <2>4
<1>6. ASSUME NEW d \in Calls, Finish(d) PROVE Advances
  <2>1. Head(ready) = WakeHandle(d) /\ ready' = Tail(ready) /\ Head(ready) = ready[1]
    BY <1>1, <1>6, TailElements DEF Finish
  <2>2. CASE i = 1
    <3>1. c = d
      BY <2>1, <2>2, HandleForms
    <3>2. phase'[c] = OutcomeOf(c)
      BY <1>6, <3>1 DEF Finish, TypeOK
    <3>3. OutcomeOf(c) \notin {"idle", "waiting"}
      BY DEF OutcomeOf
    <3> QED BY <2>2, <3>2, <3>3
  <2>3. CASE i # 1
    BY <1>4, <2>1, <2>3
  <2> QED BY <2>2, <2>3
<1>7. ASSUME NEW d \in Calls, Expire(d) \/ Cancel(d) PROVE Advances
  <2>1. WakeHandle(d) \in Handles
    BY HandleForms
  <2>2. ready' = ready \/ ready' = Append(ready, WakeHandle(d))
    BY <1>7 DEF Expire, Cancel, Interrupt
  <2> QED BY <1>2, <1>3, <2>1, <2>2
<1>8. CASE ReceiveReply
  <2>1. Head(inbox).token \in Tokens /\ Head(inbox).co \in Answers
    <3>1. Head(inbox) \in Replies
      BY <1>8, TailElements DEF ReceiveReply, TypeOK
    <3> QED BY <3>1 DEF Replies
  <2>2. ResolveHandle(Head(inbox).token, Head(inbox).co) \in Handles
    BY <2>1, HandleForms
  <2> QED BY <1>3, <1>8, <2>2 DEF ReceiveReply, CallSoon
<1>9. ASSUME \/ \E d \in Calls : Refuse(d) \/ Submit(d)
             \/ Connect \/ Disconnect \/ DongleHandles \/ LoseRequest \/ LoseReply
             \/ DuplicateReply \/ UNCHANGED vars
      PROVE  ready' = ready
  BY <1>9 DEF Refuse, Submit, Connect, Disconnect, DongleHandles, LoseRequest, LoseReply,
       DuplicateReply, vars, bridgeVars
<1>10. Advances
  <2>1. CASE \E d \in Calls : Finish(d)
    BY <1>6, <2>1
  <2>2. CASE \E d \in Calls : Expire(d) \/ Cancel(d)
    BY <1>7, <2>2
  <2>3. CASE \/ \E d \in Calls : Refuse(d) \/ Submit(d)
             \/ Connect \/ Disconnect \/ DongleHandles \/ LoseRequest \/ LoseReply
             \/ DuplicateReply \/ UNCHANGED vars
    BY <1>2, <1>9, <2>3
  <2> QED BY <1>5, <1>8, <2>1, <2>2, <2>3, Zenon DEF Next
<1> QED BY <1>10 DEF Advances

\* Nothing that arrives later puts off the end of a call whose future is done: with
\* OneWakeUp, the loop has at most a queue to run before each waiting call ends.
THEOREM WakesAreNotPutOff == Spec => WakesAdvance
<1> DEFINE Moves ==
             \A c \in Calls : \A i \in 1..Len(ready) :
               ready[i] = WakeHandle(c) =>
                 \/ i \in 1..Len(ready') /\ ready'[i] = WakeHandle(c)
                 \/ i - 1 \in 1..Len(ready') /\ ready'[i - 1] = WakeHandle(c)
                 \/ i = 1 /\ phase'[c] \notin {"idle", "waiting"}
<1>1. Inductive /\ [Next]_vars => [Moves]_vars
  BY StepAdvances DEF Inductive
<1> HIDE DEF Moves
<1>2. Spec => [][Moves]_vars
  BY <1>1, InductiveHolds, PTL DEF Spec
<1> QED BY <1>2 DEF Moves, WakesAdvance

-----------------------------------------------------------------------------
(* The write path implements WriteContract.                                 *)

LEMMA DongleDecides ==
  ASSUME Inductive, DongleHandles
  PROVE  Contract!Next
<1> DEFINE c == Head(outbox).ci
<1>1. PICK a \in Answers :
        /\ verdict' = [verdict EXCEPT ![c] = a]
        /\ rank' = [rank EXCEPT ![c] = handled + 1]
        /\ \/ /\ a # "nak" /\ Op[c] = "set"
              /\ device' = [device EXCEPT ![SettingOf[c]] = c]
           \/ /\ a # "ack" \/ Op[c] # "set"
              /\ device' = device
  BY DEF DongleHandles
<1>2. handled' = handled + 1 /\ UNCHANGED <<phase, shown>> /\ outbox # <<>>
  BY DEF DongleHandles, bridgeVars
<1>3. c \in Calls /\ verdict[c] = "none" /\ token[c] \in Tokens
  <2>1. TypeOK
    BY DEF Inductive
  <2>2. Head(outbox) = outbox[1] /\ 1 \in 1..Len(outbox)
    BY <1>2, <2>1, TailElements DEF TypeOK
  <2> QED BY <2>1, <2>2, QueueElements DEF Inductive, RequestsOpen
<1> HIDE DEF c
<1>4. phase[c] \notin {"idle", "offline"}
  BY <1>3, ConstantsOK DEF Inductive, SubmittedOwnsToken
<1>5. Contract!Decide(c, a)
  BY <1>1, <1>2, <1>3, <1>4 DEF Contract!Decide
<1> QED BY <1>3, <1>5 DEF Contract!Next, Answers

LEMMA FinishEnds ==
  ASSUME Inductive, Ordered, NEW c \in Calls, Finish(c)
  PROVE  Contract!Next
<1>1. /\ phase' = [phase EXCEPT ![c] = OutcomeOf(c)]
      /\ shown' = IF Shows(c) THEN [shown EXCEPT ![SettingOf[c]] = c] ELSE shown
      /\ UNCHANGED <<device, verdict, rank, handled>>
  BY DEF Finish, dongleVars
<1>2. phase[c] = "waiting" /\ (OutcomeOf(c) = "ok" => fut[c] \in Answers /\ HasAnswer(c))
  BY FinishFirst
<1>3. fut[c] \in Answers => verdict[c] = fut[c]
  BY DEF Inductive, FuturesTrue
<1>4. CASE OutcomeOf(c) = "ok"
  <2>1. /\ verdict[c] \in Answers \ {"bad"}
        /\ verdict[c] = "nak" => Op[c] = "read"
    BY <1>2, <1>3, <1>4 DEF OutcomeOf, Raises
  <2>2. CASE Op[c] = "set"
    <3>1. verdict[c] \in {"ack", "other"}
      BY <2>1, <2>2 DEF Answers
    <3>2. shown[SettingOf[c]] # None => rank[shown[SettingOf[c]]] < rank[c]
      BY <1>2, <1>4, ConstantsOK DEF Ordered, ShownFirst
    <3>3. Contract!Succeed(c)
      BY <1>1, <1>2, <1>4, <2>2, <3>1, <3>2 DEF Contract!Succeed, Shows
    <3> QED BY <3>3 DEF Contract!Next
  <2>3. CASE Op[c] # "set"
    <3>1. verdict[c] \in {"ack", "other"} \cup (IF Op[c] = "read" THEN {"nak"} ELSE {})
      BY <2>1 DEF Answers
    <3>2. Contract!Succeed(c)
      BY <1>1, <1>2, <1>4, <2>3, <3>1 DEF Contract!Succeed, Shows
    <3> QED BY <3>2 DEF Contract!Next
  <2> QED BY <2>2, <2>3
<1>5. CASE OutcomeOf(c) # "ok"
  <2>1. /\ OutcomeOf(c) \in {"rejected", "exception", "timeout", "cancelled"}
        /\ OutcomeOf(c) = "rejected" => verdict[c] = "nak"
        /\ OutcomeOf(c) = "exception" => verdict[c] = "bad"
    BY <1>3, <1>5 DEF OutcomeOf, Raises, Answers
  <2>2. Contract!Fail(c, OutcomeOf(c))
    BY <1>1, <1>2, <1>5, <2>1 DEF Contract!Fail, Shows
  <2> QED BY <2>1, <2>2 DEF Contract!Next
<1> QED BY <1>4, <1>5

LEMMA StepContract ==
  ASSUME Inductive, Ordered, [Next]_vars
  PROVE  [Contract!Next]_(Contract!vars)
<1>1. ASSUME NEW c \in Calls, Refuse(c) PROVE Contract!Next
  <2>1. Contract!Begin(c)
    BY <1>1 DEF Refuse, Contract!Begin, dongleVars
  <2> QED BY <2>1 DEF Contract!Next
<1>2. ASSUME NEW c \in Calls, Submit(c) PROVE Contract!Next
  <2>1. Contract!Begin(c)
    BY <1>2 DEF Submit, Contract!Begin, dongleVars
  <2> QED BY <2>1 DEF Contract!Next
<1>3. ASSUME \/ \E c \in Calls : Expire(c) \/ Cancel(c)
             \/ RunResolve \/ Connect \/ Disconnect \/ ReceiveReply
             \/ LoseRequest \/ LoseReply \/ DuplicateReply \/ UNCHANGED vars
      PROVE  UNCHANGED Contract!vars
  BY <1>3 DEF Expire, Cancel, Interrupt, RunResolve, Connect, Disconnect, ReceiveReply,
       LoseRequest, LoseReply, DuplicateReply, vars, bridgeVars, wireVars, dongleVars,
       Contract!vars
<1> QED BY <1>1, <1>2, <1>3, DongleDecides, FinishEnds DEF Next

\* Whoever calls the bridge may rely on WriteContract: it implements it.
THEOREM ContractKept == Spec => KeepsContract
<1>1. Init => Contract!Init
  BY DEF Init, Contract!Init
<1>2. Inductive /\ Ordered /\ [Next]_vars => [Contract!Next]_(Contract!vars)
  BY StepContract
<1>3. Spec => Contract!Spec
  BY <1>1, <1>2, OrderHolds, PTL DEF Spec, Contract!Spec
<1> QED BY <1>3 DEF KeepsContract

-----------------------------------------------------------------------------
(* What WriteContract is worth: from it alone, and not from how the bridge   *)
(* keeps it, follow the outcomes, the order of the display and its agreement *)
(* with the inverter.                                                        *)

\* The state of the contract, and how its parts belong together.
ContractTypes ==
  /\ phase \in [Calls -> Phases]
  /\ verdict \in [Calls -> Answers \cup {"none"}]
  /\ rank \in [Calls -> Nat] /\ handled \in Nat
  /\ shown \in [Settings -> Calls \cup {None}]
  /\ device \in [Settings -> Calls \cup {None}]

\* Ranks number the decisions.
RanksNumber ==
  /\ \A c \in Calls : rank[c] <= handled /\ (verdict[c] = "none" <=> rank[c] = 0)
  /\ \A c, d \in Calls : rank[c] = rank[d] /\ rank[c] # 0 => c = d
  /\ \A c \in Calls : phase[c] \in {"idle", "offline"} => verdict[c] = "none"

\* The display is at the last of the values that succeeded.
ShowsLast ==
  \A c \in Calls :
    phase[c] = "ok" /\ Op[c] = "set" =>
      shown[SettingOf[c]] # None /\ rank[c] <= rank[shown[SettingOf[c]]]

\* The inverter has the last of the values that it acknowledged, if no other.
DeviceTakesLast ==
  /\ \A s \in Settings :
       device[s] # None => Op[device[s]] = "set" /\ SettingOf[device[s]] = s
                           /\ verdict[device[s]] \notin {"none", "nak"}
  /\ \A c \in Calls :
       Op[c] = "set" /\ verdict[c] = "ack" =>
         device[SettingOf[c]] # None /\ rank[c] <= rank[device[SettingOf[c]]]

Kept ==
  /\ ContractTypes /\ RanksNumber
  /\ OutcomeIsOwnAnswer /\ ShownWasAccepted
  /\ ShowsLast /\ DeviceTakesLast

LEMMA KeptInit == Contract!Init => Kept
BY ConstantsOK DEF Contract!Init, Kept, ContractTypes, RanksNumber, OutcomeIsOwnAnswer,
     ShownWasAccepted, ShowsLast, DeviceTakesLast, Phases

LEMMA KeptBegin ==
  ASSUME Kept, NEW c \in Calls, Contract!Begin(c) PROVE Kept'
<1>1. /\ phase[c] = "idle" /\ verdict[c] = "none"
      /\ phase' \in [Calls -> Phases] /\ phase'[c] \in {"waiting", "offline"}
      /\ \A d \in Calls : d # c => phase'[d] = phase[d]
      /\ UNCHANGED <<shown, device, verdict, rank, handled>>
  BY DEF Contract!Begin, Kept, ContractTypes, RanksNumber, Phases, Failures
<1>2. ContractTypes' /\ RanksNumber' /\ DeviceTakesLast'
  BY <1>1 DEF Kept, ContractTypes, RanksNumber, DeviceTakesLast
<1>3. OutcomeIsOwnAnswer' /\ ShowsLast'
  BY <1>1 DEF Kept, OutcomeIsOwnAnswer, ShowsLast
<1>4. ShownWasAccepted'
  BY <1>1 DEF Kept, ContractTypes, ShownWasAccepted
<1> QED BY <1>2, <1>3, <1>4 DEF Kept

LEMMA KeptDecide ==
  ASSUME Kept, NEW c \in Calls, NEW a \in Answers, Contract!Decide(c, a) PROVE Kept'
<1>1. /\ phase[c] \notin {"idle", "offline"} /\ verdict[c] = "none" /\ rank[c] = 0
      /\ handled \in Nat /\ handled' = handled + 1
      /\ verdict' \in [Calls -> Answers \cup {"none"}] /\ verdict'[c] = a
      /\ \A d \in Calls : d # c => verdict'[d] = verdict[d]
      /\ rank' \in [Calls -> Nat] /\ rank'[c] = handled + 1
      /\ \A d \in Calls : d # c => rank'[d] = rank[d]
      /\ UNCHANGED <<phase, shown>>
  BY DEF Contract!Decide, Kept, ContractTypes, RanksNumber
<1>2. /\ \A d \in Calls : rank[d] \in Nat /\ rank[d] <= handled
      /\ a # "none" /\ SettingOf[c] \in Settings
      /\ \A s \in Settings : shown[s] \in Calls \cup {None} /\ device[s] \in Calls \cup {None}
  BY ConstantsOK DEF Kept, ContractTypes, RanksNumber, Answers
<1>3. device' \in [Settings -> Calls \cup {None}]
  BY <1>2 DEF Contract!Decide, Kept, ContractTypes
<1>4. ContractTypes'
  BY <1>1, <1>3 DEF Kept, ContractTypes
<1>5. RanksNumber'
  <2>1. \A d \in Calls : rank'[d] <= handled' /\ (verdict'[d] = "none" <=> rank'[d] = 0)
    BY <1>1, <1>2 DEF Kept, RanksNumber
  <2>2. \A d, e \in Calls : rank'[d] = rank'[e] /\ rank'[d] # 0 => d = e
    BY <1>1, <1>2 DEF Kept, RanksNumber
  <2>3. \A d \in Calls : phase'[d] \in {"idle", "offline"} => verdict'[d] = "none"
    BY <1>1 DEF Kept, RanksNumber
  <2> QED BY <2>1, <2>2, <2>3 DEF RanksNumber
<1>6. OutcomeIsOwnAnswer'
  BY <1>1 DEF Kept, OutcomeIsOwnAnswer
<1>7. ASSUME NEW s \in Settings, shown[s] # None
      PROVE  shown[s] \in Calls /\ shown[s] # c
  BY <1>1, <1>2, <1>7 DEF Kept, ShownWasAccepted
<1>8. ShownWasAccepted'
  BY <1>1, <1>7 DEF Kept, ShownWasAccepted
<1>9. ShowsLast'
  <2> SUFFICES ASSUME NEW d \in Calls, phase[d] = "ok", Op[d] = "set"
               PROVE  shown[SettingOf[d]] # None /\ rank'[d] <= rank'[shown[SettingOf[d]]]
    BY <1>1 DEF ShowsLast
  <2>1. /\ shown[SettingOf[d]] # None /\ rank[d] <= rank[shown[SettingOf[d]]]
        /\ SettingOf[d] \in Settings
    BY ConstantsOK DEF Kept, ShowsLast
  <2>2. d # c
    BY <1>1 DEF Kept, OutcomeIsOwnAnswer
  <2> QED BY <1>1, <1>7, <2>1, <2>2
<1>10. ASSUME NEW s \in Settings, device[s] # None
       PROVE  device[s] \in Calls /\ device[s] # c
  BY <1>1, <1>2, <1>10 DEF Kept, DeviceTakesLast
<1>11. DeviceTakesLast'
  <2>1. ASSUME NEW s \in Settings, device'[s] # None
        PROVE  /\ Op[device'[s]] = "set" /\ SettingOf[device'[s]] = s
               /\ verdict'[device'[s]] \notin {"none", "nak"}
    <3>1. CASE device'[s] = device[s]
      BY <1>1, <1>10, <2>1, <3>1 DEF Kept, DeviceTakesLast
    <3>2. CASE device'[s] # device[s]
      BY <1>1, <1>2, <3>2 DEF Contract!Decide, Kept, ContractTypes
    <3> QED BY <3>1, <3>2
  <2>2. ASSUME NEW d \in Calls, Op[d] = "set", verdict'[d] = "ack"
        PROVE  device'[SettingOf[d]] # None /\ rank'[d] <= rank'[device'[SettingOf[d]]]
    <3> DEFINE s == SettingOf[d]
    <3>0. s \in Settings /\ c # None
      BY ConstantsOK
    <3>1. CASE device'[s] = c
      BY <1>1, <1>2, <3>0, <3>1
    <3>2. CASE device'[s] # c
      <4>1. device'[s] = device[s] /\ d # c
        BY <1>1, <2>2, <3>0, <3>2 DEF Contract!Decide, Kept, ContractTypes
      <4>2. device[s] # None /\ rank[d] <= rank[device[s]]
        BY <1>1, <2>2, <4>1 DEF Kept, DeviceTakesLast
      <4> QED BY <1>1, <1>10, <3>0, <4>1, <4>2
    <3> QED BY <3>1, <3>2
  <2> QED BY <2>1, <2>2 DEF DeviceTakesLast
<1> QED BY <1>4, <1>5, <1>6, <1>8, <1>9, <1>11 DEF Kept

LEMMA KeptSucceed ==
  ASSUME Kept, NEW c \in Calls, Contract!Succeed(c) PROVE Kept'
<1>1. /\ phase[c] = "waiting" /\ phase' \in [Calls -> Phases] /\ phase'[c] = "ok"
      /\ \A d \in Calls : d # c => phase'[d] = phase[d]
      /\ UNCHANGED <<device, verdict, rank, handled>>
      /\ SettingOf[c] \in Settings /\ c # None
  BY ConstantsOK DEF Contract!Succeed, Kept, ContractTypes, Phases
<1>2. CASE Op[c] = "set"
  <2> DEFINE s == SettingOf[c]
  <2>1. /\ verdict[c] \in {"ack", "other"}
        /\ shown[s] # None => rank[shown[s]] < rank[c]
        /\ shown' \in [Settings -> Calls \cup {None}] /\ shown'[s] = c
        /\ \A t \in Settings : t # s => shown'[t] = shown[t]
    BY <1>1, <1>2 DEF Contract!Succeed, Kept, ContractTypes
  <2>2. ContractTypes' /\ RanksNumber' /\ DeviceTakesLast'
    BY <1>1, <2>1 DEF Kept, ContractTypes, RanksNumber, DeviceTakesLast
  <2>3. OutcomeIsOwnAnswer'
    BY <1>1, <2>1 DEF Kept, OutcomeIsOwnAnswer
  <2>4. \A t \in Settings : shown[t] \in Calls \cup {None}
    BY DEF Kept, ContractTypes
  <2>5. ShownWasAccepted'
    BY <1>1, <1>2, <2>1, <2>4 DEF Kept, ShownWasAccepted
  <2>6. ShowsLast'
    <3> SUFFICES ASSUME NEW d \in Calls, phase'[d] = "ok", Op[d] = "set"
                 PROVE  shown'[SettingOf[d]] # None /\ rank[d] <= rank[shown'[SettingOf[d]]]
      BY <1>1 DEF ShowsLast
    <3>1. \A e \in Calls : rank[e] \in Nat
      BY DEF Kept, ContractTypes
    <3>2. CASE SettingOf[d] # s
      <4>1. d # c /\ SettingOf[d] \in Settings
        BY <3>2, ConstantsOK
      <4> QED BY <1>1, <2>1, <3>2, <4>1 DEF Kept, ShowsLast
    <3>3. CASE SettingOf[d] = s /\ d # c
      <4>1. shown[s] # None /\ rank[d] <= rank[shown[s]] /\ shown[s] \in Calls
        BY <1>1, <2>4, <3>3 DEF Kept, ShowsLast
      <4> QED BY <1>1, <2>1, <3>1, <3>3, <4>1
    <3>4. CASE d = c
      BY <1>1, <2>1, <3>1, <3>4
    <3> QED BY <3>2, <3>3, <3>4
  <2> QED BY <2>2, <2>3, <2>5, <2>6 DEF Kept
<1>3. CASE Op[c] # "set"
  <2>1. /\ verdict[c] \in {"ack", "other"} \/ (verdict[c] = "nak" /\ Op[c] = "read")
        /\ shown' = shown
    BY <1>3 DEF Contract!Succeed
  <2>2. ContractTypes' /\ RanksNumber' /\ DeviceTakesLast'
    BY <1>1, <2>1 DEF Kept, ContractTypes, RanksNumber, DeviceTakesLast
  <2>3. OutcomeIsOwnAnswer' /\ ShowsLast'
    BY <1>1, <1>3, <2>1 DEF Kept, OutcomeIsOwnAnswer, ShowsLast
  <2>4. ShownWasAccepted'
    BY <1>1, <2>1 DEF Kept, ContractTypes, ShownWasAccepted
  <2> QED BY <2>2, <2>3, <2>4 DEF Kept
<1> QED BY <1>2, <1>3

LEMMA KeptFail ==
  ASSUME Kept, NEW c \in Calls,
         NEW how \in {"rejected", "exception", "timeout", "cancelled"}, Contract!Fail(c, how)
  PROVE  Kept'
<1>1. /\ phase[c] = "waiting" /\ phase' \in [Calls -> Phases] /\ phase'[c] = how
      /\ how = "rejected" => verdict[c] = "nak"
      /\ how = "exception" => verdict[c] = "bad"
      /\ \A d \in Calls : d # c => phase'[d] = phase[d]
      /\ UNCHANGED <<shown, device, verdict, rank, handled>>
  BY DEF Contract!Fail, Kept, ContractTypes, Phases, Failures
<1>2. ContractTypes' /\ RanksNumber' /\ DeviceTakesLast'
  BY <1>1 DEF Kept, ContractTypes, RanksNumber, DeviceTakesLast
<1>3. OutcomeIsOwnAnswer' /\ ShowsLast'
  BY <1>1 DEF Kept, OutcomeIsOwnAnswer, ShowsLast
<1>4. ShownWasAccepted'
  BY <1>1 DEF Kept, ContractTypes, ShownWasAccepted
<1> QED BY <1>2, <1>3, <1>4 DEF Kept

LEMMA KeptNext == Kept /\ [Contract!Next]_(Contract!vars) => Kept'
<1>1. CASE UNCHANGED Contract!vars
  BY <1>1 DEF Contract!vars, Kept, ContractTypes, RanksNumber, OutcomeIsOwnAnswer,
       ShownWasAccepted, ShowsLast, DeviceTakesLast
<1> QED BY <1>1, KeptBegin, KeptDecide, KeptSucceed, KeptFail DEF Contract!Next, Answers

LEMMA KeptHolds == KeepsContract => []Kept
BY KeptInit, KeptNext, PTL DEF KeepsContract, Contract!Spec

\* Display and inverter of a setting, in a contract that is kept.
LEMMA KeptExplains == Kept => DriftIsExplained
<1> SUFFICES ASSUME Kept, NEW s \in Settings, shown[s] # device[s]
             PROVE  \/ /\ device[s] # None
                       /\ phase[device[s]] \in {"waiting", "timeout", "cancelled", "exception"}
                       /\ shown[s] # None => rank[shown[s]] < rank[device[s]]
                    \/ shown[s] # None /\ verdict[shown[s]] = "other"
  BY DEF DriftIsExplained
<1>1. /\ shown[s] \in Calls \cup {None} /\ device[s] \in Calls \cup {None}
      /\ \A c \in Calls : rank[c] \in Nat /\ phase[c] \in Phases
  BY DEF Kept, ContractTypes
<1>2. ASSUME shown[s] # None, verdict[shown[s]] # "other"
      PROVE  /\ shown[s] \in Calls /\ device[s] # None
             /\ rank[shown[s]] <= rank[device[s]] /\ rank[shown[s]] # rank[device[s]]
  <2>1. /\ shown[s] \in Calls /\ Op[shown[s]] = "set" /\ SettingOf[shown[s]] = s
        /\ verdict[shown[s]] = "ack"
    BY <1>1, <1>2 DEF Kept, ShownWasAccepted
  <2>2. device[s] # None /\ rank[shown[s]] <= rank[device[s]]
    BY <2>1 DEF Kept, DeviceTakesLast
  <2>3. rank[shown[s]] # 0 /\ device[s] \in Calls
    BY <1>1, <2>1, <2>2 DEF Kept, RanksNumber
  <2> QED BY <2>1, <2>2, <2>3 DEF Kept, RanksNumber
<1>3. CASE device[s] = None
  BY <1>2, <1>3
<1>4. CASE device[s] # None
  <2>1. /\ device[s] \in Calls /\ Op[device[s]] = "set" /\ SettingOf[device[s]] = s
        /\ verdict[device[s]] \notin {"none", "nak"}
    BY <1>1, <1>4 DEF Kept, DeviceTakesLast
  <2>2. phase[device[s]] \notin {"idle", "offline", "rejected"}
    BY <2>1 DEF Kept, RanksNumber, OutcomeIsOwnAnswer
  <2>3. CASE phase[device[s]] = "ok"
    <3>1. shown[s] # None /\ rank[device[s]] <= rank[shown[s]]
      BY <2>1, <2>3 DEF Kept, ShowsLast
    <3> QED BY <1>1, <1>2, <2>1, <3>1
  <2>4. CASE phase[device[s]] # "ok"
    <3>1. phase[device[s]] \in {"waiting", "timeout", "cancelled", "exception"}
      BY <1>1, <2>1, <2>2, <2>4 DEF Phases, Failures
    <3> QED BY <1>1, <1>2, <1>4, <2>1, <3>1
  <2> QED BY <2>3, <2>4
<1> QED BY <1>3, <1>4

\* Settled calls leave nothing that could explain a difference.
LEMMA KeptAgrees == Kept => AgreesWhenSettled
<1> SUFFICES ASSUME Kept, NEW s \in Settings,
                    \A c \in Calls :
                      SettingOf[c] = s /\ Op[c] = "set" =>
                        /\ phase[c] \in {"idle", "offline", "ok", "rejected"}
                        /\ verdict[c] \in {"none", "ack", "nak"},
                    shown[s] # device[s]
             PROVE  FALSE
  BY DEF AgreesWhenSettled
<1>1. shown[s] \in Calls \cup {None} /\ device[s] \in Calls \cup {None}
  BY DEF Kept, ContractTypes
<1>2. ASSUME device[s] # None
      PROVE  phase[device[s]] \notin {"waiting", "timeout", "cancelled", "exception"}
  <2>1. device[s] \in Calls /\ Op[device[s]] = "set" /\ SettingOf[device[s]] = s
    BY <1>1, <1>2 DEF Kept, DeviceTakesLast
  <2> QED BY <2>1
<1>3. ASSUME shown[s] # None PROVE verdict[shown[s]] # "other"
  <2>1. shown[s] \in Calls /\ Op[shown[s]] = "set" /\ SettingOf[shown[s]] = s
    BY <1>1, <1>3 DEF Kept, ShownWasAccepted
  <2> QED BY <2>1
<1> QED BY <1>2, <1>3, KeptExplains DEF DriftIsExplained

\* Whatever keeps WriteContract lets display and inverter differ for one of the named
\* reasons only.
THEOREM ContractExplains == KeepsContract => []DriftIsExplained
BY KeptHolds, KeptExplains, PTL

\* Whatever keeps WriteContract agrees with the inverter once its calls are settled.
THEOREM ContractSettles == KeepsContract => []AgreesWhenSettled
BY KeptHolds, KeptAgrees, PTL

\* No caller that was told of success is wrong about the inverter, unless a newer
\* write took effect unheard or the answer was unclear (number.py, switch.py,
\* select.py have no read-back): the bridge inherits it from the contract.
THEOREM DriftExplained == Spec => []DriftIsExplained
BY ContractKept, ContractExplains, PTL

\* Once the writes to a setting are over, with clear answers, its entity shows
\* the value the inverter has.
THEOREM SettledAgrees == Spec => []AgreesWhenSettled
BY ContractKept, ContractSettles, PTL

\* Whatever keeps WriteContract ends each call by the answer to it, and shows nothing
\* that was not accepted.
THEOREM ContractTellsOutcomes == KeepsContract => [](OutcomeIsOwnAnswer /\ ShownWasAccepted)
<1>1. Kept => OutcomeIsOwnAnswer /\ ShownWasAccepted
  BY DEF Kept
<1> QED BY <1>1, KeptHolds, PTL

\* Whatever keeps WriteContract displays in the dongle's order.
THEOREM ContractOrders == KeepsContract => DisplayFollowsDongle
<1> DEFINE Forward ==
             \A s \in Settings :
               shown[s] # None /\ shown'[s] # shown[s] => rank[shown[s]] < rank[shown'[s]]
<1>1. ASSUME Kept, [Contract!Next]_(Contract!vars)
      PROVE  Forward
  <2> SUFFICES ASSUME NEW s \in Settings, shown[s] # None, shown'[s] # shown[s]
               PROVE  rank[shown[s]] < rank[shown'[s]]
    OBVIOUS
  <2>1. PICK c \in Calls : Contract!Succeed(c)
    BY <1>1 DEF Contract!Next, Contract!vars, Contract!Begin, Contract!Decide, Contract!Fail
  <2>2. /\ rank' = rank /\ Op[c] = "set" /\ shown' = [shown EXCEPT ![SettingOf[c]] = c]
        /\ shown[SettingOf[c]] # None => rank[shown[SettingOf[c]]] < rank[c]
    BY <2>1 DEF Contract!Succeed
  <2>3. s = SettingOf[c] /\ shown'[s] = c
    BY <1>1, <2>2 DEF Kept, ContractTypes
  <2> QED BY <2>2, <2>3
<1>2. Kept /\ [Contract!Next]_(Contract!vars) => [Forward]_vars
  BY <1>1
<1> HIDE DEF Forward
<1>3. KeepsContract => [][Forward]_vars
  BY <1>2, KeptHolds, PTL DEF KeepsContract, Contract!Spec
<1> QED BY <1>3 DEF Forward, DisplayFollowsDongle
=============================================================================
