--------------------------- MODULE LifecycleProofs --------------------------
(***************************************************************************)
(* Proofs about the bridges of one dongle, for any number of them and any    *)
(* bounds: what the stages of a bridge say of its thread, its answers and    *)
(* the config entry, and by way of that the safety properties of Lifecycle.  *)
(***************************************************************************)
EXTENDS Lifecycle, SequenceTheorems, TLAPS

-----------------------------------------------------------------------------
(* The inductive invariant.                                                 *)

\* A thread runs as long as its bridge is meant to be connected, and a bridge
\* that was stopped has no connection left.
Threads ==
  /\ NoThreadLeftBehind
  /\ \A b \in Bridges :
       /\ stage[b] \in {"starting", "seeding", "running"} => looping[b]
       /\ stage[b] \in {"unused", "stopped"} => link[b] = "down"
       /\ stage[b] = "stopping" /\ ~looping[b] => link[b] = "down"

\* The entry has one bridge at most, and its state follows from the bridge's
\* stage; there is a dialog only for a dongle without an entry.
Active(b) ==
  owner[b] = "entry" /\ stage[b] \in {"starting", "joining", "seeding", "running", "stopping"}

EntryOf(b) ==
  CASE stage[b] = "running"  -> {"loaded", "stuck"}
    [] stage[b] = "stopping" -> {"unloading"}
    [] OTHER                 -> {"loading"}

Entries ==
  /\ \A b, c \in Bridges : Active(b) /\ Active(c) => b = c
  /\ \A b \in Bridges : Active(b) => entry \in EntryOf(b)
  /\ \A b \in Bridges : stage[b] \in {"seeding", "running"} => owner[b] = "entry"
  /\ current # None => entry = "absent"

\* The handles of a bridge are its answers in their order: while the future is
\* pending, the next one to run is the first answer.
IsNext(i) ==
  \A j \in 1..Len(handles) : j < i => handles[j].bridge # handles[i].bridge

Answers ==
  /\ \A i \in 1..Len(handles) :
       /\ stage[handles[i].bridge] # "unused"
       /\ first[handles[i].bridge] # "none"
       /\ future[handles[i].bridge] = "pending" /\ IsNext(i)
            => (handles[i].ok <=> first[handles[i].bridge] = "accepted")
  /\ \A b \in Bridges :
       /\ future[b] = "pending" /\ first[b] # "none"
            => \E i \in 1..Len(handles) : handles[i].bridge = b
       /\ future[b] = "ok" => first[b] = "accepted"
       /\ stage[b] = "unused" => future[b] = "pending"
       /\ stage[b] = "starting" => future[b] # "cancelled"
       /\ stage[b] \in {"seeding", "running"} => first[b] = "accepted"

Inductive == TypeOK /\ Threads /\ Entries /\ Answers

-----------------------------------------------------------------------------
(* Types.                                                                   *)

\* The handle that runs, and the ones that move up.
LEMMA HandlesMoveUp ==
  ASSUME TypeOK, handles # <<>>
  PROVE  /\ Len(handles) \in Nat \ {0} /\ Len(Tail(handles)) = Len(handles) - 1
         /\ Head(handles) = handles[1]
         /\ \A i \in 1..Len(Tail(handles)) :
              i + 1 \in 1..Len(handles) /\ Tail(handles)[i] = handles[i + 1]
         /\ \A i \in 1..Len(handles) :
              i # 1 => i - 1 \in 1..Len(Tail(handles)) /\ Tail(handles)[i - 1] = handles[i]
<1>1. /\ Len(handles) \in Nat \ {0} /\ Len(Tail(handles)) = Len(handles) - 1
      /\ Head(handles) = handles[1]
      /\ \A i \in 1..Len(Tail(handles)) : Tail(handles)[i] = handles[i + 1]
  BY HeadTailProperties, EmptySeq DEF TypeOK
<1>2. \A i \in 1..Len(Tail(handles)) : i + 1 \in 1..Len(handles)
  BY <1>1
<1>3. ASSUME NEW i \in 1..Len(handles), i # 1
      PROVE  i - 1 \in 1..Len(Tail(handles)) /\ (i - 1) + 1 = i
  BY <1>1, <1>3
<1> QED BY <1>1, <1>2, <1>3

LEMMA HeadType ==
  ASSUME TypeOK, handles # <<>>
  PROVE  Head(handles) \in Handle /\ Tail(handles) \in Seq(Handle)
BY HeadTailProperties, EmptySeq DEF TypeOK

LEMMA ReportType ==
  ASSUME TypeOK, NEW b \in Bridges, NEW ok \in BOOLEAN, Report(b, ok)
  PROVE  /\ handles' \in Seq(Handle)
         /\ first' \in [Bridges -> {"none", "accepted", "refused"}]
<1>1. [bridge |-> b, ok |-> ok] \in Handle
  BY DEF Handle
<1>2. handles' \in Seq(Handle)
  BY <1>1 DEF Report, TypeOK
<1> QED BY <1>2 DEF Report, TypeOK

LEMMA TypesInit == Init => TypeOK
<1> SUFFICES ASSUME Init PROVE TypeOK
  OBVIOUS
<1>1. /\ stage \in [Bridges -> Stages] /\ owner \in [Bridges -> {"entry", "flow"}]
      /\ looping \in [Bridges -> BOOLEAN] /\ link \in [Bridges -> {"down", "asking", "up"}]
  BY DEF Init, Stages
<1>2. /\ future \in [Bridges -> {"pending", "ok", "refused", "timeout", "cancelled"}]
      /\ first \in [Bridges -> {"none", "accepted", "refused"}]
  BY DEF Init
<1> QED BY <1>1, <1>2 DEF Init, TypeOK

LEMMA StartType ==
  ASSUME TypeOK, NEW b \in Bridges, NEW who \in {"entry", "flow"}, Start(b, who),
         entry' \in {"absent", "due", "loading"}, current' \in Bridges \cup {None}
  PROVE  TypeOK'
BY DEF Start, Enter, TypeOK, Stages, wireVars

LEMMA DisconnectType ==
  ASSUME TypeOK, NEW b \in Bridges, Disconnect(b)
  PROVE  link' \in [Bridges -> {"down", "asking", "up"}] /\ session' \in Bridges \cup {None}
BY DEF Disconnect, TypeOK

LEMMA TypesLoop ==
  ASSUME TypeOK, NEW b \in Bridges, LoopStep(b) PROVE TypeOK'
<1> USE DEF entryVars, wireVars
<1>1. CASE Expire(b)
  BY <1>1 DEF Expire, TypeOK
<1>2. CASE Resume(b)
  BY <1>2 DEF Resume, Enter, TypeOK, Stages
<1>3. CASE Joined(b)
  <2>1. stage' \in [Bridges -> Stages]
    BY <1>3 DEF Joined, TypeOK, Stages
  <2>2. link' \in [Bridges -> {"down", "asking", "up"}] /\ session' \in Bridges \cup {None}
    BY <1>3, DisconnectType DEF Joined, TypeOK
  <2>3. entry' \in {"absent", "due", "loading", "loaded", "unloading", "stuck"}
    BY <1>3 DEF Joined, TypeOK
  <2> QED BY <1>3, <2>1, <2>2, <2>3 DEF Joined, TypeOK
<1>4. CASE Load(b)
  BY <1>4 DEF Load, Enter, TypeOK, Stages
<1>5. CASE Stop(b)
  <2>1. stage' \in [Bridges -> Stages]
    BY <1>5 DEF Stop, Enter, TypeOK, Stages
  <2>2. /\ entry' \in {"absent", "due", "loading", "loaded", "unloading", "stuck"}
        /\ current' \in Bridges \cup {None}
    BY <1>5 DEF Stop, TypeOK
  <2> QED BY <1>5, <2>1, <2>2 DEF Stop, TypeOK
<1> QED BY <1>1, <1>2, <1>3, <1>4, <1>5 DEF LoopStep

LEMMA TypesWire ==
  ASSUME TypeOK, NEW b \in Bridges, ThreadStep(b) \/ BrokerStep(b) PROVE TypeOK'
<1> USE DEF entryVars, wireVars
<1>1. CASE Ask(b)
  BY <1>1 DEF Ask, TypeOK
<1>2. CASE Exit(b)
  <2>1. link' \in [Bridges -> {"down", "asking", "up"}] /\ session' \in Bridges \cup {None}
    BY <1>2, DisconnectType DEF Exit, TypeOK
  <2> QED BY <1>2, <2>1 DEF Exit, TypeOK
<1>3. CASE Accept(b)
  BY <1>3, ReportType DEF Accept, TypeOK
<1>4. CASE Refuse(b)
  BY <1>4, ReportType DEF Refuse, TypeOK
<1>5. CASE AcceptUnread(b)
  BY <1>5 DEF AcceptUnread, TypeOK
<1>6. CASE Lose(b)
  BY <1>6, DisconnectType DEF Lose, TypeOK
<1> QED BY <1>1, <1>2, <1>3, <1>4, <1>5, <1>6 DEF ThreadStep, BrokerStep

LEMMA TypesStep ==
  ASSUME TypeOK, [Next]_vars PROVE TypeOK'
<1> USE DEF entryVars, wireVars
<1>1. CASE RunHandle
  <2>1. Head(handles) \in Handle /\ Tail(handles) \in Seq(Handle)
    BY <1>1, HeadType DEF RunHandle
  <2>2. future' \in [Bridges -> {"pending", "ok", "refused", "timeout", "cancelled"}]
    BY <1>1, <2>1 DEF RunHandle, Resolved, TypeOK, Handle
  <2> QED BY <1>1, <2>1, <2>2 DEF RunHandle, TypeOK
<1>2. CASE Dismiss
  BY <1>2 DEF Dismiss, TypeOK
<1>3. ASSUME NEW b \in Bridges, Validate(b) \/ Setup(b) PROVE TypeOK'
  BY <1>3, StartType DEF Validate, MayValidate, Setup, TypeOK
<1>4. ASSUME NEW b \in Bridges, ValidateBadAddress(b) PROVE TypeOK'
  BY <1>4 DEF ValidateBadAddress, Enter, TypeOK, Stages
<1>5. ASSUME NEW b \in Bridges, LoopStep(b) PROVE TypeOK'
  BY <1>5, TypesLoop
<1>6. ASSUME NEW b \in Bridges, ThreadStep(b) \/ BrokerStep(b) PROVE TypeOK'
  BY <1>6, TypesWire
<1>7. ASSUME NEW b \in Bridges, Unload(b) PROVE TypeOK'
  BY <1>7 DEF Unload, Enter, TypeOK, Stages
<1>8. ASSUME NEW b \in Bridges, Cancel(b) PROVE TypeOK'
  BY <1>8 DEF Cancel, Enter, TypeOK, Stages
<1>9. ASSUME NEW b \in Bridges, Collect(b) PROVE TypeOK'
  <2>1. link' \in [Bridges -> {"down", "asking", "up"}] /\ session' \in Bridges \cup {None}
    BY <1>9, DisconnectType DEF Collect
  <2> QED BY <1>9, <2>1 DEF Collect, Enter, TypeOK, Stages
<1>10. CASE UNCHANGED vars
  BY <1>10 DEF vars, TypeOK
<1> QED BY <1>1, <1>2, <1>3, <1>4, <1>5, <1>6, <1>7, <1>8, <1>9, <1>10 DEF Next

-----------------------------------------------------------------------------
(* Threads and their connections.                                           *)

\* A step that leaves a bridge's stage, thread and connection as they are.
LEMMA ThreadsUntouched ==
  ASSUME Threads, UNCHANGED <<stage, looping, link>> PROVE Threads'
BY DEF Threads, NoThreadLeftBehind

LEMMA ThreadsStep ==
  ASSUME TypeOK, TypeOK', Threads, [Next]_vars PROVE Threads'
<1> USE DEF Threads, NoThreadLeftBehind, TypeOK, Stages, wireVars
<1>1. CASE RunHandle \/ Dismiss \/ UNCHANGED vars
  BY <1>1, ThreadsUntouched DEF RunHandle, Dismiss, vars, entryVars
<1>2. ASSUME NEW b \in Bridges, Validate(b) \/ Setup(b) PROVE Threads'
  BY <1>2 DEF Validate, Setup, Start, Enter
<1>3. ASSUME NEW b \in Bridges, ValidateBadAddress(b) PROVE Threads'
  BY <1>3 DEF ValidateBadAddress, Enter
<1>4. ASSUME NEW b \in Bridges, Expire(b) PROVE Threads'
  BY <1>4, ThreadsUntouched DEF Expire
<1>5. ASSUME NEW b \in Bridges, Resume(b) PROVE Threads'
  BY <1>5 DEF Resume, Enter
<1>6. ASSUME NEW b \in Bridges, Joined(b) PROVE Threads'
  BY <1>6 DEF Joined, LoopStopped, Disconnect
<1>7. ASSUME NEW b \in Bridges, Load(b) PROVE Threads'
  BY <1>7 DEF Load, Enter
<1>8. ASSUME NEW b \in Bridges, Stop(b) PROVE Threads'
  BY <1>8 DEF Stop, LoopStopped, Enter
<1>9. ASSUME NEW b \in Bridges, Unload(b) PROVE Threads'
  BY <1>9 DEF Unload, Enter
<1>10. ASSUME NEW b \in Bridges, Cancel(b) PROVE Threads'
  BY <1>10 DEF Cancel, Enter
<1>11. ASSUME NEW b \in Bridges, Collect(b) PROVE Threads'
  BY <1>11 DEF Collect, Enter, Disconnect
<1>12. ASSUME NEW b \in Bridges, Ask(b) PROVE Threads'
  BY <1>12 DEF Ask
<1>13. ASSUME NEW b \in Bridges, Exit(b) PROVE Threads'
  BY <1>13 DEF Exit, Disconnect
<1>14. ASSUME NEW b \in Bridges, Accept(b) \/ Refuse(b) PROVE Threads'
  <2>1. /\ looping[b] /\ UNCHANGED <<stage, looping>>
        /\ \A c \in Bridges : c # b => link'[c] = link[c]
    <3>1. CASE Accept(b)
      BY <3>1 DEF Accept
    <3>2. CASE Refuse(b)
      BY <3>2 DEF Refuse
    <3> QED BY <1>14, <3>1, <3>2
  <2>2. stage[b] \notin {"unused", "stopped"}
    BY <2>1
  <2> QED BY <2>1, <2>2
<1>15. ASSUME NEW b \in Bridges, AcceptUnread(b) PROVE Threads'
  BY <1>15 DEF AcceptUnread
<1>16. ASSUME NEW b \in Bridges, Lose(b) PROVE Threads'
  BY <1>16 DEF Lose, Disconnect
<1> QED
  BY <1>1, <1>2, <1>3, <1>4, <1>5, <1>6, <1>7, <1>8, <1>9, <1>10, <1>11, <1>12, <1>13,
     <1>14, <1>15, <1>16 DEF Next, LoopStep, ThreadStep, BrokerStep

-----------------------------------------------------------------------------
(* The config entry and its bridge.                                         *)

LEMMA EntriesUntouched ==
  ASSUME Entries, UNCHANGED <<stage, owner, entry>>, current' \in {current, None}
  PROVE  Entries'
BY DEF Entries, Active, EntryOf

\* A bridge of the flow starts, or goes on.
LEMMA EntriesOfFlow ==
  ASSUME TypeOK, TypeOK', Entries, NEW b \in Bridges, owner'[b] = "flow",
         \A c \in Bridges : c # b => stage'[c] = stage[c] /\ owner'[c] = owner[c],
         ~Active(b), stage'[b] \notin {"seeding", "running"},
         \/ entry' = entry /\ (current' \in {current, None} \/ entry = "absent")
         \/ entry = "absent" /\ current' = None
  PROVE  Entries'
<1>1. ASSUME NEW c \in Bridges, Active(c)'
      PROVE  c # b /\ Active(c) /\ EntryOf(c)' = EntryOf(c)
  BY <1>1 DEF Active, EntryOf
<1>2. ASSUME NEW c \in Bridges, Active(c)' PROVE entry' = entry
  <2>1. entry \in EntryOf(c)
    BY <1>1, <1>2 DEF Entries
  <2> QED BY <2>1 DEF EntryOf
<1> QED BY <1>1, <1>2 DEF Entries

\* The only active bridge takes a step.
LEMMA EntriesOfEntry ==
  ASSUME TypeOK, TypeOK', Entries, NEW b \in Bridges,
         \A c \in Bridges : c # b => stage'[c] = stage[c] /\ owner'[c] = owner[c],
         Active(b) \/ (\A c \in Bridges : ~Active(c)),
         Active(b)' => entry' \in EntryOf(b)', owner'[b] = "entry",
         current = None, current' = None
  PROVE  Entries'
<1>1. ASSUME NEW c \in Bridges, Active(c)' PROVE c = b
  BY <1>1 DEF Active, Entries
<1> QED BY <1>1 DEF Entries

LEMMA EntriesStep ==
  ASSUME TypeOK, TypeOK', Threads, Entries, [Next]_vars PROVE Entries'
<1> USE DEF wireVars, entryVars
<1>1. CASE RunHandle \/ Dismiss \/ UNCHANGED vars
  BY <1>1, EntriesUntouched DEF RunHandle, Dismiss, vars
<1>2. ASSUME NEW b \in Bridges, Validate(b) PROVE Entries'
  BY <1>2, EntriesOfFlow DEF Validate, MayValidate, Start, Enter, TypeOK, Active
<1>3. ASSUME NEW b \in Bridges, ValidateBadAddress(b) PROVE Entries'
  BY <1>3, EntriesOfFlow DEF ValidateBadAddress, MayValidate, Enter, TypeOK, Active
<1>4. ASSUME NEW b \in Bridges, Setup(b) PROVE Entries'
  <2>1. \A c \in Bridges : ~Active(c)
    BY <1>4 DEF Setup, Entries, EntryOf
  <2>2. current = None /\ current' = None
    BY <1>4 DEF Setup, Entries
  <2>3. entry' \in EntryOf(b)'
    BY <1>4 DEF Setup, Start, Enter, TypeOK, EntryOf
  <2> QED BY <1>4, <2>1, <2>2, <2>3, EntriesOfEntry DEF Setup, Start, Enter, TypeOK
<1>5. ASSUME NEW b \in Bridges, Resume(b) PROVE Entries'
  <2>1. CASE owner[b] = "flow"
    BY <1>5, <2>1, EntriesOfFlow DEF Resume, Enter, TypeOK, Active
  <2>2. CASE owner[b] = "entry"
    <3>1. Active(b) /\ entry = "loading"
      BY <1>5, <2>2 DEF Resume, Active, Entries, EntryOf
    <3>2. stage'[b] \in {"joining", "seeding"}
      BY <1>5, <2>2 DEF Resume, Enter, TypeOK
    <3>3. entry' \in EntryOf(b)'
      BY <1>5, <3>1, <3>2 DEF Resume, EntryOf
    <3> QED
      BY <1>5, <2>2, <3>1, <3>2, <3>3, EntriesOfEntry DEF Resume, Enter, TypeOK, Entries
  <2> QED BY <2>1, <2>2 DEF TypeOK
<1>6. ASSUME NEW b \in Bridges, Joined(b) PROVE Entries'
  <2>1. CASE owner[b] = "flow"
    BY <1>6, <2>1, EntriesOfFlow DEF Joined, TypeOK, Active
  <2>2. CASE owner[b] = "entry"
    <3>1. Active(b) /\ entry = "loading"
      BY <1>6, <2>2 DEF Joined, Active, Entries, EntryOf
    <3>2. stage'[b] = "failed"
      BY <1>6, <2>2 DEF Joined, TypeOK
    <3> QED BY <1>6, <3>1, <3>2, EntriesOfEntry DEF Joined, TypeOK, Entries, Active
  <2> QED BY <2>1, <2>2 DEF TypeOK
<1>7. ASSUME NEW b \in Bridges, Load(b) PROVE Entries'
  <2>1. Active(b) /\ entry = "loading" /\ owner[b] = "entry"
    BY <1>7 DEF Load, Active, Entries, EntryOf
  <2>2. stage'[b] = "running" /\ entry' = "loaded"
    BY <1>7 DEF Load, Enter, TypeOK
  <2> QED BY <1>7, <2>1, <2>2, EntriesOfEntry DEF Load, Enter, TypeOK, Entries, EntryOf
<1>8. ASSUME NEW b \in Bridges, Unload(b) PROVE Entries'
  <2>1. Active(b) /\ owner[b] = "entry" /\ current = None
    BY <1>8 DEF Unload, Active, Entries
  <2>2. \/ stage'[b] = "stopping" /\ entry' = "unloading"
        \/ stage'[b] = "running" /\ entry' = "stuck"
    BY <1>8 DEF Unload, Enter, TypeOK
  <2> QED BY <1>8, <2>1, <2>2, EntriesOfEntry DEF Unload, Enter, TypeOK, EntryOf
<1>9. ASSUME NEW b \in Bridges, Stop(b) PROVE Entries'
  <2>1. stage'[b] = "stopped"
    BY <1>9 DEF Stop, Enter, TypeOK
  <2>2. CASE owner[b] = "flow"
    <3>1. current \in Bridges => current # None /\ entry = "absent"
      BY ConstantsOK DEF Entries
    <3> QED BY <1>9, <2>1, <2>2, <3>1, EntriesOfFlow DEF Stop, Enter, TypeOK, Active
  <2>3. CASE owner[b] = "entry"
    <3>1. Active(b) /\ current = None
      BY <1>9, <2>3 DEF Stop, Active, Entries, EntryOf
    <3> QED BY <1>9, <2>1, <2>3, <3>1, EntriesOfEntry DEF Stop, Enter, TypeOK, Active
  <2> QED BY <2>2, <2>3 DEF TypeOK
<1>10. ASSUME NEW b \in Bridges, Cancel(b) PROVE Entries'
  <2>1. CASE owner[b] = "flow"
    BY <1>10, <2>1, EntriesOfFlow DEF Cancel, Enter, TypeOK, Active
  <2>2. CASE owner[b] = "entry"
    <3>1. Active(b) /\ current = None
      BY <1>10, <2>2 DEF Cancel, Active, Entries, EntryOf
    <3>2. stage'[b] = "orphaned"
      BY <1>10, <2>2 DEF Cancel, Enter, TypeOK
    <3> QED BY <1>10, <2>2, <3>1, <3>2, EntriesOfEntry DEF Cancel, Enter, TypeOK, Active
  <2> QED BY <2>1, <2>2 DEF TypeOK
<1>11. ASSUME NEW b \in Bridges, Collect(b) PROVE Entries'
  BY <1>11 DEF Collect, Enter, TypeOK, Entries, Active, EntryOf
<1>12. ASSUME NEW b \in Bridges, Expire(b) \/ ThreadStep(b) \/ BrokerStep(b) PROVE Entries'
  BY <1>12, EntriesUntouched
  DEF Expire, ThreadStep, BrokerStep, Ask, Exit, Accept, Refuse, AcceptUnread, Lose
<1> QED
  BY <1>1, <1>2, <1>3, <1>4, <1>5, <1>6, <1>7, <1>8, <1>9, <1>10, <1>11, <1>12
  DEF Next, LoopStep

-----------------------------------------------------------------------------
(* The first answer and the future.                                         *)

LEMMA HandleAt ==
  ASSUME TypeOK, NEW i \in 1..Len(handles)
  PROVE  handles[i].bridge \in Bridges /\ handles[i].ok \in BOOLEAN
<1>1. handles[i] \in Handle
  BY DEF TypeOK
<1> QED BY <1>1 DEF Handle

LEMMA AnswersUntouched ==
  ASSUME Answers, UNCHANGED <<stage, first, future, handles>> PROVE Answers'
BY DEF Answers, IsNext

\* A bridge goes on; its future stays or is overridden.
LEMMA AnswersMove ==
  ASSUME TypeOK, TypeOK', Answers, UNCHANGED <<first, handles>>, NEW b \in Bridges,
         \A c \in Bridges : c # b => stage'[c] = stage[c] /\ future'[c] = future[c],
         stage'[b] # "unused",
         future'[b] = future[b] \/ future'[b] \in {"timeout", "cancelled"},
         stage'[b] = "starting" => future'[b] # "cancelled",
         stage'[b] \in {"seeding", "running"} => first[b] = "accepted"
  PROVE  Answers'
<1>1. ASSUME NEW i \in 1..Len(handles)
      PROVE  /\ stage'[handles[i].bridge] # "unused"
             /\ first[handles[i].bridge] # "none"
             /\ future'[handles[i].bridge] = "pending" /\ IsNext(i)
                  => (handles[i].ok <=> first[handles[i].bridge] = "accepted")
  BY HandleAt DEF Answers
<1>2. ASSUME NEW c \in Bridges
      PROVE  /\ future'[c] = "pending" /\ first[c] # "none"
                  => \E i \in 1..Len(handles) : handles[i].bridge = c
             /\ future'[c] = "ok" => first[c] = "accepted"
             /\ stage'[c] = "unused" => future'[c] = "pending"
             /\ stage'[c] = "starting" => future'[c] # "cancelled"
             /\ stage'[c] \in {"seeding", "running"} => first[c] = "accepted"
  BY DEF Answers
<1> QED BY <1>1, <1>2 DEF Answers, IsNext

\* The next handle runs.
LEMMA AnswersRun ==
  ASSUME TypeOK, TypeOK', Answers, RunHandle PROVE Answers'
<1> DEFINE b == handles[1].bridge
<1>1. /\ Len(handles) \in Nat \ {0}
      /\ handles' = Tail(handles) /\ Len(handles') = Len(handles) - 1
      /\ Head(handles) = handles[1]
      /\ \A i \in 1..Len(handles') : i + 1 \in 1..Len(handles) /\ handles'[i] = handles[i + 1]
      /\ \A i \in 1..Len(handles) :
           i # 1 => i - 1 \in 1..Len(handles') /\ handles'[i - 1] = handles[i]
  BY HandlesMoveUp DEF RunHandle
<1>2. 1 \in 1..Len(handles) /\ b \in Bridges /\ handles[1].ok \in BOOLEAN
  BY <1>1, HandleAt
<1>3. IsNext(1)
  BY <1>1 DEF IsNext
<1>4. /\ UNCHANGED <<stage, first>>
      /\ \A c \in Bridges : c # b => future'[c] = future[c]
      /\ future'[b] # "pending"
      /\ future'[b] = "ok" => future[b] = "ok" \/ (future[b] = "pending" /\ handles[1].ok)
      /\ future'[b] = "cancelled" => future[b] = "cancelled"
  BY <1>1, <1>2 DEF RunHandle, Resolved, TypeOK
<1>5. ASSUME NEW i \in 1..Len(handles')
      PROVE  /\ stage'[handles'[i].bridge] # "unused"
             /\ first'[handles'[i].bridge] # "none"
             /\ future'[handles'[i].bridge] = "pending" /\ IsNext(i)'
                  => (handles'[i].ok <=> first'[handles'[i].bridge] = "accepted")
  <2>1. i + 1 \in 1..Len(handles) /\ handles'[i] = handles[i + 1]
    BY <1>1
  <2>2. handles[i + 1].bridge \in Bridges
    BY <2>1, HandleAt
  <2>3. ASSUME future'[handles'[i].bridge] = "pending", IsNext(i)'
        PROVE  future[handles[i + 1].bridge] = "pending" /\ IsNext(i + 1)
    <3>1. handles[i + 1].bridge # b
      BY <1>4, <2>1, <2>3
    <3>2. ASSUME NEW j \in 1..Len(handles), j < i + 1
          PROVE  handles[j].bridge # handles[i + 1].bridge
      <4>1. CASE j = 1
        BY <3>1, <4>1
      <4>2. CASE j # 1
        <5>1. j - 1 \in 1..Len(handles') /\ handles'[j - 1] = handles[j] /\ j - 1 < i
          BY <1>1, <3>2, <4>2
        <5> QED BY <2>1, <2>3, <5>1 DEF IsNext
      <4> QED BY <4>1, <4>2
    <3>3. future[handles[i + 1].bridge] = "pending"
      BY <1>4, <2>1, <2>2, <2>3, <3>1
    <3> QED BY <3>2, <3>3 DEF IsNext
  <2>4. /\ stage[handles[i + 1].bridge] # "unused" /\ first[handles[i + 1].bridge] # "none"
        /\ future[handles[i + 1].bridge] = "pending" /\ IsNext(i + 1)
             => (handles[i + 1].ok <=> first[handles[i + 1].bridge] = "accepted")
    BY <2>1 DEF Answers
  <2> QED BY <1>4, <2>1, <2>3, <2>4
<1>6. ASSUME NEW c \in Bridges
      PROVE  /\ future'[c] = "pending" /\ first'[c] # "none"
                  => \E i \in 1..Len(handles') : handles'[i].bridge = c
             /\ future'[c] = "ok" => first'[c] = "accepted"
             /\ stage'[c] = "unused" => future'[c] = "pending"
             /\ stage'[c] = "starting" => future'[c] # "cancelled"
             /\ stage'[c] \in {"seeding", "running"} => first'[c] = "accepted"
  <2>1. CASE c = b
    <3>1. stage[b] # "unused" /\ (future[b] = "pending" => (handles[1].ok <=> first[b] = "accepted"))
      BY <1>2, <1>3 DEF Answers
    <3> QED BY <1>2, <1>4, <2>1, <3>1 DEF Answers
  <2>2. CASE c # b
    <3>1. ASSUME NEW i \in 1..Len(handles), handles[i].bridge = c
          PROVE  \E j \in 1..Len(handles') : handles'[j].bridge = c
      <4>1. i # 1
        BY <2>2, <3>1
      <4> QED BY <1>1, <3>1, <4>1
    <3> QED BY <1>4, <2>2, <3>1 DEF Answers
  <2> QED BY <2>1, <2>2
<1> QED BY <1>5, <1>6 DEF Answers

\* paho's thread reports an answer: the first, or one more.
LEMMA AnswersReport ==
  ASSUME TypeOK, TypeOK', Answers, NEW b \in Bridges, NEW ok \in BOOLEAN, Report(b, ok),
         stage[b] # "unused", UNCHANGED <<stage, future>>
  PROVE  Answers'
<1>0. PICK n \in Nat : n = Len(handles) + 1
  BY DEF TypeOK
<1>1. /\ Len(handles) \in Nat /\ n \in 1..n
      /\ Len(handles') = n
      /\ \A i \in 1..Len(handles) : i \in 1..n /\ handles'[i] = handles[i]
      /\ handles'[n].bridge = b /\ handles'[n].ok = ok
  <2>1. [bridge |-> b, ok |-> ok] \in Handle
    BY DEF Handle
  <2> QED BY <1>0, <2>1 DEF Report, TypeOK
<1>2. /\ \A c \in Bridges : c # b => first'[c] = first[c]
      /\ first[b] # "none" => first'[b] = first[b]
      /\ first[b] = "none" => first'[b] = IF ok THEN "accepted" ELSE "refused"
      /\ first'[b] # "none"
  BY DEF Report, TypeOK
<1>3. ASSUME NEW i \in 1..Len(handles), IsNext(i)' PROVE IsNext(i)
  BY <1>1, <1>3 DEF IsNext
<1>4. ASSUME NEW i \in 1..n
      PROVE  /\ stage'[handles'[i].bridge] # "unused"
             /\ first'[handles'[i].bridge] # "none"
             /\ future'[handles'[i].bridge] = "pending" /\ IsNext(i)'
                  => (handles'[i].ok <=> first'[handles'[i].bridge] = "accepted")
  <2>1. CASE i = n
    <3>1. stage'[b] # "unused" /\ first'[b] # "none"
      BY <1>2
    <3>2. ASSUME future[b] = "pending", IsNext(n)'
          PROVE  ok <=> first'[b] = "accepted"
      <4>1. \A j \in 1..Len(handles) : handles[j].bridge # b
        <5> SUFFICES ASSUME NEW j \in 1..Len(handles) PROVE handles[j].bridge # b
          OBVIOUS
        <5>1. j \in 1..n /\ j < n /\ handles'[j] = handles[j]
          BY <1>0, <1>1
        <5> QED BY <1>1, <3>2, <5>1 DEF IsNext
      <4>2. first[b] = "none"
        BY <3>2, <4>1 DEF Answers
      <4> QED BY <1>2, <4>2
    <3> QED BY <1>1, <2>1, <3>1, <3>2
  <2>2. CASE i # n
    <3>1. i \in 1..Len(handles) /\ handles'[i] = handles[i]
      BY <1>0, <1>1, <2>2
    <3>2. handles[i].bridge \in Bridges
      BY <3>1, HandleAt
    <3>3. /\ stage[handles[i].bridge] # "unused" /\ first[handles[i].bridge] # "none"
          /\ future[handles[i].bridge] = "pending" /\ IsNext(i)
               => (handles[i].ok <=> first[handles[i].bridge] = "accepted")
      BY <3>1 DEF Answers
    <3>4. first'[handles[i].bridge] = first[handles[i].bridge]
      BY <1>2, <3>2, <3>3
    <3> QED BY <1>3, <3>1, <3>3, <3>4
  <2> QED BY <2>1, <2>2
<1>5. ASSUME NEW c \in Bridges
      PROVE  /\ future'[c] = "pending" /\ first'[c] # "none"
                  => \E i \in 1..n : handles'[i].bridge = c
             /\ future'[c] = "ok" => first'[c] = "accepted"
             /\ stage'[c] = "unused" => future'[c] = "pending"
             /\ stage'[c] = "starting" => future'[c] # "cancelled"
             /\ stage'[c] \in {"seeding", "running"} => first'[c] = "accepted"
  <2>1. CASE c = b
    <3>1. \E i \in 1..n : handles'[i].bridge = b
      BY <1>1
    <3>2. first[b] = "accepted" => first'[b] = "accepted"
      BY <1>2
    <3> QED BY <2>1, <3>1, <3>2 DEF Answers
  <2>2. CASE c # b
    <3>1. first'[c] = first[c]
      BY <1>2, <2>2
    <3>2. (\E i \in 1..Len(handles) : handles[i].bridge = c)
             => \E i \in 1..n : handles'[i].bridge = c
      BY <1>1
    <3> QED BY <3>1, <3>2 DEF Answers
  <2> QED BY <2>1, <2>2
<1> QED BY <1>1, <1>4, <1>5 DEF Answers

\* A bridge without handles is collected.
LEMMA AnswersCollect ==
  ASSUME TypeOK, TypeOK', Answers, NEW b \in Bridges, Collect(b) PROVE Answers'
<1>1. /\ handles' = handles
      /\ \A i \in 1..Len(handles) : handles[i].bridge # b
      /\ stage'[b] = "unused" /\ future'[b] = "pending" /\ first'[b] = "none"
      /\ \A c \in Bridges : c # b =>
           stage'[c] = stage[c] /\ future'[c] = future[c] /\ first'[c] = first[c]
  BY DEF Collect, Enter, TypeOK
<1>2. ASSUME NEW i \in 1..Len(handles)
      PROVE  /\ stage'[handles[i].bridge] # "unused"
             /\ first'[handles[i].bridge] # "none"
             /\ future'[handles[i].bridge] = "pending" /\ IsNext(i)
                  => (handles[i].ok <=> first'[handles[i].bridge] = "accepted")
  BY <1>1, HandleAt DEF Answers
<1>3. ASSUME NEW c \in Bridges
      PROVE  /\ future'[c] = "pending" /\ first'[c] # "none"
                  => \E i \in 1..Len(handles) : handles[i].bridge = c
             /\ future'[c] = "ok" => first'[c] = "accepted"
             /\ stage'[c] = "unused" => future'[c] = "pending"
             /\ stage'[c] = "starting" => future'[c] # "cancelled"
             /\ stage'[c] \in {"seeding", "running"} => first'[c] = "accepted"
  BY <1>1 DEF Answers
<1> QED BY <1>1, <1>2, <1>3 DEF Answers, IsNext

LEMMA AnswersStep ==
  ASSUME TypeOK, TypeOK', Threads, Answers, [Next]_vars PROVE Answers'
<1> USE DEF wireVars, entryVars
<1>1. CASE RunHandle
  BY <1>1, AnswersRun
<1>2. CASE Dismiss \/ UNCHANGED vars
  BY <1>2, AnswersUntouched DEF Dismiss, vars
<1>3. ASSUME NEW b \in Bridges, Validate(b) \/ Setup(b) PROVE Answers'
  <2>1. CASE Validate(b)
    BY <2>1, AnswersMove DEF Validate, Start, Enter, TypeOK, Answers
  <2>2. CASE Setup(b)
    BY <2>2, AnswersMove DEF Setup, Start, Enter, TypeOK, Answers
  <2> QED BY <1>3, <2>1, <2>2
<1>4. ASSUME NEW b \in Bridges, ValidateBadAddress(b) PROVE Answers'
  BY <1>4, AnswersMove DEF ValidateBadAddress, Enter, TypeOK
<1>5. ASSUME NEW b \in Bridges, Expire(b) PROVE Answers'
  BY <1>5, AnswersMove DEF Expire, TypeOK
<1>6. ASSUME NEW b \in Bridges, Resume(b) PROVE Answers'
  <2>1. stage'[b] = "seeding" => first[b] = "accepted"
    BY <1>6 DEF Resume, Enter, Joins, TypeOK, Answers
  <2>2. stage'[b] \in {"joining", "seeding", "stopping"}
    BY <1>6 DEF Resume, Enter, TypeOK
  <2>3. /\ UNCHANGED <<first, handles, future>>
        /\ \A c \in Bridges : c # b => stage'[c] = stage[c]
    BY <1>6 DEF Resume, Enter, TypeOK
  <2> QED BY <2>1, <2>2, <2>3, AnswersMove
<1>7. ASSUME NEW b \in Bridges, Joined(b) PROVE Answers'
  BY <1>7, AnswersMove DEF Joined, TypeOK
<1>8. ASSUME NEW b \in Bridges, Load(b) PROVE Answers'
  BY <1>8, AnswersMove DEF Load, Enter, TypeOK, Answers
<1>9. ASSUME NEW b \in Bridges, Unload(b) PROVE Answers'
  BY <1>9, AnswersMove DEF Unload, Enter, TypeOK, Answers
<1>10. ASSUME NEW b \in Bridges, Stop(b) PROVE Answers'
  BY <1>10, AnswersMove DEF Stop, Enter, TypeOK
<1>11. ASSUME NEW b \in Bridges, Cancel(b) PROVE Answers'
  BY <1>11, AnswersMove DEF Cancel, Enter, TypeOK
<1>12. ASSUME NEW b \in Bridges, Collect(b) PROVE Answers'
  BY <1>12, AnswersCollect
<1>13. ASSUME NEW b \in Bridges, Accept(b) PROVE Answers'
  BY <1>13, AnswersReport DEF Accept, Threads, NoThreadLeftBehind
<1>14. ASSUME NEW b \in Bridges, Refuse(b) PROVE Answers'
  BY <1>14, AnswersReport DEF Refuse, Threads, NoThreadLeftBehind
<1>15. ASSUME NEW b \in Bridges, Ask(b) \/ Exit(b) \/ AcceptUnread(b) \/ Lose(b) PROVE Answers'
  BY <1>15, AnswersUntouched DEF Ask, Exit, AcceptUnread, Lose
<1> QED
  BY <1>1, <1>2, <1>3, <1>4, <1>5, <1>6, <1>7, <1>8, <1>9, <1>10, <1>11, <1>12, <1>13,
     <1>14, <1>15 DEF Next, LoopStep, ThreadStep, BrokerStep

-----------------------------------------------------------------------------
(* The theorems.                                                            *)

LEMMA InductiveInit == Init => Inductive
<1> SUFFICES ASSUME Init PROVE Inductive
  OBVIOUS
<1>1. Threads
  BY DEF Init, Threads, NoThreadLeftBehind
<1>2. Entries
  BY DEF Init, Entries, Active
<1>3. Answers
  BY DEF Init, Answers
<1> QED BY <1>1, <1>2, <1>3, TypesInit DEF Inductive

LEMMA InductiveStep ==
  ASSUME Inductive, [Next]_vars PROVE Inductive'
BY TypesStep, ThreadsStep, EntriesStep, AnswersStep DEF Inductive

\* The stage of a bridge tells whether its thread runs, what the first answer
\* to it was, and how the config entry stands.
THEOREM InductiveHolds == Spec => []Inductive
<1> QED BY InductiveInit, InductiveStep, PTL DEF Spec

\* The types of the bridges' state and of the event loop's queue.
THEOREM LifecycleTypes == Spec => []TypeOK
<1>1. Inductive => TypeOK
  BY DEF Inductive
<1> QED BY <1>1, InductiveHolds, PTL

\* No failed start, validation or unload leaves a thread behind, with any number
\* of bridges (mqtt_client.py:119-132, config_flow.py:57-60).
THEOREM NoThreadLeaks == Spec => []NoThreadLeftBehind
<1>1. Inductive => NoThreadLeftBehind
  BY DEF Inductive, Threads
<1> QED BY <1>1, InductiveHolds, PTL

\* An entry has one bridge with a thread, through retries, reloads and removal.
THEOREM EntryHasOneBridge == Spec => []OneEntryBridge
<1>1. Inductive => OneEntryBridge
  <2> SUFFICES ASSUME Inductive, NEW b \in Bridges, NEW c \in Bridges,
                      owner[b] = "entry", looping[b], stage[b] # "orphaned",
                      owner[c] = "entry", looping[c], stage[c] # "orphaned"
               PROVE  b = c
    BY DEF OneEntryBridge
  <2>1. stage[b] \in Stages /\ stage[c] \in Stages
    BY DEF Inductive, TypeOK
  <2>2. Active(b) /\ Active(c)
    BY <2>1 DEF Inductive, Threads, NoThreadLeftBehind, Stages, Active
  <2> QED BY <2>2 DEF Inductive, Entries
<1> QED BY <1>1, InductiveHolds, PTL

\* A setup or a validation succeeds only if the broker's first answer was yes,
\* whatever else came, and whether it crossed the timeout (mqtt_client.py:119).
THEOREM OnlyTheAcceptedStart == Spec => []StartedWasAccepted
<1>1. Inductive => StartedWasAccepted
  BY DEF Inductive, Answers, StartedWasAccepted
<1> QED BY <1>1, InductiveHolds, PTL

\* Only an answer to a CONNECT gives the session to another bridge.
LEMMA SessionMoves ==
  ASSUME Inductive, [Next]_vars, NEW c \in Bridges, session' = c, session # c
  PROVE  link[c] = "asking"
<1> USE DEF wireVars, entryVars
<1>1. c # None
  BY ConstantsOK
<1>2. CASE RunHandle \/ Dismiss \/ UNCHANGED vars
  BY <1>2 DEF RunHandle, Dismiss, vars
<1>3. ASSUME NEW b \in Bridges, Disconnect(b) PROVE FALSE
  BY <1>1, <1>3 DEF Disconnect
<1>4. ASSUME NEW b \in Bridges,
             \/ Validate(b) \/ ValidateBadAddress(b) \/ Setup(b) \/ LoopStep(b)
             \/ ThreadStep(b) \/ Unload(b) \/ Cancel(b) \/ Collect(b)
      PROVE  FALSE
  BY <1>3, <1>4
  DEF Validate, ValidateBadAddress, Setup, Start, LoopStep, Expire, Resume, Joined, Load,
      Stop, ThreadStep, Ask, Exit, Unload, Cancel, Collect
<1>5. ASSUME NEW b \in Bridges, BrokerStep(b) PROVE link[c] = "asking"
  BY <1>3, <1>5 DEF BrokerStep, Accept, Refuse, AcceptUnread, Lose
<1> QED BY <1>2, <1>4, <1>5 DEF Next

\* Of all bridges that share its client id, only leftovers take the session of
\* the entry's bridge (config_flow.py:60, 73-76).
THEOREM OnlyLeftoversTake == Spec => TakenByLeftoversOnly
<1>1. ASSUME Inductive, [Next]_vars
      PROVE  [\A b \in Mine, c \in Bridges :
                b # c /\ session = b /\ session' = c => Leftover(c)]_vars
  <2> SUFFICES ASSUME NEW b \in Mine, NEW c \in Bridges,
                      b # c, session = b, session' = c
               PROVE  Leftover(c)
    OBVIOUS
  <2>1. b \in Bridges /\ Active(b) /\ current = None
    BY <1>1 DEF Mine, Active, Inductive, Entries, EntryOf
  <2>2. link[c] = "asking"
    BY <1>1, SessionMoves
  <2>3. CASE owner[c] = "flow"
    BY <2>1, <2>3, ConstantsOK DEF Leftover
  <2>4. CASE owner[c] = "entry"
    <3>1. ~Active(c)
      BY <1>1, <2>1 DEF Inductive, Entries
    <3>2. stage[c] \in Stages /\ stage[c] \notin {"unused", "stopped"}
      BY <1>1, <2>2 DEF Inductive, TypeOK, Threads
    <3>3. stage[c] \in {"failed", "orphaned"}
      BY <2>4, <3>1, <3>2 DEF Active, Stages
    <3> QED BY <3>3 DEF Leftover
  <2> QED BY <1>1, <2>3, <2>4 DEF Inductive, TypeOK
<1> QED BY <1>1, InductiveHolds, PTL DEF Spec, TakenByLeftoversOnly

=============================================================================
