---------------------------- MODULE RestoreProofs ---------------------------
(***************************************************************************)
(* Proofs about what the optimistic entities remember, for any entities of   *)
(* both kinds, any values and any sequence of writes, lost connections,      *)
(* reloads, restarts and crashes.                                           *)
(***************************************************************************)
EXTENDS Restore, TLAPS

\* The stored state r of e is worth the value v: a number keeps it beside its
\* state, a switch or a select has it as its state, or nothing one could take
\* for a value.
Worth(e, r, v) ==
  v # Lost =>
    /\ Kind[e] = "number" => r.extra = v
    /\ Kind[e] = "enum" => r.state \in {v, None, "unavailable"}

\* What an entity that exists shows and has written, whether available or not.
Shows(e) ==
  /\ written[e] \in {shown[e], "unavailable"}
  /\ expected[e] # Lost =>
       /\ Kind[e] = "number" => shown[e] = expected[e]
       /\ Kind[e] = "enum" => shown[e] \in {expected[e], None}

\* Calls that still wait when their entities are removed are known to be theirs.
CallsRemoved == ~loaded => \A e \in Entities : writing[e] # None => e \in removed

Inductive ==
  /\ TypeOK
  /\ CallsRemoved
  /\ loaded => \A e \in Entities : Shows(e)
  /\ ~loaded => \A e \in Entities : Worth(e, last[e], expected[e])
  /\ \A e \in Entities : Worth(e, disk[e], dumped[e])

LEMMA KindOf ==
  ASSUME NEW e \in Entities PROVE Kind[e] \in {"number", "enum"}
BY ConstantsOK

-----------------------------------------------------------------------------
(* Types.                                                                   *)

LEMMA TypesInit == Init => TypeOK
<1> SUFFICES ASSUME Init PROVE TypeOK
  OBVIOUS
<1>1. Nothing \in Stored
  BY DEF Nothing, Stored
<1>2. last \in [Entities -> Stored] /\ disk \in [Entities -> Stored]
  BY <1>1 DEF Init
<1>3. /\ writing \in [Entities -> Values \cup {None}] /\ removed \subseteq Entities
      /\ shown \in [Entities -> Values \cup {None}]
      /\ written \in [Entities -> Values \cup {None, "unavailable"}]
      /\ expected \in [Entities -> Values \cup {None, Lost}]
      /\ dumped \in [Entities -> Values \cup {None, Lost}]
  BY DEF Init
<1> QED BY <1>2, <1>3 DEF Init, TypeOK

LEMMA SavedType ==
  ASSUME TypeOK PROVE Saved \in [Entities -> Stored] /\ Snapshot \in [Entities -> Stored]
<1>1. ASSUME NEW e \in Entities
      PROVE  [state |-> written[e],
              extra |-> IF Kind[e] = "number" THEN shown[e] ELSE None] \in Stored
  BY DEF TypeOK, Stored
<1>2. Saved \in [Entities -> Stored]
  BY <1>1 DEF Saved
<1> QED BY <1>2 DEF Snapshot, TypeOK

LEMMA RestoredType ==
  ASSUME TypeOK, NEW e \in Entities PROVE Restored(e) \in Values \cup {None}
<1>1. last[e].extra \in Values \cup {None}
  BY DEF TypeOK, Stored
<1> QED BY <1>1 DEF Restored, RestoredNumber, RestoredEnum

LEMMA TypesStep ==
  ASSUME TypeOK, [Next]_vars PROVE TypeOK'
<1> USE DEF callVars, entityVars, storeVars, historyVars
<1>1. CASE Setup
  <2>1. shown' \in [Entities -> Values \cup {None}]
    BY <1>1, RestoredType DEF Setup
  <2> QED BY <1>1, <2>1 DEF Setup, TypeOK
<1>2. ASSUME NEW e \in Entities, NEW v \in Values, Begin(e, v) PROVE TypeOK'
  BY <1>2 DEF Begin, TypeOK
<1>3. ASSUME NEW e \in Entities, Set(e) PROVE TypeOK'
  <2>1. writing[e] \in Values
    BY <1>3 DEF Set, Ends, TypeOK
  <2>2. /\ writing' \in [Entities -> Values \cup {None}] /\ removed' \subseteq Entities
        /\ shown' \in [Entities -> Values \cup {None}]
        /\ expected' \in [Entities -> Values \cup {None, Lost}]
    BY <1>3, <2>1 DEF Set, Ends, TypeOK
  <2>3. written' \in [Entities -> Values \cup {None, "unavailable"}]
    BY <1>3, <2>1 DEF Set, Written, TypeOK
  <2> QED BY <1>3, <2>2, <2>3 DEF Set, TypeOK
<1>4. ASSUME NEW e \in Entities, SetRemoved(e) PROVE TypeOK'
  BY <1>4 DEF SetRemoved, Ends, TypeOK
<1>5. ASSUME NEW e \in Entities, Fail(e) PROVE TypeOK'
  BY <1>5 DEF Fail, Ends, TypeOK
<1>6. CASE AvailabilityChanges
  <2>1. written' \in [Entities -> Values \cup {None, "unavailable"}]
    BY <1>6 DEF AvailabilityChanges, Written, TypeOK
  <2> QED BY <1>6, <2>1 DEF AvailabilityChanges, TypeOK
<1>7. CASE Unload
  BY <1>7, SavedType DEF Unload, TypeOK
<1>8. CASE Dump
  BY <1>8, SavedType DEF Dump, TypeOK
<1>9. CASE Restart
  BY <1>9, SavedType DEF Restart, CallsDie, TypeOK
<1>10. CASE Crash
  BY <1>10 DEF Crash, CallsDie, TypeOK
<1>11. CASE UNCHANGED vars
  BY <1>11 DEF vars, TypeOK
<1> QED BY <1>1, <1>2, <1>3, <1>4, <1>5, <1>6, <1>7, <1>8, <1>9, <1>10, <1>11 DEF Next

-----------------------------------------------------------------------------
(* What is stored, and what is made of it.                                  *)

\* Whatever is stored now, of entities that exist or not, is worth the values
\* to be expected.
LEMMA SnapshotIsWorth ==
  ASSUME Inductive, NEW e \in Entities
  PROVE  Worth(e, Snapshot[e], expected[e])
<1>1. CASE loaded
  <2>1. Snapshot[e] = [state |-> written[e],
                       extra |-> IF Kind[e] = "number" THEN shown[e] ELSE None]
    BY <1>1 DEF Snapshot, Saved
  <2>2. Shows(e)
    BY <1>1 DEF Inductive
  <2> QED BY <2>1, <2>2 DEF Shows, Worth
<1>2. CASE ~loaded
  BY <1>2 DEF Inductive, Snapshot
<1> QED BY <1>1, <1>2

\* An entity that is set up shows what the stored state is worth.
LEMMA RestoredIsWorth ==
  ASSUME TypeOK, NEW e \in Entities, NEW v, v # Lost, Worth(e, last[e], v)
  PROVE  /\ Kind[e] = "number" => Restored(e) = v
         /\ Kind[e] = "enum" => Restored(e) \in {v, None}
BY KindOf, ConstantsOK DEF Worth, Restored, RestoredNumber, RestoredEnum

LEMMA InductiveInit == Init => Inductive
<1> SUFFICES ASSUME Init PROVE Inductive
  OBVIOUS
<1>1. ASSUME NEW e \in Entities
      PROVE  Worth(e, last[e], expected[e]) /\ Worth(e, disk[e], dumped[e])
  BY DEF Init, Nothing, Worth
<1> QED BY <1>1, TypesInit DEF Inductive, Init, CallsRemoved

\* Steps that change neither what is shown nor what is stored nor expected.
LEMMA InductiveCalls ==
  ASSUME Inductive, TypeOK', CallsRemoved',
         UNCHANGED <<loaded, entityVars, storeVars, historyVars>>
  PROVE  Inductive'
BY DEF Inductive, Shows, Worth, entityVars, storeVars, historyVars

LEMMA InductiveStep ==
  ASSUME Inductive, [Next]_vars PROVE Inductive'
<1> USE DEF callVars, entityVars, storeVars, historyVars
<1>0. TypeOK /\ TypeOK'
  BY TypesStep DEF Inductive
<1>1. CASE Setup
  <2>1. ASSUME NEW e \in Entities PROVE Shows(e)'
    <3>1. Worth(e, last[e], expected[e])
      BY <1>1 DEF Inductive, Setup
    <3>2. shown'[e] = Restored(e) /\ written'[e] = shown'[e] /\ expected'[e] = expected[e]
      BY <1>1 DEF Setup
    <3> QED BY <1>0, <3>1, <3>2, RestoredIsWorth DEF Shows
  <2>2. CallsRemoved'
    BY <1>1 DEF Setup, CallsRemoved
  <2> QED BY <1>0, <1>1, <2>1, <2>2 DEF Inductive, Setup, Worth
<1>2. ASSUME NEW e \in Entities, NEW v \in Values, Begin(e, v) PROVE Inductive'
  <2>1. CallsRemoved'
    BY <1>2 DEF Begin, CallsRemoved
  <2> QED BY <1>0, <1>2, <2>1, InductiveCalls DEF Begin
<1>3. ASSUME NEW e \in Entities, Set(e) PROVE Inductive'
  <2>1. loaded /\ loaded'
    BY <1>3 DEF Set, Ends, Inductive, CallsRemoved
  <2>2. ASSUME NEW d \in Entities PROVE Shows(d)'
    <3>1. CASE d = e
      BY <1>0, <1>3, <3>1 DEF Set, Written, TypeOK, Shows
    <3>2. CASE d # e
      <4>1. /\ shown'[d] = shown[d] /\ written'[d] = written[d]
            /\ expected'[d] = expected[d]
        BY <1>0, <1>3, <3>2 DEF Set, TypeOK
      <4> QED BY <2>1, <4>1 DEF Inductive, Shows
    <3> QED BY <3>1, <3>2
  <2>3. CallsRemoved'
    BY <2>1 DEF CallsRemoved
  <2> QED BY <1>0, <1>3, <2>1, <2>2, <2>3 DEF Inductive, Set, Worth
<1>4. ASSUME NEW e \in Entities, SetRemoved(e) PROVE Inductive'
  <2>1. ~loaded /\ ~loaded'
    BY <1>4 DEF SetRemoved
  <2>2. ASSUME NEW d \in Entities PROVE Worth(d, last[d], expected[d])'
    <3>1. expected'[d] = Lost \/ expected'[d] = expected[d]
      BY <1>0, <1>4 DEF SetRemoved, TypeOK
    <3> QED BY <1>4, <2>1, <3>1 DEF SetRemoved, Inductive, Worth
  <2>3. CallsRemoved'
    BY <1>0, <1>4 DEF SetRemoved, Ends, CallsRemoved, Inductive, TypeOK
  <2> QED BY <1>0, <1>4, <2>1, <2>2, <2>3 DEF Inductive, SetRemoved, Worth
<1>5. ASSUME NEW e \in Entities, Fail(e) PROVE Inductive'
  <2>1. CallsRemoved'
    BY <1>0, <1>5 DEF Fail, Ends, CallsRemoved, Inductive, TypeOK
  <2> QED BY <1>0, <1>5, <2>1, InductiveCalls DEF Fail
<1>6. CASE AvailabilityChanges
  <2>1. ASSUME NEW e \in Entities PROVE Shows(e)'
    <3>1. Shows(e)
      BY <1>6 DEF AvailabilityChanges, Inductive
    <3>2. /\ written'[e] = Written(e, shown[e], available') /\ shown'[e] = shown[e]
          /\ expected'[e] = expected[e]
      BY <1>6 DEF AvailabilityChanges
    <3> QED BY <3>1, <3>2 DEF Shows, Written
  <2> QED BY <1>0, <1>6, <2>1 DEF AvailabilityChanges, Inductive, CallsRemoved, Worth
<1>7. CASE Unload
  <2>1. ASSUME NEW e \in Entities PROVE Worth(e, last[e], expected[e])'
    <3>1. last'[e] = Snapshot[e] /\ expected'[e] = expected[e]
      BY <1>7 DEF Unload, Snapshot
    <3> QED BY <3>1, SnapshotIsWorth DEF Worth
  <2>2. CallsRemoved'
    BY <1>7 DEF Unload, CallsRemoved
  <2> QED BY <1>0, <1>7, <2>1, <2>2 DEF Unload, Inductive, Worth
<1>8. CASE Dump
  <2>1. ASSUME NEW e \in Entities PROVE Worth(e, disk[e], dumped[e])'
    BY <1>8, SnapshotIsWorth DEF Dump, Worth
  <2> QED BY <1>0, <1>8, <2>1 DEF Dump, Inductive, CallsRemoved, Shows, Worth
<1>9. CASE Restart
  <2>1. ASSUME NEW e \in Entities
        PROVE  Worth(e, disk[e], dumped[e])' /\ Worth(e, last[e], expected[e])'
    BY <1>9, SnapshotIsWorth DEF Restart, Worth
  <2>2. CallsRemoved'
    BY <1>9 DEF Restart, CallsDie, CallsRemoved
  <2> QED BY <1>0, <1>9, <2>1, <2>2 DEF Restart, Inductive
<1>10. CASE Crash
  <2>1. ASSUME NEW e \in Entities
        PROVE  Worth(e, disk[e], dumped[e])' /\ Worth(e, last[e], expected[e])'
    BY <1>10 DEF Crash, Inductive, Worth
  <2>2. CallsRemoved'
    BY <1>10 DEF Crash, CallsDie, CallsRemoved
  <2> QED BY <1>0, <1>10, <2>1, <2>2 DEF Crash, Inductive
<1>11. CASE UNCHANGED vars
  <2>1. CallsRemoved'
    BY <1>11 DEF vars, CallsRemoved, Inductive
  <2> QED BY <1>0, <1>11, <2>1, InductiveCalls DEF vars
<1> QED BY <1>1, <1>2, <1>3, <1>4, <1>5, <1>6, <1>7, <1>8, <1>9, <1>10, <1>11 DEF Next

-----------------------------------------------------------------------------
(* The theorems.                                                            *)

\* What is stored or shown is worth the value to be expected, in memory and in
\* the file, whether the entities exist or not.
THEOREM InductiveHolds == Spec => []Inductive
<1> QED BY InductiveInit, InductiveStep, PTL DEF Spec

\* The types of what the entities show and of what Home Assistant stores.
THEOREM RestoreTypes == Spec => []TypeOK
<1>1. Inductive => TypeOK
  BY DEF Inductive
<1> QED BY <1>1, InductiveHolds, PTL

\* A number shows the value last written to it, through lost connections,
\* reloads, restarts and crashes (number.py:57-61).
THEOREM NumbersSurvive == Spec => []NumbersRemember
<1>1. Inductive => NumbersRemember
  BY DEF Inductive, NumbersRemember, Known, Shows
<1> QED BY <1>1, InductiveHolds, PTL

\* No entity comes back with a value older than the one to be expected
\* (switch.py:52-57, select.py:46-51, number.py:57-61).
THEOREM NothingOutdated == Spec => []NeverOutdated
<1>1. Inductive => NeverOutdated
  BY KindOf DEF Inductive, NeverOutdated, Known, Shows
<1> QED BY <1>1, InductiveHolds, PTL

=============================================================================
