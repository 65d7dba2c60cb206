------------------------- MODULE NumberSettingProofs -------------------------
(***************************************************************************)
(* What a number entity writes is right for every table whose rows satisfy  *)
(* RowOK and for every value asked, not only for those TLC tries.           *)
(*                                                                         *)
(* StoredInRange and StepRespected are inductive beside the type invariant; *)
(* what they rest on is how rounding behaves at a bound (RoundKeepsBounds,   *)
(* FixedKeepBounds).  FixedWidth follows from StoredInRange and the rows.   *)
(***************************************************************************)
EXTENDS NumberSetting, TLAPS

\* round() never carries a value over a bound that is a whole number.
LEMMA RoundKeepsBounds ==
  ASSUME NEW v \in Int, NEW lo \in Nat, NEW hi \in Nat,
         lo % 1000 = 0, hi % 1000 = 0, lo <= v, v <= hi
  PROVE  /\ Round(v) \in Nat
         /\ lo <= Round(v) * 1000
         /\ Round(v) * 1000 <= hi
  BY DEF Round

\* One decimal never carries a value over a bound that has one decimal, nor do
\* two over a bound that has two.
LEMMA FixedKeepBounds ==
  ASSUME NEW v \in Int, NEW lo \in Nat, NEW hi \in Nat, NEW u \in {10, 100},
         lo % u = 0, hi % u = 0, lo <= v, v <= hi,
         NEW t \in Fixed(v, u)
  PROVE  /\ t \in Nat
         /\ lo <= t * u
         /\ t * u <= hi
  <1>1. CASE u = 10
    BY <1>1 DEF Fixed
  <1>2. CASE u = 100
    BY <1>2 DEF Fixed
  <1> QED BY <1>1, <1>2

\* Whatever text format_value makes of a value within the bounds of a row is
\* within them too.
LEMMA TextsKeepBounds ==
  ASSUME NEW d \in Definitions, NEW v \in Int, d.min <= v, v <= d.max,
         NEW t \in Texts(d.fmt, v)
  PROVE  /\ t \in Nat
         /\ d.min <= t * Unit(d.fmt)
         /\ t * Unit(d.fmt) <= d.max
  <1>1. /\ d.fmt \in Formats /\ d.min \in Nat /\ d.max \in Nat
        /\ d.min % Unit(d.fmt) = 0 /\ d.max % Unit(d.fmt) = 0
    BY DefinitionsOK DEF RowOK
  <1>2. CASE d.fmt \in {"v1", "v2"}
    <2>1. Unit(d.fmt) \in {10, 100} /\ Texts(d.fmt, v) = Fixed(v, Unit(d.fmt))
      BY <1>2 DEF Unit, Texts
    <2> QED BY <1>1, <2>1, FixedKeepBounds
  <1>3. CASE d.fmt \in {"i3", "i4"}
    <2>1. Unit(d.fmt) = 1000 /\ Texts(d.fmt, v) = {Round(v)}
      BY <1>3 DEF Unit, Texts
    <2> QED BY <1>1, <2>1, RoundKeepsBounds
  <1> QED BY <1>1, <1>2, <1>3 DEF Formats

\* The text of a row with step5 is the number that the check looked at.
LEMMA TextsKeepStep ==
  ASSUME NEW d \in Definitions, NEW v \in Int, ~OffStep(d, v), d.step5,
         NEW t \in Texts(d.fmt, v)
  PROVE  t % 5 = 0
  <1>1. d.fmt \in {"i3", "i4"}
    BY DefinitionsOK DEF RowOK
  <1> QED BY <1>1 DEF OffStep, Texts

-----------------------------------------------------------------------------
\* What the inverter holds, if anything, is a text of this row: within its
\* bounds and on its step.  This and the type invariant are inductive.
Sound == TypeOK /\ StoredInRange /\ StepRespected

\* A value that a service call may send leaves the inverter with such a text.
LEMMA SentIsSound ==
  ASSUME Sound, NEW v \in Asked[definition], InBounds(v), ~OffStep(definition, v),
         stored' \in {stored} \cup Texts(definition.fmt, v),
         definition' = definition
  PROVE  /\ stored' \in Nat \cup {None}
         /\ StoredInRange'
         /\ StepRespected'
  <1>1. definition \in Definitions /\ v \in Int /\ stored \in Nat \cup {None}
    BY DefinitionsOK DEF Sound, TypeOK
  <1>2. CASE stored' = stored
    BY <1>1, <1>2 DEF Sound, StoredInRange, StepRespected, Value
  <1>3. CASE stored' \in Texts(definition.fmt, v)
    <2>1. /\ stored' \in Nat
          /\ definition.min <= stored' * Unit(definition.fmt)
          /\ stored' * Unit(definition.fmt) <= definition.max
      BY <1>1, <1>3, TextsKeepBounds DEF InBounds
    <2>2. definition.step5 => stored' % 5 = 0
      BY <1>1, <1>3, TextsKeepStep
    <2> QED BY <2>1, <2>2 DEF StoredInRange, StepRespected, Value
  <1> QED BY <1>2, <1>3

LEMMA SoundStep == Sound /\ [Next]_vars => Sound'
  <1> SUFFICES ASSUME Sound, [Next]_vars PROVE Sound'
    OBVIOUS
  <1>1. ASSUME NEW v \in Asked[definition], Invalid(v) PROVE Sound'
    BY <1>1 DEF Invalid, Sound, TypeOK, StoredInRange, StepRespected, Value
  <1>2. ASSUME NEW v \in Asked[definition], Written(v) PROVE Sound'
    <2>1. definition' = definition /\ v \in Nat
      <3>1. definition \in Definitions /\ v \in Int /\ definition.min \in Nat
        BY DefinitionsOK DEF Sound, TypeOK, RowOK
      <3> QED BY <1>2, <3>1 DEF Written, InBounds
    <2>2. stored' \in Nat \cup {None} /\ StoredInRange' /\ StepRespected'
      BY <1>2, <2>1, SentIsSound DEF Written
    <2> QED BY <1>2, <2>1, <2>2 DEF Written, Sound, TypeOK
  <1>3. ASSUME NEW v \in Asked[definition], Failed(v) PROVE Sound'
    <2>1. stored' \in Nat \cup {None} /\ StoredInRange' /\ StepRespected'
      BY <1>3, SentIsSound DEF Failed
    <2> QED BY <1>3, <2>1 DEF Failed, Sound, TypeOK
  <1>4. CASE UNCHANGED vars
    BY <1>4 DEF vars, Sound, TypeOK, StoredInRange, StepRespected, Value
  <1> QED BY <1>1, <1>2, <1>3, <1>4 DEF Next

\* Every state of every table and every sequence of service calls is sound.
THEOREM SoundAlways == Spec => []Sound
  <1>1. Init => Sound
    BY DEF Init, Sound, TypeOK, StoredInRange, StepRespected
  <1> QED BY <1>1, SoundStep, PTL DEF Spec

\* The types of NumberSetting are right for every table.
THEOREM NumberTypes == Spec => []TypeOK
  <1>1. Sound => TypeOK
    BY DEF Sound
  <1> QED BY <1>1, SoundAlways, PTL

\* No service call makes the inverter hold a value outside the bounds of its
\* row, whatever rounding does to the value asked.
THEOREM NeverOutOfRange == Spec => []StoredInRange
  <1>1. Sound => StoredInRange
    BY DEF Sound
  <1> QED BY <1>1, SoundAlways, PTL

\* No SOC threshold that is not a multiple of 5 is ever sent.
THEOREM NeverOffStep == Spec => []StepRespected
  <1>1. Sound => StepRespected
    BY DEF Sound
  <1> QED BY <1>1, SoundAlways, PTL

\* Every text that is sent fills its channel's field exactly: RowOK bounds the
\* number of its digits, and what is in range has as many.
THEOREM WidthIsFixed == Spec => []FixedWidth
  <1>1. Sound => FixedWidth
    <2> SUFFICES ASSUME Sound, stored # None
                 PROVE  Width(definition.fmt, stored) = FieldWidth(definition.fmt)
      BY DEF FixedWidth
    <2>1. /\ RowOK(definition)
          /\ stored \in Nat
          /\ definition.min <= Value /\ Value <= definition.max
      BY DefinitionsOK DEF Sound, TypeOK, StoredInRange
    <2>2. CASE definition.fmt = "v1"
      <3>1. Unit(definition.fmt) = 100
        BY <2>2 DEF Unit
      <3>2. 100 <= stored /\ stored < 1000
        BY <2>1, <2>2, <3>1 DEF RowOK, Value
      <3>3. Digits(stored) = 3
        BY <2>1, <3>2 DEF Digits
      <3> QED BY <2>2, <3>3 DEF Width, FieldWidth
    <2>3. CASE definition.fmt = "v2"
      <3>1. Unit(definition.fmt) = 10
        BY <2>3 DEF Unit
      <3>2. 1000 <= stored /\ stored < 10000
        BY <2>1, <2>3, <3>1 DEF RowOK, Value
      <3>3. Digits(stored) = 4
        BY <2>1, <3>2 DEF Digits
      <3> QED BY <2>3, <3>3 DEF Width, FieldWidth
    <2>4. CASE definition.fmt = "i3"
      <3>1. Unit(definition.fmt) = 1000
        BY <2>4 DEF Unit
      <3>2. stored < 1000
        BY <2>1, <2>4, <3>1 DEF RowOK, Value
      <3>3. Digits(stored) <= 3 /\ Digits(stored) \in Nat
        BY <2>1, <3>2 DEF Digits
      <3> QED BY <2>4, <3>3 DEF Width, FieldWidth
    <2>5. CASE definition.fmt = "i4"
      <3>1. Unit(definition.fmt) = 1000
        BY <2>5 DEF Unit
      <3>2. stored < 10000
        BY <2>1, <2>5, <3>1 DEF RowOK, Value
      <3>3. Digits(stored) <= 4 /\ Digits(stored) \in Nat
        BY <2>1, <3>2 DEF Digits
      <3> QED BY <2>5, <3>3 DEF Width, FieldWidth
    <2> QED BY <2>1, <2>2, <2>3, <2>4, <2>5 DEF RowOK, Formats
  <1> QED BY <1>1, SoundAlways, PTL

-----------------------------------------------------------------------------
\* A text differs from the value it was made of by half its last digit at most.
LEMMA TextsAreNear ==
  ASSUME NEW d \in Definitions, NEW v \in Int, NEW t \in Texts(d.fmt, v)
  PROVE  /\ 2 * (v - t * Unit(d.fmt)) <= Unit(d.fmt)
         /\ 2 * (t * Unit(d.fmt) - v) <= Unit(d.fmt)
  <1>1. CASE d.fmt = "v1"
    <2>1. Unit(d.fmt) = 100 /\ Texts(d.fmt, v) = Fixed(v, 100)
      BY <1>1 DEF Unit, Texts
    <2> QED BY <2>1 DEF Fixed
  <1>2. CASE d.fmt = "v2"
    <2>1. Unit(d.fmt) = 10 /\ Texts(d.fmt, v) = Fixed(v, 10)
      BY <1>2 DEF Unit, Texts
    <2> QED BY <2>1 DEF Fixed
  <1>3. CASE d.fmt \in {"i3", "i4"}
    <2>1. Unit(d.fmt) = 1000 /\ Texts(d.fmt, v) = {Round(v)}
      BY <1>3 DEF Unit, Texts
    <2> QED BY <2>1 DEF Round
  <1> QED BY <1>1, <1>2, <1>3, DefinitionsOK DEF RowOK, Formats

\* After a successful write the display is never further from the inverter's
\* value than rounding explains, although the value shown is not the one written.
THEOREM ShownStaysNear == Spec => []ShownNearStored
  <1>1. Init => ShownNearStored
    BY DEF Init, ShownNearStored
  <1>2. TypeOK /\ ShownNearStored /\ [Next]_vars => ShownNearStored'
    <2> SUFFICES ASSUME TypeOK, ShownNearStored, [Next]_vars PROVE ShownNearStored'
      OBVIOUS
    <2>1. ASSUME NEW v \in Asked[definition], Written(v) PROVE ShownNearStored'
      <3>1. definition \in Definitions /\ v \in Int
        BY DefinitionsOK DEF TypeOK
      <3>2. stored' \in Texts(definition.fmt, v) /\ shown' = v /\ definition' = definition
        BY <2>1 DEF Written
      <3>3. /\ 2 * (v - stored' * Unit(definition.fmt)) <= Unit(definition.fmt)
            /\ 2 * (stored' * Unit(definition.fmt) - v) <= Unit(definition.fmt)
        BY <3>1, <3>2, TextsAreNear
      <3> QED BY <3>2, <3>3 DEF ShownNearStored, Value
    <2>2. ASSUME NEW v \in Asked[definition], Invalid(v) \/ Failed(v)
          PROVE  ShownNearStored'
      BY <2>2 DEF Invalid, Failed, ShownNearStored
    <2>3. CASE UNCHANGED vars
      BY <2>3 DEF vars, ShownNearStored, Value
    <2> QED BY <2>1, <2>2, <2>3 DEF Next
  <1> QED BY <1>1, <1>2, NumberTypes, PTL DEF Spec
=============================================================================
