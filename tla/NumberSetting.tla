---------------------------- MODULE NumberSetting ----------------------------
(***************************************************************************)
(* A number entity and the value text it writes (number.py                  *)
(* async_set_native_value, protocol.py format_value, const.py               *)
(* NUMBER_SETTING_DEFINITIONS): which numbers reach the inverter, in what   *)
(* field width, and what the entity then displays.                          *)
(*                                                                         *)
(* Values and bounds are counted in thousandths, one digit finer than any   *)
(* text, as no step is enforced.  A value text is the number its digits     *)
(* make without the point: "28.0" is 280 in format "v1".                    *)
(***************************************************************************)
EXTENDS Integers

CONSTANTS
  Definitions,  \* rows of the table: [fmt, min, max, step5]
  Asked,        \* Asked[d]: the values a caller may ask of d
  None

Formats == {"v1", "v2", "i3", "i4"}

\* What the last digit of a format stands for.
Unit(fmt) == CASE fmt = "v1" -> 100
               [] fmt = "v2" -> 10
               [] fmt \in {"i3", "i4"} -> 1000

\* The characters a field of the format has on the wire: 28.0, 28.00, 070, 0000.
FieldWidth(fmt) == CASE fmt = "v1" -> 4
                     [] fmt = "v2" -> 5
                     [] fmt = "i3" -> 3
                     [] fmt = "i4" -> 4

\* What every row of the table satisfies: bounds the format can express.
RowOK(d) ==
  /\ d.fmt \in Formats /\ d.step5 \in BOOLEAN
  /\ d.min \in Nat /\ d.max \in Nat /\ d.min <= d.max
  /\ d.min % Unit(d.fmt) = 0 /\ d.max % Unit(d.fmt) = 0
  /\ d.fmt \in {"v1", "v2"} => 10000 <= d.min /\ d.max < 100000
  /\ d.fmt = "i3" => d.max < 1000000
  /\ d.fmt = "i4" => d.max < 10000000
  /\ d.step5 => d.fmt \in {"i3", "i4"}

ASSUME DefinitionsOK ==
  /\ \A d \in Definitions : RowOK(d)
  /\ Asked \in [Definitions -> SUBSET Int]

VARIABLES
  definition,  \* the row this entity was built from
  shown,       \* _attr_native_value
  stored,      \* the text the inverter took last
  outcome      \* how the last service call ended

vars == <<definition, shown, stored, outcome>>

-----------------------------------------------------------------------------
(* format_value.                                                            *)

\* Mutant of Round: int() alone.
Truncated(v) == v \div 1000

\* round(): to the nearest integer, halves to the even one.
Round(v) ==
  LET lo == v \div 1000
  IN  IF v % 1000 = 500 THEN lo + (lo % 2)
      ELSE IF v % 1000 < 500 THEN lo ELSE lo + 1

\* f"{value:.1f}" and f"{value:.2f}", their last digit worth u: a half may go
\* either way, as the binary value decides.
Fixed(v, u) ==
  LET lo == v \div u
  IN  IF 2 * (v % u) = u THEN {lo, lo + 1}
      ELSE IF 2 * (v % u) < u THEN {lo} ELSE {lo + 1}

\* Mutant of Texts: every field with a point gets two decimals.
TextsInHundredths(fmt, v) ==
  IF fmt \in {"v1", "v2"} THEN Fixed(v, 10) ELSE {Round(v)}

\* The texts that format_value can make of v.
Texts(fmt, v) == CASE fmt \in {"v1", "v2"} -> Fixed(v, Unit(fmt))
                   [] fmt \in {"i3", "i4"} -> {Round(v)}

\* Mutant of OffStep: the value is cut off here, but rounded in the text.
OffStepTruncated(d, v) == d.step5 /\ (v \div 1000) % 5 # 0

\* The check of step5, on the rounded value.
OffStep(d, v) == d.step5 /\ Round(v) % 5 # 0

Digits(n) == IF n < 10 THEN 1 ELSE IF n < 100 THEN 2 ELSE IF n < 1000 THEN 3
             ELSE IF n < 10000 THEN 4 ELSE 5

\* How long the text comes out: the padding of i3 and i4 is a minimum only,
\* and v1 and v2 have no padding at all.
Width(fmt, n) ==
  CASE fmt = "v1" -> (IF Digits(n) < 2 THEN 2 ELSE Digits(n)) + 1
    [] fmt = "v2" -> (IF Digits(n) < 3 THEN 3 ELSE Digits(n)) + 1
    [] fmt = "i3" -> IF Digits(n) < 3 THEN 3 ELSE Digits(n)
    [] fmt = "i4" -> IF Digits(n) < 4 THEN 4 ELSE Digits(n)

-----------------------------------------------------------------------------
TypeOK ==
  /\ definition \in Definitions
  /\ shown \in Nat \cup {None}
  /\ stored \in Nat \cup {None}
  /\ outcome \in {"none", "invalid", "failed", "done"}

Init ==
  /\ definition \in Definitions
  /\ shown = None
  /\ stored = None
  /\ outcome = "none"

\* Mutant of InBounds: the upper bound is not declared.
InBoundsAbove(v) == definition.min <= v

\* Home Assistant checks the bounds, but not the step, before the entity.
InBounds(v) == definition.min <= v /\ v <= definition.max

\* format_value raises before anything is sent.
Invalid(v) ==
  /\ InBounds(v) /\ OffStep(definition, v)
  /\ outcome' = "invalid"
  /\ UNCHANGED <<definition, shown, stored>>

\* The write is acknowledged: the entity takes the value as it was asked.
Written(v) ==
  /\ InBounds(v) /\ ~OffStep(definition, v)
  /\ stored' \in Texts(definition.fmt, v)
  /\ shown' = v
  /\ outcome' = "done"
  /\ UNCHANGED definition

\* The write is rejected or unanswered; then the inverter may have taken it.
Failed(v) ==
  /\ InBounds(v) /\ ~OffStep(definition, v)
  /\ stored' \in {stored} \cup Texts(definition.fmt, v)
  /\ outcome' = "failed"
  /\ UNCHANGED <<definition, shown>>

Next == \E v \in Asked[definition] : Invalid(v) \/ Written(v) \/ Failed(v)

Spec == Init /\ [][Next]_vars

-----------------------------------------------------------------------------
(* Properties.                                                              *)

Value == stored * Unit(definition.fmt)

\* Rounding never carries a value over a bound: what the inverter gets lies
\* between the min and the max of the table.
StoredInRange ==
  stored # None => definition.min <= Value /\ Value <= definition.max

\* Every text written on a channel has the channel's field width, although
\* format_value pads integers only and truncates nothing.
FixedWidth ==
  stored # None => Width(definition.fmt, stored) = FieldWidth(definition.fmt)

\* The firmware refuses SOC thresholds that are no multiple of 5 (const.py:220):
\* none is sent, for values between two integers either.
StepRespected == stored # None /\ definition.step5 => stored % 5 = 0

\* After a successful write the display is within half a digit of the value
\* the inverter holds: it is the value asked for, unrounded (number.py:79).
ShownNearStored ==
  outcome = "done" =>
    /\ 2 * (shown - Value) <= Unit(definition.fmt)
    /\ 2 * (Value - shown) <= Unit(definition.fmt)
=============================================================================
