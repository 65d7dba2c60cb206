----------------------------- MODULE FrameDecode ----------------------------
(***************************************************************************)
(* How a push or a dump becomes readings (protocol.py decode_ct and the      *)
(* matchers, const.py SENSOR_DEFINITIONS, sensor.py).  The dongle scrambles *)
(* the names of its channels, so every frame is recognised by the shape of   *)
(* its fields.  decode_ct takes one entry of the array after the other; a    *)
(* reading is named by the number of the entry that brought it, 0 for none.  *)
(***************************************************************************)
EXTENDS Naturals, Sequences, FiniteSetsExt

CONSTANT Pushes   \* the ct arrays that may arrive

\* The shape of a field: a number has digits before the point and behind it
\* (none: no point); special is what float() takes beyond plain decimals (nan,
\* 1e5), word what it refuses.
Field ==
  [kind : {"number", "time", "special", "word"}, signed : BOOLEAN,
   whole : Nat, frac : Nat]

\* An entry of ct: no object at all, an object without co, with a co that is not
\* base64, or with a text, split into its fields.
Entry == [kind : {"alien", "empty", "garbled", "text"}, fields : Seq(Field)]

ASSUME PushesOK == Pushes \subseteq Seq(Entry)

-----------------------------------------------------------------------------
(* The regular expressions, and int(), float() and str.isdigit().           *)

Plain(x) == x.kind = "number" /\ ~x.signed

Volt3(x)    == Plain(x) /\ x.whole = 3 /\ x.frac = 1
TwoDotOne(x) == Plain(x) /\ x.whole = 2 /\ x.frac = 1
PvDot(x)    == Plain(x) /\ x.whole >= 4 /\ x.frac = 1
Digits(x)   == Plain(x) /\ x.whole >= 1 /\ x.frac = 0
Int2(x)     == Digits(x) /\ x.whole = 2
Int3(x)     == Digits(x) /\ x.whole = 3
Date6(x)    == Digits(x) /\ x.whole = 6
LongMask(x) == Digits(x) /\ x.whole >= 8
Signed(x)   == x.kind = "number" /\ x.signed /\ x.whole >= 1 /\ x.frac = 0
ToInt(x)    == x.kind = "number" /\ x.whole >= 1 /\ x.frac = 0
ToFloat(x)  == x.kind \in {"number", "special"}

-----------------------------------------------------------------------------
(* The matchers.                                                            *)

MatchEnergy(f) == Len(f) >= 6 /\ Date6(f[1]) /\ f[2].kind = "time"

\* Mutant of MatchPv: the switch is the sixth field, so five cannot do.
MatchPvShort(f) == Len(f) >= 5 /\ Volt3(f[1]) /\ PvDot(f[4])

MatchPv(f) == Len(f) >= 7 /\ Volt3(f[1]) /\ PvDot(f[4])

\* Mutant of MatchLoad: the powers are not looked at.
MatchLoadLoose(f) == Len(f) = 9 /\ Volt3(f[1]) /\ TwoDotOne(f[2])

MatchLoad(f) ==
  /\ Len(f) = 9
  /\ Volt3(f[1]) /\ TwoDotOne(f[2]) /\ Digits(f[3]) /\ Digits(f[4])

MatchGrid(f) == Len(f) = 10 /\ Volt3(f[1]) /\ Signed(f[7])

MatchBattery(f) == Len(f) >= 5 /\ Int2(f[1]) /\ Volt3(f[2])

MatchTemperature(f) ==
  /\ Len(f) >= 8
  /\ \A i \in 1..7 : Int3(f[i])
  /\ LongMask(f[Len(f)])

Order == <<"energy", "pv", "load", "grid", "battery", "temperature">>

Claimants(f) ==
  {m \in {Order[i] : i \in 1..6} :
     \/ m = "energy" /\ MatchEnergy(f)
     \/ m = "pv" /\ MatchPv(f)
     \/ m = "load" /\ MatchLoad(f)
     \/ m = "grid" /\ MatchGrid(f)
     \/ m = "battery" /\ MatchBattery(f)
     \/ m = "temperature" /\ MatchTemperature(f)}

\* Which field each of them makes into which value.
Takes ==
  [energy |-> [energy_today |-> 3, energy_week |-> 4, energy_year |-> 5,
               energy_total |-> 6],
   pv |-> [pv_voltage |-> 1, pv_current |-> 2, pv_power |-> 3,
           solar_charging_switch |-> 6],
   load |-> [output_voltage |-> 1, output_frequency |-> 2,
             output_apparent_power |-> 3, output_active_power |-> 4,
             load_percent |-> 5],
   grid |-> [grid_voltage |-> 1, grid_frequency |-> 2, grid_power |-> 7],
   battery |-> [battery_count_series |-> 1, battery_voltage |-> 2,
                battery_soc |-> 3, battery_charge_current |-> 4,
                battery_discharge_current |-> 5],
   temperature |-> [inverter_temperature |-> 1]]

Keys    == UNION {DOMAIN Takes[Order[i]] : i \in 1..6}
IntKeys == {"pv_power", "output_apparent_power", "output_active_power", "load_percent",
            "grid_power", "battery_count_series", "battery_soc",
            "battery_charge_current", "battery_discharge_current",
            "inverter_temperature"}

\* The switch is taken as it is; None noise is not published.
Converts(k, x) ==
  CASE k = "solar_charging_switch" -> TRUE
    [] k \in IntKeys -> ToInt(x)
    [] OTHER -> ToFloat(x)

\* decode_frame: the first matcher that claims the frame, and what it takes.
Claimant(f) == Order[Min({i \in 1..6 : Order[i] \in Claimants(f)})]

\* A value it takes lies beyond the frame: the matcher raises an IndexError.
Overruns(f) ==
  /\ Claimants(f) # {}
  /\ \E k \in DOMAIN Takes[Claimant(f)] : Takes[Claimant(f)][k] > Len(f)

Decoded(f) ==
  IF Claimants(f) = {} THEN {}
  ELSE LET at == Takes[Claimant(f)] IN {k \in DOMAIN at : Converts(k, f[at[k]])}

\* Mutant of BinarySensorKeys: the name of another integration's key.
BinarySensorKeysRenamed == {"solar_charging"}

SensorKeys ==
  {"output_voltage", "output_frequency", "output_apparent_power",
   "output_active_power", "load_percent", "grid_voltage", "grid_frequency",
   "grid_power", "battery_voltage", "battery_soc", "battery_charge_current",
   "battery_discharge_current", "battery_count_series", "pv_voltage", "pv_current",
   "pv_power", "inverter_temperature", "energy_today", "energy_week",
   "energy_year", "energy_total"}
BinarySensorKeys == {"solar_charging_switch"}

-----------------------------------------------------------------------------
VARIABLES
  ct,         \* the array
  next,       \* the entry the loop comes to
  values,     \* which entry each value is from
  unmatched,  \* the entries reported as not recognised
  outcome,    \* "decoding", "returned", or "raised"
  shown       \* what the entities read, once the state is updated

vars == <<ct, next, values, unmatched, outcome, shown>>

Nothing == [k \in Keys |-> 0]
NothingShown == [k \in SensorKeys \cup BinarySensorKeys |-> 0]

Init ==
  /\ ct \in Pushes
  /\ next = 1
  /\ values = Nothing
  /\ unmatched = {}
  /\ outcome = "decoding"
  /\ shown = NothingShown

TypeOK ==
  /\ ct \in Pushes
  /\ next \in 1..(Len(ct) + 1)
  /\ values \in [Keys -> 0..Len(ct)]
  /\ unmatched \subseteq 1..Len(ct)
  /\ outcome \in {"decoding", "returned", "raised"}
  /\ shown \in [SensorKeys \cup BinarySensorKeys -> 0..Len(ct)]

Loops == outcome = "decoding" /\ next <= Len(ct)

\* entry.get on something that is no object, or a matcher beyond its frame.
Raises(e) == e.kind = "alien" \/ (e.kind = "text" /\ Overruns(e.fields))

\* The keys an entry brings.
Brings(e) == IF e.kind = "text" THEN Decoded(e.fields) ELSE {}

\* Mutant of Merged: the first reading of a push stays.
MergedFirst(e) ==
  [k \in Keys |-> IF k \in Brings(e) /\ values[k] = 0 THEN next ELSE values[k]]

\* values.update(decoded)
Merged(e) == [k \in Keys |-> IF k \in Brings(e) THEN next ELSE values[k]]

\* unmatched.append; an entry without a co is skipped.
Reported(e) ==
  IF e.kind # "empty" /\ Brings(e) = {} THEN unmatched \cup {next} ELSE unmatched

\* Mutant of TakeEntry: what is not recognised ends the loop.
TakeEntryOrStop ==
  /\ Loops
  /\ ~Raises(ct[next])
  /\ values' = Merged(ct[next])
  /\ unmatched' = Reported(ct[next])
  /\ next' = IF Brings(ct[next]) = {} THEN Len(ct) + 1 ELSE next + 1
  /\ UNCHANGED <<ct, outcome, shown>>

\* One round of decode_ct's loop.
TakeEntry ==
  /\ Loops
  /\ ~Raises(ct[next])
  /\ values' = Merged(ct[next])
  /\ unmatched' = Reported(ct[next])
  /\ next' = next + 1
  /\ UNCHANGED <<ct, outcome, shown>>

\* The exception leaves _ingest_telemetry: the state is not updated.
Raise ==
  /\ Loops
  /\ Raises(ct[next])
  /\ outcome' = "raised"
  /\ UNCHANGED <<ct, next, values, unmatched, shown>>

\* The rest of _ingest_telemetry, as far as the entities see it: each reads the
\* key of its definition (native_value, is_on).
Return ==
  /\ outcome = "decoding" /\ next > Len(ct)
  /\ outcome' = "returned"
  /\ shown' =
       [k \in SensorKeys \cup BinarySensorKeys |-> IF k \in Keys THEN values[k] ELSE 0]
  /\ UNCHANGED <<ct, next, values, unmatched>>

Next == TakeEntry \/ Raise \/ Return

Spec == Init /\ [][Next]_vars

-----------------------------------------------------------------------------
(* Properties.                                                              *)

Frames == {ct[i].fields : i \in {j \in 1..Len(ct) : ct[j].kind = "text"}}

\* protocol.py:286: each frame is claimed by one matcher.  The order matters for
\* a single shape only, a PV block of ten fields with a signed seventh: no such
\* block is documented, and no other pair of matchers overlaps.
OneClaimant ==
  \A f \in Frames :
    \/ Cardinality(Claimants(f)) <= 1
    \/ Claimants(f) = {"pv", "grid"} /\ Len(f) = 10

\* No frame, however short or odd, makes its matcher raise, which would lose the
\* whole push: only an entry that is not an object does.
OnlyAliensRaise ==
  outcome = "raised" => \E i \in 1..Len(ct) : ct[i].kind = "alien"

\* After a push, each value is the one of the last frame that has it, whatever
\* unreadable, unknown or half-readable frames lie before, behind or between.
LastReadingWins ==
  outcome = "returned" =>
    \A k \in Keys :
      LET from == {i \in 1..Len(ct) : k \in Brings(ct[i])} IN
        values[k] = IF from = {} THEN 0 ELSE Max(from)

\* What is decoded has an entity to show it: the keys of the matchers are those
\* of the definitions.
ReadingsAreShown ==
  outcome = "returned" =>
    \A k \in Keys : values[k] # 0 => k \in DOMAIN shown /\ shown[k] = values[k]

\* No entry is dropped in silence: what has a co and brings no value is reported,
\* and nothing that brought one is.
NothingUnreported ==
  outcome = "returned" =>
    unmatched = {i \in 1..Len(ct) : ct[i].kind # "empty" /\ Brings(ct[i]) = {}}
=============================================================================
