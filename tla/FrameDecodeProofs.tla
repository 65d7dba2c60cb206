-------------------------- MODULE FrameDecodeProofs -------------------------
(***************************************************************************)
(* Proofs about decode_ct for every frame, of any length and with any fields, *)
(* and every array of entries: which matchers overlap, that none reads       *)
(* beyond its frame, and what the loop makes of the whole array.             *)
(***************************************************************************)
EXTENDS FrameDecode, FiniteSetTheorems, TLAPS

-----------------------------------------------------------------------------
(* One frame.                                                               *)

LEMMA OrderIs ==
  /\ Order[1] = "energy" /\ Order[2] = "pv" /\ Order[3] = "load" /\ Order[4] = "grid"
  /\ Order[5] = "battery" /\ Order[6] = "temperature"
BY DEF Order

LEMMA Disjoint ==
  ASSUME NEW f, NEW m \in Claimants(f), NEW n \in Claimants(f)
  PROVE  m = n \/ ({m, n} = {"pv", "grid"} /\ Len(f) = 10)
<1> USE DEF Claimants, Plain, Digits, Date6, Volt3, Int2, Int3
<1>1. ASSUME MatchEnergy(f)
      PROVE  ~MatchPv(f) /\ ~MatchLoad(f) /\ ~MatchGrid(f) /\ ~MatchBattery(f)
             /\ ~MatchTemperature(f)
  BY <1>1 DEF MatchEnergy, MatchPv, MatchLoad, MatchGrid, MatchBattery, MatchTemperature
<1>2. ASSUME MatchPv(f)
      PROVE  ~MatchLoad(f) /\ ~MatchBattery(f) /\ ~MatchTemperature(f)
  BY <1>2 DEF MatchPv, MatchLoad, MatchBattery, MatchTemperature, PvDot
<1>3. MatchGrid(f) => Len(f) = 10
  BY DEF MatchGrid
<1>4. ASSUME MatchLoad(f)
      PROVE  ~MatchGrid(f) /\ ~MatchBattery(f) /\ ~MatchTemperature(f)
  BY <1>4 DEF MatchLoad, MatchGrid, MatchBattery, MatchTemperature
<1>5. ASSUME MatchGrid(f) PROVE ~MatchBattery(f) /\ ~MatchTemperature(f)
  BY <1>5 DEF MatchGrid, MatchBattery, MatchTemperature
<1>6. ASSUME MatchBattery(f) PROVE ~MatchTemperature(f)
  BY <1>6 DEF MatchBattery, MatchTemperature
<1> QED BY <1>1, <1>2, <1>3, <1>4, <1>5, <1>6

LEMMA ClaimantsAre ==
  ASSUME NEW f
  PROVE  \/ Claimants(f) = {}
         \/ \E m \in Claimants(f) : Claimants(f) = {m}
         \/ Claimants(f) = {"pv", "grid"} /\ Len(f) = 10
<1>1. ASSUME NEW m \in Claimants(f), Claimants(f) # {m}
      PROVE  Claimants(f) = {"pv", "grid"} /\ Len(f) = 10
  <2>1. PICK n \in Claimants(f) : n # m
    BY <1>1
  <2>2. {m, n} = {"pv", "grid"} /\ Len(f) = 10
    BY <2>1, Disjoint
  <2>3. "pv" \in Claimants(f) /\ "grid" \in Claimants(f)
    BY <2>2
  <2>4. ASSUME NEW k \in Claimants(f) PROVE k \in {"pv", "grid"}
    <3>1. k = "pv" \/ {k, "pv"} = {"pv", "grid"}
      BY <2>3, Disjoint
    <3> QED BY <3>1
  <2> QED BY <2>2, <2>3, <2>4
<1> QED BY <1>1

\* The minimum of a set of places in Order.
LEMMA LeastPlace ==
  ASSUME NEW S, S \subseteq 1..6, S # {}
  PROVE  Min(S) \in S
<1>1. \E x \in S : \A y \in S : x <= y
  <2>1. CASE 1 \in S
    BY <2>1
  <2>2. CASE 1 \notin S /\ 2 \in S
    BY <2>2
  <2>3. CASE 1 \notin S /\ 2 \notin S /\ 3 \in S
    BY <2>3
  <2>4. CASE 1 \notin S /\ 2 \notin S /\ 3 \notin S /\ 4 \in S
    BY <2>4
  <2>5. CASE 1 \notin S /\ 2 \notin S /\ 3 \notin S /\ 4 \notin S /\ 5 \in S
    BY <2>5
  <2>6. CASE 1 \notin S /\ 2 \notin S /\ 3 \notin S /\ 4 \notin S /\ 5 \notin S
    <3>1. \A y \in S : y = 6
      BY <2>6
    <3>2. PICK x \in S : TRUE
      OBVIOUS
    <3>3. x = 6 /\ x <= 6
      BY <3>1
    <3> QED BY <3>1, <3>3
  <2> QED BY <2>1, <2>2, <2>3, <2>4, <2>5, <2>6
<1> QED BY <1>1 DEF Min

LEMMA ClaimantClaims ==
  ASSUME NEW f, Claimants(f) # {} PROVE Claimant(f) \in Claimants(f)
<1> DEFINE S == {i \in 1..6 : Order[i] \in Claimants(f)}
<1>1. S # {}
  BY DEF Claimants
<1>2. Min(S) \in S
  BY <1>1, LeastPlace
<1> QED BY <1>2 DEF Claimant

\* Where each matcher finds its values.
LEMMA TakesWithin ==
  /\ \A k \in DOMAIN Takes["energy"] : Takes["energy"][k] \in 1..6
  /\ \A k \in DOMAIN Takes["pv"] : Takes["pv"][k] \in 1..6
  /\ \A k \in DOMAIN Takes["load"] : Takes["load"][k] \in 1..5
  /\ \A k \in DOMAIN Takes["grid"] : Takes["grid"][k] \in 1..7
  /\ \A k \in DOMAIN Takes["battery"] : Takes["battery"][k] \in 1..5
  /\ \A k \in DOMAIN Takes["temperature"] : Takes["temperature"][k] \in 1..1
BY DEF Takes

\* No frame is too short for the matcher that claims it.
LEMMA NoOverrun ==
  ASSUME NEW f \in Seq(Field) PROVE ~Overruns(f)
<1> SUFFICES ASSUME Claimants(f) # {}, NEW k \in DOMAIN Takes[Claimant(f)],
                    Takes[Claimant(f)][k] > Len(f)
             PROVE  FALSE
  BY DEF Overruns
<1>1. Claimant(f) \in Claimants(f) /\ Len(f) \in Nat
  BY ClaimantClaims
<1>2. \/ Claimant(f) = "energy" /\ Len(f) >= 6
      \/ Claimant(f) = "pv" /\ Len(f) >= 7
      \/ Claimant(f) = "load" /\ Len(f) = 9
      \/ Claimant(f) = "grid" /\ Len(f) = 10
      \/ Claimant(f) = "battery" /\ Len(f) >= 5
      \/ Claimant(f) = "temperature" /\ Len(f) >= 8
  BY <1>1 DEF Claimants, MatchEnergy, MatchPv, MatchLoad, MatchGrid, MatchBattery,
              MatchTemperature
<1>3. ASSUME NEW n \in Nat, Takes[Claimant(f)][k] \in 1..n, Len(f) >= n PROVE FALSE
  BY <1>1, <1>3
<1>4. CASE Claimant(f) = "energy" /\ Len(f) >= 6
  BY <1>3, <1>4, TakesWithin
<1>5. CASE Claimant(f) = "pv" /\ Len(f) >= 7
  BY <1>1, <1>3, <1>5, TakesWithin
<1>6. CASE Claimant(f) = "load" /\ Len(f) = 9
  BY <1>3, <1>6, TakesWithin
<1>7. CASE Claimant(f) = "grid" /\ Len(f) = 10
  BY <1>3, <1>7, TakesWithin
<1>8. CASE Claimant(f) = "battery" /\ Len(f) >= 5
  BY <1>3, <1>8, TakesWithin
<1>9. CASE Claimant(f) = "temperature" /\ Len(f) >= 8
  BY <1>1, <1>3, <1>9, TakesWithin
<1> QED BY <1>2, <1>4, <1>5, <1>6, <1>7, <1>8, <1>9

-----------------------------------------------------------------------------
(* The loop.                                                                *)

\* The entries behind the loop that satisfy P, by their numbers.
Bringing(k, n) == {i \in 1..(n - 1) : k \in Brings(ct[i])}

Unknown(n) == {i \in 1..(n - 1) : ct[i].kind # "empty" /\ Brings(ct[i]) = {}}

\* Up to the entry the loop has come to, each value is that of the last entry
\* that brings it, and the unknown ones are reported.
Inductive ==
  /\ TypeOK
  /\ \A k \in Keys :
       IF values[k] = 0 THEN Bringing(k, next) = {}
       ELSE values[k] \in Bringing(k, next)
            /\ \A i \in Bringing(k, next) : i <= values[k]
  /\ unmatched = Unknown(next)
  /\ outcome = "raised" => next <= Len(ct) /\ Raises(ct[next])
  /\ outcome = "returned" =>
       /\ next = Len(ct) + 1
       /\ \A k \in SensorKeys \cup BinarySensorKeys :
            shown[k] = IF k \in Keys THEN values[k] ELSE 0

LEMMA CtLength ==
  ASSUME TypeOK PROVE ct \in Seq(Entry) /\ Len(ct) \in Nat
BY PushesOK DEF TypeOK

LEMMA TypesInit == Init => TypeOK
<1> SUFFICES ASSUME Init PROVE TypeOK
  OBVIOUS
<1>1. ct \in Seq(Entry) /\ Len(ct) \in Nat
  BY PushesOK DEF Init
<1>2. next \in 1..(Len(ct) + 1) /\ unmatched \subseteq 1..Len(ct)
  BY <1>1 DEF Init
<1>3. values \in [Keys -> 0..Len(ct)]
  BY <1>1 DEF Init, Nothing
<1>4. shown \in [SensorKeys \cup BinarySensorKeys -> 0..Len(ct)]
  BY <1>1 DEF Init, NothingShown
<1> QED BY <1>2, <1>3, <1>4 DEF Init, TypeOK

LEMMA InductiveInit == Init => Inductive
<1> SUFFICES ASSUME Init PROVE Inductive
  OBVIOUS
<1>1. \A k \in Keys : values[k] = 0 /\ Bringing(k, next) = {}
  BY DEF Init, Nothing, Bringing
<1>2. unmatched = Unknown(next)
  BY DEF Init, Unknown
<1> QED BY <1>1, <1>2, TypesInit DEF Inductive, Init

LEMMA TypesStep ==
  ASSUME TypeOK, [Next]_vars PROVE TypeOK'
<1>1. Len(ct) \in Nat
  BY CtLength
<1>2. CASE TakeEntry
  <2>1. next \in 1..Len(ct) /\ next' = next + 1 /\ ct' = ct
    BY <1>1, <1>2 DEF TakeEntry, Loops, TypeOK
  <2>2. values' \in [Keys -> 0..Len(ct)]
    BY <1>1, <1>2, <2>1 DEF TakeEntry, Merged, TypeOK
  <2>3. unmatched' \subseteq 1..Len(ct)
    BY <1>2, <2>1 DEF TakeEntry, Reported, TypeOK
  <2>4. next' \in 1..(Len(ct) + 1)
    BY <1>1, <2>1
  <2> QED BY <1>2, <2>1, <2>2, <2>3, <2>4 DEF TakeEntry, TypeOK
<1>3. CASE Raise
  BY <1>3 DEF Raise, TypeOK
<1>4. CASE Return
  <2>1. shown' \in [SensorKeys \cup BinarySensorKeys -> 0..Len(ct)]
    BY <1>1, <1>4 DEF Return, TypeOK
  <2> QED BY <1>4, <2>1 DEF Return, TypeOK
<1>5. CASE UNCHANGED vars
  BY <1>5 DEF vars, TypeOK
<1> QED BY <1>2, <1>3, <1>4, <1>5 DEF Next

LEMMA InductiveStep ==
  ASSUME Inductive, [Next]_vars PROVE Inductive'
<1>1. TypeOK /\ TypeOK'
  BY TypesStep DEF Inductive
<1>2. Len(ct) \in Nat
  BY <1>1, CtLength
<1>3. CASE TakeEntry
  <2>1. next \in 1..Len(ct) /\ next' = next + 1 /\ ct' = ct /\ outcome' = "decoding"
    BY <1>1, <1>2, <1>3 DEF TakeEntry, Loops, TypeOK
  <2>2. 1..(next' - 1) = 1..(next - 1) \cup {next} /\ next \notin 1..(next - 1)
    BY <2>1
  <2>3. ASSUME NEW k \in Keys
        PROVE  IF values'[k] = 0 THEN Bringing(k, next)' = {}
               ELSE values'[k] \in Bringing(k, next)'
                    /\ \A i \in Bringing(k, next)' : i <= values'[k]
    <3>1. Bringing(k, next)' =
            IF k \in Brings(ct[next]) THEN Bringing(k, next) \cup {next} ELSE Bringing(k, next)
      BY <2>1, <2>2 DEF Bringing
    <3>2. values'[k] = IF k \in Brings(ct[next]) THEN next ELSE values[k]
      BY <1>3 DEF TakeEntry, Merged
    <3>3. CASE k \in Brings(ct[next])
      <4>1. \A i \in Bringing(k, next) : i <= next
        BY <2>1 DEF Bringing
      <4> QED BY <2>1, <3>1, <3>2, <3>3, <4>1
    <3>4. CASE k \notin Brings(ct[next])
      BY <3>1, <3>2, <3>4 DEF Inductive
    <3> QED BY <3>3, <3>4
  <2>4. unmatched' = Unknown(next)'
    <3>1. Unknown(next)' =
            IF ct[next].kind # "empty" /\ Brings(ct[next]) = {}
            THEN Unknown(next) \cup {next} ELSE Unknown(next)
      BY <2>1, <2>2 DEF Unknown
    <3> QED BY <1>3, <3>1 DEF TakeEntry, Reported, Inductive
  <2> QED BY <1>1, <2>1, <2>3, <2>4 DEF Inductive
<1>4. CASE Raise
  BY <1>1, <1>4 DEF Raise, Loops, Inductive, Bringing, Unknown
<1>5. CASE Return
  <2>1. next = Len(ct) + 1
    BY <1>1, <1>2, <1>5 DEF Return, TypeOK
  <2>2. \A k \in SensorKeys \cup BinarySensorKeys :
          shown'[k] = IF k \in Keys THEN values[k] ELSE 0
    BY <1>5 DEF Return
  <2> QED BY <1>1, <1>5, <2>1, <2>2 DEF Return, Inductive, Bringing, Unknown
<1>6. CASE UNCHANGED vars
  BY <1>1, <1>6 DEF vars, Inductive, Bringing, Unknown
<1> QED BY <1>3, <1>4, <1>5, <1>6 DEF Next

-----------------------------------------------------------------------------
(* The theorems.                                                            *)

\* The loop keeps, of every key, the last reading up to where it has come.
THEOREM InductiveHolds == Spec => []Inductive
<1> QED BY InductiveInit, InductiveStep, PTL DEF Spec

\* The types of decode_ct's variables and of what the entities read.
THEOREM DecodeTypes == Spec => []TypeOK
<1>1. Inductive => TypeOK
  BY DEF Inductive
<1> QED BY <1>1, InductiveHolds, PTL

\* Whatever frames arrive: the order of _MATCHERS matters for a PV block of ten
\* fields with a signed seventh, and for no other frame (protocol.py:286-294).
THEOREM OneMatcherClaims == Spec => []OneClaimant
<1>1. OneClaimant
  <2> SUFFICES ASSUME NEW f \in Frames
               PROVE  \/ Cardinality(Claimants(f)) <= 1
                      \/ Claimants(f) = {"pv", "grid"} /\ Len(f) = 10
    BY DEF OneClaimant
  <2>1. Claimants(f) = {} => Cardinality(Claimants(f)) = 0
    BY FS_EmptySet
  <2>2. \A m : Claimants(f) = {m} => Cardinality(Claimants(f)) = 1
    BY FS_Singleton
  <2> QED BY <2>1, <2>2, ClaimantsAre
<1> QED BY <1>1, PTL

\* No frame of any length or content raises (protocol.py:208-283, 297-307).
THEOREM FramesNeverRaise == Spec => []OnlyAliensRaise
<1>1. Inductive => OnlyAliensRaise
  <2> SUFFICES ASSUME Inductive, outcome = "raised"
               PROVE  \E i \in 1..Len(ct) : ct[i].kind = "alien"
    BY DEF OnlyAliensRaise
  <2>1. next \in 1..Len(ct) /\ Raises(ct[next])
    BY CtLength DEF Inductive, TypeOK
  <2>2. ct[next] \in Entry
    BY <2>1, CtLength DEF Inductive
  <2>3. ~Overruns(ct[next].fields)
    BY <2>2, NoOverrun DEF Entry
  <2> QED BY <2>1, <2>3 DEF Raises
<1> QED BY <1>1, InductiveHolds, PTL

LEMMA MaxIs ==
  ASSUME NEW S, S \subseteq Nat, NEW m \in S, \A x \in S : x <= m PROVE Max(S) = m
<1>1. \A x \in S : m >= x
  OBVIOUS
<1>2. Max(S) \in S /\ \A x \in S : Max(S) >= x
  BY <1>1 DEF Max
<1>3. Max(S) >= m /\ m >= Max(S) /\ Max(S) \in Nat /\ m \in Nat
  BY <1>1, <1>2
<1> QED BY <1>3

\* After a push of any length, each value is the last one it carried
\* (values.update, protocol.py:330).
THEOREM LastReadingStays == Spec => []LastReadingWins
<1>1. Inductive => LastReadingWins
  <2> SUFFICES ASSUME Inductive, outcome = "returned", NEW k \in Keys,
                      NEW from, from = {i \in 1..Len(ct) : k \in Brings(ct[i])}
               PROVE  values[k] = IF from = {} THEN 0 ELSE Max(from)
    BY DEF LastReadingWins
  <2>1. Len(ct) \in Nat /\ next - 1 = Len(ct)
    BY CtLength DEF Inductive
  <2>2. from = Bringing(k, next) /\ from \subseteq Nat
    BY <2>1 DEF Bringing
  <2>3. CASE values[k] = 0
    <3>1. from = {}
      BY <2>2, <2>3 DEF Inductive
    <3> QED BY <2>3, <3>1
  <2>4. CASE values[k] # 0
    <3>1. values[k] \in from /\ \A i \in from : i <= values[k]
      BY <2>2, <2>4 DEF Inductive
    <3>2. Max(from) = values[k]
      BY <2>2, <3>1, MaxIs
    <3> QED BY <3>1, <3>2
  <2> QED BY <2>3, <2>4
<1> QED BY <1>1, InductiveHolds, PTL

\* The loop reports what it does not recognise, and nothing else
\* (protocol.py:323-327, 331-332).
THEOREM UnknownIsReported == Spec => []NothingUnreported
<1>1. Inductive => NothingUnreported
  <2> SUFFICES ASSUME Inductive, outcome = "returned"
               PROVE  unmatched =
                        {i \in 1..Len(ct) : ct[i].kind # "empty" /\ Brings(ct[i]) = {}}
    BY DEF NothingUnreported
  <2>1. next - 1 = Len(ct)
    BY CtLength DEF Inductive
  <2> QED BY <2>1 DEF Inductive, Unknown
<1> QED BY <1>1, InductiveHolds, PTL

\* The keys of the matchers are those of the definitions (const.py:77-200).
LEMMA KeysAreDefined == Keys \subseteq SensorKeys \cup BinarySensorKeys
<1>1. /\ DOMAIN Takes["energy"] \subseteq SensorKeys
      /\ DOMAIN Takes["pv"] \subseteq SensorKeys \cup BinarySensorKeys
      /\ DOMAIN Takes["load"] \subseteq SensorKeys
      /\ DOMAIN Takes["grid"] \subseteq SensorKeys
      /\ DOMAIN Takes["battery"] \subseteq SensorKeys
      /\ DOMAIN Takes["temperature"] \subseteq SensorKeys
  BY DEF Takes, SensorKeys, BinarySensorKeys
<1>2. \A i \in 1..6 : i = 1 \/ i = 2 \/ i = 3 \/ i = 4 \/ i = 5 \/ i = 6
  OBVIOUS
<1> QED BY <1>1, <1>2, OrderIs DEF Keys

\* Every decoded value has an entity that shows it.
THEOREM DecodedIsShown == Spec => []ReadingsAreShown
<1>1. Inductive => ReadingsAreShown
  BY KeysAreDefined DEF Inductive, TypeOK, ReadingsAreShown
<1> QED BY <1>1, InductiveHolds, PTL

=============================================================================
