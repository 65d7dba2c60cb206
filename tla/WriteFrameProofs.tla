-------------------------- MODULE WriteFrameProofs --------------------------
(***************************************************************************)
(* Theorems about WriteFrame, for commands with any names and values of any *)
(* length: the loops of crc16_xmodem divide, the frame is the multiple that  *)
(* they find, no other two bytes would do, and no damage within 16 bits of a *)
(* frame leaves another one.                                                 *)
(***************************************************************************)
EXTENDS WriteFrame, WellFoundedInduction, SequenceTheorems, TLAPS

-----------------------------------------------------------------------------
(* Polynomials.                                                             *)

\* Membership in a sum is an exclusive or; in a product, of the exponent less n.
LEMMA InPlus ==
  ASSUME NEW p, NEW q, NEW e
  PROVE  e \in Plus(p, q) <=> ((e \in p /\ e \notin q) \/ (e \notin p /\ e \in q))
BY DEF Plus

LEMMA InTimes ==
  ASSUME NEW p \in SUBSET Int, NEW n \in Int, NEW e \in Int
  PROVE  e \in Times(p, n) <=> e - n \in p
<1>1. ASSUME e \in Times(p, n) PROVE e - n \in p
  <2>1. PICK d \in p : e = d + n
    BY <1>1 DEF Times
  <2>2. d \in Int /\ e - n = d
    BY <2>1
  <2> QED BY <2>2
<1>2. ASSUME e - n \in p PROVE e \in Times(p, n)
  <2>1. e = (e - n) + n
    OBVIOUS
  <2> QED BY <1>2, <2>1 DEF Times
<1> QED BY <1>1, <1>2

LEMMA PolynomialTypes ==
  /\ \A p \in SUBSET Int, n \in Int : Times(p, n) \in SUBSET Int
  /\ \A p, q \in SUBSET Int : Plus(p, q) \in SUBSET Int
  /\ \A q \in SUBSET Int : Multiple(q) \in SUBSET Int
<1>1. \A p \in SUBSET Int, n \in Int : Times(p, n) \in SUBSET Int
  BY DEF Times
<1>2. \A p, q \in SUBSET Int : Plus(p, q) \in SUBSET Int
  BY DEF Plus
<1>3. ASSUME NEW q \in SUBSET Int
      PROVE  Multiple(q) \in SUBSET Int
  <2>1. Times(q, 16) \in SUBSET Int /\ Times(q, 12) \in SUBSET Int /\ Times(q, 5) \in SUBSET Int
    BY <1>1
  <2>2. Plus(Times(q, 16), Times(q, 12)) \in SUBSET Int /\ Plus(Times(q, 5), q) \in SUBSET Int
    BY <1>2, <2>1
  <2> QED BY <1>2, <2>2 DEF Multiple
<1> QED BY <1>1, <1>2, <1>3

\* A term of a multiple comes from an odd number of the divisor's four terms.
LEMMA InMultiple ==
  ASSUME NEW q \in SUBSET Int, NEW e \in Int
  PROVE  e \in Multiple(q) <=>
           ~((e - 16 \in q <=> e - 12 \in q) <=> (e - 5 \in q <=> e \in q))
<1>1. /\ e \in Times(q, 16) <=> e - 16 \in q
      /\ e \in Times(q, 12) <=> e - 12 \in q
      /\ e \in Times(q, 5) <=> e - 5 \in q
  BY InTimes
<1> QED BY <1>1, InPlus DEF Multiple

\* Addition of multiples is addition of what they are multiples of.
LEMMA MultipleOfSum ==
  ASSUME NEW p \in SUBSET Int, NEW q \in SUBSET Int
  PROVE  Multiple(Plus(p, q)) = Plus(Multiple(p), Multiple(q))
<1>1. Plus(p, q) \in SUBSET Int
  BY PolynomialTypes
<1>2. ASSUME NEW e \in Int
      PROVE  e \in Multiple(Plus(p, q)) <=> e \in Plus(Multiple(p), Multiple(q))
  <2>1. /\ e - 16 \in Plus(p, q) <=> ~(e - 16 \in p <=> e - 16 \in q)
        /\ e - 12 \in Plus(p, q) <=> ~(e - 12 \in p <=> e - 12 \in q)
        /\ e - 5 \in Plus(p, q) <=> ~(e - 5 \in p <=> e - 5 \in q)
        /\ e \in Plus(p, q) <=> ~(e \in p <=> e \in q)
    BY InPlus
  <2>2. e \in Plus(Multiple(p), Multiple(q)) <=> ~(e \in Multiple(p) <=> e \in Multiple(q))
    BY InPlus
  <2> QED BY <1>1, <2>1, <2>2, InMultiple
<1> QED BY <1>1, <1>2, PolynomialTypes

-----------------------------------------------------------------------------
(* The inductive invariant.                                                 *)

\* The text of the command, and what the outer loop has taken of it, at the powers
\* that these bytes have in the frame.
Size == Len(Text(command))
TermsOf(i) == Times(Text(command)[i], 8 * (Size - i) + 16)
Absorbed == UNION {TermsOf(i) : i \in 1..taken}

\* The invariant of the division: what was taken is a multiple of the divisor and
\* the checksum so far, at the power to which the shifts to come raise it.
Inductive ==
  /\ command \in Sendable
  /\ taken \in 0..Size
  /\ rounds \in 0..8
  /\ rounds > 0 => taken > 0
  /\ crc \in Register
  /\ quotient \in SUBSET (ShiftsLeft..(8 * Size - 1))
  /\ Multiple(quotient) = Plus(Absorbed, Times(crc, ShiftsLeft))

LEMMA TextTypes ==
  ASSUME NEW c \in Sendable
  PROVE  /\ c.channel \in Seq(Byte) /\ c.value \in Seq(Byte) /\ Text(c) \in Seq(Byte)
         /\ Len(c.channel) \in Nat /\ Len(c.value) \in Nat
         /\ Len(Text(c)) = Len(c.channel) + Len(c.value)
         /\ \A i \in 1..Len(Text(c)) :
              Text(c)[i] = IF i <= Len(c.channel) THEN c.channel[i]
                           ELSE c.value[i - Len(c.channel)]
BY SendableOK, ConcatProperties, LenProperties DEF Text

LEMMA BytesOfText ==
  ASSUME NEW c \in Sendable
  PROVE  Len(Text(c)) \in Nat /\ \A i \in 1..Len(Text(c)) : Text(c)[i] \in Byte
BY TextTypes, ElementOfSeq, LenProperties

\* Each byte of the text has eight powers of its own, above those of the checksum.
LEMMA TermsApart ==
  ASSUME command \in Sendable, NEW i \in 1..Size
  PROVE  TermsOf(i) \in SUBSET ((8 * (Size - i) + 16)..(8 * (Size - i) + 23))
<1>1. Size \in Nat /\ Text(command)[i] \in SUBSET (0..7)
  BY BytesOfText DEF Size, Byte
<1>2. ASSUME NEW e \in TermsOf(i)
      PROVE  e \in (8 * (Size - i) + 16)..(8 * (Size - i) + 23)
  <2>1. PICK d \in Text(command)[i] : e = d + (8 * (Size - i) + 16)
    BY DEF TermsOf, Times
  <2>2. d \in 0..7
    BY <1>1
  <2> QED BY <1>1, <2>1, <2>2
<1> QED BY <1>2

LEMMA AbsorbedTerms ==
  ASSUME command \in Sendable, taken \in 0..Size
  PROVE  \A e \in Absorbed : e \in Int /\ e >= 8 * (Size - taken) + 16
<1> SUFFICES ASSUME NEW e \in Absorbed
             PROVE  e \in Int /\ e >= 8 * (Size - taken) + 16
  OBVIOUS
<1>1. PICK i \in 1..taken : e \in TermsOf(i)
  BY DEF Absorbed
<1>2. Size \in Nat
  BY BytesOfText DEF Size
<1>3. i \in 1..Size
  BY <1>2
<1>4. e \in (8 * (Size - i) + 16)..(8 * (Size - i) + 23)
  BY <1>1, <1>3, TermsApart
<1> QED BY <1>2, <1>3, <1>4

\* The first state of every command.
LEMMA StartHolds ==
  ASSUME command \in Sendable, taken = 0, rounds = 0, crc = {}, quotient = {}
  PROVE  Inductive
<1>1. Size \in Nat
  BY BytesOfText DEF Size
<1>2. Absorbed = {}
  BY DEF Absorbed
<1>3. Times({}, ShiftsLeft) = {} /\ Multiple({}) = {} /\ Plus({}, {}) = {}
  BY DEF Times, Multiple, Plus
<1> QED BY <1>1, <1>2, <1>3 DEF Inductive, Register

\* A byte is added to the checksum at the power that it has in the frame, and so
\* changes nothing of the sum.
LEMMA TakeByteKeeps ==
  ASSUME Inductive, TakeByte
  PROVE  Inductive'
<1> DEFINE R    == ShiftsLeft
           byte == Text(command)[taken + 1]
           added == TermsOf(taken + 1)
<1>1. /\ Size \in Nat /\ Size' = Size /\ taken \in 0..(Size - 1) /\ taken' = taken + 1
      /\ rounds = 0 /\ rounds' = 8 /\ command' = command /\ quotient' = quotient
      /\ crc' = Plus(crc, Times(byte, 8)) /\ taken + 1 \in 1..Size
  BY BytesOfText DEF Inductive, TakeByte, Size, XorByte
<1>2. R = 8 * (Size - taken) /\ R \in Nat /\ R' = R
  BY <1>1 DEF ShiftsLeft, Size
<1>3. byte \in SUBSET (0..7) /\ crc \in SUBSET (0..15)
  BY <1>1, BytesOfText DEF Inductive, Byte, Size, Register
<1>4. crc' \in SUBSET (0..15)
  <2>1. ASSUME NEW d \in byte PROVE d + 8 \in 0..15
    BY <1>3
  <2>2. Times(byte, 8) \in SUBSET (0..15)
    BY <2>1 DEF Times
  <2> HIDE DEF byte
  <2> QED BY <1>1, <1>3, <2>2 DEF Plus
<1>5. Absorbed' = Absorbed \cup added
  <2>1. \A i \in 1..(taken + 1) : TermsOf(i)' = TermsOf(i)
    BY <1>1 DEF TermsOf, Size
  <2>2. 1..(taken + 1) = 1..taken \cup {taken + 1}
    BY <1>1
  <2>3. Absorbed' = UNION {TermsOf(i) : i \in 1..(taken + 1)}
    BY <1>1, <2>1 DEF Absorbed
  <2> QED BY <2>2, <2>3 DEF Absorbed
<1>6. \A e \in Absorbed : e \in Int /\ e >= R + 16
  BY <1>1, <1>2, AbsorbedTerms DEF Inductive
<1>7. added \in SUBSET ((R + 8)..(R + 15))
  BY <1>1, <1>2, TermsApart DEF Inductive
<1>8. ASSUME NEW e \in Int
      PROVE  e \in added <=> (e - R) - 8 \in byte
  <2>1. 8 * (Size - (taken + 1)) + 16 = R + 8 /\ R + 8 \in Int
    BY <1>1, <1>2
  <2>2. added = Times(byte, R + 8)
    BY <2>1 DEF TermsOf
  <2>3. e \in Times(byte, R + 8) <=> e - (R + 8) \in byte
    BY <1>3, <2>1, InTimes
  <2> QED BY <1>2, <2>2, <2>3
<1>9. ASSUME NEW e \in Int
      PROVE  e \in Times(crc', R) <=> ~(e - R \in crc <=> e \in added)
  <2>1. e - R \in Int /\ crc' \in SUBSET Int /\ byte \in SUBSET Int
    BY <1>2, <1>3, <1>4
  <2>2. e \in Times(crc', R) <=> e - R \in crc'
    BY <1>2, <2>1, InTimes
  <2>3. e - R \in Times(byte, 8) <=> (e - R) - 8 \in byte
    BY <2>1, InTimes
  <2>4. e - R \in crc' <=> ~(e - R \in crc <=> e - R \in Times(byte, 8))
    BY <1>1, InPlus
  <2> QED BY <1>8, <2>2, <2>3, <2>4
<1>10. Plus(Absorbed', Times(crc', R)) = Plus(Absorbed, Times(crc, R))
  <2>1. /\ Plus(Absorbed', Times(crc', R)) \in SUBSET Int
        /\ Plus(Absorbed, Times(crc, R)) \in SUBSET Int
    <3>1. /\ Absorbed \in SUBSET Int /\ Absorbed' \in SUBSET Int
          /\ Times(crc, R) \in SUBSET Int /\ Times(crc', R) \in SUBSET Int
      <4>1. crc \in SUBSET Int /\ crc' \in SUBSET Int /\ R \in Int
        BY <1>2, <1>3, <1>4
      <4>2. added \in SUBSET Int
        BY <1>2, <1>7
      <4> HIDE DEF R, added
      <4>3. Absorbed \in SUBSET Int /\ Absorbed' \in SUBSET Int
        BY <1>5, <1>6, <4>2
      <4> QED BY <4>1, <4>3, PolynomialTypes
    <3> HIDE DEF R
    <3> QED BY <3>1, PolynomialTypes
  <2>2. ASSUME NEW e \in Int
        PROVE  e \in Plus(Absorbed', Times(crc', R)) <=> e \in Plus(Absorbed, Times(crc, R))
    <3>1. e \in Times(crc, R) <=> e - R \in crc
      BY <1>2, <1>3, InTimes
    <3>2. e \in Absorbed' <=> (e \in Absorbed \/ e \in added)
      BY <1>5
    <3>3. ~(e \in Absorbed /\ e \in added)
      BY <1>2, <1>6, <1>7
    <3>4. /\ e \in Plus(Absorbed', Times(crc', R)) <=> ~(e \in Absorbed' <=> e \in Times(crc', R))
          /\ e \in Plus(Absorbed, Times(crc, R)) <=> ~(e \in Absorbed <=> e \in Times(crc, R))
      BY InPlus
    <3> HIDE DEF R, added, byte
    <3> QED BY <1>9, <3>1, <3>2, <3>3, <3>4
  <2> HIDE DEF R, added, byte
  <2> QED BY <2>1, <2>2
<1>11. Multiple(quotient)' = Plus(Absorbed', Times(crc', R'))
  BY <1>1, <1>2, <1>10 DEF Inductive
<1>12. quotient' \in SUBSET (R'..(8 * Size' - 1))
  BY <1>1, <1>2 DEF Inductive
<1> HIDE DEF R
<1>13. /\ command' \in Sendable /\ taken' \in 0..Size' /\ rounds' \in 0..8
       /\ rounds' > 0 => taken' > 0
  BY <1>1 DEF Inductive
<1> QED BY <1>4, <1>11, <1>12, <1>13 DEF Inductive, Register, R

\* What one round does to the checksum, which keeps to its 16 bits: the bit that is
\* shifted out is the term x^16 of the divisor.
LEMMA ShiftOnceBits ==
  ASSUME NEW c \in Register
  PROVE  /\ ShiftOnce(c) \in Register
         /\ \A d \in Int :
              IF 15 \in c
              THEN d \in ShiftOnce(c) <=> ~(d - 1 \in c <=> d \in {16, 12, 5, 0})
              ELSE d \in ShiftOnce(c) <=> d - 1 \in c
<1>1. c \in SUBSET (0..15) /\ c \in SUBSET Int
  BY DEF Register
<1>2. ASSUME NEW d \in Int
      PROVE  IF 15 \in c
             THEN d \in ShiftOnce(c) <=> ~(d - 1 \in c <=> d \in {16, 12, 5, 0})
             ELSE d \in ShiftOnce(c) <=> d - 1 \in c
  <2>1. d \in Times(c, 1) <=> d - 1 \in c
    BY <1>1, InTimes
  <2>2. d - 1 \in c => d \in 1..16
    BY <1>1
  <2>3. CASE 15 \in c
    <3>1. d \in ShiftOnce(c) <=> ~(d \in Times(c, 1) <=> d \in {12, 5, 0}) /\ d \in 0..15
      BY <2>3, InPlus DEF ShiftOnce
    <3>2. d = 16 => d - 1 \in c
      BY <2>3
    <3> QED BY <2>1, <2>2, <2>3, <3>1, <3>2
  <2>4. CASE 15 \notin c
    <3>1. d \in ShiftOnce(c) <=> d \in Times(c, 1) /\ d \in 0..15
      BY <2>4, InPlus DEF ShiftOnce
    <3>2. d - 1 \in c => d \in 0..15
      <4>1. d - 1 \in c => d - 1 \in 0..15 /\ d - 1 # 15
        BY <1>1, <2>4
      <4> QED BY <4>1
    <3> QED BY <2>1, <2>4, <3>1, <3>2
  <2> QED BY <2>3, <2>4
<1> QED BY <1>2 DEF ShiftOnce, Register

\* A round that shifts a one out adds a term to the quotient, and the divisor at that
\* power to the sum.
LEMMA ShiftKeeps ==
  ASSUME Inductive, Shift
  PROVE  Inductive'
<1> DEFINE R == ShiftsLeft
<1>1. /\ Size \in Nat /\ Size' = Size /\ taken' = taken /\ command' = command
      /\ taken \in 1..Size /\ rounds \in 1..8 /\ rounds' = rounds - 1
      /\ crc \in Register /\ crc' = ShiftOnce(crc)
      /\ quotient' = IF 15 \in crc THEN quotient \cup {R - 1} ELSE quotient
  BY BytesOfText DEF Inductive, Shift, Size
<1>2. R \in 1..(8 * Size) /\ R' = R - 1
  <2>1. R = 8 * (Size - taken) + rounds /\ R' = 8 * (Size - taken) + (rounds - 1)
    BY <1>1 DEF ShiftsLeft, Size
  <2>2. Size - taken \in 0..(Size - 1)
    BY <1>1
  <2> QED BY <1>1, <2>1, <2>2
<1>3. Absorbed' = Absorbed
  BY <1>1 DEF Absorbed, TermsOf, Size
<1>4. crc' \in Register
  BY <1>1, ShiftOnceBits
<1>5. quotient \in SUBSET (R..(8 * Size - 1)) /\ quotient' \in SUBSET ((R - 1)..(8 * Size - 1))
  BY <1>1, <1>2 DEF Inductive
<1>6. crc \in SUBSET Int /\ crc' \in SUBSET Int /\ R \in Int /\ R - 1 \in Int
  BY <1>1, <1>2, <1>4 DEF Register
<1>7. quotient \in SUBSET Int /\ quotient' \in SUBSET Int /\ Absorbed \in SUBSET Int
  BY <1>1, <1>2, <1>5, AbsorbedTerms DEF Inductive
<1> HIDE DEF R
<1>8. ASSUME NEW e \in Int
      PROVE  IF 15 \in crc
             THEN e \in Times(crc', R - 1) <=>
                    ~(e \in Times(crc, R) <=> e - (R - 1) \in {16, 12, 5, 0})
             ELSE e \in Times(crc', R - 1) <=> e \in Times(crc, R)
  <2>1. e - (R - 1) \in Int /\ (e - (R - 1)) - 1 = e - R
    BY <1>2
  <2>2. e \in Times(crc', R - 1) <=> e - (R - 1) \in crc'
    BY <1>6, InTimes
  <2>3. e \in Times(crc, R) <=> e - R \in crc
    BY <1>6, InTimes
  <2>4. IF 15 \in crc
        THEN e - (R - 1) \in crc' <=>
               ~((e - (R - 1)) - 1 \in crc <=> e - (R - 1) \in {16, 12, 5, 0})
        ELSE e - (R - 1) \in crc' <=> (e - (R - 1)) - 1 \in crc
    BY <1>1, <2>1, ShiftOnceBits
  <2> QED BY <2>1, <2>2, <2>3, <2>4
<1>9. ASSUME NEW e \in Int
      PROVE  IF 15 \in crc
             THEN e \in Multiple(quotient') <=>
                    ~(e \in Multiple(quotient) <=> e - (R - 1) \in {16, 12, 5, 0})
             ELSE e \in Multiple(quotient') <=> e \in Multiple(quotient)
  <2>1. CASE 15 \notin crc
    BY <1>1, <2>1 DEF R
  <2>2. CASE 15 \in crc
    <3>1. R - 1 \notin quotient
      BY <1>2, <1>5
    <3>2. quotient' = quotient \cup {R - 1}
      BY <1>1, <2>2 DEF R
    <3>3. ASSUME NEW k \in {16, 12, 5, 0}
          PROVE  e - k \in quotient' <=> ~(e - k \in quotient <=> e - (R - 1) = k)
      <4>1. e - k = R - 1 <=> e - (R - 1) = k
        BY <1>6
      <4> QED BY <3>1, <3>2, <4>1
    <3>4. e - 0 = e
      OBVIOUS
    <3>5. /\ e - 16 \in quotient' <=> ~(e - 16 \in quotient <=> e - (R - 1) = 16)
          /\ e - 12 \in quotient' <=> ~(e - 12 \in quotient <=> e - (R - 1) = 12)
          /\ e - 5 \in quotient' <=> ~(e - 5 \in quotient <=> e - (R - 1) = 5)
          /\ e \in quotient' <=> ~(e \in quotient <=> e - (R - 1) = 0)
      BY <3>3, <3>4
    <3>6. e \in Multiple(quotient) <=>
            ~((e - 16 \in quotient <=> e - 12 \in quotient) <=> (e - 5 \in quotient <=> e \in quotient))
      BY <1>7, InMultiple
    <3>7. e \in Multiple(quotient') <=>
            ~((e - 16 \in quotient' <=> e - 12 \in quotient') <=> (e - 5 \in quotient' <=> e \in quotient'))
      BY <1>7, InMultiple
    <3> QED BY <1>6, <2>2, <3>5, <3>6, <3>7
  <2> QED BY <2>1, <2>2
<1>10. Multiple(quotient') = Plus(Absorbed, Times(crc', R - 1))
  <2>1. /\ Multiple(quotient') \in SUBSET Int
        /\ Plus(Absorbed, Times(crc', R - 1)) \in SUBSET Int
    <3>1. Times(crc', R - 1) \in SUBSET Int /\ Multiple(quotient') \in SUBSET Int
      BY <1>6, <1>7, PolynomialTypes
    <3> QED BY <1>7, <3>1, PolynomialTypes
  <2>2. Multiple(quotient) = Plus(Absorbed, Times(crc, R))
    BY DEF Inductive, R
  <2>3. ASSUME NEW e \in Int
        PROVE  e \in Multiple(quotient') <=> e \in Plus(Absorbed, Times(crc', R - 1))
    <3>1. e \in Plus(Absorbed, Times(crc, R)) <=> ~(e \in Absorbed <=> e \in Times(crc, R))
      BY InPlus
    <3>2. e \in Plus(Absorbed, Times(crc', R - 1)) <=>
            ~(e \in Absorbed <=> e \in Times(crc', R - 1))
      BY InPlus
    <3> QED BY <1>8, <1>9, <2>2, <3>1, <3>2
  <2> QED BY <2>1, <2>3
<1>11. Multiple(quotient)' = Plus(Absorbed, Times(crc, ShiftsLeft))'
  BY <1>2, <1>3, <1>10 DEF R
<1>12. quotient' \in SUBSET (ShiftsLeft'..(8 * Size' - 1))
  BY <1>1, <1>2, <1>5 DEF R
<1>13. /\ command' \in Sendable /\ taken' \in 0..Size' /\ rounds' \in 0..8
       /\ rounds' > 0 => taken' > 0
  BY <1>1 DEF Inductive
<1> QED BY <1>4, <1>11, <1>12, <1>13 DEF Inductive

LEMMA InductiveInit == Init => Inductive
BY StartHolds DEF Init

LEMMA InductiveNext == Inductive /\ [Next]_vars => Inductive'
<1> SUFFICES ASSUME Inductive, [Next]_vars
             PROVE  Inductive'
  OBVIOUS
<1>1. CASE TakeByte
  BY <1>1, TakeByteKeeps
<1>2. CASE Shift
  BY <1>2, ShiftKeeps
<1>3. ASSUME NEW c \in Sendable, Send(c)
      PROVE  Inductive'
  <2>1. command' \in Sendable /\ taken' = 0 /\ rounds' = 0 /\ crc' = {} /\ quotient' = {}
    BY <1>3 DEF Send, Start
  <2>2. Size' \in Nat
    BY <2>1, BytesOfText DEF Size
  <2>3. Absorbed' = {}
    BY <2>1 DEF Absorbed
  <2>4. Times({}, ShiftsLeft') = {} /\ Multiple({}) = {} /\ Plus({}, {}) = {}
    BY DEF Times, Multiple, Plus
  <2> QED BY <2>1, <2>2, <2>3, <2>4 DEF Inductive, Register
<1>4. CASE UNCHANGED vars
  BY <1>4 DEF vars, Inductive, Size, ShiftsLeft, Absorbed, TermsOf
<1> QED BY <1>1, <1>2, <1>3, <1>4 DEF Next

\* In every reachable state what was taken of the text is a multiple of the divisor
\* and the checksum so far, and every variable has its type.
THEOREM DivisionHolds == Spec => []Inductive
BY InductiveInit, InductiveNext, PTL DEF Spec

-----------------------------------------------------------------------------
(* The frame.                                                               *)

\* The terms of a text in its frame.
TextTerms(c) ==
  UNION {Times(Text(c)[i], 8 * (Len(Text(c)) - i) + 16) : i \in 1..Len(Text(c))}

\* Two bytes as the 16 bits that they are.
TwoBytes(high, low) == Times(high, 8) \cup low

LEMMA TextTermsAbove ==
  ASSUME NEW c \in Sendable
  PROVE  \A e \in TextTerms(c) : e \in Int /\ e >= 16
<1> SUFFICES ASSUME NEW e \in TextTerms(c) PROVE e \in Int /\ e >= 16
  OBVIOUS
<1>1. PICK i \in 1..Len(Text(c)) : e \in Times(Text(c)[i], 8 * (Len(Text(c)) - i) + 16)
  BY DEF TextTerms
<1>2. Len(Text(c)) \in Nat /\ Text(c)[i] \in SUBSET (0..7)
  BY BytesOfText DEF Byte
<1>3. PICK d \in Text(c)[i] : e = d + (8 * (Len(Text(c)) - i) + 16)
  BY <1>1 DEF Times
<1>4. d \in 0..7
  BY <1>2
<1> QED BY <1>2, <1>3, <1>4

LEMMA TwoBytesTypes ==
  ASSUME NEW high \in Byte, NEW low \in Byte
  PROVE  /\ TwoBytes(high, low) \in Register
         /\ \A d \in 0..7 : d \in TwoBytes(high, low) <=> d \in low
         /\ \A d \in 0..7 : d + 8 \in TwoBytes(high, low) <=> d \in high
<1>1. high \in SUBSET (0..7) /\ low \in SUBSET (0..7) /\ high \in SUBSET Int
  BY DEF Byte
<1>2. \A e \in Int : e \in Times(high, 8) <=> e - 8 \in high
  BY <1>1, InTimes
<1>3. Times(high, 8) \in SUBSET (8..15)
  <2>1. ASSUME NEW d \in high PROVE d + 8 \in 8..15
    BY <1>1
  <2> QED BY <2>1 DEF Times
<1>4. TwoBytes(high, low) \in Register
  <2>1. 8..15 \in SUBSET (0..15) /\ 0..7 \in SUBSET (0..15)
    OBVIOUS
  <2> QED BY <1>1, <1>3, <2>1, Zenon DEF TwoBytes, Register
<1>5. ASSUME NEW d \in 0..7
      PROVE  /\ d \in TwoBytes(high, low) <=> d \in low
             /\ d + 8 \in TwoBytes(high, low) <=> d \in high
  <2>1. d + 8 \in Int /\ (d + 8) - 8 = d /\ d \notin 8..15 /\ d + 8 \notin 0..7
    OBVIOUS
  <2> QED BY <1>1, <1>2, <1>3, <2>1 DEF TwoBytes
<1> QED BY <1>4, <1>5

\* A text with two bytes behind it.
LEMMA PolynomialOfFrame ==
  ASSUME NEW c \in Sendable, NEW high \in Byte, NEW low \in Byte
  PROVE  /\ Polynomial(Text(c) \o <<high, low>>) = TextTerms(c) \cup TwoBytes(high, low)
         /\ Polynomial(Text(c) \o <<high, low>>) = Plus(TextTerms(c), TwoBytes(high, low))
<1> DEFINE text  == Text(c)
           n     == Len(text)
           frame == text \o <<high, low>>
           Term(i) == Times(frame[i], 8 * (n + 2 - i))
<1>1. n \in Nat /\ text \in Seq(Byte) /\ <<high, low>> \in Seq(Byte) /\ Len(<<high, low>>) = 2
  <2>1. <<high, low>> \in Seq(Byte) /\ Len(<<high, low>>) = 2
    OBVIOUS
  <2> QED BY <2>1, TextTypes, BytesOfText, Zenon
<1>2. /\ Len(frame) = n + 2
      /\ \A i \in 1..(n + 2) :
           frame[i] = IF i <= n THEN text[i] ELSE <<high, low>>[i - n]
  <2> HIDE DEF text
  <2> QED BY <1>1, ConcatProperties
<1>3. Polynomial(frame) = UNION {Term(i) : i \in 1..(n + 2)}
  BY <1>2 DEF Polynomial
<1>4. 1..(n + 2) = 1..n \cup {n + 1, n + 2}
  BY <1>1
<1>5. \A i \in 1..n : Term(i) = Times(text[i], 8 * (n - i) + 16)
  <2> SUFFICES ASSUME NEW i \in 1..n PROVE Term(i) = Times(text[i], 8 * (n - i) + 16)
    OBVIOUS
  <2>1. 8 * (n + 2 - i) = 8 * (n - i) + 16 /\ i <= n /\ i \in 1..(n + 2)
    BY <1>1
  <2> QED BY <1>2, <2>1
<1>6. Term(n + 1) = Times(high, 8) /\ Term(n + 2) = low
  <2>1. /\ n + 1 \in 1..(n + 2) /\ ~(n + 1 <= n) /\ (n + 1) - n = 1
        /\ n + 2 \in 1..(n + 2) /\ ~(n + 2 <= n) /\ (n + 2) - n = 2
        /\ 8 * (n + 2 - (n + 1)) = 8 /\ 8 * (n + 2 - (n + 2)) = 0
    BY <1>1
  <2>2. frame[n + 1] = high /\ frame[n + 2] = low
    BY <1>2, <2>1
  <2>3. Times(low, 0) = low
    <3>1. \A e \in low : e + 0 = e
      BY DEF Byte
    <3> QED BY <3>1 DEF Times
  <2> QED BY <2>1, <2>2, <2>3
<1>7. TextTerms(c) = UNION {Term(i) : i \in 1..n}
  BY <1>5 DEF TextTerms
<1> HIDE DEF Term
<1>8. Polynomial(frame) = TextTerms(c) \cup TwoBytes(high, low)
  BY <1>3, <1>4, <1>6, <1>7 DEF TwoBytes
<1>9. TextTerms(c) \cap TwoBytes(high, low) = {}
  <2>1. \A e \in TwoBytes(high, low) : e \in 0..15
    BY TwoBytesTypes DEF Register
  <2> QED BY <2>1, TextTermsAbove
<1> QED BY <1>8, <1>9 DEF Plus

LEMMA HighAndLow ==
  ASSUME NEW c \in Register
  PROVE  High(c) \in Byte /\ Low(c) \in Byte /\ TwoBytes(High(c), Low(c)) = c
<1>1. High(c) \in Byte /\ Low(c) \in Byte
  BY DEF High, Low, Byte
<1> DEFINE both == TwoBytes(High(c), Low(c))
<1>2. both \in SUBSET (0..15) /\ c \in SUBSET (0..15)
  BY <1>1, TwoBytesTypes DEF Register
<1>3. \A d \in 0..7 : d \in both <=> d \in c
  BY <1>1, TwoBytesTypes DEF Low
<1>4. \A d \in 0..7 : d + 8 \in both <=> d + 8 \in c
  BY <1>1, TwoBytesTypes DEF High
<1> HIDE DEF both
<1>5. ASSUME NEW e \in 0..15
      PROVE  e \in both <=> e \in c
  <2>1. CASE e \in 0..7
    BY <1>3, <2>1
  <2>2. CASE e \notin 0..7
    <3>1. e - 8 \in 0..7 /\ (e - 8) + 8 = e
      BY <2>2
    <3> QED BY <1>4, <3>1
  <2> QED BY <2>1, <2>2
<1>6. both = c
  BY <1>2, <1>5
<1> QED BY <1>1, <1>6 DEF both

\* At the end of the loops.
LEMMA DoneDivides ==
  ASSUME Inductive, Done
  PROVE  /\ crc \in Register /\ command \in Sendable
         /\ quotient \in SUBSET (0..(8 * Size - 1)) /\ Size \in Nat
         /\ Multiple(quotient) = Plus(TextTerms(command), crc)
         /\ Multiple(quotient) = Polynomial(Frame)
<1>1. /\ crc \in Register /\ command \in Sendable /\ Size \in Nat
      /\ ShiftsLeft = 0 /\ taken = Size
  BY BytesOfText DEF Inductive, Done, ShiftsLeft, Size
<1>2. Times(crc, 0) = crc
  <2>1. \A e \in crc : e + 0 = e
    BY <1>1 DEF Register
  <2> QED BY <2>1 DEF Times
<1>3. Absorbed = TextTerms(command)
  BY <1>1 DEF Absorbed, TermsOf, TextTerms, Size
<1>4. Multiple(quotient) = Plus(TextTerms(command), crc)
  BY <1>1, <1>2, <1>3 DEF Inductive
<1>5. Polynomial(Frame) = Plus(TextTerms(command), crc)
  BY <1>1, HighAndLow, PolynomialOfFrame DEF Frame
<1> QED BY <1>1, <1>4, <1>5 DEF Inductive

\* Every frame is divided without a remainder: for every text there could be.
THEOREM FramesDivide == Spec => []FrameDivides
<1>1. Inductive => FrameDivides
  BY DoneDivides DEF FrameDivides
<1> QED BY <1>1, DivisionHolds, PTL

-----------------------------------------------------------------------------
(* What the checksum is good for.                                           *)

\* The order of the natural numbers, as a relation for the theorems of the library.
LEMMA LessIsWellFounded ==
  \E R : IsWellFoundedOn(R, Nat) /\ \A x, y \in Nat : x < y => <<x, y>> \in R
<1>1. \A x, y \in Nat : x < y => <<x, y>> \in OpToRel(<, Nat)
  BY Zenon DEF OpToRel
<1> QED BY <1>1, NatLessThanWellFounded, Zenon

LEMMA Least ==
  ASSUME NEW T \in SUBSET Nat, T # {}
  PROVE  \E x \in T : \A y \in T : x <= y
<1>1. PICK R : IsWellFoundedOn(R, Nat) /\ \A x, y \in Nat : x < y => <<x, y>> \in R
  BY LessIsWellFounded
<1>2. PICK x \in T : \A y \in T : ~(<<y, x>> \in R)
  <2>1. T \subseteq Nat /\ IsWellFoundedOn(R, Nat)
    BY <1>1
  <2> QED BY <2>1, WFMin
<1>3. \A y \in T : ~(y < x)
  BY <1>1, <1>2
<1> QED BY <1>3

LEMMA Greatest ==
  ASSUME NEW n \in Nat, NEW T \in SUBSET (0..n), T # {}
  PROVE  \E x \in T : \A y \in T : y <= x
<1> DEFINE U == {i \in 0..n : n - i \in T}
<1>1. U \in SUBSET Nat /\ U # {}
  <2>1. PICK y \in T : TRUE
    OBVIOUS
  <2>2. n - y \in U /\ U \subseteq 0..n
    OBVIOUS
  <2> HIDE DEF U
  <2> QED BY <2>2
<1>2. PICK m \in U : \A i \in U : m <= i
  BY <1>1, Least
<1>3. n - m \in T /\ \A y \in T : n - y \in U
  BY <1>2
<1>4. \A y \in T : y <= n - m
  BY <1>2, <1>3
<1> QED BY <1>3, <1>4

\* The lowest term of a multiple is that of the quotient, the highest sixteen above
\* the quotient's: nothing that spans fewer than 17 bits is one.
LEMMA NoShortMultiple ==
  ASSUME NEW n \in Nat, NEW q \in SUBSET (0..n), q # {}, NEW k \in Int
  PROVE  ~(Multiple(q) \subseteq k..(k + 15))
<1>1. q \in SUBSET Nat /\ q \in SUBSET Int
  OBVIOUS
<1>2. PICK low \in q : \A e \in q : low <= e
  BY <1>1, Least
<1>3. PICK high \in q : \A e \in q : e <= high
  BY Greatest
<1>4. low \in Int /\ high \in Int /\ low <= high
  BY <1>1, <1>2
<1>5. low \in Multiple(q)
  <2>1. low - 16 \notin q /\ low - 12 \notin q /\ low - 5 \notin q
    BY <1>2, <1>4
  <2> QED BY <1>1, <1>4, <2>1, InMultiple
<1>6. high + 16 \in Multiple(q)
  <2>1. /\ (high + 16) - 16 \in q /\ (high + 16) - 12 \notin q
        /\ (high + 16) - 5 \notin q /\ high + 16 \notin q
    BY <1>3, <1>4
  <2>2. high + 16 \in Int
    BY <1>4
  <2> QED BY <1>1, <2>1, <2>2, InMultiple
<1> QED BY <1>4, <1>5, <1>6

Divisible(p) == \E n \in Nat : \E q \in SUBSET (0..n) : p = Multiple(q)

\* Two multiples differ in more than 16 neighbouring bits or not at all.
LEMMA MultiplesFarApart ==
  ASSUME NEW p, NEW q, Divisible(p), Divisible(q), NEW k \in Int, Plus(p, q) \subseteq k..(k + 15)
  PROVE  p = q
<1>1. PICK m \in Nat : \E s \in SUBSET (0..m) : p = Multiple(s)
  BY DEF Divisible
<1>2. PICK s \in SUBSET (0..m) : p = Multiple(s)
  BY <1>1
<1>3. PICK n \in Nat : \E t \in SUBSET (0..n) : q = Multiple(t)
  BY DEF Divisible
<1>4. PICK t \in SUBSET (0..n) : q = Multiple(t)
  BY <1>3
<1>5. m + n \in Nat /\ Plus(s, t) \in SUBSET (0..(m + n))
  BY DEF Plus
<1>6. s \in SUBSET Int /\ t \in SUBSET Int
  OBVIOUS
<1>7. Multiple(Plus(s, t)) = Plus(p, q)
  BY <1>2, <1>4, <1>6, MultipleOfSum
<1>8. Plus(s, t) = {}
  BY <1>5, <1>7, NoShortMultiple
<1>9. s = t
  BY <1>8 DEF Plus
<1> QED BY <1>2, <1>4, <1>9

LEMMA FrameIsDivisible ==
  ASSUME Inductive, Done
  PROVE  /\ Divisible(Polynomial(Frame))
         /\ Polynomial(Frame) = Plus(TextTerms(command), crc)
         /\ crc \in Register /\ command \in Sendable
<1>1. /\ crc \in Register /\ command \in Sendable
      /\ quotient \in SUBSET (0..(8 * Size - 1)) /\ Size \in Nat
      /\ Multiple(quotient) = Plus(TextTerms(command), crc)
      /\ Multiple(quotient) = Polynomial(Frame)
  BY DoneDivides
<1>2. 8 * Size \in Nat /\ quotient \in SUBSET (0..(8 * Size))
  BY <1>1
<1>3. Divisible(Polynomial(Frame))
  BY <1>1, <1>2 DEF Divisible
<1> QED BY <1>1, <1>3

\* No other two bytes behind the text are its checksum.
OnlyChecksum ==
  Done =>
    \A high, low \in Byte :
      Divisible(Polynomial(Text(command) \o <<high, low>>)) =>
        Text(command) \o <<high, low>> = Frame

\* A frame that is damaged within 16 neighbouring bits, wherever they are, is not
\* divided without a remainder any more.
DamageShows ==
  Done =>
    \A damaged : \A k \in Int :
      Plus(damaged, Polynomial(Frame)) \subseteq k..(k + 15) /\ Divisible(damaged) =>
        damaged = Polynomial(Frame)

\* Whoever checks a frame accepts the two bytes that build_write_ci appends and no
\* others: for every text there could be.
THEOREM ChecksumIsTheOnly == Spec => []OnlyChecksum
<1>1. ASSUME Inductive, Done, NEW high \in Byte, NEW low \in Byte,
             Divisible(Polynomial(Text(command) \o <<high, low>>))
      PROVE  high = High(crc) /\ low = Low(crc)
  <2> DEFINE other == Polynomial(Text(command) \o <<high, low>>)
             both  == TwoBytes(high, low)
             terms == TextTerms(command)
  <2>1. /\ Divisible(Polynomial(Frame)) /\ Polynomial(Frame) = Plus(terms, crc)
        /\ crc \in Register /\ command \in Sendable
    BY <1>1, FrameIsDivisible
  <2>2. other = Plus(terms, both) /\ both \in Register
    BY <2>1, PolynomialOfFrame, TwoBytesTypes
  <2> HIDE DEF both, terms
  <2> HIDE DEF other
  <2>3. Plus(other, Polynomial(Frame)) \subseteq 0..(0 + 15)
    <3>1. Plus(other, Polynomial(Frame)) \subseteq both \cup crc
      BY <2>1, <2>2 DEF Plus
    <3>2. both \cup crc \subseteq 0..15 /\ 0 + 15 = 15
      BY <2>1, <2>2 DEF Register
    <3> QED BY <3>1, <3>2
  <2>4. other = Polynomial(Frame)
    BY <1>1, <2>1, <2>3, MultiplesFarApart DEF other
  <2>5. Plus(terms, both) = Plus(terms, crc)
    BY <2>1, <2>2, <2>4
  <2>6. both = crc
    BY <2>5 DEF Plus
  <2>7. /\ \A d \in 0..7 : d \in crc <=> d \in low
        /\ \A d \in 0..7 : d + 8 \in crc <=> d \in high
    BY <2>6, TwoBytesTypes DEF both
  <2>8. high \in SUBSET (0..7) /\ low \in SUBSET (0..7)
    BY DEF Byte
  <2>9. low = Low(crc)
    BY <2>7, <2>8 DEF Low
  <2>10. high = High(crc)
    BY <2>7, <2>8 DEF High
  <2> QED BY <2>9, <2>10
<1>2. Inductive => OnlyChecksum
  BY <1>1 DEF OnlyChecksum, Frame
<1> QED BY <1>2, DivisionHolds, PTL

\* No garbling of up to 16 neighbouring bits turns a frame into another one that
\* passes for whole: for every text there could be.
THEOREM DamageIsSeen == Spec => []DamageShows
<1>1. Inductive => DamageShows
  BY FrameIsDivisible, MultiplesFarApart DEF DamageShows
<1> QED BY <1>1, DivisionHolds, PTL

-----------------------------------------------------------------------------
(* The texts.                                                               *)

\* The places of the two parts of a concatenation.
LEMMA ConcatElements ==
  ASSUME NEW S, NEW a \in Seq(S), NEW v \in Seq(S)
  PROVE  /\ a \o v \in Seq(S)
         /\ Len(a) \in Nat /\ Len(v) \in Nat /\ Len(a \o v) = Len(a) + Len(v)
         /\ \A i \in 1..Len(a) : (a \o v)[i] = a[i]
         /\ \A i \in 1..Len(v) : (a \o v)[Len(a) + i] = v[i]
<1>1. /\ Len(a) \in Nat /\ Len(v) \in Nat
      /\ a \o v \in Seq(S) /\ Len(a \o v) = Len(a) + Len(v)
      /\ \A i \in 1..(Len(a) + Len(v)) :
           (a \o v)[i] = IF i <= Len(a) THEN a[i] ELSE v[i - Len(a)]
  BY ConcatProperties, LenProperties
<1>2. ASSUME NEW i \in 1..Len(a)
      PROVE  (a \o v)[i] = a[i]
  <2>1. i \in 1..(Len(a) + Len(v)) /\ i <= Len(a)
    BY <1>1
  <2> QED BY <1>1, <2>1
<1>3. ASSUME NEW i \in 1..Len(v)
      PROVE  (a \o v)[Len(a) + i] = v[i]
  <2>1. /\ Len(a) + i \in 1..(Len(a) + Len(v)) /\ ~(Len(a) + i <= Len(a))
        /\ (Len(a) + i) - Len(a) = i
    BY <1>1
  <2> QED BY <1>1, <2>1
<1> QED BY <1>1, <1>2, <1>3

LEMMA BeginsMeans ==
  ASSUME NEW S, NEW s \in Seq(S), NEW t \in Seq(S)
  PROVE  Begins(s, t) <=> Len(s) <= Len(t) /\ \A i \in 1..Len(s) : s[i] = t[i]
<1>1. Len(s) \in Nat /\ Len(t) \in Nat
  BY LenProperties
<1>2. ASSUME Len(s) <= Len(t)
      PROVE  /\ SubSeq(t, 1, Len(s)) \in Seq(S) /\ Len(SubSeq(t, 1, Len(s))) = Len(s)
             /\ \A i \in 1..Len(s) : SubSeq(t, 1, Len(s))[i] = t[i]
  <2>1. \A i \in 1..Len(s) : i \in 1..Len(t)
    BY <1>1, <1>2
  <2>2. \A i \in 1..Len(s) : t[i] \in S
    BY <2>1, ElementOfSeq
  <2>3. SubSeq(t, 1, Len(s)) = [i \in 1..Len(s) |-> t[i]]
    BY <1>1, <1>2
  <2>4. [i \in 1..Len(s) |-> t[i]] \in Seq(S) /\ Len([i \in 1..Len(s) |-> t[i]]) = Len(s)
    BY <1>1, <2>2
  <2> QED BY <2>3, <2>4
<1>3. ASSUME Begins(s, t)
      PROVE  Len(s) <= Len(t) /\ \A i \in 1..Len(s) : s[i] = t[i]
  BY <1>2, <1>3 DEF Begins
<1>4. ASSUME Len(s) <= Len(t), \A i \in 1..Len(s) : s[i] = t[i]
      PROVE  Begins(s, t)
  <2>1. SubSeq(t, 1, Len(s)) = s
    BY <1>2, <1>4, SeqEqual
  <2> QED BY <1>4, <2>1 DEF Begins
<1> QED BY <1>3, <1>4

\* Of two names that a text begins with, one begins with the other.
LEMMA NamesNested ==
  ASSUME NEW S, NEW a \in Seq(S), NEW b \in Seq(S), NEW t \in Seq(S),
         Begins(a, t), Begins(b, t)
  PROVE  Begins(a, b) \/ Begins(b, a)
<1>1. Len(a) \in Nat /\ Len(b) \in Nat
  BY LenProperties
<1>2. /\ \A i \in 1..Len(a) : a[i] = t[i]
      /\ \A i \in 1..Len(b) : b[i] = t[i]
  BY BeginsMeans
<1>3. CASE Len(a) <= Len(b)
  <2>1. \A i \in 1..Len(a) : i \in 1..Len(b)
    BY <1>1, <1>3
  <2> QED BY <1>2, <1>3, <2>1, BeginsMeans
<1>4. CASE Len(b) <= Len(a)
  <2>1. \A i \in 1..Len(b) : i \in 1..Len(a)
    BY <1>1, <1>4
  <2> QED BY <1>2, <1>4, <2>1, BeginsMeans
<1> QED BY <1>1, <1>3, <1>4

LEMMA BeginsWithOwnName ==
  ASSUME NEW S, NEW a \in Seq(S), NEW v \in Seq(S)
  PROVE  Begins(a, a \o v)
<1>1. a \o v \in Seq(S) /\ \A i \in 1..Len(a) : a[i] = (a \o v)[i]
  BY ConcatElements
<1>2. Len(a) <= Len(a \o v)
  BY ConcatElements
<1> DEFINE t == a \o v
<1> HIDE DEF t
<1>3. Begins(a, t)
  BY <1>1, <1>2, BeginsMeans DEF t
<1> QED BY <1>3 DEF t

LEMMA SameNameSameValue ==
  ASSUME NEW S, NEW a \in Seq(S), NEW v \in Seq(S), NEW w \in Seq(S), a \o v = a \o w
  PROVE  v = w
<1>1. /\ Len(a) \in Nat /\ Len(v) \in Nat /\ Len(w) \in Nat
      /\ Len(a \o v) = Len(a) + Len(v) /\ Len(a \o w) = Len(a) + Len(w)
  BY ConcatElements
<1>2. Len(v) = Len(w)
  BY <1>1
<1>3. \A i \in 1..Len(v) : v[i] = w[i]
  <2>1. /\ \A i \in 1..Len(v) : (a \o v)[Len(a) + i] = v[i]
        /\ \A i \in 1..Len(w) : (a \o w)[Len(a) + i] = w[i]
    BY ConcatElements
  <2> QED BY <1>2, <2>1
<1> QED BY <1>2, <1>3, SeqEqual

\* No name begins with another one: so the text tells the name, and the name the value.
LEMMA TextTellsName ==
  ASSUME NEW c \in Sendable, NEW d \in Sendable, Begins(d.channel, Text(c))
  PROVE  d.channel = c.channel
<1>1. /\ c.channel \in Seq(Byte) /\ c.value \in Seq(Byte) /\ d.channel \in Seq(Byte)
      /\ Text(c) \in Seq(Byte)
  BY SendableOK, TextTypes
<1>2. Begins(c.channel, Text(c))
  BY <1>1, BeginsWithOwnName DEF Text
<1>3. Begins(c.channel, d.channel) \/ Begins(d.channel, c.channel)
  BY <1>1, <1>2, NamesNested
<1> QED BY <1>3, ChannelsApart

LEMMA TextTellsAll ==
  ASSUME NEW c \in Sendable, NEW d \in Sendable, Text(c) = Text(d)
  PROVE  c.channel = d.channel /\ c.value = d.value
<1>1. /\ c.channel \in Seq(Byte) /\ c.value \in Seq(Byte)
      /\ d.channel \in Seq(Byte) /\ d.value \in Seq(Byte)
  BY SendableOK
<1>2. Begins(d.channel, Text(d))
  BY <1>1, BeginsWithOwnName DEF Text
<1>3. c.channel = d.channel
  BY <1>2, TextTellsName
<1> QED BY <1>1, <1>3, SameNameSameValue DEF Text

\* No text can be taken for another command's, whatever values are written: the names
\* of the tables suffice for that.
THEOREM TextsAreTold == Spec => []TextsTellCommands
<1>1. Inductive => TextsTellCommands
  BY TextTellsName, TextTellsAll, ChoicesApart DEF Inductive, TextsTellCommands
<1> QED BY <1>1, DivisionHolds, PTL
=============================================================================
