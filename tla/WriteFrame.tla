------------------------------ MODULE WriteFrame ----------------------------
(***************************************************************************)
(* The frame of a write (protocol.py build_write_ci and crc16_xmodem): the   *)
(* name of a channel with the value right behind it, nothing marking where   *)
(* the one ends, and two bytes of checksum.  The loops of crc16_xmodem are   *)
(* run step by step, beside what they stand for: the division of one         *)
(* polynomial over two elements by another.                                  *)
(*                                                                           *)
(* A byte, and the 16 bits of the checksum, are the sets of their one bits,  *)
(* so that ^ is the symmetric difference and << adds to every member.        *)
(***************************************************************************)
EXTENDS Integers, Sequences

CONSTANT Sendable   \* the commands that the entities can send

Byte == SUBSET (0..7)

Begins(name, text) == Len(name) <= Len(text) /\ SubSeq(text, 1, Len(name)) = name

ASSUME SendableOK ==
  \A c \in Sendable : c.channel \in Seq(Byte) /\ c.value \in Seq(Byte)

\* No name begins with another one, though some share all but their last letter.
ASSUME ChannelsApart ==
  \A c, d \in Sendable : Begins(c.channel, d.channel) => c.channel = d.channel

\* "on" and "off" are two channels for some switches, two values for others.
ASSUME ChoicesApart ==
  \A c, d \in Sendable :
    c.channel = d.channel /\ c.value = d.value =>
      c.setting = d.setting /\ c.choice = d.choice

VARIABLES
  command,   \* what is being written
  taken,     \* how many bytes of its text the outer loop has begun
  rounds,    \* rounds of the inner loop to go
  crc,       \* the checksum so far
  quotient   \* history: the terms of the quotient that the shifts stand for

vars == <<command, taken, rounds, crc, quotient>>

\* Mutant of Text: the value is left out, as it is on purpose for a button.
TextNameOnly(c) == c.channel

Text(c) == c.channel \o c.value

-----------------------------------------------------------------------------
(* Polynomials as sets of exponents.                                        *)

Times(p, n) == {e + n : e \in p}
Plus(p, q)  == (p \ q) \cup (q \ p)

\* The first byte holds the highest powers.
Polynomial(bytes) ==
  UNION {Times(bytes[i], 8 * (Len(bytes) - i)) : i \in 1..Len(bytes)}

\* By x^16 + x^12 + x^5 + 1, the 0x1021 of the code with the term it shifts out.
Multiple(q) == Plus(Plus(Times(q, 16), Times(q, 12)), Plus(Times(q, 5), q))

-----------------------------------------------------------------------------
(* crc16_xmodem                                                             *)

Register == SUBSET (0..15)

XorByte(c, byte) == Plus(c, Times(byte, 8))

ShiftOnce(c) == Plus(Times(c, 1), IF 15 \in c THEN {12, 5, 0} ELSE {}) \cap 0..15

\* Before this many more shifts the division is done.
ShiftsLeft == 8 * (Len(Text(command)) - taken) + rounds

Done == taken = Len(Text(command)) /\ rounds = 0

Start(c) ==
  /\ command' = c
  /\ taken' = 0
  /\ rounds' = 0
  /\ crc' = {}
  /\ quotient' = {}

Init ==
  /\ command \in Sendable
  /\ taken = 0
  /\ rounds = 0
  /\ crc = {}
  /\ quotient = {}

\* async_write_setting: the next command.
Send(c) == Done /\ Start(c)

TakeByte ==
  /\ rounds = 0
  /\ taken < Len(Text(command))
  /\ taken' = taken + 1
  /\ crc' = XorByte(crc, Text(command)[taken + 1])
  /\ rounds' = 8
  /\ UNCHANGED <<command, quotient>>

Shift ==
  /\ rounds > 0
  /\ rounds' = rounds - 1
  /\ crc' = ShiftOnce(crc)
  /\ quotient' = IF 15 \in crc THEN quotient \cup {ShiftsLeft - 1} ELSE quotient
  /\ UNCHANGED <<command, taken>>

Next == TakeByte \/ Shift \/ \E c \in Sendable : Send(c)

Spec == Init /\ [][Next]_vars

-----------------------------------------------------------------------------
(* The frame.                                                               *)

Low(c)  == c \cap 0..7
High(c) == {j \in 0..7 : j + 8 \in c}

\* Mutant of Frame: the checksum with its low byte first.
FrameSwapped == Text(command) \o <<Low(crc), High(crc)>>

\* build_write_ci, without the final CR and base64.
Frame == Text(command) \o <<High(crc), Low(crc)>>

-----------------------------------------------------------------------------
(* Properties.                                                              *)

\* No text can be taken for another command's: it begins with the name of its own
\* channel alone (some names end in a digit, which could be a value's, and some
\* values are part of a name), and no two choices are the same text, of one setting
\* or of two: "on" and "off" are two channels for some switches, two values for
\* others.
TextsTellCommands ==
  \A other \in Sendable :
    /\ Begins(other.channel, Text(command)) => other.channel = command.channel
    /\ Text(other) = Text(command) =>
         other.setting = command.setting /\ other.choice = command.choice

\* Whoever divides the frame by the polynomial finds no remainder: the shifts
\* keep to 16 bits, no term is lost between two bytes, and the two bytes of the
\* checksum are in the order they were computed in.
FrameDivides == Done => Multiple(quotient) = Polynomial(Frame)
=============================================================================
