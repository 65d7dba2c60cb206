---------------------------- MODULE MCWriteFrame ----------------------------
(***************************************************************************)
(* WriteFrame over the tables of the code.                                  *)
(***************************************************************************)
EXTENDS WriteFrame, CommandTables

\* crc16_xmodem as a function, from the steps of WriteFrame.  The singleton makes
\* TLC evaluate a byte's checksum before it shifts it.
Crc(bytes) ==
  LET shifted(c) == LET s[i \in 0..8] == IF i = 0 THEN c ELSE ShiftOnce(s[i - 1]) IN s[8]
      crcOf[n \in 0..Len(bytes)] ==
        IF n = 0
          THEN {}
          ELSE UNION {shifted(c) : c \in {XorByte(crcOf[n - 1], bytes[n])}}
  IN  crcOf[Len(bytes)]

\* The sample of protocol.py:39, "PBFT28.0" gives b391.
ASSUME SampleOK ==
  Crc(Encoded("PBFT28.0")) = Times(Bits(179), 8) \cup Bits(145)
=============================================================================
