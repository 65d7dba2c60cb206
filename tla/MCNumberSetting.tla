-------------------------- MODULE MCNumberSetting ---------------------------
(***************************************************************************)
(* The rows of NUMBER_SETTING_DEFINITIONS (const.py), equal rows once, and  *)
(* for each the values a caller may ask for around both bounds, in tenths   *)
(* of the last digit of the text.                                           *)
(***************************************************************************)
EXTENDS NumberSetting

Row(fmt, min, max, step5) == [fmt |-> fmt, min |-> min, max |-> max, step5 |-> step5]

Table ==
  {Row("v1", 24000, 30000, FALSE),    \* PCVV, PBFT
   Row("v1", 20000, 27000, FALSE),    \* PSLV, PSDV
   Row("v1", 24000, 28000, FALSE),    \* PBCV
   Row("v1", 24500, 29000, FALSE),    \* PBDV
   Row("v1", 22000, 29000, FALSE),    \* PDSRV
   Row("v2", 24000, 30000, FALSE),    \* PBEQV
   Row("i3", 2000, 100000, FALSE),    \* MUCHGC
   Row("i3", 10000, 120000, FALSE),   \* MNCHGC
   Row("i3", 20000, 200000, FALSE),   \* DISCC
   Row("i3", 5000, 600000, FALSE),    \* PDDLYT
   Row("i3", 5000, 900000, FALSE),    \* PBEQT, PBEQOT
   Row("i3", 0, 90000, FALSE),        \* PBEQP
   Row("i3", 5000, 95000, TRUE),      \* BMSSDC, BMSB2UC, BMSU2BC, PDSDS
   Row("i3", 5000, 100000, TRUE),     \* BMSSRC, PDSRS
   Row("i4", 0, 1440000, FALSE)}      \* PDDCGT

\* On the inner side of a bound more than five digits, so that step5 sees every
\* remainder; on the outer side more than one, which no rounding takes back.
Near ==
  [d \in Table |->
     LET tenth == Unit(d.fmt) \div 10
     IN  {d.min + tenth * n : n \in -12..54} \cup {d.max + tenth * n : n \in -54..12}]
=============================================================================
