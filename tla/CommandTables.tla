--------------------------- MODULE CommandTables ---------------------------
(***************************************************************************)
(* What can be written: the tables of const.py and what number.py,          *)
(* select.py, switch.py and button.py make of them.                         *)
(***************************************************************************)
EXTENDS Naturals, Sequences

(* str.encode("ascii"), for the characters there are.  A byte is the set of *)
(* its one bits.                                                            *)

Digit  == [i \in 0..9 |-> SubSeq("0123456789", i + 1, i + 1)]
Letter == [i \in 0..25 |-> SubSeq("ABCDEFGHIJKLMNOPQRSTUVWXYZ", i + 1, i + 1)]
Code(char) ==
  CASE char = "." -> 46
    [] char = "a" -> 97
    [] char = "x" -> 120
    [] \E i \in 0..9 : Digit[i] = char -> 48 + CHOOSE i \in 0..9 : Digit[i] = char
    [] OTHER -> 65 + CHOOSE i \in 0..25 : Letter[i] = char
Bits(n) == {j \in 0..7 : (n \div 2^j) % 2 = 1}
Encoded(text) == [i \in 1..Len(text) |-> Bits(Code(SubSeq(text, i, i)))]

-----------------------------------------------------------------------------
\* NUMBER_SETTING_DEFINITIONS
NumberChannels ==
  {"PCVV", "PBFT", "PSLV", "PSDV", "PBCV", "PBDV", "MUCHGC", "MNCHGC", "DISCC",
   "BMSSDC", "BMSSRC", "BMSB2UC", "BMSU2BC", "PDSDS", "PDSRS", "PDSRV", "PDDLYT",
   "PDDCGT", "PBEQV", "PBEQT", "PBEQOT", "PBEQP"}

\* SELECT_SETTING_DEFINITIONS: the channel, and the raw value of each option.
Selects ==
  [POP0 |-> [SolarBatteryFirst |-> "0", SolarFirst |-> "1"],
   PCP0 |-> [SolarOnly |-> "0", SolarUtility |-> "1", SolarFirst |-> "2",
             SolarResidual |-> "3"],
   PGR0 |-> [UPS |-> "0", Appliance |-> "1"]]

\* SWITCH_SETTING_DEFINITIONS
PrefixSwitches == [lcd_backlight |-> "x", buzzer |-> "a"]
DigitSwitches ==
  [equalization_mode  |-> [channel |-> "PBEQE", on |-> "1", off |-> "0"],
   dual_remote_switch |-> [channel |-> "PDAULC", on |-> "01", off |-> "00"]]

Command(setting, choice, channel, value) ==
  [setting |-> setting, choice |-> choice,
   channel |-> Encoded(channel), value |-> Encoded(value)]

\* Of the texts of a number, some of every length.
NumberTexts == {"005", "100", "900", "1440", "28.0", "24.55"}
NumberCommands == {Command(c, v, c, v) : c \in NumberChannels, v \in NumberTexts}

SelectCommands ==
  UNION {{Command(c, o, c, Selects[c][o]) : o \in DOMAIN Selects[c]} : c \in DOMAIN Selects}

Prefix(on) == IF on = "on" THEN "PE" ELSE "PD"

\* RWB1Switch._command
SwitchCommands ==
  {Command(s, on, Prefix(on) \o PrefixSwitches[s], "") :
     s \in DOMAIN PrefixSwitches, on \in {"on", "off"}}
  \cup
  {Command(s, on, DigitSwitches[s].channel, DigitSwitches[s][on]) :
     s \in DOMAIN DigitSwitches, on \in {"on", "off"}}

\* FAULT_CLEAR_CHANNEL
ButtonCommands == {Command("clear_fault", "press", "FAULTC", "")}

Commands == NumberCommands \cup SelectCommands \cup SwitchCommands \cup ButtonCommands
=============================================================================
