------------------------------ MODULE Readings ------------------------------
(***************************************************************************)
(* Reading one quantity out of one frame (decoding/features): the helpers    *)
(* (decoding/frames/values.py) and the readings that depend on a setting     *)
(* elsewhere in the frame, on the probes of the unit or on another quantity. *)
(* The quantities with bytes of their own are in PlainReadings.              *)
(*                                                                         *)
(* A value is modelled by the place it is read from and by what a reading    *)
(* answers there, not by the number: two quantities read from one place are  *)
(* one measurement shown twice.                                              *)
(***************************************************************************)
EXTENDS Naturals, FiniteSets

CONSTANTS
  Filled,    \* the sets of v7 bytes and words a frame may have filled in (not 0xFF)
  Relays,    \* the sets of bits of v7 byte[29] that may be set
  Settings,  \* the sets of bits of v7 byte[37] that may be set
  Ports,     \* what v8 fncs[6] may say of the third port
  Outs,      \* the sets of v8 outs that may be other than 0
  Probes     \* the sets of v8 measurements that may be other than -500

\* The bits of byte[29] ...
BACKWASH == 1   FILLING == 2   HEATING == 4   FILTRATION == 8
\* ... of which 0x10, 0x20, 0x40 and 0x80 drive different outputs on the models ...
BIT_10 == 16    BIT_20 == 32   BIT_40 == 64   BIT_80 == 128
\* ... and those of byte[37]; 0x80 is freeze protection where it routes nothing.
MENU_OPEN == 4  SHARED_PORT_ROUTING == 128

Unset == {0}   \* a settings byte that is 0xFF: no set of its bits
AlgicidePort == 10  FlocculantPort == 18

\* The v7 frame: byte[4], byte[37], byte[29], the bytes and words filled in.
V7Frames(types) ==
  [protocol : {"v7"}, unit : types, settings : Settings \cup {Unset},
   relays : Relays, filled : Filled]

\* The v8 frame: the header's type, fncs[6] (0: not sent), outs and measurements.
V8Frames(types) ==
  [protocol : {"v8"}, unit : types, port : Ports, outs : Outs, probes : Probes]

-----------------------------------------------------------------------------
(* Places and answers *)

\* A place is a set of bits, of bytes of a v7 frame, or of entries of a v8 one.
BITS == {1, 2, 4, 8, 16, 32, 64, 128}
Bits(n, masks) == {<<"v7", n, m>> : m \in masks}
Byte(n) == Bits(n, BITS)
Word(n) == Byte(n) \cup Byte(n + 1)
Entry(section, n) == {<<section, n, 0>>}

Nowhere == {}
NOT_PRESENT == [at |-> Nowhere, is |-> "absent"]
None == [at |-> Nowhere, is |-> "none"]
Value(place) == [at |-> place, is |-> "value"]
Flag(place, set) == [at |-> place, is |-> IF set THEN "on" ELSE "off"]

byte_or_absent(fr, n) == IF n \in fr.filled THEN Value(Byte(n)) ELSE NOT_PRESENT

byte_or_none(fr, n) == IF n \in fr.filled THEN Value(Byte(n)) ELSE None

word_or_none(fr, n) == IF n \in fr.filled THEN Value(Word(n)) ELSE None

word_or_absent(fr, n) == IF n \in fr.filled THEN Value(Word(n)) ELSE NOT_PRESENT

\* An hour and a minute, absent unless both make a time.
time_or_absent(fr, n) == word_or_absent(fr, n)

RelayBit(fr, bit) == Flag(Bits(29, {bit}), bit \in fr.relays)

\* Bits of a settings byte, unknown while that is 0xFF.
flag_or_none(fr, n, masks) ==
  CASE n # 37 -> IF n \in fr.filled THEN Value(Bits(n, masks)) ELSE None
    [] n = 37 /\ fr.settings = Unset -> None
    [] n = 37 /\ fr.settings # Unset ->
         Flag(Bits(37, masks), masks \cap fr.settings # {})

\* A relay bit that counts only while its pump's flow rate is a number.
flag_when_known(required, fr, bit) ==
  IF required.is \in {"none", "absent"} THEN NOT_PRESENT ELSE RelayBit(fr, bit)

\* Mutant: an unset settings byte is taken for one with no bit set, and the
\* flocculant is read whatever the routing says.
byte_when_flagsAny(fr, n, routed) ==
  IF fr.settings = Unset \/ ~routed \/ SHARED_PORT_ROUTING \in fr.settings
  THEN byte_or_absent(fr, n)
  ELSE NOT_PRESENT

\* A byte that is ours while the settings route it to us: an unset settings
\* byte routes it to nobody.
byte_when_flags(fr, n, routed) ==
  IF fr.settings # Unset /\ (SHARED_PORT_ROUTING \in fr.settings) = routed
  THEN byte_or_absent(fr, n)
  ELSE NOT_PRESENT

OutFlag(fr, n) == Flag(Entry("outs", n), n \in fr.outs)

\* A v8 value that is -500 where there is no probe.
measurement(fr, probe, n) ==
  IF probe \in fr.probes THEN Value(Entry(probe, n)) ELSE NOT_PRESENT

\* The third port of a v8 unit, if fncs[6] names the chemical.
third_pump(fr, chemical, answer) ==
  IF fr.port = 0 THEN None ELSE IF fr.port = chemical THEN answer ELSE NOT_PRESENT

-----------------------------------------------------------------------------
(* Probes *)

\* configuration: the probes, here not an answer but the set itself.  The bits
\* 0x01 and 0x02 of byte[4] say REDOX and CLF are missing, 0x04 that DOSE is.
Bit(n, b) == (n \div b) % 2 = 1

from_missing_bits(type) ==
  {"PH"} \cup (IF Bit(type, 1) THEN {} ELSE {"REDOX"})
         \cup (IF Bit(type, 2) THEN {} ELSE {"CLF"})

Configuration(way, fr) ==
  CASE way = "v7" ->
         from_missing_bits(fr.unit) \cup (IF Bit(fr.unit, 4) THEN {} ELSE {"DOSE"})
    [] way = "v7_without_dose" -> from_missing_bits(fr.unit)
    [] way = "v7_by_unit_type_byte" ->
         {"PH", CASE fr.unit = 2 -> "CLF" [] fr.unit = 3 -> "REDOX" [] OTHER -> "DOSE"}
    [] way = "v7_ph_and_oxy" -> {"PH", "OXY"}
    [] way = "v7_all_probes" -> {"PH", "CLF", "REDOX", "DOSE", "OXY"}
    [] way = "v8" -> (IF "ph" \in fr.probes THEN {"PH"} ELSE {})
                     \cup (IF "redox" \in fr.probes THEN {"REDOX"} ELSE {})

Ph(way, fr, probes) ==
  IF way = "v8" THEN measurement(fr, "ph", 0)
  ELSE IF "PH" \in probes THEN word_or_none(fr, 14) ELSE NOT_PRESENT

PhTarget(way, fr, probes) ==
  IF way = "v8" THEN Value(Entry("areqs", 0))
  ELSE IF "PH" \in probes THEN byte_or_none(fr, 52) ELSE NOT_PRESENT

FreeChlorine(fr, probes) ==
  IF "CLF" \in probes THEN word_or_none(fr, 16) ELSE NOT_PRESENT

FreeChlorineMv(fr, probes) ==
  IF "CLF" \in probes THEN word_or_none(fr, 20) ELSE NOT_PRESENT

\* Word 18, or 16 where that is not filled in.
Redox(way, fr, probes) ==
  IF way = "v8" THEN measurement(fr, "redox", 6)
  ELSE IF "REDOX" \notin probes THEN NOT_PRESENT
       ELSE word_or_none(fr, IF 18 \in fr.filled THEN 18 ELSE 16)

-----------------------------------------------------------------------------
(* The disinfection setpoint: byte[53], by the probes *)

FreeChlorineTarget(fr, probes) ==
  IF "CLF" \in probes THEN byte_or_none(fr, 53) ELSE NOT_PRESENT

RedoxTarget(way, fr, probes) ==
  IF way = "v8" THEN Value(Entry("areqs", 1))
  ELSE IF "CLF" \in probes \/ "REDOX" \notin probes THEN NOT_PRESENT
       ELSE byte_or_none(fr, 53)

ChlorineDoseTarget(fr, probes) ==
  IF probes \cap {"CLF", "REDOX"} # {} \/ "DOSE" \notin probes THEN NOT_PRESENT
  ELSE byte_or_none(fr, 53)

OxygenDoseTarget(fr) == byte_or_none(fr, 53)

-----------------------------------------------------------------------------
(* Algicide and flocculant: two ports, or one that the settings route *)

AlgaecideDoseTarget(way, fr) ==
  CASE way = "v7" -> byte_or_absent(fr, 72)
    [] way = "v7_routed_by_byte37" -> byte_when_flags(fr, 54, TRUE)
    [] way = "v8" -> third_pump(fr, AlgicidePort, Value(Entry("areqs", 4)))

FlocculantDoseTarget(way, fr) ==
  CASE way = "v7" -> byte_or_absent(fr, 54)
    [] way = "v7_routed_by_byte37" -> byte_when_flags(fr, 54, FALSE)
    [] way = "v8" -> third_pump(fr, FlocculantPort, Value(Entry("areqs", 3)))

AlgaecideFlowRate(way, fr) ==
  IF way = "v7" THEN byte_or_absent(fr, 103) ELSE byte_when_flags(fr, 101, TRUE)

FlocculantFlowRate(way, fr) ==
  IF way = "v7" THEN byte_or_absent(fr, 101) ELSE byte_when_flags(fr, 101, FALSE)

AlgaecidePumpRunning(way, fr, rate) ==
  CASE way = "v7" -> flag_when_known(rate, fr, BIT_20)
    [] way = "v7_oxy" -> flag_when_known(rate, fr, BIT_10)
    [] way = "v8" -> third_pump(fr, AlgicidePort, OutFlag(fr, 11))

FlocculantPumpRunning(way, fr, rate) ==
  CASE way = "v7" -> flag_when_known(rate, fr, BIT_20)
    [] way = "v8" -> third_pump(fr, FlocculantPort, OutFlag(fr, 11))

-----------------------------------------------------------------------------
(* The other pumps and outputs that the models drive from different bits *)

ChlorinePumpRunning(way, fr) ==
  CASE way = "v7" -> RelayBit(fr, BIT_40)
    [] way = "v7_net" -> RelayBit(fr, FILLING)
    [] way = "v8" -> OutFlag(fr, 9)

PhMinusPumpRunning(way, fr) ==
  CASE way = "v7" -> RelayBit(fr, BIT_80)
    [] way = "v7_net" -> RelayBit(fr, BACKWASH)
    [] way = "v8" -> OutFlag(fr, 8)

OxygenPumpRunning(fr, rate) == flag_when_known(rate, fr, BIT_40)

ElectrolysisRunning(way, fr) ==
  IF way = "v8" THEN OutFlag(fr, 14) ELSE RelayBit(fr, BIT_10)

\* Waiting while the electrolyser is off, else by bit 0x40.
ElectrodePolarity(way, fr) ==
  IF way = "v8" THEN Value(Entry("outs", 14)) ELSE Value(Bits(29, {BIT_10, BIT_40}))

\* On HOME the relay bit stays set while the menu's override has the pump off.
FiltrationRunning(way, fr, menu) ==
  CASE way = "v7" -> RelayBit(fr, FILTRATION)
    [] way = "v7_menu_override" ->
         IF menu.is = "on" THEN Flag(Bits(29, {FILTRATION}), FALSE)
         ELSE RelayBit(fr, FILTRATION)
    [] way = "v8" -> OutFlag(fr, 2)

\* Winter mode of a SALT is in byte[22].
FreezeProtectionEnabled(way, fr) ==
  IF way = "v7_winter_mode" THEN flag_or_none(fr, 22, {4})
  ELSE flag_or_none(fr, 37, {SHARED_PORT_ROUTING})
=============================================================================
