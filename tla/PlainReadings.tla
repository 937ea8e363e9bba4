--------------------------- MODULE PlainReadings ---------------------------
(***************************************************************************)
(* The quantities that have a place of their own in a frame, one reading     *)
(* each (decoding/features): v7 by byte, v8 by section and index.  What is    *)
(* left out of a reading is its arithmetic: the divisor, the sign, the names  *)
(* of the values.                                                            *)
(***************************************************************************)
EXTENDS Readings

\* Who sends the frame, and the clock it was sent by; an unset v7 clock is
\* replaced by Home Assistant's for the timestamp.
SerialNumber(way) == Value(IF way = "v8" THEN Entry("header", 2) ELSE Word(0) \cup Word(2))
CLOCK_BYTES == Word(6) \cup Word(8) \cup Word(10)
ClockEntries == Entry("ins", 16) \cup Entry("ins", 17)
Timestamp(way, fr) ==
  CASE way = "v8" -> Value(ClockEntries)
    [] way = "v7" /\ 6 \in fr.filled -> Value(CLOCK_BYTES)
    [] way = "v7" /\ 6 \notin fr.filled -> Value(Nowhere)
UnitClock(way, fr) ==
  CASE way = "v8" -> Value(ClockEntries)
    [] way = "v7" -> IF 6 \in fr.filled THEN Value(CLOCK_BYTES) ELSE None

\* Measurements.
AirTemperature(fr) == word_or_absent(fr, 23)
ChlorineProduction(way, fr) == IF way = "v8" THEN Value(Entry("ains", 9)) ELSE byte_or_none(fr, 21)
Salinity(way, fr) == IF way = "v8" THEN measurement(fr, "salinity", 8) ELSE byte_or_none(fr, 20)
WaterFlowToProbes(way) == Value(IF way = "v8" THEN Entry("ins", 8) ELSE Byte(28))
WaterTemperature(way, fr) ==
  IF way = "v8" THEN measurement(fr, "temperature", 0) ELSE word_or_none(fr, 25)

\* Alarms.
AlarmMaxDisinfectionDose(way) ==
  Value(IF way = "v8" THEN {<<"ins", 12, 128>>} ELSE Bits(13, {1}) \cup Bits(12, {32}))
AlarmNoFlowToProbes(way) ==
  Value(IF way = "v8" THEN {<<"ins", 12, 256>>} ELSE Bits(13, {4}))
AlarmPhDosingIneffective == Value(Bits(13, {2}) \cup Bits(12, {64}))
AlarmRapidPhChange == Value(Bits(13, {8}))

\* Settings of the unit.  v8 sends no flow rates; 60 ml/min is assumed.
ASSUMED_V8_FLOWRATE == Value(Nowhere)
ChlorineFlowRate(way, fr) == IF way = "v8" THEN ASSUMED_V8_FLOWRATE ELSE byte_or_absent(fr, 99)
OxygenFlowRate(fr) == byte_or_absent(fr, 99)
PhMinusFlowRate(way, fr) == IF way = "v8" THEN ASSUMED_V8_FLOWRATE ELSE byte_or_absent(fr, 95)
PhMinusConcentration(fr) == byte_or_absent(fr, 112)
WaterTemperatureTarget(fr) == byte_or_absent(fr, 55)
MaxPhDoses(fr) == byte_or_absent(fr, 115)
MaxRefillTime(fr) == word_or_absent(fr, 76)
PoolVolume(way, fr) == IF way = "v8" THEN Value(Entry("areqs", 14)) ELSE word_or_absent(fr, 92)
StartupDelay(way, fr) == IF way = "v8" THEN Value(Entry("areqs", 17)) ELSE word_or_absent(fr, 74)
DosingDelay(way, fr) == IF way = "v8" THEN Value(Entry("areqs", 18)) ELSE word_or_absent(fr, 106)

\* Filtration.  A v8 unit's schedule is told from the hours of its period.
PeriodStart == Entry("reqs", 5)
PeriodEnd == Entry("reqs", 7)
FiltrationPeriod1Start(way, fr) == IF way = "v8" THEN Value(PeriodStart) ELSE time_or_absent(fr, 56)
FiltrationPeriod1End(way, fr) == IF way = "v8" THEN Value(PeriodEnd) ELSE time_or_absent(fr, 58)
FiltrationPeriod2Start(fr) == time_or_absent(fr, 60)
FiltrationPeriod2End(fr) == time_or_absent(fr, 62)
FiltrationSchedule(way, fr) ==
  CASE way = "v8" -> Value(PeriodStart \cup PeriodEnd)
    [] way = "v7" -> IF fr.settings = Unset THEN None ELSE Value(Bits(37, {16, 32}))
VariableSpeedPumpEnabled(fr) == flag_or_none(fr, 22, {8})
VariableSpeedPumpType(fr) == IF 78 \in fr.filled THEN Value(Bits(78, {4, 8})) ELSE None
ServiceMenuOpen(fr) == flag_or_none(fr, 37, {MENU_OPEN})
FlowDetectionEnabled(fr) == flag_or_none(fr, 37, {2})

\* Backwash.
BackwashInterval(fr) == byte_or_absent(fr, 68)
BackwashStartTime(fr) == time_or_absent(fr, 69)
BackwashDuration(fr) == byte_or_absent(fr, 71)
BackwashScheduleEnabled(fr) == flag_or_none(fr, 22, {16})
BackwashRunning(fr) == RelayBit(fr, BACKWASH)

\* Heating.
HeatingAllowed(fr) == flag_or_none(fr, 78, {128})
HeatingCondition(fr) == IF 22 \in fr.filled THEN Value(Bits(22, {1, 2, 32})) ELSE None
HeatingControlEnabled(fr) == flag_or_none(fr, 37, {8})
HeatingLinkedToFiltration(fr) == flag_or_none(fr, 38, {16})
HeatingRunning(fr) == RelayBit(fr, HEATING)

\* Water level; a disconnected sensor (0xFE) is a byte not filled in.
WaterLevel(fr) == byte_or_absent(fr, 27)
WaterLevelLowAlarm(fr) == byte_or_absent(fr, 102)
WaterLevelRefillStart(fr) == byte_or_absent(fr, 103)
WaterLevelRefillStop(fr) == byte_or_absent(fr, 104)
WaterLevelHighAlarm(fr) == byte_or_absent(fr, 105)
WaterLevelSensorEnabled(fr) == flag_or_none(fr, 37, {64})
Refilling(fr) == RelayBit(fr, FILLING)
=============================================================================
