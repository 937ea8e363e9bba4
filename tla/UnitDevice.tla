----------------------------- MODULE UnitDevice -----------------------------
(***************************************************************************)
(* One unit as its entities see it: every frame is decoded with the profile  *)
(* it asks for (engine.decode), and the coordinator stores the result over   *)
(* the device it has (devices_update_callback, _store_device), keeping what  *)
(* the unit has ever shown, or keeps the frame of an unmapped type apart.    *)
(*                                                                         *)
(* The unit's owner changes its settings as he likes: a frame has any        *)
(* configuration of the unit's model, and now and then a unit type or header *)
(* type that nobody has mapped.                                              *)
(***************************************************************************)
EXTENDS Profiles

CONSTANTS
  Kinds,        \* the units there may be: a protocol with its types, [protocol, types]
  UnmappedV7,   \* a value of byte[4] that no model has
  UnmappedV8    \* a header type that no line has

VARIABLES
  unit,          \* which of Kinds sends the frames
  stored,        \* the device in coordinator.data, or NoDevice
  unrecognised,  \* a frame of an unmapped type is kept for diagnostics
  lastFrame,     \* history: the last frame of a mapped type
  everPresent    \* history: the quantities such frames have shown

deviceVars == <<unit, stored, unrecognised, lastFrame, everPresent>>

NoFrame == [protocol |-> "none"]
NoDevice == [profile |-> "none", model |-> "none", values |-> [f \in Fields |-> None],
             features |-> {}, present |-> {}]

FramesOf(u) ==
  IF u.protocol = "v8" THEN V8Frames(u.types \cup {UnmappedV8})
  ELSE V7Frames(u.types \cup {UnmappedV7})

-----------------------------------------------------------------------------
(* engine.decode *)

\* The reading of a feature, which may read what was decoded before.
Reading(f, way, fr, dev) ==
  CASE f = "configuration" -> Value(Nowhere)   \* the probes, in dev.probes
    [] f = "serial_number" -> SerialNumber(way)
    [] f = "timestamp" -> Timestamp(way, fr)
    [] f = "unit_clock" -> UnitClock(way, fr)
    [] f = "air_temperature" -> AirTemperature(fr)
    [] f = "water_temperature" -> WaterTemperature(way, fr)
    [] f = "water_flow_to_probes" -> WaterFlowToProbes(way)
    [] f = "salinity" -> Salinity(way, fr)
    [] f = "chlorine_production" -> ChlorineProduction(way, fr)
    [] f = "ph" -> Ph(way, fr, dev.probes)
    [] f = "redox" -> Redox(way, fr, dev.probes)
    [] f = "free_chlorine" -> FreeChlorine(fr, dev.probes)
    [] f = "free_chlorine_mv" -> FreeChlorineMv(fr, dev.probes)
    [] f = "ph_target" -> PhTarget(way, fr, dev.probes)
    [] f = "free_chlorine_target" -> FreeChlorineTarget(fr, dev.probes)
    [] f = "redox_target" -> RedoxTarget(way, fr, dev.probes)
    [] f = "chlorine_dose_target" -> ChlorineDoseTarget(fr, dev.probes)
    [] f = "oxygen_dose_target" -> OxygenDoseTarget(fr)
    [] f = "algaecide_dose_target" -> AlgaecideDoseTarget(way, fr)
    [] f = "flocculant_dose_target" -> FlocculantDoseTarget(way, fr)
    [] f = "water_temperature_target" -> WaterTemperatureTarget(fr)
    [] f = "pool_volume" -> PoolVolume(way, fr)
    [] f = "startup_delay" -> StartupDelay(way, fr)
    [] f = "dosing_delay" -> DosingDelay(way, fr)
    [] f = "max_refill_time" -> MaxRefillTime(fr)
    [] f = "max_ph_doses" -> MaxPhDoses(fr)
    [] f = "ph_minus_concentration" -> PhMinusConcentration(fr)
    [] f = "ph_minus_flow_rate" -> PhMinusFlowRate(way, fr)
    [] f = "chlorine_flow_rate" -> ChlorineFlowRate(way, fr)
    [] f = "oxygen_flow_rate" -> OxygenFlowRate(fr)
    [] f = "algaecide_flow_rate" -> AlgaecideFlowRate(way, fr)
    [] f = "flocculant_flow_rate" -> FlocculantFlowRate(way, fr)
    [] f = "ph_minus_pump_running" -> PhMinusPumpRunning(way, fr)
    [] f = "chlorine_pump_running" -> ChlorinePumpRunning(way, fr)
    [] f = "oxygen_pump_running" ->
         OxygenPumpRunning(fr, dev.values["oxygen_flow_rate"])
    [] f = "algaecide_pump_running" ->
         AlgaecidePumpRunning(way, fr, dev.values["algaecide_flow_rate"])
    [] f = "flocculant_pump_running" ->
         FlocculantPumpRunning(way, fr, dev.values["flocculant_flow_rate"])
    [] f = "electrolysis_running" -> ElectrolysisRunning(way, fr)
    [] f = "electrode_polarity" -> ElectrodePolarity(way, fr)
    [] f = "service_menu_open" -> ServiceMenuOpen(fr)
    [] f = "filtration_running" ->
         FiltrationRunning(way, fr, dev.values["service_menu_open"])
    [] f = "filtration_schedule" -> FiltrationSchedule(way, fr)
    [] f = "filtration_period_1_start" -> FiltrationPeriod1Start(way, fr)
    [] f = "filtration_period_1_end" -> FiltrationPeriod1End(way, fr)
    [] f = "filtration_period_2_start" -> FiltrationPeriod2Start(fr)
    [] f = "filtration_period_2_end" -> FiltrationPeriod2End(fr)
    [] f = "variable_speed_pump_enabled" -> VariableSpeedPumpEnabled(fr)
    [] f = "variable_speed_pump_type" -> VariableSpeedPumpType(fr)
    [] f = "flow_detection_enabled" -> FlowDetectionEnabled(fr)
    [] f = "backwash_running" -> BackwashRunning(fr)
    [] f = "backwash_interval" -> BackwashInterval(fr)
    [] f = "backwash_start_time" -> BackwashStartTime(fr)
    [] f = "backwash_duration" -> BackwashDuration(fr)
    [] f = "backwash_schedule_enabled" -> BackwashScheduleEnabled(fr)
    [] f = "heating_running" -> HeatingRunning(fr)
    [] f = "heating_allowed" -> HeatingAllowed(fr)
    [] f = "heating_condition" -> HeatingCondition(fr)
    [] f = "heating_control_enabled" -> HeatingControlEnabled(fr)
    [] f = "heating_linked_to_filtration" -> HeatingLinkedToFiltration(fr)
    [] f = "freeze_protection_enabled" -> FreezeProtectionEnabled(way, fr)
    [] f = "refilling" -> Refilling(fr)
    [] f = "water_level" -> WaterLevel(fr)
    [] f = "water_level_low_alarm" -> WaterLevelLowAlarm(fr)
    [] f = "water_level_refill_start" -> WaterLevelRefillStart(fr)
    [] f = "water_level_refill_stop" -> WaterLevelRefillStop(fr)
    [] f = "water_level_high_alarm" -> WaterLevelHighAlarm(fr)
    [] f = "water_level_sensor_enabled" -> WaterLevelSensorEnabled(fr)
    [] f = "alarm_max_disinfection_dose" -> AlarmMaxDisinfectionDose(way)
    [] f = "alarm_no_flow_to_probes" -> AlarmNoFlowToProbes(way)
    [] f = "alarm_ph_dosing_ineffective" -> AlarmPhDosingIneffective
    [] f = "alarm_rapid_ph_change" -> AlarmRapidPhChange

\* The chosen one: a feature that nobody has located has no reading.
Read(f, way, fr, dev) ==
  IF way = "not_located" THEN None ELSE Reading(f, way, fr, dev)

\* One step of the decode loop: NOT_PRESENT is stored as None and not counted.
Decoded(fr, profile, dev, f) ==
  LET way == reading_for(profile, fr, f)
      value == Read(f, way, fr, dev)
  IN  [values |-> [dev.values EXCEPT ![f] = IF value = NOT_PRESENT THEN None ELSE value],
       present |-> IF value = NOT_PRESENT THEN dev.present ELSE dev.present \cup {f},
       probes |-> IF f = "configuration" THEN Configuration(way, fr) ELSE dev.probes]

\* What is decoded after each feature of the profile's order.
BlankDevice == [values |-> [f \in Fields |-> None], present |-> {}, probes |-> {}]

Filling(fr) ==
  LET profile == detect_profile(fr)
      order == DecodeOrder[profile.name]
      dev[i \in 0..Len(order)] ==
        IF i = 0 THEN BlankDevice ELSE Decoded(fr, profile, dev[i - 1], order[i])
  IN dev[Len(order)]

Decode(fr) ==
  LET dev == Filling(fr)
  IN  [profile |-> detect_profile(fr).name, model |-> model_of(fr),
       values |-> dev.values, features |-> dev.present, present |-> dev.present]

\* Decoding is a function of the frame alone: a table, here compared with itself
\* so that TLC settles it once.
DeviceOf ==
  CHOOSE table \in {[fr \in UNION {FramesOf(u) : u \in Kinds} |-> Decode(fr)]} :
    table = table

-----------------------------------------------------------------------------
(* The coordinator *)

DeviceInit ==
  /\ unit \in Kinds
  /\ stored = NoDevice /\ unrecognised = FALSE
  /\ lastFrame = NoFrame /\ everPresent = {}

\* Mutant: what the unit has ever shown counts as present.
MergedPresent(dev) ==
  [dev EXCEPT !.features = @ \cup stored.features, !.present = @ \cup stored.features]

\* Mutant: a quantity a frame does not have keeps its last value.
MergedValues(dev) ==
  [dev EXCEPT !.features = @ \cup stored.features,
              !.values = [f \in Fields |->
                            IF @[f] = None THEN stored.values[f] ELSE @[f]]]

\* _merge_features: what the unit has shown stays; every attribute, the
\* unreadable and absent ones too, is copied over the stored device.
MergedFeatures(dev) == [dev EXCEPT !.features = @ \cup stored.features]

\* Mutant: stored like any other.
KeepUnrecognisedStored(fr) ==
  /\ model_of(fr) = "none"
  /\ stored' = MergedFeatures(DeviceOf[fr])
  /\ unrecognised' = TRUE
  /\ UNCHANGED <<unit, lastFrame, everPresent>>

\* _keep_unrecognised: a frame of an unmapped type, for diagnostics only.
KeepUnrecognised(fr) ==
  /\ model_of(fr) = "none"
  /\ unrecognised' = TRUE
  /\ UNCHANGED <<unit, stored, lastFrame, everPresent>>

StoreDevice(fr) ==
  /\ model_of(fr) # "none"
  /\ stored' = MergedFeatures(DeviceOf[fr])
  /\ lastFrame' = fr
  /\ everPresent' = everPresent \cup DeviceOf[fr].present
  /\ UNCHANGED <<unit, unrecognised>>

\* devices_update_callback
DeviceNext == \E fr \in FramesOf(unit) : KeepUnrecognised(fr) \/ StoreDevice(fr)

DeviceSpec == DeviceInit /\ [][DeviceNext]_deviceVars

-----------------------------------------------------------------------------
(* Properties *)

DeviceTypeOK ==
  /\ unit \in Kinds
  /\ \A f \in Fields : stored.values[f].is \in {"none", "value", "on", "off"}
  /\ stored.present \subseteq stored.features
  /\ stored.features \subseteq Fields
  /\ unrecognised \in BOOLEAN

Setpoints ==
  {"free_chlorine_target", "redox_target", "chlorine_dose_target", "oxygen_dose_target"}

Algicide == {"algaecide_dose_target", "algaecide_flow_rate", "algaecide_pump_running"}
Flocculant == {"flocculant_dose_target", "flocculant_flow_rate", "flocculant_pump_running"}

\* The models on which algicide and flocculant share a port.
OnePort == {"v7 SALT", "v7 PROFI", "v8 SALT"}

\* Two readings that are one by design: an electrolyser runs and has a
\* polarity, the timestamp is the unit's clock, a v8 unit's schedule is told
\* from its hours; and with both probes a chlorine and a redox value may come
\* from word 16 (PROFI, of which no frame is known).
OneByDesign ==
  {{"electrolysis_running", "electrode_polarity"}, {"timestamp", "unit_clock"},
   {"filtration_schedule", "filtration_period_1_start"},
   {"filtration_schedule", "filtration_period_1_end"}, {"free_chlorine", "redox"}}

\* No bit, byte or entry of a frame is shown as two quantities: on no model
\* does one pump count for two chemicals or one setting read as another,
\* however the port is routed and whatever is filled in.
PlacesReadOnce ==
  \A f, g \in stored.present :
    \/ f = g \/ {f, g} \in OneByDesign
    \/ stored.values[f].at \cap stored.values[g].at = {}

\* A unit that is set up differently shows nothing of its former set-up: a
\* value belongs to a quantity the last frame has, of which there is one
\* setpoint and, on a shared port, one chemical - though its entities stay.
NothingOfTheFormerSetUp ==
  /\ DeviceTypeOK
  /\ \A f \in Fields : stored.values[f] # None => f \in stored.present
  /\ Cardinality(stored.present \cap Setpoints) <= 1
  /\ stored.profile \in OnePort =>
       \/ \A f \in Algicide : stored.values[f] = None
       \/ \A f \in Flocculant : stored.values[f] = None

\* What is shown as running runs, by the last frame: a filter that the menu
\* of a HOME has switched off is off, though its relay bit is set; and a third
\* pump of a v7 unit that runs has a flow rate to count its dose with.
RunningIsTrue ==
  LET running == {f \in Fields : stored.values[f].is = "on"}
  IN  /\ "filtration_running" \in running /\ stored.profile = "v7 HOME" =>
           lastFrame.settings = Unset \/ MENU_OPEN \notin lastFrame.settings
      /\ stored.profile \in {"v7 SALT", "v7 OXY", "v7 HOME", "v7 PROFI"} =>
           /\ "algaecide_pump_running" \in running =>
                stored.values["algaecide_flow_rate"].is = "value"
           /\ "flocculant_pump_running" \in running =>
                stored.values["flocculant_flow_rate"].is = "value"
           /\ "oxygen_pump_running" \in running =>
                stored.values["oxygen_flow_rate"].is = "value"

\* What a unit has shown it has for good, and nothing is added that no frame
\* of a mapped type has shown: a frame with a garbled type byte, decoded with
\* the profile that reads everything, leaves the unit's entities alone.
ShownForGood ==
  [][/\ stored.features \subseteq stored'.features
     /\ stored'.features = everPresent'
     /\ stored'.model # "none"]_stored

\* "byte[53] is one of these three depending on the installed probes, each
\* answers only when it is the one that applies" (profiles/v7/common.py): a
\* chlorine unit has the setpoint of its probes, a DOSE unit the dose.
SetpointOfTheProbes ==
  stored.model \in {"HOME", "NET", "SALT"} /\ lastFrame.protocol = "v7" =>
    Cardinality(stored.present \cap Setpoints) = 1
=============================================================================
