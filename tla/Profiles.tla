------------------------------ MODULE Profiles ------------------------------
(***************************************************************************)
(* The profiles (decoding/profiles): for each model the quantities it has,   *)
(* in the order they are listed, and the readings that differ from the       *)
(* protocol's own; and how a frame finds its profile.  "evidence" is left    *)
(* out but for the rule that a quantity nobody has located is read by the    *)
(* not_located reading.                                                      *)
(***************************************************************************)
EXTENDS PlainReadings, Sequences, SequencesExt, TLC

\* depends_on, the optional one included: no feature has two, and what one depends
\* on depends on nothing.
Nothing == "nothing"
DependsOn(f) ==
  CASE f \in {"ph", "redox", "free_chlorine", "free_chlorine_mv", "ph_target",
              "free_chlorine_target", "redox_target", "chlorine_dose_target"} ->
         "configuration"
    [] f = "filtration_running" -> "service_menu_open"
    [] f = "algaecide_pump_running" -> "algaecide_flow_rate"
    [] f = "flocculant_pump_running" -> "flocculant_flow_rate"
    [] f = "oxygen_pump_running" -> "oxygen_flow_rate"
    [] OTHER -> Nothing

\* A profile: its name, its features in order, and its overrides.
NoOverrides == [f \in {} |-> ""]

\* Features to the same reading, and one set of overrides with another.
Reads(S, way) == [f \in S |-> way]

r ++ s == [f \in DOMAIN r \cup DOMAIN s |-> IF f \in DOMAIN r THEN r[f] ELSE s[f]]

-----------------------------------------------------------------------------
(* Groups the v7 profiles share *)

IDENTITY == <<"serial_number", "configuration", "timestamp">>
CLOCK == <<"unit_clock">>
MEASUREMENTS == <<"water_temperature", "water_flow_to_probes">>
CHLORINE_PROBES == <<"ph", "redox", "free_chlorine", "free_chlorine_mv">>
SETTINGS ==
  <<"ph_target", "water_temperature_target", "pool_volume", "startup_delay",
    "dosing_delay", "ph_minus_flow_rate">>
ALARMS ==
  <<"alarm_ph_dosing_ineffective", "alarm_max_disinfection_dose",
    "alarm_no_flow_to_probes", "alarm_rapid_ph_change">>
FILTRATION_FEATURES ==
  <<"filtration_period_1_start", "filtration_period_1_end",
    "filtration_period_2_start", "filtration_period_2_end", "filtration_schedule",
    "filtration_running">>
BACKWASH_FEATURES ==
  <<"backwash_interval", "backwash_start_time", "backwash_duration",
    "backwash_running">>
WATER_LEVEL ==
  <<"water_level", "water_level_low_alarm", "water_level_refill_start",
    "water_level_refill_stop", "water_level_high_alarm", "refilling">>
UNIT_STATE ==
  <<"heating_running", "variable_speed_pump_enabled", "ph_minus_concentration">>
DISINFECTION_SETPOINTS ==
  <<"free_chlorine_target", "redox_target", "chlorine_dose_target">>

\* What several of the lists below have in a row.
THIRD_DOSES == <<"algaecide_dose_target", "flocculant_dose_target">>
THIRD_RATES == <<"algaecide_flow_rate", "flocculant_flow_rate">>
THIRD_PUMPS == <<"algaecide_pump_running", "flocculant_pump_running">>
CHLORINE_PUMPS == <<"chlorine_pump_running", "ph_minus_pump_running">>
LIMITS == <<"max_refill_time", "max_ph_doses">>

\* Algicide / flocculant on one port, routed by byte[37] bit 0x80.
SHARED_THIRD_PUMP ==
  Reads({"algaecide_dose_target", "flocculant_dose_target", "algaecide_flow_rate",
         "flocculant_flow_rate"}, "v7_routed_by_byte37")

-----------------------------------------------------------------------------
(* v7 *)

HOME == [
  name |-> "v7 HOME",
  features |->
    IDENTITY \o CLOCK \o MEASUREMENTS \o <<"air_temperature">> \o CHLORINE_PROBES
    \o SETTINGS \o DISINFECTION_SETPOINTS \o THIRD_DOSES
    \o <<"chlorine_flow_rate">> \o THIRD_RATES \o FILTRATION_FEATURES
    \o CHLORINE_PUMPS \o THIRD_PUMPS \o WATER_LEVEL \o LIMITS \o UNIT_STATE
    \o <<"heating_control_enabled", "heating_linked_to_filtration",
         "freeze_protection_enabled", "service_menu_open",
         "water_level_sensor_enabled", "flow_detection_enabled",
         "backwash_schedule_enabled", "variable_speed_pump_type">>
    \o BACKWASH_FEATURES \o ALARMS,
  overrides |->
    Reads({"configuration"}, "v7_by_unit_type_byte")
    ++ Reads({"filtration_running"}, "v7_menu_override")
    ++ Reads({"algaecide_pump_running"}, "v7_oxy")
    ++ Reads({"algaecide_flow_rate"}, "not_located")]

SALT == [
  name |-> "v7 SALT",
  features |->
    IDENTITY \o CLOCK \o MEASUREMENTS
    \o <<"air_temperature", "ph", "redox", "free_chlorine", "salinity",
         "chlorine_production", "electrolysis_running", "electrode_polarity">>
    \o SETTINGS \o DISINFECTION_SETPOINTS \o THIRD_DOSES \o THIRD_RATES
    \o FILTRATION_FEATURES \o <<"service_menu_open", "ph_minus_pump_running">>
    \o THIRD_PUMPS \o WATER_LEVEL \o LIMITS \o UNIT_STATE
    \o <<"heating_control_enabled", "heating_linked_to_filtration",
         "freeze_protection_enabled", "water_level_sensor_enabled",
         "flow_detection_enabled", "backwash_schedule_enabled",
         "heating_condition", "heating_allowed", "variable_speed_pump_type">>
    \o BACKWASH_FEATURES \o ALARMS,
  overrides |->
    SHARED_THIRD_PUMP ++ Reads({"freeze_protection_enabled"}, "v7_winter_mode")]

OXY == [
  name |-> "v7 OXY",
  features |->
    IDENTITY \o CLOCK \o MEASUREMENTS \o <<"air_temperature", "ph">> \o SETTINGS
    \o <<"oxygen_dose_target", "flocculant_dose_target", "algaecide_dose_target",
         "oxygen_flow_rate", "flocculant_flow_rate", "algaecide_flow_rate">>
    \o FILTRATION_FEATURES \o <<"service_menu_open", "ph_minus_pump_running">>
    \o THIRD_PUMPS \o <<"oxygen_pump_running">> \o WATER_LEVEL \o LIMITS
    \o UNIT_STATE
    \o <<"heating_control_enabled", "freeze_protection_enabled",
         "water_level_sensor_enabled", "flow_detection_enabled">>
    \o BACKWASH_FEATURES \o ALARMS,
  overrides |->
    Reads({"water_level_refill_start", "heating_control_enabled",
           "freeze_protection_enabled"}, "not_located")
    ++ Reads({"configuration"}, "v7_ph_and_oxy")
    ++ Reads({"algaecide_pump_running"}, "v7_oxy")]

NET == [
  name |-> "v7 NET",
  features |->
    IDENTITY \o MEASUREMENTS \o CHLORINE_PROBES
    \o <<"ph_target", "pool_volume", "startup_delay", "dosing_delay",
         "ph_minus_flow_rate">>
    \o DISINFECTION_SETPOINTS \o <<"chlorine_flow_rate">> \o CHLORINE_PUMPS
    \o ALARMS,
  overrides |-> Reads({"chlorine_pump_running", "ph_minus_pump_running"}, "v7_net")]

PROFI == [
  name |-> "v7 PROFI",
  features |->
    IDENTITY \o CLOCK \o MEASUREMENTS \o CHLORINE_PROBES \o SETTINGS
    \o <<"free_chlorine_target", "chlorine_dose_target", "flocculant_dose_target",
         "chlorine_flow_rate", "flocculant_flow_rate">>
    \o FILTRATION_FEATURES \o <<"service_menu_open">> \o CHLORINE_PUMPS
    \o <<"flocculant_pump_running">> \o WATER_LEVEL
    \o <<"max_refill_time", "heating_running", "ph_minus_concentration",
         "max_ph_doses">>
    \o BACKWASH_FEATURES \o ALARMS,
  overrides |->
    Reads({"configuration"}, "v7_without_dose")
    ++ Reads({"flocculant_dose_target", "flocculant_flow_rate"}, "v7_routed_by_byte37")]

UNKNOWN == [
  name |-> "v7 unknown unit type",
  features |->
    IDENTITY \o MEASUREMENTS \o CHLORINE_PROBES \o SETTINGS
    \o DISINFECTION_SETPOINTS \o THIRD_DOSES \o <<"chlorine_flow_rate">>
    \o THIRD_RATES \o FILTRATION_FEATURES \o <<"service_menu_open">>
    \o CHLORINE_PUMPS \o THIRD_PUMPS \o WATER_LEVEL \o LIMITS \o UNIT_STATE
    \o BACKWASH_FEATURES \o ALARMS,
  overrides |-> Reads({"configuration"}, "v7_all_probes") ++ SHARED_THIRD_PUMP]

-----------------------------------------------------------------------------
(* v8 *)

V8_CORE ==
  <<"serial_number", "configuration", "timestamp", "unit_clock",
    "water_temperature", "water_flow_to_probes", "ph", "redox",
    "filtration_running", "ph_minus_pump_running">>
V8_RATE == <<"ph_minus_flow_rate">>
V8_SETTINGS ==
  <<"ph_target", "redox_target", "pool_volume", "startup_delay", "dosing_delay">>

V8_FEATURES ==
  V8_CORE \o <<"chlorine_pump_running">> \o V8_RATE \o <<"chlorine_flow_rate">>
  \o V8_SETTINGS

V8_NET == [name |-> "v8 NET", features |-> V8_FEATURES, overrides |-> NoOverrides]

\* The layout of NET without the chlorine pump, and what a salt unit adds.
V8_SALT == [
  name |-> "v8 SALT",
  features |->
    V8_CORE \o V8_RATE \o V8_SETTINGS
    \o <<"salinity", "chlorine_production", "electrolysis_running",
         "electrode_polarity", "algaecide_pump_running", "algaecide_dose_target",
         "flocculant_pump_running", "flocculant_dose_target",
         "alarm_no_flow_to_probes", "alarm_max_disinfection_dose",
         "filtration_period_1_start", "filtration_period_1_end",
         "filtration_schedule">>,
  overrides |-> NoOverrides]

V8_UNKNOWN ==
  [name |-> "v8 unknown header type", features |-> V8_FEATURES, overrides |-> NoOverrides]

-----------------------------------------------------------------------------
(* From a frame to its profile *)

\* The exact values of byte[4]; any other is unmapped.
unit_type_from_byte(type) ==
  CASE type \in 2..4 -> "HOME"
    [] type = 5 -> "OXY"
    [] type \in 9..11 -> "NET"
    [] type \in 13..15 -> "SALT"
    [] type = 16 -> "PROFI"
    [] OTHER -> "none"

model_from_header_type(type) ==
  CASE type \in 800..899 -> "NET" [] type \in 100..199 -> "SALT" [] OTHER -> "none"

model_of(fr) ==
  IF fr.protocol = "v8" THEN model_from_header_type(fr.unit)
  ELSE unit_type_from_byte(fr.unit)

ByModelV7 ==
  [HOME |-> HOME, SALT |-> SALT, OXY |-> OXY, NET |-> NET, PROFI |-> PROFI,
   none |-> UNKNOWN]

ByModelV8 == [NET |-> V8_NET, SALT |-> V8_SALT, none |-> V8_UNKNOWN]

\* Runs on every frame, not once at set-up.
detect_profile(fr) ==
  IF fr.protocol = "v8" THEN ByModelV8[model_of(fr)] ELSE ByModelV7[model_of(fr)]

-----------------------------------------------------------------------------
(* The order a profile's features are decoded in *)

\* Each feature once, its dependency, if that is listed, ahead of it.
Visit(listed, done, f) ==
  LET needed == DependsOn(f)
  IN  IF f \in Range(done) THEN done
      ELSE IF needed \in listed \ Range(done) THEN done \o <<needed, f>>
      ELSE done \o <<f>>

\* Mutant: in the order they are listed.
OrderedAsListed(listed) == listed

Ordered(listed) ==
  LET done[i \in 0..Len(listed)] ==
        IF i = 0 THEN <<>> ELSE Visit(Range(listed), done[i - 1], listed[i])
  IN done[Len(listed)]

AllProfiles == {ByModelV7[m] : m \in DOMAIN ByModelV7} \cup {ByModelV8[m] : m \in DOMAIN ByModelV8}

\* Settled once, when the profile is made.
DecodeOrder == [p \in {p.name : p \in AllProfiles} |->
                  Ordered((CHOOSE q \in AllProfiles : q.name = p).features)]

\* The attributes of a device that some profile reads.
Fields == UNION {Range(p.features) : p \in AllProfiles}

reading_for(profile, fr, f) ==
  IF f \in DOMAIN profile.overrides THEN profile.overrides[f] ELSE fr.protocol
=============================================================================
