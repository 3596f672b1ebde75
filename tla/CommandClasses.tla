--------------------------- MODULE CommandClasses ---------------------------
(***************************************************************************)
(* src/zwave/commandClasses: what the properties of a command class        *)
(* become in Gladys.  A property, or one of its keys, has a variant, which *)
(* says which features it exposes (Expose), which states a value of it     *)
(* feeds (Reports) and which command a feature of it sends (Build).        *)
(*                                                                         *)
(* A map takes <<property, key>> to a variant, with the key Empty for the  *)
(* `self' of a property.  Names are in their cleaned form.  Of a feature   *)
(* only the name and the category count here: its type, unit and bounds    *)
(* are left out, and so is refineCategory(), which renames the category of *)
(* read-only sensors.                                                      *)
(***************************************************************************)
EXTENDS Integers, Sequences, FiniteSets, TLC

\* Raw values, by their JavaScript type; null stands for undefined too.
Number(n) == <<"number", n>>
Boolean(b) == <<"boolean", IF b THEN 1 ELSE 0>>
Null == <<"null", 0>>

IsNumber(raw) == raw[1] = "number"

ON == 1
OFF == 0
STOP == 0
OPEN == 1

NoVariant == "none"

\* The empty key, name or property.
Empty == ""

\* Maps: of one key, of all of one over another.
Only(key, value) == [x \in {key} |-> value]
Merge(over, map) ==
    [x \in DOMAIN over \cup DOMAIN map |-> IF x \in DOMAIN over THEN over[x] ELSE map[x]]

Self(property, variant) == Only(<<property, Empty>>, variant)
Keyed(property, key, variant) == Only(<<property, key>>, variant)

-----------------------------------------------------------------------------
(* The maps. *)

QubinoFlushPilot == {"345-1-4", "345-81-4", "345-82-4"}

Motors == {"17-5", "17-6", "17-7"}

MultilevelSwitch == Merge(Self("currentvalue", "dimmer"), Self("restoreprevious", "restore"))
BinarySwitch == Self("currentvalue", "switch")
BinarySensor == Merge(Self("any", "motion"), Self("general_purpose", "motion"))
AlarmSensor == Self("state", "alarm")
Battery == Merge(Self("level", "level"), Self("islow", "islow"))
Notification ==
    Merge(Merge(Keyed("access_control", "door_state_simple", "door"),
                Keyed("home_security", "motion_sensor_status", "presence")),
          Merge(Keyed("smoke_alarm", "sensor_status", "smoke"),
                Keyed("co_alarm", "sensor_status", "co")))
CentralScene == Self("scene", "scene")
ThermostatMode == Self("mode", "mode")
OperatingState == Self("state", "operating")
Setpoints == {"heating", "cooling", "energy_save_heating"}
ThermostatSetpoint == [at \in {"setpoint"} \X Setpoints |-> at[2]]
MultilevelSensor ==
    Merge(Self("air_temperature", "temperature"),
          Merge(Self("illuminance", "light"), Self("power", "reading")))
Meter ==
    [at \in {"value"} \X {"electric_a_consumed", "electric_kwh_consumed",
                          "electric_v_consumed", "electric_w_consumed"} |-> "reading"]

\* getCommandClass(): `properties' of a command class; an unknown one has none.
Properties(cc) ==
    CASE cc = "multilevel_switch" -> MultilevelSwitch
      [] cc = "binary_switch" -> BinarySwitch
      [] cc = "binary_sensor" -> BinarySensor
      [] cc = "alarm_sensor" -> AlarmSensor
      [] cc = "battery" -> Battery
      [] cc = "notification" -> Notification
      [] cc = "central_scene" -> CentralScene
      [] cc = "thermostat_mode" -> ThermostatMode
      [] cc = "thermostat_operating_state" -> OperatingState
      [] cc = "thermostat_setpoint" -> ThermostatSetpoint
      [] cc = "multilevel_sensor" -> MultilevelSensor
      [] cc = "meter" -> Meter
      [] OTHER -> <<>>

\* `byProduct': one map for every Flush Pilot.
PilotWire(cc) ==
    CASE cc = "multilevel_switch" ->
            Merge(Self("currentvalue", "pilot"), Self("restoreprevious", "unused"))
      [] cc = "binary_sensor" -> Self("any", "input")
      [] OTHER -> <<>>

\* `byDeviceClass': dimmers expose the restoration, motors are shutters.
Class(cc, class) ==
    CASE cc = "multilevel_switch" /\ class = "17-1" ->
            Self("restoreprevious", "exposedRestore")
      [] cc = "multilevel_switch" /\ class \in Motors -> Self("currentvalue", "shutter")
      [] OTHER -> <<>>

Product(cc, product) == IF product \in QubinoFlushPilot THEN PilotWire(cc) ELSE <<>>

-----------------------------------------------------------------------------
(* The variants: what they expose and what a value of them feeds. *)

One(category) == {[name |-> Empty, category |-> category]}
Several(names, category) == {[name |-> n, category |-> category] : n \in names}

DimmerFeatures == Several({"position", "state"}, "switch")
ShutterFeatures == Several({"position", "state"}, "shutter")
RestoreFeature == One("switch")
PilotFeature == One("heater")
SwitchFeature == One("switch")
BinaryFeature(variant) == One(IF variant = "input" THEN "input" ELSE "motion-sensor")
AlarmFeature == One("motion-sensor")
BatteryFeature(variant) == One(IF variant = "level" THEN "battery" ELSE "battery-low")
NotificationFeature(variant) ==
    One(CASE variant = "door" -> "opening-sensor" [] variant = "smoke" -> "smoke-sensor"
          [] variant = "co" -> "co-sensor" [] OTHER -> "motion-sensor")
SceneFeature == One("button")
ModeFeature == One("thermostat")
OperatingFeature == One("thermostat")
SetpointFeature(variant) == One(IF variant = "cooling" THEN "air-conditioning" ELSE "thermostat")
SensorFeature(variant) == One(IF variant = "light" THEN "light-sensor" ELSE "temperature-sensor")
MeterFeature == One("energy-sensor")

\* `expose' of a variant.
Expose(variant) ==
    CASE variant = "dimmer" -> DimmerFeatures
      [] variant = "shutter" -> ShutterFeatures
      [] variant = "exposedRestore" -> RestoreFeature
      [] variant = "pilot" -> PilotFeature
      [] variant = "switch" -> SwitchFeature
      [] variant \in {"motion", "input"} -> BinaryFeature(variant)
      [] variant = "alarm" -> AlarmFeature
      [] variant \in {"level", "islow"} -> BatteryFeature(variant)
      [] variant \in {"door", "presence", "smoke", "co"} -> NotificationFeature(variant)
      [] variant = "scene" -> SceneFeature
      [] variant = "mode" -> ModeFeature
      [] variant = "operating" -> OperatingFeature
      [] variant \in Setpoints -> SetpointFeature(variant)
      [] variant \in {"temperature", "light"} -> SensorFeature(variant)
      [] variant = "reading" -> MeterFeature
      [] OTHER -> {}

IsEvent(variant) == variant = "scene"

\* A state of the own property of a value, or of a sibling property.
Own(name, state) == [property |-> Empty, name |-> name, state |-> state]
Sibling(property, name, state) == [property |-> property, name |-> name, state |-> state]

OnOff(raw) == IF IsNumber(raw) /\ raw[2] > 0 THEN ON ELSE OFF

LowBatteryPercent == 10

\* pilotWireMode(): the order a level of 0-99 stands for.
PilotMode(n) ==
    CASE n <= 10 -> 0 [] n \in 11..20 -> 1 [] n \in 21..30 -> 2
      [] n \in 31..40 -> 4 [] n \in 41..50 -> 3 [] OTHER -> 5

\* The codes that mean something, and the state each stands for.
NotificationCodes(variant) ==
    CASE variant = "door" -> [c \in {22, 23} |-> c - 22]
      [] variant = "presence" -> [c \in {0, 8} |-> IF c = 8 THEN ON ELSE OFF]
      [] OTHER -> [c \in {0, 2} |-> IF c = 2 THEN ON ELSE OFF]
SceneCodes == [c \in 0..4 |-> <<1, 20, 5, 2, 18>>[c + 1]]
ModeCodes == [c \in (0..3) \cup {11} |-> IF c = 11 THEN 1 ELSE c]
OperatingCodes == [c \in 0..2 |-> c]

\* Any other code publishes nothing.
Codes(variant) ==
    CASE variant \in {"door", "presence", "smoke", "co"} -> NotificationCodes(variant)
      [] variant = "scene" -> SceneCodes
      [] variant = "mode" -> ModeCodes
      [] variant = "operating" -> OperatingCodes
      [] OTHER -> <<>>

Measured(variant, raw) == IsNumber(raw) /\ (variant = "temperature" => raw[2] >= -273)
BooleanState(raw) == raw[1] = "boolean"

\* What is published as it is: a number, within its range, or a boolean.
AsItIs(variant, raw) ==
    CASE variant \in Setpoints -> IsNumber(raw)
      [] variant \in {"temperature", "light", "reading"} -> Measured(variant, raw)
      [] variant \in {"switch", "motion", "input", "islow"} -> BooleanState(raw)
      [] OTHER -> FALSE

\* Faulty variant of DerivesLow: every level feeds the flag.
DerivesLowAlways(flagged) == TRUE

\* `when' of the battery: a node that reports the flag itself is believed.
DerivesLow(flagged) == ~flagged

PositionStates(raw) == IF IsNumber(raw) THEN {Own("position", raw[2])} ELSE {}

\* A position report also tells the state, and the one of the restoration.
DimmerStates(raw) ==
    PositionStates(raw)
    \cup {Own("state", OnOff(raw)), Sibling("restoreprevious", Empty, OnOff(raw))}

PilotStates(raw) ==
    IF IsNumber(raw) /\ raw[2] \in 0..99 THEN {Own(Empty, PilotMode(raw[2]))} ELSE {}

AlarmStates(raw) == {Own(Empty, OnOff(raw))}

\* A level feeds the flag of the nodes that do not report it themselves.
LevelStates(flagged, raw) ==
    {Own(Empty, raw[2])}
    \cup (IF DerivesLow(flagged)
            THEN {Sibling("islow", Empty, IF raw[2] <= LowBatteryPercent THEN ON ELSE OFF)}
            ELSE {})

\* fromZwave of a variant: the states a raw value feeds.  `flagged' tells
\* whether the node reports its low battery flag itself.
Reports(variant, flagged, raw) ==
    CASE variant = "dimmer" -> DimmerStates(raw)
      [] variant = "shutter" -> PositionStates(raw)
      [] variant = "pilot" -> PilotStates(raw)
      [] variant = "alarm" -> AlarmStates(raw)
      [] variant = "level" /\ IsNumber(raw) -> LevelStates(flagged, raw)
      [] IsNumber(raw) /\ raw[2] \in DOMAIN Codes(variant) -> {Own(Empty, Codes(variant)[raw[2]])}
      [] AsItIs(variant, raw) -> {Own(Empty, raw[2])}
      [] OTHER -> {}

-----------------------------------------------------------------------------
(* Commands. *)

\* The names of toZwave: the features of a variant that can be commanded.
Commandable(variant) ==
    CASE variant \in {"dimmer", "shutter"} -> {"position", "state"}
      [] variant \in {"restore", "exposedRestore", "pilot", "switch", "mode"} \cup Setpoints -> {Empty}
      [] OTHER -> {}

PilotLevel == [order \in 0..5 |-> <<0, 20, 30, 50, 40, 99>>[order + 1]]

\* min..max of a commandable feature: what Gladys offers for it.
PositionRange == 0..99
CoverRange == -1..1
PilotRange == 0..5
ModeRange == 0..3
SetpointRange == 5..40
OnOffRange == 0..1

Offered(variant, name) ==
    CASE name = "position" -> PositionRange
      [] variant = "shutter" /\ name = "state" -> CoverRange
      [] variant = "pilot" -> PilotRange
      [] variant = "mode" -> ModeRange
      [] variant \in Setpoints -> SetpointRange
      [] OTHER -> OnOffRange

\* What the builder throws for.
Accepts(variant, value) == variant = "pilot" => value \in DOMAIN PilotLevel

SendCommand(name, raw, updates) ==
    [name |-> name, raw |-> raw, type |-> 0, updates |-> updates]
WriteValue(property, raw, type) ==
    [name |-> property, raw |-> raw, type |-> type, updates |-> {}]

\* sendCommand('set', [level]) with the siblings of a dimmer's on/off or position.
SetLevel(level, updates) == SendCommand("set", Number(level), updates)

Lit(value) == IF value > 0 THEN ON ELSE OFF

\* Faulty variant of Switched: a position of zero leaves the dimmer on.
SwitchedOn(value) ==
    {Own("state", ON), Sibling("restoreprevious", Empty, ON)}

\* The siblings of a position.
Switched(value) ==
    {Own("state", Lit(value)), Sibling("restoreprevious", Empty, Lit(value))}

SetpointType(variant) ==
    CASE variant = "heating" -> 1 [] variant = "cooling" -> 2 [] OTHER -> 11

\* Of a dimmer, each feature tells the other two what it will do to them.
DimmerCommand(name, value) ==
    LET level == IF value = ON THEN 99 ELSE 0 IN
    IF name = "position"
      THEN SetLevel(value, Switched(value))
      ELSE SetLevel(level, {Own("position", level), Sibling("restoreprevious", Empty, Lit(level))})

\* ON goes back to a level only the device knows.
RestoreCommand(value) ==
    IF value = ON
      THEN WriteValue("restorePrevious", Boolean(TRUE), 0)
      ELSE SetLevel(0, {Sibling("currentvalue", "state", OFF),
                        Sibling("currentvalue", "position", 0)})

ShutterCommand(name, value) ==
    LET level == IF value = OPEN THEN 99 ELSE 0 IN
    IF name = "position" THEN SetLevel(value, {})
    ELSE IF value = STOP THEN SendCommand("stopLevelChange", Null, {})
    ELSE SetLevel(level, {Own("position", level)})

PilotCommand(value) == SetLevel(PilotLevel[value], {})
SwitchCommand(value) == SendCommand("set", Boolean(value = ON), {})
ModeCommand(value) == WriteValue("mode", Number(IF value \in {0, 2, 3} THEN value ELSE 1), 0)
SetpointCommand(variant, value) == WriteValue("setpoint", Number(value), SetpointType(variant))

\* toZwave[name](value) of a variant: the command and its sibling states.
Build(variant, name, value) ==
    CASE variant = "dimmer" -> DimmerCommand(name, value)
      [] variant \in {"restore", "exposedRestore"} -> RestoreCommand(value)
      [] variant = "shutter" -> ShutterCommand(name, value)
      [] variant = "pilot" -> PilotCommand(value)
      [] variant = "switch" -> SwitchCommand(value)
      [] variant = "mode" -> ModeCommand(value)
      [] variant \in Setpoints -> SetpointCommand(variant, value)

-----------------------------------------------------------------------------
(* Resolution. *)

At(map, property, key) ==
    IF <<property, key>> \in DOMAIN map THEN map[<<property, key>>] ELSE NoVariant

\* lookup(): the variant of a key, which the empty one is not.
Lookup(map, property, key) == IF key = Empty THEN NoVariant ELSE At(map, property, key)
LookupSelf(map, property) == At(map, property, Empty)

\* `??' of the code, for variants.
found ?? other == IF found = NoVariant THEN other ELSE found

\* resolveVariant(): keys before the property itself, and at each level the
\* product before the device class before the command class.
ResolveVariant(cc, property, key, product, class) ==
    Lookup(Product(cc, product), property, key)
    ?? Lookup(Class(cc, class), property, key)
    ?? Lookup(Properties(cc), property, key)
    ?? LookupSelf(Product(cc, product), property)
    ?? LookupSelf(Class(cc, class), property)
    ?? LookupSelf(Properties(cc), property)

\* How the segments that trail a feature id may be read.
Interpretations(trailing) ==
    CASE Len(trailing) = 0 -> <<[key |-> Empty, name |-> Empty]>>
      [] Len(trailing) = 1 -> <<[key |-> trailing[1], name |-> Empty],
                                [key |-> Empty, name |-> trailing[1]]>>
      [] OTHER -> <<[key |-> trailing[1], name |-> trailing[2]]>>

\* Every map of the command class, the narrower first: the node is unknown.
PropertyMaps(cc) == <<PilotWire(cc), Class(cc, "17-1"), Class(cc, "17-5"), Properties(cc)>>

\* What a map leads to, for a way of reading the trailing segments.
Candidate(map, property, reading) ==
    [variant |-> Lookup(map, property, reading.key)
                 ?? (IF reading.key = Empty THEN LookupSelf(map, property) ELSE NoVariant),
     key |-> reading.key, name |-> reading.name]

\* <<map, reading>> -> candidate.
Candidates(cc, property, trailing) ==
    LET maps == PropertyMaps(cc)
        readings == Interpretations(trailing)
    IN  [at \in (DOMAIN maps) \X (DOMAIN readings) |->
            Candidate(maps[at[1]], property, readings[at[2]])]

\* The order of the loops.
Before(at, other) == at[1] < other[1] \/ (at[1] = other[1] /\ at[2] <= other[2])
First(found) == CHOOSE at \in found : \A other \in found : Before(at, other)

\* Faulty variant of Exposes: any feature of that name will do.
ExposesName(candidate, category) ==
    \E f \in Expose(candidate.variant) : f.name = candidate.name

\* Whether a candidate exposes the feature, of that very category.
Exposes(candidate, category) ==
    [name |-> candidate.name, category |-> category] \in Expose(candidate.variant)

NoCommand == [variant |-> NoVariant, key |-> Empty, name |-> Empty]

\* resolveCommand(): one that exposes the feature, else one without feature.
ResolveCommand(cc, property, trailing, category) ==
    LET all == Candidates(cc, property, trailing)
        built == {at \in DOMAIN all : all[at].name \in Commandable(all[at].variant)}
        pass1 == {at \in built : Exposes(all[at], category)}
        pass2 == {at \in built : Expose(all[at].variant) = {}}
    IN  IF pass1 # {} THEN all[First(pass1)]
        ELSE IF pass2 # {} THEN all[First(pass2)] ELSE NoCommand
=============================================================================
