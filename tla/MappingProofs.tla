--------------------------- MODULE MappingProofs ---------------------------
(***************************************************************************)
(* Lemmas about CommandClasses and Mapping, for every node.                *)
(***************************************************************************)
EXTENDS Mapping, SequenceTheorems, TLAPS

-----------------------------------------------------------------------------
(* External ids. *)

\* What trails a feature id: the key and the name, of those that are not empty.
Trailing(key, name) == Segment(key) \o Segment(name)

LEMMA Segmented ==
    ASSUME NEW S, NEW text \in S
    PROVE  /\ Segment(text) \in Seq(S)
           /\ Len(Segment(text)) = IF text = Empty THEN 0 ELSE 1
           /\ text # Empty => Segment(text)[1] = text
<1>1. CASE text = Empty
  <2>1. Segment(text) = <<>>
    BY <1>1 DEF Segment
  <2> QED
    BY <1>1, <2>1, EmptySeq
<1>2. CASE text # Empty
  <2>1. Segment(text) = <<text>>
    BY <1>2 DEF Segment
  <2>2. <<text>> \in Seq(S) /\ Len(<<text>>) = 1 /\ <<text>>[1] = text
    OBVIOUS
  <2> QED
    BY <1>2, <2>1, <2>2
<1> QED
  BY <1>1, <1>2

\* The sequence t of a key and a name, of those that are not none.
Spelt(t, none, key, name) ==
    /\ key = none /\ name = none => Len(t) = 0
    /\ key # none /\ name = none => Len(t) = 1 /\ t[1] = key
    /\ key = none /\ name # none => Len(t) = 1 /\ t[1] = name
    /\ key # none /\ name # none => Len(t) = 2 /\ t[1] = key /\ t[2] = name

LEMMA SameSpelling ==
    ASSUME NEW t, NEW none, NEW key, NEW name, NEW key2, NEW name2,
           Spelt(t, none, key, name), Spelt(t, none, key2, name2),
           name = none <=> name2 = none
    PROVE  key = key2 /\ name = name2
<1>1. CASE name = none
  <2>1. key = none <=> key2 = none
    BY <1>1 DEF Spelt
  <2> QED
    BY <1>1, <2>1 DEF Spelt
<1>2. CASE name # none
  <2>1. key = none <=> key2 = none
    BY <1>2 DEF Spelt
  <2> QED
    BY <1>2, <2>1 DEF Spelt
<1> QED
  BY <1>1, <1>2

LEMMA Trailed ==
    ASSUME NEW S, NEW key \in S, NEW name \in S
    PROVE  /\ Trailing(key, name) \in Seq(S)
           /\ Spelt(Trailing(key, name), Empty, key, name)
<1>1. /\ Segment(key) \in Seq(S) /\ Segment(name) \in Seq(S)
      /\ Len(Segment(key)) = IF key = Empty THEN 0 ELSE 1
      /\ Len(Segment(name)) = IF name = Empty THEN 0 ELSE 1
      /\ key # Empty => Segment(key)[1] = key
      /\ name # Empty => Segment(name)[1] = name
  BY Segmented
<1>2. PICK s \in Seq(S), t \in Seq(S) : s = Segment(key) /\ t = Segment(name)
  BY <1>1
<1>3. /\ s \o t \in Seq(S) /\ Len(s \o t) = Len(s) + Len(t)
      /\ \A i \in 1 .. Len(s) + Len(t) :
           (s \o t)[i] = IF i <= Len(s) THEN s[i] ELSE t[i - Len(s)]
  BY ConcatProperties
<1>4. s \o t = Trailing(key, name)
  BY <1>2 DEF Trailing
<1>5. /\ Len(s) = (IF key = Empty THEN 0 ELSE 1) /\ Len(t) = (IF name = Empty THEN 0 ELSE 1)
      /\ key # Empty => s[1] = key
      /\ name # Empty => t[1] = name
  BY <1>1, <1>2
<1>6. /\ key = Empty /\ name = Empty => Len(s \o t) = 0
      /\ key # Empty /\ name = Empty => Len(s \o t) = 1
      /\ key = Empty /\ name # Empty => Len(s \o t) = 1
      /\ key # Empty /\ name # Empty => Len(s \o t) = 2
  <2>1. \A k, l \in {0, 1} : Len(s) = k /\ Len(t) = l => Len(s \o t) = k + l
    BY <1>3
  <2>2. /\ Len(s) = 0 /\ Len(t) = 0 => Len(s \o t) = 0
        /\ Len(s) = 1 /\ Len(t) = 0 => Len(s \o t) = 1
        /\ Len(s) = 0 /\ Len(t) = 1 => Len(s \o t) = 1
        /\ Len(s) = 1 /\ Len(t) = 1 => Len(s \o t) = 2
    BY <2>1
  <2> QED
    BY <1>5, <2>2
<1>7. ASSUME key # Empty PROVE (s \o t)[1] = key
  <2>1. Len(s) = 1 /\ s[1] = key /\ Len(t) \in {0, 1}
    BY <1>5, <1>7
  <2> QED
    BY <1>3, <2>1
<1>8. ASSUME key = Empty, name # Empty PROVE (s \o t)[1] = name
  <2>1. Len(s) = 0 /\ Len(t) = 1 /\ t[1] = name
    BY <1>5, <1>8
  <2> QED
    BY <1>3, <2>1
<1>9. ASSUME key # Empty, name # Empty PROVE (s \o t)[2] = name
  <2>1. Len(s) = 1 /\ Len(t) = 1 /\ t[1] = name
    BY <1>5, <1>9
  <2> QED
    BY <1>3, <2>1
<1> QED
  BY <1>3, <1>4, <1>6, <1>7, <1>8, <1>9 DEF Spelt

LEMMA Parsed ==
    ASSUME NEW endpoint, NEW cc, NEW property, NEW key, NEW name
    PROVE  Parse(FeatureId(endpoint, cc, property, key, name)) =
             [endpoint |-> endpoint, cc |-> cc, property |-> property,
              trailing |-> Trailing(key, name)]
<1>1. PICK S : S = {endpoint, cc, property, key, name}
  OBVIOUS
<1>2. PICK front \in Seq(S) : /\ front = <<endpoint, cc, property>> /\ Len(front) = 3
                              /\ front[1] = endpoint /\ front[2] = cc /\ front[3] = property
  <2>1. endpoint \in S /\ cc \in S /\ property \in S
    BY <1>1
  <2>2. <<endpoint, cc, property>> \in Seq(S)
    BY <2>1
  <2> QED
    BY <2>2
<1>3. key \in S /\ name \in S
  BY <1>1
<1>4. PICK t \in Seq(S) : t = Trailing(key, name) /\ Len(t) \in Nat
  BY <1>3, Trailed, LenProperties
<1>5. PICK id : id = FeatureId(endpoint, cc, property, key, name)
  OBVIOUS
<1>6. id = front \o t
  <2>1. PICK a \in Seq(S), b \in Seq(S) : a = Segment(key) /\ b = Segment(name)
    BY <1>3, Segmented
  <2>2. (front \o a) \o b = front \o (a \o b)
    BY ConcatAssociative
  <2> QED
    BY <1>2, <1>4, <1>5, <2>1, <2>2 DEF FeatureId, Trailing
<1>7. /\ Len(id) = 3 + Len(t)
      /\ id[1] = endpoint /\ id[2] = cc /\ id[3] = property
  <2>1. /\ Len(front \o t) = Len(front) + Len(t)
        /\ \A i \in 1 .. Len(front) + Len(t) :
             (front \o t)[i] = IF i <= Len(front) THEN front[i] ELSE t[i - Len(front)]
    BY ConcatProperties
  <2> QED
    BY <1>2, <1>4, <1>6, <2>1
<1>8. SubSeq(id, 4, Len(id)) = t
  <2>1. CASE Len(t) = 0
    <3>1. SubSeq(id, 4, Len(id)) = <<>>
      BY <1>7, <2>1, SubSeqEmpty
    <3> QED
      BY <2>1, <3>1, EmptySeq
  <2>2. CASE Len(t) > 0
    <3>1. /\ 4 \in Len(front) + 1 .. Len(front) + Len(t)
          /\ 3 + Len(t) \in Len(front) + 1 .. Len(front) + Len(t)
      BY <1>2, <1>4, <2>2
    <3>2. SubSeq(front \o t, 4, 3 + Len(t)) = SubSeq(t, 4 - Len(front), 3 + Len(t) - Len(front))
      BY <3>1, SubSeqOfConcat2
    <3>3. 4 - Len(front) = 1 /\ 3 + Len(t) - Len(front) = Len(t)
      BY <1>2, <1>4
    <3>4. SubSeq(t, 1, Len(t)) = t
      BY SubSeqFull
    <3> QED
      BY <1>6, <1>7, <3>2, <3>3, <3>4
  <2> QED
    BY <1>4, <2>1, <2>2
<1> QED
  BY <1>4, <1>5, <1>7, <1>8 DEF Parse

\* An id tells all but how its last segments are read, which their number does
\* when it is known whether there is a name.
LEMMA SameId ==
    ASSUME NEW endpoint, NEW cc, NEW property, NEW key, NEW name,
           NEW endpoint2, NEW cc2, NEW property2, NEW key2, NEW name2,
           FeatureId(endpoint, cc, property, key, name)
             = FeatureId(endpoint2, cc2, property2, key2, name2)
    PROVE  /\ endpoint = endpoint2 /\ cc = cc2 /\ property = property2
           /\ (name = Empty <=> name2 = Empty) => key = key2 /\ name = name2
<1>1. /\ endpoint = endpoint2 /\ cc = cc2 /\ property = property2
      /\ Trailing(key, name) = Trailing(key2, name2)
  <2>1. [endpoint |-> endpoint, cc |-> cc, property |-> property,
         trailing |-> Trailing(key, name)]
          = [endpoint |-> endpoint2, cc |-> cc2, property |-> property2,
             trailing |-> Trailing(key2, name2)]
    BY Parsed
  <2> QED
    BY <2>1
<1>2. ASSUME name = Empty <=> name2 = Empty PROVE key = key2 /\ name = name2
  <2>1. PICK S : S = {key, name, key2, name2}
    OBVIOUS
  <2>2. key \in S /\ name \in S /\ key2 \in S /\ name2 \in S
    BY <2>1
  <2>3. PICK t : t = Trailing(key, name) /\ t = Trailing(key2, name2)
    BY <1>1
  <2>4. Spelt(t, Empty, key, name)
    BY <2>2, <2>3, Trailed
  <2>5. Spelt(t, Empty, key2, name2)
    BY <2>2, <2>3, Trailed
  <2> QED
    BY <1>2, <2>4, <2>5, SameSpelling
<1> QED
  BY <1>1, <1>2

-----------------------------------------------------------------------------
(* The maps of the command classes. *)

LEMMA AtOnly ==
    ASSUME NEW property, NEW key, NEW variant, NEW p, NEW k
    PROVE  At(Only(<<property, key>>, variant), p, k) =
             IF p = property /\ k = key THEN variant ELSE NoVariant
<1>1. <<p, k>> = <<property, key>> <=> p = property /\ k = key
  OBVIOUS
<1> QED
  BY <1>1 DEF At, Only

LEMMA AtMerge ==
    ASSUME NEW over, NEW map, NEW p, NEW k,
           \A at \in DOMAIN over : over[at] # NoVariant
    PROVE  At(Merge(over, map), p, k) =
             IF At(over, p, k) = NoVariant THEN At(map, p, k) ELSE At(over, p, k)
BY DEF At, Merge

LEMMA AtSelf ==
    ASSUME NEW property, NEW variant, NEW p, NEW k
    PROVE  At(Self(property, variant), p, k) =
             IF p = property /\ k = Empty THEN variant ELSE NoVariant
BY AtOnly DEF Self

\* A map of two properties.
LEMMA AtBoth ==
    ASSUME NEW property, NEW variant, NEW other, NEW variant2, NEW p, NEW k,
           variant # NoVariant, property # other
    PROVE  At(Merge(Self(property, variant), Self(other, variant2)), p, k) =
             IF k # Empty THEN NoVariant
             ELSE IF p = property THEN variant
             ELSE IF p = other THEN variant2 ELSE NoVariant
<1>1. \A at \in DOMAIN Self(property, variant) : Self(property, variant)[at] # NoVariant
  BY DEF Self, Only
<1>2. At(Merge(Self(property, variant), Self(other, variant2)), p, k) =
        IF At(Self(property, variant), p, k) = NoVariant THEN At(Self(other, variant2), p, k)
                                                        ELSE At(Self(property, variant), p, k)
  BY <1>1, AtMerge
<1> QED
  BY <1>2, AtSelf

LEMMA AtEmpty ==
    ASSUME NEW p, NEW k
    PROVE  At(<<>>, p, k) = NoVariant
<1>1. DOMAIN <<>> = {}
  OBVIOUS
<1> QED
  BY <1>1 DEF At

\* The maps of the dimmers and motors.
LEMMA AtMultilevel ==
    ASSUME NEW p, NEW k, NEW class
    PROVE  /\ At(Properties("multilevel_switch"), p, k) =
                IF k # Empty THEN NoVariant
                ELSE IF p = "currentvalue" THEN "dimmer"
                ELSE IF p = "restoreprevious" THEN "restore" ELSE NoVariant
           /\ At(PilotWire("multilevel_switch"), p, k) =
                IF k # Empty THEN NoVariant
                ELSE IF p = "currentvalue" THEN "pilot"
                ELSE IF p = "restoreprevious" THEN "unused" ELSE NoVariant
           /\ At(Class("multilevel_switch", class), p, k) =
                IF k # Empty THEN NoVariant
                ELSE IF class = "17-1" /\ p = "restoreprevious" THEN "exposedRestore"
                ELSE IF class \in Motors /\ p = "currentvalue" THEN "shutter" ELSE NoVariant
<1>1. Properties("multilevel_switch") = MultilevelSwitch
  BY DEF Properties
<1>2. PilotWire("multilevel_switch") =
        Merge(Self("currentvalue", "pilot"), Self("restoreprevious", "unused"))
  BY DEF PilotWire
<1>3. /\ class = "17-1" => Class("multilevel_switch", class) = Self("restoreprevious", "exposedRestore")
      /\ class \in Motors => Class("multilevel_switch", class) = Self("currentvalue", "shutter")
      /\ class # "17-1" /\ class \notin Motors => Class("multilevel_switch", class) = <<>>
      /\ ~(class = "17-1" /\ class \in Motors)
  BY DEF Class, Motors
<1>4. /\ At(Merge(Self("currentvalue", "pilot"), Self("restoreprevious", "unused")), p, k) =
           IF k # Empty THEN NoVariant
           ELSE IF p = "currentvalue" THEN "pilot"
           ELSE IF p = "restoreprevious" THEN "unused" ELSE NoVariant
      /\ At(MultilevelSwitch, p, k) =
           IF k # Empty THEN NoVariant
           ELSE IF p = "currentvalue" THEN "dimmer"
           ELSE IF p = "restoreprevious" THEN "restore" ELSE NoVariant
  <2>1. "pilot" # NoVariant /\ "dimmer" # NoVariant /\ "currentvalue" # "restoreprevious"
    BY DEF NoVariant
  <2> QED
    BY <2>1, AtBoth DEF MultilevelSwitch
<1>5. At(Class("multilevel_switch", class), p, k) =
        IF k # Empty THEN NoVariant
        ELSE IF class = "17-1" /\ p = "restoreprevious" THEN "exposedRestore"
        ELSE IF class \in Motors /\ p = "currentvalue" THEN "shutter" ELSE NoVariant
  <2>1. CASE class = "17-1"
    BY <1>3, <2>1, AtSelf
  <2>2. CASE class \in Motors
    BY <1>3, <2>2, AtSelf
  <2>3. CASE class # "17-1" /\ class \notin Motors
    BY <1>3, <2>3, AtEmpty
  <2> QED
    BY <2>1, <2>2, <2>3
<1> QED
  BY <1>1, <1>2, <1>4, <1>5

LEMMA Chosen ==
    ASSUME NEW variant, NEW other
    PROVE  /\ (NoVariant ?? other) = other
           /\ (variant ?? NoVariant) = variant
           /\ variant # NoVariant => (variant ?? other) = variant
BY DEF ??

LEMMA ProductMap ==
    ASSUME NEW cc, NEW product, NEW p, NEW k
    PROVE  At(Product(cc, product), p, k) =
             IF product \in QubinoFlushPilot THEN At(PilotWire(cc), p, k) ELSE NoVariant
BY AtEmpty DEF Product

\* The variant of a property without keys.
LEMMA VariantWithoutKey ==
    ASSUME NEW cc, NEW p, NEW product, NEW class
    PROVE  ResolveVariant(cc, p, Empty, product, class) =
             At(Product(cc, product), p, Empty) ?? At(Class(cc, class), p, Empty)
               ?? At(Properties(cc), p, Empty)
<1>1. \A map : Lookup(map, p, Empty) = NoVariant /\ LookupSelf(map, p) = At(map, p, Empty)
  BY DEF Lookup, LookupSelf
<1>2. (NoVariant ?? NoVariant) = NoVariant
      /\ \A other : (NoVariant ?? other) = other
  BY Chosen
<1> QED
  BY <1>1, <1>2 DEF ResolveVariant

LEMMA MultilevelVariant ==
    ASSUME NEW p, NEW product, NEW class
    PROVE  ResolveVariant("multilevel_switch", p, Empty, product, class) =
             IF p = "currentvalue"
               THEN IF product \in QubinoFlushPilot THEN "pilot"
                    ELSE IF class \in Motors THEN "shutter" ELSE "dimmer"
             ELSE IF p = "restoreprevious"
               THEN IF product \in QubinoFlushPilot THEN "unused"
                    ELSE IF class = "17-1" THEN "exposedRestore" ELSE "restore"
             ELSE NoVariant
<1>1. PICK a, b, c : /\ a = At(Product("multilevel_switch", product), p, Empty)
                     /\ b = At(Class("multilevel_switch", class), p, Empty)
                     /\ c = At(Properties("multilevel_switch"), p, Empty)
  OBVIOUS
<1>2. ResolveVariant("multilevel_switch", p, Empty, product, class) = a ?? b ?? c
  BY <1>1, VariantWithoutKey
<1>3. /\ a = IF product \notin QubinoFlushPilot THEN NoVariant
             ELSE IF p = "currentvalue" THEN "pilot"
             ELSE IF p = "restoreprevious" THEN "unused" ELSE NoVariant
      /\ b = IF class = "17-1" /\ p = "restoreprevious" THEN "exposedRestore"
             ELSE IF class \in Motors /\ p = "currentvalue" THEN "shutter" ELSE NoVariant
      /\ c = IF p = "currentvalue" THEN "dimmer"
             ELSE IF p = "restoreprevious" THEN "restore" ELSE NoVariant
  BY <1>1, AtMultilevel, ProductMap
<1> QED
  BY <1>2, <1>3 DEF ??, NoVariant

\* The command classes of what can be commanded, and its variants.
Commanded == {"multilevel_switch", "binary_switch", "thermostat_mode", "thermostat_setpoint"}

\* All variants but these expose one feature without name, or none.
LEMMA OneFeature ==
    ASSUME NEW variant, variant \notin {"dimmer", "shutter"}
    PROVE  \E category : Expose(variant) \in {{}, One(category)}
BY DEF Expose, RestoreFeature, PilotFeature, SwitchFeature, BinaryFeature, AlarmFeature,
      BatteryFeature, NotificationFeature, SceneFeature, ModeFeature, OperatingFeature,
      SetpointFeature, SensorFeature, MeterFeature

Controls ==
    {"dimmer", "shutter", "restore", "exposedRestore", "pilot", "switch", "mode"} \cup Setpoints

LEMMA Uncontrolled ==
    ASSUME NEW variant, variant \notin Controls
    PROVE  Commandable(variant) = {} /\ \A e \in Expose(variant) : e.name = Empty
<1>1. Commandable(variant) = {}
  BY DEF Commandable, Controls
<1>2. PICK category : Expose(variant) \in {{}, One(category)}
  BY OneFeature DEF Controls
<1> QED
  BY <1>1, <1>2 DEF One

\* The variants of sensors, and of batteries.
Sensors == {"input", "motion", "alarm", "door", "presence", "smoke", "co", "scene", "operating",
            "temperature", "light", "reading"}

Batteries == {"level", "islow"}

LEMMA NoControls ==
    ASSUME NEW variant \in Sensors \cup Batteries \cup {NoVariant}
    PROVE  variant \notin Controls
BY DEF Sensors, Batteries, NoVariant, Controls, Setpoints

\* A map to some variants only.
Holds(map, variants) == \A at \in DOMAIN map : map[at] \in variants

LEMMA HoldsOnly ==
    ASSUME NEW at, NEW variants, NEW variant \in variants
    PROVE  Holds(Only(at, variant), variants)
BY DEF Holds, Only

LEMMA HoldsMerge ==
    ASSUME NEW over, NEW map, NEW variants, Holds(over, variants), Holds(map, variants)
    PROVE  Holds(Merge(over, map), variants)
BY DEF Holds, Merge

LEMMA HoldsAt ==
    ASSUME NEW variants, NEW map, Holds(map, variants), NEW p, NEW k
    PROVE  At(map, p, k) \in variants \cup {NoVariant}
BY DEF Holds, At

LEMMA HoldsEmpty == \A variants : Holds(<<>>, variants)
<1>1. DOMAIN <<>> = {}
  OBVIOUS
<1> QED
  BY <1>1 DEF Holds

LEMMA SensorMaps ==
    ASSUME NEW cc, cc \notin Commanded \cup {"battery"}
    PROVE  /\ Holds(PilotWire(cc), Sensors) /\ Holds(Properties(cc), Sensors)
           /\ \A class : Holds(Class(cc, class), Sensors)
<1>1. \A at : \A variant \in Sensors : Holds(Only(at, variant), Sensors)
  BY HoldsOnly
<1>2. Holds(PilotWire(cc), Sensors)
  <2>1. Holds(Self("any", "input"), Sensors)
    BY <1>1 DEF Self, Sensors
  <2>2. PilotWire(cc) \in {Self("any", "input"), <<>>}
    BY DEF PilotWire, Commanded
  <2> QED
    BY <2>1, <2>2, HoldsEmpty
<1>3. ASSUME NEW class PROVE Holds(Class(cc, class), Sensors)
  <2>1. Class(cc, class) = <<>>
    BY DEF Class, Commanded
  <2> QED
    BY <2>1, HoldsEmpty
<1>4. /\ \A property : \A variant \in Sensors : Holds(Self(property, variant), Sensors)
      /\ \A property, key : \A variant \in Sensors : Holds(Keyed(property, key, variant), Sensors)
  BY <1>1 DEF Self, Keyed
<1>5. /\ Holds(BinarySensor, Sensors) /\ Holds(AlarmSensor, Sensors)
      /\ Holds(CentralScene, Sensors) /\ Holds(OperatingState, Sensors)
  <2>1. {"motion", "alarm", "scene", "operating"} \subseteq Sensors
    BY DEF Sensors
  <2> QED
    BY <1>4, <2>1, HoldsMerge DEF BinarySensor, AlarmSensor, CentralScene, OperatingState
<1>6. Holds(Notification, Sensors)
  <2>1. {"door", "presence", "smoke", "co"} \subseteq Sensors
    BY DEF Sensors
  <2>2. /\ Holds(Merge(Keyed("access_control", "door_state_simple", "door"),
                       Keyed("home_security", "motion_sensor_status", "presence")), Sensors)
        /\ Holds(Merge(Keyed("smoke_alarm", "sensor_status", "smoke"),
                       Keyed("co_alarm", "sensor_status", "co")), Sensors)
    BY <1>4, <2>1, HoldsMerge
  <2> QED
    BY <2>2, HoldsMerge DEF Notification
<1>7. Holds(MultilevelSensor, Sensors)
  <2>1. {"temperature", "light", "reading"} \subseteq Sensors
    BY DEF Sensors
  <2>2. Holds(Merge(Self("illuminance", "light"), Self("power", "reading")), Sensors)
    BY <1>4, <2>1, HoldsMerge
  <2> QED
    BY <1>4, <2>1, <2>2, HoldsMerge DEF MultilevelSensor
<1>8. Holds(Meter, Sensors)
  BY DEF Meter, Holds, Sensors
<1>9. Properties(cc) \in {BinarySensor, AlarmSensor, Notification, CentralScene,
                          OperatingState, MultilevelSensor, Meter, <<>>}
  <2> HIDE DEF BinarySensor, AlarmSensor, Notification, CentralScene, OperatingState,
               MultilevelSensor, Meter
  <2> QED
    BY DEF Properties, Commanded
<1> QED
  BY <1>2, <1>3, <1>5, <1>6, <1>7, <1>8, <1>9, HoldsEmpty

LEMMA BatteryVariant ==
    ASSUME NEW p, NEW k
    PROVE  /\ At(PilotWire("battery"), p, k) = NoVariant
           /\ \A class : At(Class("battery", class), p, k) = NoVariant
           /\ At(Properties("battery"), p, k) =
                IF k # Empty THEN NoVariant
                ELSE IF p = "level" THEN "level"
                ELSE IF p = "islow" THEN "islow" ELSE NoVariant
           /\ \A product, class : ResolveVariant("battery", p, Empty, product, class) =
                IF p = "level" THEN "level" ELSE IF p = "islow" THEN "islow" ELSE NoVariant
<1>1. /\ PilotWire("battery") = <<>>
      /\ \A class : Class("battery", class) = <<>>
      /\ Properties("battery") = Battery
  BY DEF PilotWire, Class, Properties
<1>2. \A key : At(Battery, p, key) =
                IF key # Empty THEN NoVariant
                ELSE IF p = "level" THEN "level"
                ELSE IF p = "islow" THEN "islow" ELSE NoVariant
  <2>1. "level" # NoVariant /\ "level" # "islow"
    BY DEF NoVariant
  <2> QED
    BY <2>1, AtBoth DEF Battery
<1>3. ASSUME NEW product, NEW class
      PROVE  ResolveVariant("battery", p, Empty, product, class) =
                IF p = "level" THEN "level" ELSE IF p = "islow" THEN "islow" ELSE NoVariant
  <2>1. /\ At(Product("battery", product), p, Empty) = NoVariant
        /\ At(Class("battery", class), p, Empty) = NoVariant
    BY <1>1, AtEmpty, ProductMap
  <2> QED
    BY <1>1, <1>2, <2>1, VariantWithoutKey, Chosen
<1> QED
  BY <1>1, <1>2, <1>3, AtEmpty

LEMMA SensorVariant ==
    ASSUME NEW cc, cc \notin Commanded \cup {"battery"}, NEW p, NEW k, NEW product, NEW class
    PROVE  ResolveVariant(cc, p, k, product, class) \in Sensors \cup {NoVariant}
<1>1. /\ Holds(Product(cc, product), Sensors) /\ Holds(Class(cc, class), Sensors)
      /\ Holds(Properties(cc), Sensors)
  BY SensorMaps, HoldsEmpty DEF Product
<1>2. ASSUME NEW map, Holds(map, Sensors)
      PROVE  /\ Lookup(map, p, k) \in Sensors \cup {NoVariant}
             /\ LookupSelf(map, p) \in Sensors \cup {NoVariant}
  BY <1>2, HoldsAt DEF Lookup, LookupSelf
<1>3. \A a, b \in Sensors \cup {NoVariant} : (a ?? b) \in Sensors \cup {NoVariant}
  BY DEF ??
<1> QED
  BY <1>1, <1>2, <1>3 DEF ResolveVariant

LEMMA BinaryVariant ==
    ASSUME NEW p, NEW k
    PROVE  /\ At(PilotWire("binary_switch"), p, k) = NoVariant
           /\ \A class : At(Class("binary_switch", class), p, k) = NoVariant
           /\ At(Properties("binary_switch"), p, k) =
                IF p = "currentvalue" /\ k = Empty THEN "switch" ELSE NoVariant
           /\ \A product, class : ResolveVariant("binary_switch", p, Empty, product, class) =
                IF p = "currentvalue" THEN "switch" ELSE NoVariant
<1>1. /\ PilotWire("binary_switch") = <<>>
      /\ \A class : Class("binary_switch", class) = <<>>
      /\ Properties("binary_switch") = Self("currentvalue", "switch")
  BY DEF PilotWire, Class, Properties, BinarySwitch
<1>2. /\ At(PilotWire("binary_switch"), p, k) = NoVariant
      /\ \A class : At(Class("binary_switch", class), p, k) = NoVariant
      /\ At(Properties("binary_switch"), p, k) =
           IF p = "currentvalue" /\ k = Empty THEN "switch" ELSE NoVariant
  BY <1>1, AtEmpty, AtSelf
<1>3. ASSUME NEW product, NEW class
      PROVE  ResolveVariant("binary_switch", p, Empty, product, class) =
                IF p = "currentvalue" THEN "switch" ELSE NoVariant
  <2>1. /\ At(Product("binary_switch", product), p, Empty) = NoVariant
        /\ At(Class("binary_switch", class), p, Empty) = NoVariant
        /\ At(Properties("binary_switch"), p, Empty) =
             IF p = "currentvalue" THEN "switch" ELSE NoVariant
    BY <1>1, AtEmpty, AtSelf, ProductMap
  <2> QED
    BY <2>1, VariantWithoutKey, Chosen
<1> QED
  BY <1>2, <1>3

LEMMA ModeVariant ==
    ASSUME NEW p, NEW k
    PROVE  /\ At(PilotWire("thermostat_mode"), p, k) = NoVariant
           /\ \A class : At(Class("thermostat_mode", class), p, k) = NoVariant
           /\ At(Properties("thermostat_mode"), p, k) =
                IF p = "mode" /\ k = Empty THEN "mode" ELSE NoVariant
           /\ \A product, class : ResolveVariant("thermostat_mode", p, Empty, product, class) =
                IF p = "mode" THEN "mode" ELSE NoVariant
<1>1. /\ PilotWire("thermostat_mode") = <<>>
      /\ \A class : Class("thermostat_mode", class) = <<>>
      /\ Properties("thermostat_mode") = Self("mode", "mode")
  BY DEF PilotWire, Class, Properties, ThermostatMode
<1>2. /\ At(PilotWire("thermostat_mode"), p, k) = NoVariant
      /\ \A class : At(Class("thermostat_mode", class), p, k) = NoVariant
      /\ At(Properties("thermostat_mode"), p, k) =
           IF p = "mode" /\ k = Empty THEN "mode" ELSE NoVariant
  BY <1>1, AtEmpty, AtSelf
<1>3. ASSUME NEW product, NEW class
      PROVE  ResolveVariant("thermostat_mode", p, Empty, product, class) =
                IF p = "mode" THEN "mode" ELSE NoVariant
  <2>1. /\ At(Product("thermostat_mode", product), p, Empty) = NoVariant
        /\ At(Class("thermostat_mode", class), p, Empty) = NoVariant
        /\ At(Properties("thermostat_mode"), p, Empty) =
             IF p = "mode" THEN "mode" ELSE NoVariant
    BY <1>1, AtEmpty, AtSelf, ProductMap
  <2> QED
    BY <2>1, VariantWithoutKey, Chosen
<1> QED
  BY <1>2, <1>3

LEMMA SetpointVariant ==
    ASSUME NEW p, NEW k
    PROVE  /\ At(PilotWire("thermostat_setpoint"), p, k) = NoVariant
           /\ \A class : At(Class("thermostat_setpoint", class), p, k) = NoVariant
           /\ At(Properties("thermostat_setpoint"), p, k) =
                IF p = "setpoint" /\ k \in Setpoints THEN k ELSE NoVariant
           /\ \A product, class : ResolveVariant("thermostat_setpoint", p, k, product, class) =
                IF p = "setpoint" /\ k \in Setpoints THEN k ELSE NoVariant
<1>1. /\ PilotWire("thermostat_setpoint") = <<>>
      /\ \A class : Class("thermostat_setpoint", class) = <<>>
      /\ Properties("thermostat_setpoint") = ThermostatSetpoint
  BY DEF PilotWire, Class, Properties
<1>2. \A key : At(ThermostatSetpoint, p, key) =
                 IF p = "setpoint" /\ key \in Setpoints THEN key ELSE NoVariant
  BY DEF At, ThermostatSetpoint
<1>3. ASSUME NEW product, NEW class
      PROVE  ResolveVariant("thermostat_setpoint", p, k, product, class) =
                IF p = "setpoint" /\ k \in Setpoints THEN k ELSE NoVariant
  <2>1. Empty \notin Setpoints
    BY DEF Setpoints, Empty
  <2>2. /\ Product("thermostat_setpoint", product) = <<>>
        /\ Class("thermostat_setpoint", class) = <<>>
    BY <1>1 DEF Product
  <2>3. /\ \A key : Lookup(<<>>, p, key) = NoVariant
        /\ LookupSelf(<<>>, p) = NoVariant
        /\ LookupSelf(ThermostatSetpoint, p) = NoVariant
    BY <1>2, <2>1, AtEmpty DEF Lookup, LookupSelf
  <2>4. Lookup(ThermostatSetpoint, p, k) =
          IF p = "setpoint" /\ k \in Setpoints THEN k ELSE NoVariant
    BY <1>2, <2>1 DEF Lookup
  <2> QED
    BY <1>1, <2>2, <2>3, <2>4, Chosen DEF ResolveVariant
<1> QED
  BY <1>1, <1>2, <1>3, AtEmpty

-----------------------------------------------------------------------------
(* Resolution. *)

LEMMA LeastIn ==
    ASSUME NEW S, S \subseteq 1..4, S # {}
    PROVE  \E i \in S : \A j \in S : i <= j
<1>1. CASE 1 \in S
  BY <1>1
<1>2. CASE 1 \notin S /\ 2 \in S
  BY <1>2
<1>3. CASE 1 \notin S /\ 2 \notin S /\ 3 \in S
  BY <1>3
<1>4. CASE 1 \notin S /\ 2 \notin S /\ 3 \notin S
  <2>1. \A x \in S : x = 4
    <3> SUFFICES ASSUME NEW x \in S PROVE x = 4
      OBVIOUS
    <3>1. x \in 1..4 /\ x # 1 /\ x # 2 /\ x # 3
      BY <1>4
    <3> QED
      BY <3>1
  <2>2. \E x : x \in S
    OBVIOUS
  <2>3. 4 \in S
    BY <2>1, <2>2
  <2> QED
    BY <2>1, <2>3
<1> QED
  BY <1>1, <1>2, <1>3, <1>4

\* The loops stop at one that was found.
LEMMA FirstFound ==
    ASSUME NEW found, found \subseteq (1..4) \X (1..4), found # {}
    PROVE  First(found) \in found
<1>1. PICK S : S = {at[1] : at \in found}
  OBVIOUS
<1>2. PICK i \in S : \A j \in S : i <= j
  BY <1>1, LeastIn
<1>3. PICK T : T = {at[2] : at \in {x \in found : x[1] = i}}
  OBVIOUS
<1>4. PICK k \in T : \A l \in T : k <= l
  <2>1. T \subseteq 1..4 /\ T # {}
    BY <1>1, <1>2, <1>3
  <2> QED
    BY <2>1, LeastIn
<1>5. PICK at \in found : at[1] = i /\ at[2] = k
  BY <1>3, <1>4
<1>6. \A other \in found : Before(at, other)
  <2> SUFFICES ASSUME NEW other \in found PROVE Before(at, other)
    OBVIOUS
  <2>1. other[1] \in S /\ i <= other[1] /\ i \in 1..4 /\ other[1] \in 1..4
    BY <1>1, <1>2
  <2>2. other[1] = i => other[2] \in T /\ k <= other[2]
    BY <1>3, <1>4
  <2> QED
    BY <1>5, <2>1, <2>2 DEF Before
<1> QED
  BY <1>5, <1>6 DEF First

\* The maps of a command class and the readings of the trailing segments.
Maps(cc) == {PilotWire(cc), Class(cc, "17-1"), Class(cc, "17-5"), Properties(cc)}

Readings(trailing) ==
    {Interpretations(trailing)[i] : i \in DOMAIN Interpretations(trailing)}

LEMMA CandidateIs ==
    ASSUME NEW map, NEW p, NEW reading
    PROVE  Candidate(map, p, reading) =
             [variant |-> At(map, p, reading.key), key |-> reading.key, name |-> reading.name]
<1>1. Lookup(map, p, reading.key)
        ?? (IF reading.key = Empty THEN LookupSelf(map, p) ELSE NoVariant)
      = At(map, p, reading.key)
  BY Chosen DEF Lookup, LookupSelf
<1> QED
  BY <1>1 DEF Candidate

LEMMA CandidatesAre ==
    ASSUME NEW cc, NEW p, NEW trailing, NEW all, all = Candidates(cc, p, trailing)
    PROVE  /\ DOMAIN all \subseteq (1..4) \X (1..4)
           /\ \A at \in DOMAIN all : \E map \in Maps(cc), reading \in Readings(trailing) :
                all[at] = Candidate(map, p, reading)
           /\ \A map \in Maps(cc), reading \in Readings(trailing) : \E at \in DOMAIN all :
                all[at] = Candidate(map, p, reading)
<1>1. PICK maps : maps = PropertyMaps(cc)
  OBVIOUS
<1>2. /\ DOMAIN maps = 1..4
      /\ maps[1] = PilotWire(cc) /\ maps[2] = Class(cc, "17-1")
      /\ maps[3] = Class(cc, "17-5") /\ maps[4] = Properties(cc)
  BY <1>1 DEF PropertyMaps
<1>3. PICK readings : readings = Interpretations(trailing)
  OBVIOUS
<1>4. DOMAIN readings \subseteq 1..4
  <2>1. \A r : DOMAIN <<r>> = 1..1
    OBVIOUS
  <2>2. \A r, s : DOMAIN <<r, s>> = 1..2
    OBVIOUS
  <2> QED
    BY <1>3, <2>1, <2>2 DEF Interpretations
<1>5. /\ DOMAIN all = (1..4) \X (DOMAIN readings)
      /\ \A at \in DOMAIN all : all[at] = Candidate(maps[at[1]], p, readings[at[2]])
  BY <1>1, <1>2, <1>3 DEF Candidates
<1>6. Readings(trailing) = {readings[i] : i \in DOMAIN readings}
  BY <1>3 DEF Readings
<1>7. Maps(cc) = {maps[i] : i \in 1..4}
  BY <1>2 DEF Maps
<1>8. DOMAIN all \subseteq (1..4) \X (1..4)
  BY <1>4, <1>5
<1>9. ASSUME NEW at \in DOMAIN all
       PROVE  \E map \in Maps(cc), reading \in Readings(trailing) :
                all[at] = Candidate(map, p, reading)
  <2>1. at[1] \in 1..4 /\ at[2] \in DOMAIN readings
    BY <1>5
  <2>2. maps[at[1]] \in Maps(cc) /\ readings[at[2]] \in Readings(trailing)
    BY <2>1, <1>6, <1>7
  <2> QED
    BY <1>5, <2>2
<1>10. ASSUME NEW map \in Maps(cc), NEW reading \in Readings(trailing)
       PROVE  \E at \in DOMAIN all : all[at] = Candidate(map, p, reading)
  <2>1. PICK i \in 1..4, j \in DOMAIN readings : map = maps[i] /\ reading = readings[j]
    BY <1>6, <1>7
  <2>2. <<i, j>> \in DOMAIN all /\ <<i, j>>[1] = i /\ <<i, j>>[2] = j
    BY <1>5, <2>1
  <2>3. all[<<i, j>>] = Candidate(map, p, reading)
    BY <1>5, <2>1, <2>2
  <2> QED
    BY <2>2, <2>3
<1> QED
  BY <1>8, <1>9, <1>10

\* A candidate that has a builder for the name, and one that exposes it too.
Builds(candidate) == candidate.name \in Commandable(candidate.variant)

LEMMA ResolvesTo ==
    ASSUME NEW cc, NEW p, NEW trailing, NEW category,
           NEW map \in Maps(cc), NEW reading \in Readings(trailing),
           Builds(Candidate(map, p, reading)),
           Exposes(Candidate(map, p, reading), category),
           \A other \in Maps(cc), r \in Readings(trailing) :
              Builds(Candidate(other, p, r)) /\ Exposes(Candidate(other, p, r), category)
                => Candidate(other, p, r) = Candidate(map, p, reading)
    PROVE  ResolveCommand(cc, p, trailing, category) = Candidate(map, p, reading)
<1> DEFINE all == Candidates(cc, p, trailing)
           built == {at \in DOMAIN all : all[at].name \in Commandable(all[at].variant)}
           pass1 == {at \in built : Exposes(all[at], category)}
<1>1. /\ DOMAIN all \subseteq (1..4) \X (1..4)
      /\ \A at \in DOMAIN all : \E m \in Maps(cc), r \in Readings(trailing) :
           all[at] = Candidate(m, p, r)
      /\ \A m \in Maps(cc), r \in Readings(trailing) : \E at \in DOMAIN all :
           all[at] = Candidate(m, p, r)
  <2> HIDE DEF all
  <2>1. all = Candidates(cc, p, trailing)
    BY DEF all
  <2> QED
    BY <2>1, CandidatesAre
<1>2. \A at \in pass1 : all[at] = Candidate(map, p, reading)
  <2> SUFFICES ASSUME NEW at \in pass1 PROVE all[at] = Candidate(map, p, reading)
    OBVIOUS
  <2>1. PICK other \in Maps(cc), r \in Readings(trailing) : all[at] = Candidate(other, p, r)
    BY <1>1
  <2> QED
    BY <2>1 DEF Builds
<1>3. PICK at \in DOMAIN all : all[at] = Candidate(map, p, reading)
  <2> HIDE DEF all
  <2> QED
    BY <1>1
<1>4. pass1 # {}
  BY <1>3 DEF Builds
<1>5. First(pass1) \in pass1
  <2>1. pass1 \subseteq (1..4) \X (1..4)
    BY <1>1
  <2> HIDE DEF pass1
  <2> QED
    BY <1>4, <2>1, FirstFound
<1> QED
  BY <1>2, <1>4, <1>5 DEF ResolveCommand

LEMMA ResolvesToNone ==
    ASSUME NEW cc, NEW p, NEW trailing, NEW category,
           \A map \in Maps(cc), r \in Readings(trailing) : ~Builds(Candidate(map, p, r))
    PROVE  ResolveCommand(cc, p, trailing, category) = NoCommand
<1> DEFINE all == Candidates(cc, p, trailing)
           built == {at \in DOMAIN all : all[at].name \in Commandable(all[at].variant)}
<1>1. \A at \in DOMAIN all : \E m \in Maps(cc), r \in Readings(trailing) :
         all[at] = Candidate(m, p, r)
  <2> HIDE DEF all
  <2>1. all = Candidates(cc, p, trailing)
    BY DEF all
  <2> QED
    BY <2>1, CandidatesAre
<1>2. built = {}
  <2> SUFFICES ASSUME NEW at \in built PROVE FALSE
    OBVIOUS
  <2>1. PICK other \in Maps(cc), r \in Readings(trailing) : all[at] = Candidate(other, p, r)
    BY <1>1
  <2> QED
    BY <2>1 DEF Builds
<1> QED
  BY <1>2 DEF ResolveCommand

\* How the segments that trail an id are read.
LEMMA ReadingsAre ==
    ASSUME NEW key, NEW name
    PROVE  /\ key = Empty /\ name = Empty =>
                Readings(Trailing(key, name)) = {[key |-> Empty, name |-> Empty]}
           /\ key # Empty /\ name = Empty =>
                Readings(Trailing(key, name)) =
                  {[key |-> key, name |-> Empty], [key |-> Empty, name |-> key]}
           /\ key = Empty /\ name # Empty =>
                Readings(Trailing(key, name)) =
                  {[key |-> name, name |-> Empty], [key |-> Empty, name |-> name]}
<1>1. PICK S : S = {key, name}
  OBVIOUS
<1>2. PICK t : t = Trailing(key, name) /\ Spelt(t, Empty, key, name)
  BY <1>1, Trailed
<1>3. \A r : {<<r>>[i] : i \in DOMAIN <<r>>} = {r}
  <2> SUFFICES ASSUME NEW r PROVE {<<r>>[i] : i \in DOMAIN <<r>>} = {r}
    OBVIOUS
  <2>1. DOMAIN <<r>> = 1..1
    OBVIOUS
  <2>2. \A i \in 1..1 : i = 1
    OBVIOUS
  <2> QED
    BY <2>1, <2>2
<1>4. \A r, s : {<<r, s>>[i] : i \in DOMAIN <<r, s>>} = {r, s}
  <2> SUFFICES ASSUME NEW r, NEW s PROVE {<<r, s>>[i] : i \in DOMAIN <<r, s>>} = {r, s}
    OBVIOUS
  <2>1. DOMAIN <<r, s>> = 1..2
    OBVIOUS
  <2>2. \A i : i \in 1..2 <=> i = 1 \/ i = 2
    OBVIOUS
  <2> QED
    BY <2>1, <2>2
<1>5. Len(t) = 0 => Interpretations(t) = <<[key |-> Empty, name |-> Empty]>>
  BY DEF Interpretations
<1>6. Len(t) = 1 => Interpretations(t) = <<[key |-> t[1], name |-> Empty],
                                           [key |-> Empty, name |-> t[1]]>>
  BY DEF Interpretations
<1> QED
  BY <1>2, <1>3, <1>4, <1>5, <1>6 DEF Readings, Spelt

-----------------------------------------------------------------------------
(* The command of a feature is that of the value it comes from. *)

\* The values of a node, those that are derived included.
LEMMA NodeValues ==
    ASSUME NEW n, IsNode(n), NEW v \in n.values \cup DerivedValues(n)
    PROVE  /\ v = Value(v.endpoint, v.cc, v.property, v.key)
           /\ v.cc \in Unkeyed => v.key = Empty
<1>1. CASE v \in n.values
  BY <1>1 DEF IsNode
<1>2. CASE v \in DerivedValues(n)
  <2>1. PICK w \in n.values : w.cc = "battery" /\ v = [w EXCEPT !.property = "islow"]
    BY <1>2 DEF DerivedValues
  <2>2. w = Value(w.endpoint, w.cc, w.property, w.key) /\ w.key = Empty
    BY <2>1 DEF IsNode, Unkeyed
  <2> QED
    BY <2>1, <2>2 DEF Value
<1> QED
  BY <1>1, <1>2

\* The variant that a reading leads to in a map.
LEMMA BuildsAt ==
    ASSUME NEW map, NEW p, NEW r, NEW category
    PROVE  /\ Builds(Candidate(map, p, r)) <=> r.name \in Commandable(At(map, p, r.key))
           /\ Exposes(Candidate(map, p, r), category) <=>
                [name |-> r.name, category |-> category] \in Expose(At(map, p, r.key))
<1>1. Candidate(map, p, r) = [variant |-> At(map, p, r.key), key |-> r.key, name |-> r.name]
  BY CandidateIs
<1> QED
  BY <1>1 DEF Builds, Exposes

LEMMA ControlNames ==
    /\ Commandable(NoVariant) = {} /\ Expose(NoVariant) = {}
    /\ Commandable("unused") = {} /\ Expose("unused") = {}
    /\ Commandable("restore") = {Empty} /\ Expose("restore") = {}
    /\ Commandable("exposedRestore") = {Empty}
    /\ Expose("exposedRestore") = {[name |-> Empty, category |-> "switch"]}
    /\ Commandable("pilot") = {Empty}
    /\ Expose("pilot") = {[name |-> Empty, category |-> "heater"]}
    /\ Commandable("dimmer") = {"position", "state"}
    /\ Expose("dimmer") = {[name |-> n, category |-> "switch"] : n \in {"position", "state"}}
    /\ Commandable("shutter") = {"position", "state"}
    /\ Expose("shutter") = {[name |-> n, category |-> "shutter"] : n \in {"position", "state"}}
    /\ Commandable("switch") = {Empty}
    /\ Expose("switch") = {[name |-> Empty, category |-> "switch"]}
    /\ Commandable("mode") = {Empty}
    /\ Expose("mode") = {[name |-> Empty, category |-> "thermostat"]}
    /\ Commandable("heating") = {Empty}
    /\ Expose("heating") = {[name |-> Empty, category |-> "thermostat"]}
    /\ Commandable("energy_save_heating") = {Empty}
    /\ Expose("energy_save_heating") = {[name |-> Empty, category |-> "thermostat"]}
    /\ Commandable("cooling") = {Empty}
    /\ Expose("cooling") = {[name |-> Empty, category |-> "air-conditioning"]}
    /\ Empty # "position" /\ Empty # "state"
<1>1. /\ Commandable(NoVariant) = {} /\ Commandable("unused") = {}
      /\ Commandable("restore") = {Empty} /\ Commandable("exposedRestore") = {Empty}
      /\ Commandable("pilot") = {Empty}
      /\ Commandable("dimmer") = {"position", "state"}
      /\ Commandable("shutter") = {"position", "state"}
      /\ Commandable("switch") = {Empty} /\ Commandable("mode") = {Empty}
      /\ Commandable("heating") = {Empty} /\ Commandable("cooling") = {Empty}
      /\ Commandable("energy_save_heating") = {Empty}
  BY DEF Commandable, NoVariant, Setpoints
<1>2. /\ Expose(NoVariant) = {} /\ Expose("unused") = {} /\ Expose("restore") = {}
      /\ Expose("exposedRestore") = One("switch") /\ Expose("pilot") = One("heater")
      /\ Expose("dimmer") = Several({"position", "state"}, "switch")
      /\ Expose("shutter") = Several({"position", "state"}, "shutter")
      /\ Expose("switch") = One("switch") /\ Expose("mode") = One("thermostat")
  <2>1. Expose(NoVariant) = {} /\ Expose("unused") = {} /\ Expose("restore") = {}
    BY DEF Expose, NoVariant, Setpoints
  <2>2. /\ Expose("exposedRestore") = RestoreFeature /\ Expose("pilot") = PilotFeature
        /\ Expose("dimmer") = DimmerFeatures /\ Expose("shutter") = ShutterFeatures
        /\ Expose("switch") = SwitchFeature /\ Expose("mode") = ModeFeature
    BY DEF Expose, Setpoints
  <2> QED
    BY <2>1, <2>2 DEF RestoreFeature, PilotFeature, DimmerFeatures, ShutterFeatures,
         SwitchFeature, ModeFeature
<1>3. /\ Expose("heating") = One("thermostat") /\ Expose("cooling") = One("air-conditioning")
      /\ Expose("energy_save_heating") = One("thermostat")
  <2>1. \A variant \in Setpoints : Expose(variant) = SetpointFeature(variant)
    BY DEF Expose, Setpoints
  <2> QED
    BY <2>1 DEF SetpointFeature, Setpoints
<1>4. Empty # "position" /\ Empty # "state"
  BY DEF Empty
<1>5. /\ \A category : One(category) = {[name |-> Empty, category |-> category]}
      /\ \A names, category :
            Several(names, category) = {[name |-> n, category |-> category] : n \in names}
  BY DEF One, Several
<1> QED
  BY <1>1, <1>2, <1>3, <1>4, <1>5

\* A value whose property has no keys: its feature is found where the name is
\* read as a name.
LEMMA ReadsName ==
    ASSUME NEW name, NEW r \in Readings(Trailing(Empty, name))
    PROVE  /\ [key |-> Empty, name |-> name] \in Readings(Trailing(Empty, name))
           /\ \/ r = [key |-> Empty, name |-> name]
              \/ name # Empty /\ r = [key |-> name, name |-> Empty]
BY ReadingsAre

LEMMA ResolvesMultilevel ==
    ASSUME NEW p, NEW product, NEW class, NEW own,
           own = ResolveVariant("multilevel_switch", p, Empty, product, class),
           NEW e \in Expose(own)
    PROVE  /\ ResolveCommand("multilevel_switch", p, Trailing(Empty, e.name), e.category)
                = [variant |-> own, key |-> Empty, name |-> e.name]
           /\ e.name \in Commandable(own)
<1> DEFINE cc == "multilevel_switch"
           trailing == Trailing(Empty, e.name)
           mine == [key |-> Empty, name |-> e.name]
<1>1. /\ own = "dimmer" \/ own = "shutter" \/ own = "pilot" => p = "currentvalue"
      /\ own = "exposedRestore" => p = "restoreprevious"
      /\ own \in {"dimmer", "shutter", "pilot", "exposedRestore"}
  <2>1. own \notin {"unused", "restore", NoVariant}
    BY ControlNames
  <2> QED
    BY <2>1, MultilevelVariant
<1>2. e.name \in Commandable(own) /\ e = [name |-> e.name, category |-> e.category]
  BY <1>1, ControlNames
<1>3. \A map \in Maps(cc) : \A key : At(map, p, key) \in
         IF key # Empty THEN {NoVariant}
         ELSE IF p = "currentvalue" THEN {NoVariant, "pilot", "shutter", "dimmer"}
         ELSE {NoVariant, "unused", "exposedRestore", "restore"}
  BY AtMultilevel DEF Maps, Motors
<1>4. \E map \in Maps(cc) : At(map, p, Empty) = own
  <2>1. "17-5" \in Motors /\ "17-5" # "17-1"
    BY DEF Motors
  <2>2. /\ p = "currentvalue" => /\ At(PilotWire(cc), p, Empty) = "pilot"
                                 /\ At(Class(cc, "17-5"), p, Empty) = "shutter"
                                 /\ At(Properties(cc), p, Empty) = "dimmer"
        /\ p = "restoreprevious" => At(Class(cc, "17-1"), p, Empty) = "exposedRestore"
    BY <2>1, AtMultilevel
  <2> QED
    BY <1>1, <2>2 DEF Maps
<1>5. PICK map \in Maps(cc) : At(map, p, Empty) = own
  BY <1>4
<1>6. mine \in Readings(trailing)
  <2>1. PICK r : r \in Readings(trailing)
    BY ReadingsAre
  <2> QED
    BY <2>1, ReadsName
<1>7. Builds(Candidate(map, p, mine)) /\ Exposes(Candidate(map, p, mine), e.category)
  BY <1>2, <1>5, BuildsAt
<1>8. ASSUME NEW other \in Maps(cc), NEW r \in Readings(trailing),
             Builds(Candidate(other, p, r)), Exposes(Candidate(other, p, r), e.category)
      PROVE  Candidate(other, p, r) = Candidate(map, p, mine)
  <2>1. /\ r.name \in Commandable(At(other, p, r.key))
        /\ [name |-> r.name, category |-> e.category] \in Expose(At(other, p, r.key))
    BY <1>8, BuildsAt
  <2>2. r = mine
    <3>1. CASE e.name # Empty /\ r = [key |-> e.name, name |-> Empty]
      <4>1. At(other, p, r.key) = NoVariant
        BY <1>3, <3>1
      <4> QED
        BY <2>1, <4>1, ControlNames
    <3> QED
      BY <3>1, ReadsName
  <2>3. At(other, p, Empty) = own
    <3>1. /\ e.name \in Commandable(At(other, p, Empty))
          /\ [name |-> e.name, category |-> e.category] \in Expose(At(other, p, Empty))
      BY <2>1, <2>2
    <3>2. /\ p = "currentvalue" => At(other, p, Empty) \in {NoVariant, "pilot", "shutter", "dimmer"}
          /\ p = "restoreprevious" =>
               At(other, p, Empty) \in {NoVariant, "unused", "exposedRestore", "restore"}
      BY <1>3
    <3>3. CASE own = "exposedRestore"
      BY <1>1, <3>1, <3>2, <3>3, ControlNames
    <3>4. CASE own = "pilot"
      BY <1>1, <3>1, <3>2, <3>4, ControlNames
    <3>5. CASE own = "dimmer"
      BY <1>1, <3>1, <3>2, <3>5, ControlNames
    <3>6. CASE own = "shutter"
      BY <1>1, <3>1, <3>2, <3>6, ControlNames
    <3> QED
      BY <1>1, <3>3, <3>4, <3>5, <3>6
  <2> QED
    BY <1>5, <2>2, <2>3, CandidateIs
<1>9. Candidate(map, p, mine) = [variant |-> own, key |-> Empty, name |-> e.name]
  BY <1>5, CandidateIs
<1> HIDE DEF mine, trailing
<1>10. ResolveCommand(cc, p, trailing, e.category) = Candidate(map, p, mine)
  BY <1>6, <1>7, <1>8, ResolvesTo
<1> QED
  BY <1>2, <1>9, <1>10 DEF trailing

\* A command class of one map, with one variant at each key, all without names.
LEMMA ResolvesSimple ==
    ASSUME NEW cc, NEW p, NEW own, NEW key, NEW e \in Expose(own),
           own # NoVariant, e.name = Empty, e.name \in Commandable(own),
           \A k : /\ At(PilotWire(cc), p, k) = NoVariant
                  /\ At(Class(cc, "17-1"), p, k) = NoVariant
                  /\ At(Class(cc, "17-5"), p, k) = NoVariant,
           At(Properties(cc), p, key) = own,
           key # Empty => At(Properties(cc), p, Empty) = NoVariant,
           e = [name |-> e.name, category |-> e.category]
    PROVE  ResolveCommand(cc, p, Trailing(key, e.name), e.category)
             = [variant |-> own, key |-> key, name |-> e.name]
<1> DEFINE trailing == Trailing(key, e.name)
           mine == [key |-> key, name |-> Empty]
<1>1. /\ mine \in Readings(trailing)
      /\ \A r \in Readings(trailing) :
            r = mine \/ (key # Empty /\ r = [key |-> Empty, name |-> key])
  BY ReadingsAre
<1>2. Properties(cc) \in Maps(cc)
  BY DEF Maps
<1>3. Candidate(Properties(cc), p, mine) = [variant |-> own, key |-> key, name |-> Empty]
  BY CandidateIs
<1>4. /\ Builds(Candidate(Properties(cc), p, mine))
      /\ Exposes(Candidate(Properties(cc), p, mine), e.category)
  BY BuildsAt
<1>5. ASSUME NEW other \in Maps(cc), NEW r \in Readings(trailing),
             Builds(Candidate(other, p, r)), Exposes(Candidate(other, p, r), e.category)
      PROVE  Candidate(other, p, r) = Candidate(Properties(cc), p, mine)
  <2>1. r.name \in Commandable(At(other, p, r.key))
    BY <1>5, BuildsAt
  <2>2. At(other, p, r.key) # NoVariant
    BY <2>1, ControlNames
  <2>3. At(Properties(cc), p, r.key) = At(other, p, r.key)
    BY <2>2 DEF Maps
  <2>4. r = mine
    BY <1>1, <2>2, <2>3
  <2> QED
    BY <2>3, <2>4, CandidateIs
<1> HIDE DEF mine, trailing
<1>6. ResolveCommand(cc, p, trailing, e.category) = Candidate(Properties(cc), p, mine)
  BY <1>1, <1>2, <1>4, <1>5, ResolvesTo
<1> QED
  BY <1>3, <1>6 DEF trailing

\* The feature of a value leads to its variant, or nowhere.
LEMMA ResolvesOwn ==
    ASSUME NEW n, IsNode(n), NEW v \in n.values \cup DerivedValues(n),
           NEW e \in Expose(Variant(n, v))
    PROVE  ResolveCommand(v.cc, v.property, Trailing(v.key, e.name), e.category) =
             IF e.name \in Commandable(Variant(n, v))
               THEN [variant |-> Variant(n, v), key |-> v.key, name |-> e.name]
               ELSE NoCommand
<1> DEFINE own == Variant(n, v)
<1>1. own = ResolveVariant(v.cc, v.property, v.key, n.product, n.class)
  BY DEF Variant
<1>2. v.cc \in Unkeyed => v.key = Empty
  BY NodeValues
<1> HIDE DEF own
<1>3. CASE v.cc = "multilevel_switch"
  <2>1. v.key = Empty
    BY <1>2, <1>3 DEF Unkeyed
  <2> QED
    BY <1>1, <1>3, <2>1, ResolvesMultilevel DEF own
<1>4. CASE v.cc = "binary_switch"
  <2>1. v.key = Empty
    BY <1>2, <1>4 DEF Unkeyed
  <2>2. own = IF v.property = "currentvalue" THEN "switch" ELSE NoVariant
    BY <1>1, <1>4, <2>1, BinaryVariant
  <2>3. own = "switch" /\ own # NoVariant /\ v.property = "currentvalue"
        /\ e.name = Empty /\ e.name \in Commandable(own)
        /\ e = [name |-> e.name, category |-> e.category]
    BY <2>2, ControlNames DEF own, NoVariant
  <2>4. /\ \A k : /\ At(PilotWire(v.cc), v.property, k) = NoVariant
                  /\ At(Class(v.cc, "17-1"), v.property, k) = NoVariant
                  /\ At(Class(v.cc, "17-5"), v.property, k) = NoVariant
        /\ At(Properties(v.cc), v.property, Empty) = own
    BY <1>4, <2>3, BinaryVariant
  <2>5. ResolveCommand(v.cc, v.property, Trailing(Empty, e.name), e.category)
          = [variant |-> own, key |-> Empty, name |-> e.name]
    BY <2>3, <2>4, ResolvesSimple DEF own
  <2> QED
    BY <2>1, <2>3, <2>5 DEF own
<1>5. CASE v.cc = "thermostat_mode"
  <2>1. v.key = Empty
    BY <1>2, <1>5 DEF Unkeyed
  <2>2. own = IF v.property = "mode" THEN "mode" ELSE NoVariant
    BY <1>1, <1>5, <2>1, ModeVariant
  <2>3. own = "mode" /\ own # NoVariant /\ v.property = "mode"
        /\ e.name = Empty /\ e.name \in Commandable(own)
        /\ e = [name |-> e.name, category |-> e.category]
    BY <2>2, ControlNames DEF own, NoVariant
  <2>4. /\ \A k : /\ At(PilotWire(v.cc), v.property, k) = NoVariant
                  /\ At(Class(v.cc, "17-1"), v.property, k) = NoVariant
                  /\ At(Class(v.cc, "17-5"), v.property, k) = NoVariant
        /\ At(Properties(v.cc), v.property, Empty) = own
    BY <1>5, <2>3, ModeVariant
  <2>5. ResolveCommand(v.cc, v.property, Trailing(Empty, e.name), e.category)
          = [variant |-> own, key |-> Empty, name |-> e.name]
    BY <2>3, <2>4, ResolvesSimple DEF own
  <2> QED
    BY <2>1, <2>3, <2>5 DEF own
<1>6. CASE v.cc = "thermostat_setpoint"
  <2>1. own = IF v.property = "setpoint" /\ v.key \in Setpoints THEN v.key ELSE NoVariant
    BY <1>1, <1>6, SetpointVariant
  <2>2. own \in Setpoints /\ own = v.key /\ v.property = "setpoint"
    BY <2>1, ControlNames DEF own
  <2>3. own # NoVariant /\ e.name = Empty /\ e.name \in Commandable(own)
        /\ e = [name |-> e.name, category |-> e.category]
    BY <2>2, ControlNames DEF own, Setpoints, NoVariant
  <2>4. /\ \A k : /\ At(PilotWire(v.cc), v.property, k) = NoVariant
                  /\ At(Class(v.cc, "17-1"), v.property, k) = NoVariant
                  /\ At(Class(v.cc, "17-5"), v.property, k) = NoVariant
        /\ At(Properties(v.cc), v.property, v.key) = own
    BY <1>6, <2>2, SetpointVariant
  <2>5. v.key # Empty => At(Properties(v.cc), v.property, Empty) = NoVariant
    <3>1. Empty \notin Setpoints
      BY DEF Setpoints, Empty
    <3> QED
      BY <1>6, <3>1, SetpointVariant
  <2>6. ResolveCommand(v.cc, v.property, Trailing(v.key, e.name), e.category)
          = [variant |-> own, key |-> v.key, name |-> e.name]
    BY <2>3, <2>4, <2>5, ResolvesSimple DEF own
  <2> QED
    BY <2>3, <2>6 DEF own
<1>7. CASE v.cc \notin Commanded
  <2>1. own \in Sensors \cup Batteries \cup {NoVariant}
    <3>1. CASE v.cc = "battery"
      BY <1>1, <1>2, <3>1, BatteryVariant DEF Unkeyed, Batteries
    <3> QED
      BY <1>1, <1>7, <3>1, SensorVariant
  <2>2. e.name \notin Commandable(own)
    BY <2>1, NoControls, Uncontrolled
  <2>3. \A map \in Maps(v.cc) : \A k :
           At(map, v.property, k) \in Sensors \cup Batteries \cup {NoVariant}
    <3>1. CASE v.cc = "battery"
      BY <3>1, BatteryVariant DEF Maps, Batteries
    <3>2. CASE v.cc # "battery"
      <4>1. \A map \in Maps(v.cc) : Holds(map, Sensors)
        BY <1>7, <3>2, SensorMaps DEF Maps
      <4> QED
        BY <4>1, HoldsAt
    <3> QED
      BY <3>1, <3>2
  <2>4. \A map \in Maps(v.cc) : \A k : Commandable(At(map, v.property, k)) = {}
    BY <2>3, NoControls, Uncontrolled
  <2>5. \A map \in Maps(v.cc), r \in Readings(Trailing(v.key, e.name)) :
           ~Builds(Candidate(map, v.property, r))
    BY <2>4, BuildsAt
  <2> QED
    BY <2>2, <2>5, ResolvesToNone DEF own
<1> QED
  BY <1>3, <1>4, <1>5, <1>6, <1>7 DEF Commanded

-----------------------------------------------------------------------------
(* Ids are unambiguous. *)

\* The variants that feed or expose several features.
LEMMA VariantAt ==
    ASSUME NEW n, IsNode(n), NEW v \in n.values \cup DerivedValues(n)
    PROVE  /\ v.cc = "multilevel_switch" =>
                Variant(n, v) = IF v.property = "currentvalue"
                                  THEN IF n.product \in QubinoFlushPilot THEN "pilot"
                                       ELSE IF n.class \in Motors THEN "shutter" ELSE "dimmer"
                                ELSE IF v.property = "restoreprevious"
                                  THEN IF n.product \in QubinoFlushPilot THEN "unused"
                                       ELSE IF n.class = "17-1" THEN "exposedRestore" ELSE "restore"
                                ELSE NoVariant
           /\ v.cc = "battery" =>
                Variant(n, v) = IF v.property = "level" THEN "level"
                                ELSE IF v.property = "islow" THEN "islow" ELSE NoVariant
           /\ v.cc \notin {"multilevel_switch", "battery"} =>
                Variant(n, v) \in Sensors \cup {"switch", "mode", NoVariant} \cup Setpoints
<1>1. Variant(n, v) = ResolveVariant(v.cc, v.property, v.key, n.product, n.class)
  BY DEF Variant
<1>2. v.cc \in Unkeyed => v.key = Empty
  BY NodeValues
<1>3. ASSUME v.cc = "multilevel_switch"
      PROVE  Variant(n, v) = IF v.property = "currentvalue"
                               THEN IF n.product \in QubinoFlushPilot THEN "pilot"
                                    ELSE IF n.class \in Motors THEN "shutter" ELSE "dimmer"
                             ELSE IF v.property = "restoreprevious"
                               THEN IF n.product \in QubinoFlushPilot THEN "unused"
                                    ELSE IF n.class = "17-1" THEN "exposedRestore" ELSE "restore"
                             ELSE NoVariant
  BY <1>1, <1>2, <1>3, MultilevelVariant DEF Unkeyed
<1>4. ASSUME v.cc = "battery"
      PROVE  Variant(n, v) = IF v.property = "level" THEN "level"
                             ELSE IF v.property = "islow" THEN "islow" ELSE NoVariant
  BY <1>1, <1>2, <1>4, BatteryVariant DEF Unkeyed
<1>5. ASSUME v.cc \notin {"multilevel_switch", "battery"}
      PROVE  Variant(n, v) \in Sensors \cup {"switch", "mode", NoVariant} \cup Setpoints
  <2>1. CASE v.cc = "binary_switch"
    BY <1>1, <1>2, <2>1, BinaryVariant DEF Unkeyed
  <2>2. CASE v.cc = "thermostat_mode"
    BY <1>1, <1>2, <2>2, ModeVariant DEF Unkeyed
  <2>3. CASE v.cc = "thermostat_setpoint"
    BY <1>1, <2>3, SetpointVariant
  <2>4. CASE v.cc \notin Commanded \cup {"battery"}
    BY <1>1, <2>4, SensorVariant
  <2> QED
    BY <1>5, <2>1, <2>2, <2>3, <2>4 DEF Commanded
<1> QED
  BY <1>3, <1>4, <1>5

\* What no name needs to tell apart.
LEMMA Nameless ==
    ASSUME NEW variant \in Sensors \cup {"switch", "mode", NoVariant} \cup Setpoints
    PROVE  /\ Fed(variant) \subseteq {<<Empty, Empty>>}
           /\ \A e \in Expose(variant) : e.name = Empty
<1>1. variant \notin {"dimmer", "shutter", "level"}
  BY DEF Sensors, NoVariant, Setpoints
<1>2. Fed(variant) \subseteq {<<Empty, Empty>>}
  BY <1>1 DEF Fed
<1>3. PICK category : Expose(variant) \in {{}, One(category)}
  BY <1>1, OneFeature
<1> QED
  BY <1>2, <1>3 DEF One

LEMMA FedIs ==
    /\ Fed("dimmer") = {<<Empty, "position">>, <<Empty, "state">>, <<"restoreprevious", Empty>>}
    /\ Fed("shutter") = {<<Empty, "position">>}
    /\ Fed("level") = {<<Empty, Empty>>, <<"islow", Empty>>}
    /\ Fed("islow") = {<<Empty, Empty>>} /\ Fed("pilot") = {<<Empty, Empty>>}
    /\ \A variant \in {"unused", "exposedRestore", "restore", NoVariant} : Fed(variant) = {}
    /\ Empty \notin {"position", "state", "restoreprevious", "islow"}
<1>1. Empty \notin {"position", "state", "restoreprevious", "islow"}
  BY DEF Empty
<1> QED
  BY <1>1 DEF Fed, NoVariant

\* The parts of a target.
LEMMA TargetIs ==
    ASSUME NEW v, NEW property, NEW name
    PROVE  Target(v, <<property, name>>) =
             FeatureId(v.endpoint, v.cc, IF property = Empty THEN v.property ELSE property,
                       IF property = Empty THEN v.key ELSE Empty, name)
BY DEF Target

LEMMA SameValue ==
    ASSUME NEW n, IsNode(n), NEW v \in n.values \cup DerivedValues(n),
           NEW w \in n.values \cup DerivedValues(n),
           v.endpoint = w.endpoint, v.cc = w.cc, v.property = w.property, v.key = w.key
    PROVE  v = w
BY NodeValues DEF Value

\* Of one value.
LEMMA OneTarget ==
    ASSUME NEW n, IsNode(n), NEW v \in n.values,
           NEW fed \in Fed(Variant(n, v)), NEW also \in Fed(Variant(n, v)),
           Target(v, fed) = Target(v, also)
    PROVE  fed = also
<1>1. CASE v.cc = "multilevel_switch"
  <2>1. CASE Variant(n, v) = "dimmer"
    <3>1. Fed("dimmer") =
            {<<Empty, "position">>, <<Empty, "state">>, <<"restoreprevious", Empty>>}
      BY FedIs
    <3>2. v.property = "currentvalue"
      BY <1>1, <2>1, VariantAt DEF NoVariant
    <3>3. /\ Empty # "position" /\ Empty # "state" /\ Empty # "restoreprevious"
      BY FedIs
    <3>4. /\ Target(v, <<Empty, "position">>) =
                FeatureId(v.endpoint, v.cc, "currentvalue", v.key, "position")
          /\ Target(v, <<Empty, "state">>) =
                FeatureId(v.endpoint, v.cc, "currentvalue", v.key, "state")
          /\ Target(v, <<"restoreprevious", Empty>>) =
                FeatureId(v.endpoint, v.cc, "restoreprevious", Empty, Empty)
      BY <3>2, <3>3, TargetIs
    <3>5. /\ Target(v, <<Empty, "position">>) # Target(v, <<Empty, "state">>)
          /\ Target(v, <<Empty, "position">>) # Target(v, <<"restoreprevious", Empty>>)
          /\ Target(v, <<Empty, "state">>) # Target(v, <<"restoreprevious", Empty>>)
      BY <3>3, <3>4, SameId
    <3> QED
      BY <2>1, <3>1, <3>5
  <2>2. CASE Variant(n, v) # "dimmer"
    <3>1. Variant(n, v) \in {"pilot", "shutter", "unused", "exposedRestore", "restore", NoVariant}
      BY <1>1, <2>2, VariantAt
    <3>2. \A variant \in {"pilot", "shutter", "unused", "exposedRestore", "restore", NoVariant} :
            Fed(variant) \in {{}, {<<Empty, "position">>}, {<<Empty, Empty>>}}
      BY DEF Fed, NoVariant
    <3> QED
      BY <3>1, <3>2
  <2> QED
    BY <2>1, <2>2
<1>2. CASE v.cc = "battery"
  <2>1. CASE Variant(n, v) = "level"
    <3>1. Fed("level") = {<<Empty, Empty>>, <<"islow", Empty>>} /\ Empty # "islow"
      BY FedIs
    <3>2. v.property = "level"
      BY <1>2, <2>1, VariantAt DEF NoVariant
    <3>3. /\ Target(v, <<Empty, Empty>>) = FeatureId(v.endpoint, v.cc, "level", v.key, Empty)
          /\ Target(v, <<"islow", Empty>>) = FeatureId(v.endpoint, v.cc, "islow", Empty, Empty)
      BY <3>1, <3>2, TargetIs
    <3>4. Target(v, <<Empty, Empty>>) # Target(v, <<"islow", Empty>>)
      BY <3>3, SameId
    <3> QED
      BY <2>1, <3>1, <3>4
  <2>2. CASE Variant(n, v) # "level"
    <3>1. Variant(n, v) \in {"islow", NoVariant}
      BY <1>2, <2>2, VariantAt
    <3>2. Fed("islow") = {<<Empty, Empty>>} /\ Fed(NoVariant) = {}
      BY DEF Fed, NoVariant
    <3> QED
      BY <3>1, <3>2
  <2> QED
    BY <2>1, <2>2
<1>3. CASE v.cc \notin {"multilevel_switch", "battery"}
  <2>1. Fed(Variant(n, v)) \subseteq {<<Empty, Empty>>}
    BY <1>3, VariantAt, Nameless
  <2> QED
    BY <2>1
<1> QED
  BY <1>1, <1>2, <1>3

\* A value that feeds the flag another value holds.
Derives(n, v, fed, w) == Variant(n, v) = "level" /\ fed = <<"islow", Empty>> /\ IsFlag(w)

\* Of two values, but for the flag and the level of a battery.
LEMMA TwoTargets ==
    ASSUME NEW n, IsNode(n), NEW v \in n.values, NEW w \in n.values, v # w,
           NEW fed \in Fed(Variant(n, v)), NEW also \in Fed(Variant(n, w)),
           Target(v, fed) = Target(w, also)
    PROVE  Derives(n, v, fed, w) \/ Derives(n, w, also, v)
<1>1. PICK p, m, q, k : fed = <<p, m>> /\ also = <<q, k>>
  BY DEF Fed
<1>2. PICK vp, vk : /\ vp = IF p = Empty THEN v.property ELSE p
                    /\ vk = IF p = Empty THEN v.key ELSE Empty
  OBVIOUS
<1>3. PICK wp, wk : /\ wp = IF q = Empty THEN w.property ELSE q
                    /\ wk = IF q = Empty THEN w.key ELSE Empty
  OBVIOUS
<1>4. Target(v, fed) = FeatureId(v.endpoint, v.cc, vp, vk, m)
  BY <1>1, <1>2, TargetIs
<1>5. Target(w, also) = FeatureId(w.endpoint, w.cc, wp, wk, k)
  BY <1>1, <1>3, TargetIs
<1>6. FeatureId(v.endpoint, v.cc, vp, vk, m) = FeatureId(w.endpoint, w.cc, wp, wk, k)
  BY <1>4, <1>5
<1>7. /\ v.endpoint = w.endpoint /\ v.cc = w.cc /\ vp = wp
      /\ (m = Empty <=> k = Empty) => vk = wk
  BY <1>6, SameId
<1>8. /\ v.endpoint = w.endpoint /\ v.cc = w.cc
      /\ (IF p = Empty THEN v.property ELSE p) = (IF q = Empty THEN w.property ELSE q)
      /\ (m = Empty <=> k = Empty) =>
           (IF p = Empty THEN v.key ELSE Empty) = (IF q = Empty THEN w.key ELSE Empty)
  BY <1>2, <1>3, <1>7
<1>9. v.cc \in Unkeyed => v.key = Empty /\ w.key = Empty
  BY <1>8, NodeValues
<1>10. ~(v.property = w.property /\ v.key = w.key)
  BY <1>8, SameValue
<1>11. CASE v.cc = "multilevel_switch"
  <2>1. \A x \in n.values : x.cc = "multilevel_switch" /\ Fed(Variant(n, x)) # {} =>
           x.property = "currentvalue"
    <3>1. \A variant \in {"unused", "exposedRestore", "restore", NoVariant} : Fed(variant) = {}
      BY DEF Fed, NoVariant
    <3> QED
      BY <3>1, VariantAt
  <2>2. v.property = "currentvalue" /\ w.property = "currentvalue"
    BY <1>8, <1>11, <2>1
  <2> QED
    BY <1>9, <1>10, <1>11, <2>2 DEF Unkeyed
<1>12. CASE v.cc = "battery"
  <2>1. \A x \in n.values : x.cc = "battery" =>
           /\ x.property = "level" => Variant(n, x) = "level"
           /\ x.property # "level" => Fed(Variant(n, x)) \subseteq {<<Empty, Empty>>}
           /\ x.property \notin {"level", "islow"} => Fed(Variant(n, x)) = {}
    <3>1. Fed("islow") = {<<Empty, Empty>>} /\ Fed(NoVariant) = {}
      BY DEF Fed, NoVariant
    <3> QED
      BY <3>1, VariantAt
  <2>2. v.property # w.property
    BY <1>9, <1>10, <1>12 DEF Unkeyed
  <2>3. Fed("level") = {<<Empty, Empty>>, <<"islow", Empty>>} /\ Empty # "islow"
    BY FedIs
  <2>4. CASE v.property = "level"
    <3>1. w.property = "islow" /\ also = <<Empty, Empty>> /\ Variant(n, v) = "level"
      BY <1>8, <1>12, <2>1, <2>2, <2>4
    <3>2. q = Empty /\ p = "islow"
      BY <1>1, <1>8, <2>2, <2>3, <3>1
    <3>3. fed = <<"islow", Empty>>
      BY <1>1, <2>3, <3>1, <3>2
    <3> QED
      BY <1>8, <1>12, <3>1, <3>3 DEF Derives, IsFlag
  <2>5. CASE v.property # "level"
    <3>1. v.property = "islow" /\ fed = <<Empty, Empty>>
      BY <1>12, <2>1, <2>5
    <3>2. w.property = "level" /\ Variant(n, w) = "level"
      BY <1>8, <1>12, <2>1, <2>2, <3>1
    <3>3. p = Empty /\ q = "islow"
      BY <1>1, <1>8, <2>2, <2>3, <3>1, <3>2
    <3>4. also = <<"islow", Empty>>
      BY <1>1, <2>3, <3>2, <3>3
    <3> QED
      BY <1>12, <3>1, <3>2, <3>4 DEF Derives, IsFlag
  <2> QED
    BY <2>4, <2>5
<1>13. CASE v.cc \notin {"multilevel_switch", "battery"}
  <2>1. fed = <<Empty, Empty>> /\ also = <<Empty, Empty>>
    BY <1>8, <1>13, VariantAt, Nameless
  <2>2. p = Empty /\ q = Empty /\ m = Empty /\ k = Empty
    BY <1>1, <2>1
  <2> QED
    BY <1>8, <1>10, <2>2
<1> QED
  BY <1>11, <1>12, <1>13

\* A variant exposes features of one category, all with a name or none.
LEMMA Exposed ==
    ASSUME NEW variant
    PROVE  /\ \E category : \A e \in Expose(variant) :
                e = [name |-> e.name, category |-> category] /\ e.category = category
           /\ \A e, d \in Expose(variant) : e.name = Empty <=> d.name = Empty
<1>1. CASE variant \in {"dimmer", "shutter"}
  <2>1. PICK category :
          Expose(variant) = {[name |-> x, category |-> category] : x \in {"position", "state"}}
    BY <1>1, ControlNames
  <2> QED
    BY <2>1, ControlNames
<1>2. CASE variant \notin {"dimmer", "shutter"}
  <2>1. PICK category : Expose(variant) \in {{}, {[name |-> Empty, category |-> category]}}
    BY <1>2, OneFeature DEF One
  <2> QED
    BY <2>1
<1> QED
  BY <1>1, <1>2

\* Where a feature comes from.
LEMMA MappedFrom ==
    ASSUME NEW n, NEW f \in Mapped(n)
    PROVE  \E v \in n.values \cup DerivedValues(n) : \E e \in Expose(Variant(n, v)) :
             /\ f = [value |-> v, name |-> e.name, category |-> e.category,
                     id |-> FeatureId(v.endpoint, v.cc, v.property, v.key, e.name)]
             /\ f.value = v /\ f.name = e.name /\ f.category = e.category
             /\ f.id = FeatureId(v.endpoint, v.cc, v.property, v.key, e.name)
BY DEF Mapped

LEMMA Unambiguous ==
    ASSUME NEW n, IsNode(n), NEW f \in Mapped(n), NEW g \in Mapped(n), f.id = g.id
    PROVE  f = g
<1>1. PICK v \in n.values \cup DerivedValues(n) : \E e \in Expose(Variant(n, v)) :
        /\ f = [value |-> v, name |-> e.name, category |-> e.category,
                id |-> FeatureId(v.endpoint, v.cc, v.property, v.key, e.name)]
        /\ f.id = FeatureId(v.endpoint, v.cc, v.property, v.key, e.name)
  BY MappedFrom
<1>2. PICK e \in Expose(Variant(n, v)) :
        /\ f = [value |-> v, name |-> e.name, category |-> e.category,
                id |-> FeatureId(v.endpoint, v.cc, v.property, v.key, e.name)]
        /\ f.id = FeatureId(v.endpoint, v.cc, v.property, v.key, e.name)
  BY <1>1
<1>3. PICK w \in n.values \cup DerivedValues(n) : \E d \in Expose(Variant(n, w)) :
        /\ g = [value |-> w, name |-> d.name, category |-> d.category,
                id |-> FeatureId(w.endpoint, w.cc, w.property, w.key, d.name)]
        /\ g.id = FeatureId(w.endpoint, w.cc, w.property, w.key, d.name)
  BY MappedFrom
<1>4. PICK d \in Expose(Variant(n, w)) :
        /\ g = [value |-> w, name |-> d.name, category |-> d.category,
                id |-> FeatureId(w.endpoint, w.cc, w.property, w.key, d.name)]
        /\ g.id = FeatureId(w.endpoint, w.cc, w.property, w.key, d.name)
  BY <1>3
<1>5. FeatureId(v.endpoint, v.cc, v.property, v.key, e.name)
        = FeatureId(w.endpoint, w.cc, w.property, w.key, d.name)
  BY <1>2, <1>4
<1>6. /\ v.endpoint = w.endpoint /\ v.cc = w.cc /\ v.property = w.property
      /\ (e.name = Empty <=> d.name = Empty) => v.key = w.key /\ e.name = d.name
  BY <1>5, SameId
<1>7. v = w
  <2>1. CASE v.cc \in {"multilevel_switch", "battery"}
    <3>1. v.key = Empty /\ w.key = Empty
      BY <1>6, <2>1, NodeValues DEF Unkeyed
    <3> QED
      BY <1>6, <3>1, SameValue
  <2>2. CASE v.cc \notin {"multilevel_switch", "battery"}
    <3>1. e.name = Empty /\ d.name = Empty
      BY <1>6, <2>2, VariantAt, Nameless
    <3> QED
      BY <1>6, <3>1, SameValue
  <2> QED
    BY <2>1, <2>2
<1>8. e.name = d.name
  BY <1>6, <1>7, Exposed
<1>9. e.category = d.category
  BY <1>7, Exposed
<1> QED
  BY <1>2, <1>4, <1>7, <1>8, <1>9

LEMMA DiscoverMapped == \A n : Discover(n) \subseteq Mapped(n)
BY DEF Discover

\* What resolveCommand() makes of the id and the category of a feature.
LEMMA Inverts ==
    ASSUME NEW n, IsNode(n), NEW f \in Mapped(n)
    PROVE  /\ Parse(f.id) = [endpoint |-> f.value.endpoint, cc |-> f.value.cc,
                             property |-> f.value.property,
                             trailing |-> Trailing(f.value.key, f.name)]
           /\ ResolveCommand(Parse(f.id).cc, Parse(f.id).property, Parse(f.id).trailing, f.category) =
                IF f.name \in Commandable(Variant(n, f.value))
                  THEN [variant |-> Variant(n, f.value), key |-> f.value.key, name |-> f.name]
                  ELSE NoCommand
<1>1. PICK v \in n.values \cup DerivedValues(n) : \E e \in Expose(Variant(n, v)) :
        /\ f.value = v /\ f.name = e.name /\ f.category = e.category
        /\ f.id = FeatureId(v.endpoint, v.cc, v.property, v.key, e.name)
  BY MappedFrom
<1>2. PICK e \in Expose(Variant(n, v)) :
        /\ f.value = v /\ f.name = e.name /\ f.category = e.category
        /\ f.id = FeatureId(v.endpoint, v.cc, v.property, v.key, e.name)
  BY <1>1
<1>3. PICK p : p = Parse(f.id)
  OBVIOUS
<1>4. p = [endpoint |-> v.endpoint, cc |-> v.cc, property |-> v.property,
           trailing |-> Trailing(v.key, e.name)]
  BY <1>3, <1>2, Parsed
<1>5. p.cc = v.cc /\ p.property = v.property /\ p.trailing = Trailing(v.key, e.name)
  BY <1>4
<1>6. ResolveCommand(p.cc, p.property, p.trailing, f.category) =
        IF e.name \in Commandable(Variant(n, v))
          THEN [variant |-> Variant(n, v), key |-> v.key, name |-> e.name]
          ELSE NoCommand
  BY <1>5, <1>2, ResolvesOwn
<1> QED
  BY <1>3, <1>4, <1>6, <1>2

-----------------------------------------------------------------------------
(* Conversion. *)

\* The property and the name a state of a value is of.
Pair(r) == <<r.property, r.name>>

\* A variant has codes that mean something, or is published as it is, if any.
Coded == {"door", "presence", "smoke", "co", "scene", "mode", "operating"}
Direct == Setpoints \cup {"light", "reading", "temperature", "switch", "motion", "input", "islow"}

LEMMA Apart ==
    ASSUME NEW variant
    PROVE  /\ variant \notin Coded => DOMAIN Codes(variant) = {}
           /\ variant \notin Direct => \A held : ~AsItIs(variant, held)
<1>1. variant \notin Coded => Codes(variant) = <<>>
  BY DEF Codes, NotificationCodes, SceneCodes, ModeCodes, OperatingCodes, Coded
<1>2. DOMAIN <<>> = {}
  OBVIOUS
<1>3. variant \notin Direct => \A held : ~AsItIs(variant, held)
  BY DEF AsItIs, Measured, BooleanState, Direct
<1> QED
  BY <1>1, <1>2, <1>3

LEMMA Silent ==
    ASSUME NEW variant, variant \notin Coded \cup Direct
    PROVE  DOMAIN Codes(variant) = {} /\ \A held : ~AsItIs(variant, held)
BY Apart

\* What a value of a variant feeds: one state of each pair.
OneEach(states, fed) ==
    /\ \A r \in states : Pair(r) \in fed
    /\ \A r, s \in states : Pair(r) = Pair(s) => r = s

LEMMA LevelReported ==
    ASSUME NEW flagged \in BOOLEAN, NEW held,
           NEW states, states = Reports("level", flagged, held)
    PROVE  /\ OneEach(states, Fed("level"))
           /\ flagged => \A r \in states : Pair(r) # <<"islow", Empty>>
           /\ states \subseteq Reports("level", FALSE, held)
           /\ \A r \in Reports("level", FALSE, held) : r \in states \/ Pair(r) = <<"islow", Empty>>
<1>1. CASE IsNumber(held)
  <2> DEFINE flag == Sibling("islow", Empty, IF held[2] <= LowBatteryPercent THEN ON ELSE OFF)
  <2>1. \A known \in BOOLEAN : Reports("level", known, held) =
          {Own(Empty, held[2])} \cup (IF known THEN {} ELSE {flag})
    <3>1. DOMAIN Codes("level") = {} /\ ~AsItIs("level", held)
      BY Silent DEF Coded, Direct, Setpoints
    <3> QED
      BY <1>1, <3>1 DEF Reports, LevelStates, DerivesLow
  <2>2. Pair(flag) = <<"islow", Empty>> /\ Pair(Own(Empty, held[2])) = <<Empty, Empty>>
    BY DEF Pair, Own, Sibling
  <2>3. Fed("level") = {<<Empty, Empty>>, <<"islow", Empty>>}
    BY DEF Fed, NoVariant
  <2> HIDE DEF flag
  <2>4. states = {Own(Empty, held[2])} \cup (IF flagged THEN {} ELSE {flag})
    BY <2>1
  <2>5. Reports("level", FALSE, held) = {Own(Empty, held[2]), flag}
    BY <2>1
  <2>6. <<"islow", Empty>> # <<Empty, Empty>>
    BY DEF Empty
  <2>7. OneEach(states, Fed("level"))
    BY <2>2, <2>3, <2>4, <2>6 DEF OneEach
  <2> QED
    BY <2>2, <2>4, <2>5, <2>6, <2>7
<1>2. CASE ~IsNumber(held)
  <2>1. ~AsItIs("level", held)
    BY Silent DEF Coded, Direct, Setpoints
  <2>2. \A known \in BOOLEAN : Reports("level", known, held) = {}
    BY <1>2, <2>1 DEF Reports
  <2> QED
    BY <2>2 DEF OneEach
<1> QED
  BY <1>1, <1>2

LEMMA OneState ==
    /\ \A name, x : OneEach({Own(name, x)}, {<<Empty, name>>})
    /\ \A fed : OneEach({}, fed)
<1>1. ASSUME NEW name, NEW x PROVE OneEach({Own(name, x)}, {<<Empty, name>>})
  <2>1. Pair(Own(name, x)) = <<Empty, name>>
    BY DEF Pair, Own
  <2> QED
    BY <2>1 DEF OneEach
<1>2. \A fed : OneEach({}, fed)
  BY DEF OneEach
<1> QED
  BY <1>1, <1>2

LEMMA OtherReported ==
    ASSUME NEW variant, variant # "level", NEW held
    PROVE  /\ OneEach(Reports(variant, FALSE, held), Fed(variant))
           /\ Reports(variant, TRUE, held) = Reports(variant, FALSE, held)
<1>1. CASE variant \notin Coded \cup Direct
  <2>1. DOMAIN Codes(variant) = {} /\ ~AsItIs(variant, held)
    BY <1>1, Silent
  <2>2. CASE variant = "dimmer"
    <3>1. \A known \in BOOLEAN : Reports(variant, known, held) =
            (IF IsNumber(held) THEN {Own("position", held[2])} ELSE {})
              \cup {Own("state", OnOff(held)), Sibling("restoreprevious", Empty, OnOff(held))}
      BY <2>1, <2>2 DEF Reports, DimmerStates, PositionStates
    <3>2. Fed(variant) = {<<Empty, "position">>, <<Empty, "state">>, <<"restoreprevious", Empty>>}
      BY <2>2 DEF Fed, NoVariant
    <3>3. PICK p, o, q : /\ p = Own("position", held[2]) /\ o = Own("state", OnOff(held))
                         /\ q = Sibling("restoreprevious", Empty, OnOff(held))
      OBVIOUS
    <3>4. /\ Pair(p) = <<Empty, "position">> /\ Pair(o) = <<Empty, "state">>
          /\ Pair(q) = <<"restoreprevious", Empty>>
      BY <3>3 DEF Pair, Own, Sibling
    <3>5. Pair(p) # Pair(o) /\ Pair(p) # Pair(q) /\ Pair(o) # Pair(q)
      <4>1. /\ <<Empty, "position">> # <<Empty, "state">>
            /\ <<Empty, "position">> # <<"restoreprevious", Empty>>
            /\ <<Empty, "state">> # <<"restoreprevious", Empty>>
        OBVIOUS
      <4> QED
        BY <3>4, <4>1
    <3>6. PICK states : /\ \A known \in BOOLEAN : Reports(variant, known, held) = states
                        /\ states \subseteq {p, o, q}
      BY <3>1, <3>3
    <3>7. OneEach(states, Fed(variant))
      <4>1. \A r \in states : r = p \/ r = o \/ r = q
        BY <3>6
      <4>2. \A r \in states : Pair(r) \in Fed(variant)
        BY <3>2, <3>4, <4>1
      <4>3. \A r, s \in states : Pair(r) = Pair(s) => r = s
        BY <3>5, <4>1
      <4> QED
        BY <4>2, <4>3 DEF OneEach
    <3> QED
      BY <3>6, <3>7
  <2>3. CASE variant = "shutter"
    <3>1. \A known \in BOOLEAN : Reports(variant, known, held) =
            IF IsNumber(held) THEN {Own("position", held[2])} ELSE {}
      BY <2>1, <2>3 DEF Reports, PositionStates
    <3>2. Fed(variant) = {<<Empty, "position">>}
      BY <2>3 DEF Fed, NoVariant
    <3> QED
      BY <3>1, <3>2, OneState
  <2>4. CASE variant = "pilot"
    <3>1. \A known \in BOOLEAN : Reports(variant, known, held) =
            IF IsNumber(held) /\ held[2] \in 0..99 THEN {Own(Empty, PilotMode(held[2]))} ELSE {}
      BY <2>1, <2>4 DEF Reports, PilotStates
    <3>2. Fed(variant) = {<<Empty, Empty>>}
      BY <2>4 DEF Fed, NoVariant
    <3> QED
      BY <3>1, <3>2, OneState
  <2>5. CASE variant = "alarm"
    <3>1. \A known \in BOOLEAN : Reports(variant, known, held) = {Own(Empty, OnOff(held))}
      BY <2>1, <2>5 DEF Reports, AlarmStates
    <3>2. Fed(variant) = {<<Empty, Empty>>}
      BY <2>5 DEF Fed, NoVariant
    <3> QED
      BY <3>1, <3>2, OneState
  <2>6. CASE variant \notin {"dimmer", "shutter", "pilot", "alarm"}
    <3>1. \A known \in BOOLEAN : Reports(variant, known, held) = {}
      BY <2>1, <2>6 DEF Reports
    <3> QED
      BY <3>1, OneState
  <2> QED
    BY <2>2, <2>3, <2>4, <2>5, <2>6
<1>2. CASE variant \in Coded \cup Direct
  <2>1. Fed(variant) = {<<Empty, Empty>>}
    BY <1>2 DEF Fed, NoVariant, Coded, Direct, Setpoints
  <2> DEFINE code == IsNumber(held) /\ held[2] \in DOMAIN Codes(variant)
  <2>2. ~(code /\ AsItIs(variant, held))
    BY <1>2, Apart DEF Coded, Direct, Setpoints
  <2>3. variant \notin {"dimmer", "shutter", "pilot", "alarm"}
    BY <1>2 DEF Coded, Direct, Setpoints
  <2>4. \A known \in BOOLEAN : code =>
          Reports(variant, known, held) = {Own(Empty, Codes(variant)[held[2]])}
    BY <2>2, <2>3 DEF Reports
  <2>5. \A known \in BOOLEAN : ~code /\ AsItIs(variant, held) =>
          Reports(variant, known, held) = {Own(Empty, held[2])}
    BY <2>3 DEF Reports
  <2>6. \A known \in BOOLEAN : ~code /\ ~AsItIs(variant, held) =>
          Reports(variant, known, held) = {}
    BY <2>3 DEF Reports
  <2> HIDE DEF code
  <2> QED
    BY <2>1, <2>4, <2>5, <2>6, OneState
<1> QED
  BY <1>1, <1>2

\* The pair a state of a value comes from.
LEMMA Converted ==
    ASSUME NEW n, NEW v, NEW held, NEW s \in Convert(n, v, held)
    PROVE  \E r \in Reports(Variant(n, v), ReportsIsLow(n), held) :
             s.feature = Target(v, Pair(r)) /\ s.state = r.state
<1>1. PICK r \in Reports(Variant(n, v), ReportsIsLow(n), held) :
        s = [feature |-> IF r.property = Empty
                           THEN FeatureId(v.endpoint, v.cc, v.property, v.key, r.name)
                           ELSE FeatureId(v.endpoint, v.cc, r.property, Empty, r.name),
             state |-> r.state,
             event |-> r.property = Empty /\ IsEvent(Variant(n, v))]
  BY DEF Convert
<1>2. Pair(r)[1] = r.property /\ Pair(r)[2] = r.name
  BY DEF Pair
<1> QED
  BY <1>1, <1>2 DEF Target

LEMMA OneReport ==
    ASSUME NEW variant, NEW flagged \in BOOLEAN, NEW held
    PROVE  OneEach(Reports(variant, flagged, held), Fed(variant))
<1>1. CASE variant = "level"
  BY <1>1, LevelReported
<1>2. CASE variant # "level"
  BY <1>2, OtherReported
<1> QED
  BY <1>1, <1>2

\* A state of a value is of one of its targets; of each there is one.
LEMMA ConvertTargets ==
    ASSUME NEW n, NEW v, NEW held
    PROVE  \A s \in Convert(n, v, held) : s.feature \in Targets(n, v)
<1> SUFFICES ASSUME NEW s \in Convert(n, v, held)
             PROVE  s.feature \in Targets(n, v)
  OBVIOUS
<1>1. PICK r \in Reports(Variant(n, v), ReportsIsLow(n), held) : s.feature = Target(v, Pair(r))
  BY Converted
<1>2. ReportsIsLow(n) \in BOOLEAN
  BY DEF ReportsIsLow
<1>3. Pair(r) \in Fed(Variant(n, v))
  BY <1>1, <1>2, OneReport DEF OneEach
<1> QED
  BY <1>1, <1>3 DEF Targets

-----------------------------------------------------------------------------
(* What can be commanded. *)

\* The values that have features with a command.
LEMMA ControlAt ==
    ASSUME NEW n, IsNode(n), NEW v \in n.values \cup DerivedValues(n),
           Expose(Variant(n, v)) # {}, Commandable(Variant(n, v)) # {}
    PROVE  \/ /\ v.cc = "multilevel_switch" /\ v.key = Empty /\ v.property = "currentvalue"
              /\ Variant(n, v) \in {"dimmer", "shutter", "pilot"}
           \/ /\ v.cc = "multilevel_switch" /\ v.key = Empty /\ v.property = "restoreprevious"
              /\ Variant(n, v) = "exposedRestore"
              /\ n.class = "17-1" /\ n.product \notin QubinoFlushPilot
           \/ /\ v.cc = "binary_switch" /\ v.key = Empty /\ v.property = "currentvalue"
              /\ Variant(n, v) = "switch"
           \/ /\ v.cc = "thermostat_mode" /\ v.key = Empty /\ v.property = "mode"
              /\ Variant(n, v) = "mode"
           \/ /\ v.cc = "thermostat_setpoint" /\ v.property = "setpoint"
              /\ Variant(n, v) = v.key /\ v.key \in Setpoints
<1>1. Variant(n, v) = ResolveVariant(v.cc, v.property, v.key, n.product, n.class)
  BY DEF Variant
<1>2. v.cc \in Unkeyed => v.key = Empty
  BY NodeValues
<1>3. Variant(n, v) \notin {"unused", "restore", NoVariant}
  BY ControlNames
<1>4. CASE v.cc = "multilevel_switch"
  BY <1>2, <1>3, <1>4, VariantAt DEF Unkeyed
<1>5. CASE v.cc = "binary_switch"
  BY <1>1, <1>2, <1>3, <1>5, BinaryVariant DEF Unkeyed
<1>6. CASE v.cc = "thermostat_mode"
  BY <1>1, <1>2, <1>3, <1>6, ModeVariant DEF Unkeyed
<1>7. CASE v.cc = "thermostat_setpoint"
  <2>1. Variant(n, v) =
          IF v.property = "setpoint" /\ v.key \in Setpoints THEN v.key ELSE NoVariant
    BY <1>1, <1>7, SetpointVariant
  <2>2. v.property = "setpoint" /\ v.key \in Setpoints /\ Variant(n, v) = v.key
    BY <1>3, <2>1
  <2> QED
    BY <1>7, <2>2
<1>8. CASE v.cc \notin Commanded
  <2>1. Variant(n, v) \in Sensors \cup Batteries \cup {NoVariant}
    <3>1. CASE v.cc = "battery"
      BY <3>1, VariantAt DEF Batteries
    <3>2. CASE v.cc # "battery"
      BY <1>1, <1>8, <3>2, SensorVariant
    <3> QED
      BY <3>1, <3>2
  <2> QED
    BY <2>1, NoControls, Uncontrolled
<1> QED
  BY <1>4, <1>5, <1>6, <1>7, <1>8 DEF Commanded

\* The flag that a node does not report has no command.
LEMMA ControlHeld ==
    ASSUME NEW n, IsNode(n), NEW v \in n.values \cup DerivedValues(n),
           Expose(Variant(n, v)) # {}, Commandable(Variant(n, v)) # {}
    PROVE  v \in n.values
<1>1. v.cc # "battery"
  BY ControlAt
<1>2. \A x \in DerivedValues(n) : x.cc = "battery"
  <2> SUFFICES ASSUME NEW x \in DerivedValues(n) PROVE x.cc = "battery"
    OBVIOUS
  <2>1. PICK w \in n.values : w.cc = "battery" /\ x = [w EXCEPT !.property = "islow"]
    BY DEF DerivedValues
  <2>2. w = Value(w.endpoint, w.cc, w.property, w.key)
    BY DEF IsNode
  <2> QED
    BY <2>1, <2>2 DEF Value
<1> QED
  BY <1>1, <1>2

\* The builders.
LEMMA BuildIs ==
    ASSUME NEW value
    PROVE  /\ \A level : level = (IF value = ON THEN 99 ELSE 0) =>
                Build("dimmer", "state", value) =
                  SetLevel(level, {Own("position", level),
                                   Sibling("restoreprevious", Empty, Lit(level))})
           /\ Build("dimmer", "position", value) = SetLevel(value, Switched(value))
           /\ \A name : Build("exposedRestore", name, value) =
                IF value = ON THEN WriteValue("restorePrevious", Boolean(TRUE), 0)
                ELSE SetLevel(0, {Sibling("currentvalue", "state", OFF),
                                  Sibling("currentvalue", "position", 0)})
           /\ \A level : level = (IF value = OPEN THEN 99 ELSE 0) =>
                Build("shutter", "state", value) =
                  IF value = STOP THEN SendCommand("stopLevelChange", Null, {})
                  ELSE SetLevel(level, {Own("position", level)})
           /\ Build("shutter", "position", value) = SetLevel(value, {})
           /\ \A name : Build("pilot", name, value) = SetLevel(PilotLevel[value], {})
           /\ \A name : Build("switch", name, value) = SendCommand("set", Boolean(value = ON), {})
           /\ \A name : Build("mode", name, value) =
                WriteValue("mode", Number(IF value \in {0, 2, 3} THEN value ELSE 1), 0)
           /\ \A name : \A variant \in Setpoints : Build(variant, name, value) =
                WriteValue("setpoint", Number(value), SetpointType(variant))
<1>1. \A level : level = (IF value = ON THEN 99 ELSE 0) =>
         Build("dimmer", "state", value) =
           SetLevel(level, {Own("position", level),
                            Sibling("restoreprevious", Empty, Lit(level))})
  BY DEF Build, DimmerCommand, Setpoints
<1>2. Build("dimmer", "position", value) = SetLevel(value, Switched(value))
  BY DEF Build, DimmerCommand, Setpoints
<1>3. \A name : Build("exposedRestore", name, value) =
         IF value = ON THEN WriteValue("restorePrevious", Boolean(TRUE), 0)
         ELSE SetLevel(0, {Sibling("currentvalue", "state", OFF),
                           Sibling("currentvalue", "position", 0)})
  BY DEF Build, RestoreCommand, Setpoints
<1>4. \A level : level = (IF value = OPEN THEN 99 ELSE 0) =>
         Build("shutter", "state", value) =
           IF value = STOP THEN SendCommand("stopLevelChange", Null, {})
           ELSE SetLevel(level, {Own("position", level)})
  BY DEF Build, ShutterCommand, Setpoints
<1>5. Build("shutter", "position", value) = SetLevel(value, {})
  BY DEF Build, ShutterCommand, Setpoints
<1>6. \A name : Build("pilot", name, value) = SetLevel(PilotLevel[value], {})
  BY DEF Build, PilotCommand, Setpoints
<1>7. \A name : Build("switch", name, value) = SendCommand("set", Boolean(value = ON), {})
  BY DEF Build, SwitchCommand, Setpoints
<1>8. \A name : Build("mode", name, value) =
         WriteValue("mode", Number(IF value \in {0, 2, 3} THEN value ELSE 1), 0)
  BY DEF Build, ModeCommand, Setpoints
<1>9. \A name : \A variant \in Setpoints : Build(variant, name, value) =
         WriteValue("setpoint", Number(value), SetpointType(variant))
  BY DEF Build, SetpointCommand, Setpoints
<1> QED
  BY <1>1, <1>2, <1>3, <1>4, <1>5, <1>6, <1>7, <1>8, <1>9

\* A temperature is what was reported.
LEMMA SetpointReported ==
    ASSUME NEW flagged, NEW x \in Int, NEW variant \in Setpoints
    PROVE  Reports(variant, flagged, Number(x)) = {Own(Empty, x)}
<1>1. PICK held : held = Number(x)
  OBVIOUS
<1>2. IsNumber(held) /\ held[2] = x
  BY <1>1 DEF Number, IsNumber
<1>3. AsItIs(variant, held)
  BY <1>2 DEF AsItIs, Measured, BooleanState, Setpoints
<1>4. Codes(variant) = <<>>
  BY DEF Codes, NotificationCodes, SceneCodes, ModeCodes, OperatingCodes, Setpoints
<1>5. DOMAIN <<>> = {}
  OBVIOUS
<1>6. variant \notin {"dimmer", "shutter", "pilot", "alarm", "level"}
  BY DEF Setpoints
<1>7. held[2] \notin DOMAIN Codes(variant)
  BY <1>4, <1>5
<1> QED
  BY <1>1, <1>2, <1>3, <1>6, <1>7 DEF Reports

\* What the values of these variants feed.
LEMMA ReportsIs ==
    ASSUME NEW flagged, NEW x \in Int
    PROVE  /\ Reports("dimmer", flagged, Number(x)) =
                {Own("position", x), Own("state", Lit(x)),
                 Sibling("restoreprevious", Empty, Lit(x))}
           /\ Reports("shutter", flagged, Number(x)) = {Own("position", x)}
           /\ x \in 0..99 => Reports("pilot", flagged, Number(x)) = {Own(Empty, PilotMode(x))}
           /\ x \in 0..3 => Reports("mode", flagged, Number(x)) = {Own(Empty, x)}
           /\ \A variant \in Setpoints : Reports(variant, flagged, Number(x)) = {Own(Empty, x)}
           /\ \A b \in BOOLEAN : Reports("switch", flagged, Boolean(b)) =
                {Own(Empty, IF b THEN ON ELSE OFF)}
<1>1. PICK held : held = Number(x)
  OBVIOUS
<1>2. held = Number(x) /\ IsNumber(held) /\ held[2] = x /\ OnOff(held) = Lit(x)
  <2>1. held[1] = "number" /\ held[2] = x
    BY <1>1 DEF Number
  <2> QED
    BY <1>1, <2>1 DEF IsNumber, OnOff, Lit
<1>3. \A variant \in {"dimmer", "shutter", "pilot"} :
         DOMAIN Codes(variant) = {} /\ ~AsItIs(variant, held)
  <2> SUFFICES ASSUME NEW variant \in {"dimmer", "shutter", "pilot"}
               PROVE  DOMAIN Codes(variant) = {} /\ ~AsItIs(variant, held)
    OBVIOUS
  <2>1. variant \notin Coded \cup Direct
    BY DEF Coded, Direct, Setpoints
  <2> QED
    BY <2>1, Silent
<1>4. Reports("dimmer", flagged, held) =
        {Own("position", x), Own("state", Lit(x)), Sibling("restoreprevious", Empty, Lit(x))}
  BY <1>2, <1>3 DEF Reports, DimmerStates, PositionStates
<1>5. Reports("shutter", flagged, held) = {Own("position", x)}
  BY <1>2, <1>3 DEF Reports, PositionStates
<1>6. x \in 0..99 => Reports("pilot", flagged, held) = {Own(Empty, PilotMode(x))}
  BY <1>2, <1>3 DEF Reports, PilotStates
<1>7. ASSUME x \in 0..3 PROVE Reports("mode", flagged, held) = {Own(Empty, x)}
  <2>1. Codes("mode") = [c \in (0..3) \cup {11} |-> IF c = 11 THEN 1 ELSE c]
    BY DEF Codes, NotificationCodes, SceneCodes, ModeCodes, OperatingCodes
  <2>2. x \in DOMAIN Codes("mode") /\ Codes("mode")[x] = x
    BY <1>7, <2>1
  <2>3. ~AsItIs("mode", held)
    BY DEF AsItIs, Measured, BooleanState, Setpoints
  <2> QED
    BY <1>2, <2>2, <2>3 DEF Reports
<1>8. \A variant \in Setpoints : Reports(variant, flagged, held) = {Own(Empty, x)}
  BY <1>2, SetpointReported
<1>9. ASSUME NEW b \in BOOLEAN
      PROVE  Reports("switch", flagged, Boolean(b)) = {Own(Empty, IF b THEN ON ELSE OFF)}
  <2>1. PICK raw : raw = Boolean(b)
    OBVIOUS
  <2>2. raw = Boolean(b) /\ raw[1] = "boolean" /\ raw[2] = (IF b THEN 1 ELSE 0)
    BY <2>1 DEF Boolean
  <2>3. AsItIs("switch", raw) /\ ~IsNumber(raw)
    BY <2>2 DEF AsItIs, Measured, BooleanState, Setpoints, IsNumber
  <2>4. Reports("switch", flagged, raw) = {Own(Empty, raw[2])}
    BY <2>3 DEF Reports
  <2> QED
    BY <2>2, <2>4 DEF ON, OFF
<1> QED
  BY <1>2, <1>4, <1>5, <1>6, <1>7, <1>8, <1>9

\* What is offered.
LEMMA OfferedIs ==
    /\ Offered("pilot", Empty) = 0..5 /\ Offered("mode", Empty) = 0..3
    /\ Offered("switch", Empty) = 0..1 /\ Offered("exposedRestore", Empty) = 0..1
    /\ \A variant \in Setpoints : Offered(variant, Empty) = 5..40
<1>1. Empty # "position" /\ Empty # "state"
  BY FedIs
<1>2. PICK name : name = Empty /\ name # "position" /\ name # "state"
  BY <1>1
<1>3. /\ Offered("pilot", name) = 0..5 /\ Offered("mode", name) = 0..3
      /\ Offered("switch", name) = 0..1 /\ Offered("exposedRestore", name) = 0..1
  BY <1>2 DEF Offered, PilotRange, ModeRange, SetpointRange, OnOffRange, Setpoints
<1>4. \A variant \in Setpoints : Offered(variant, name) = 5..40
  BY <1>2 DEF Offered, PilotRange, ModeRange, SetpointRange, OnOffRange, Setpoints
<1> QED
  BY <1>2, <1>3, <1>4
=============================================================================
