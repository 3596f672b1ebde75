------------------------------ MODULE Mapping ------------------------------
(***************************************************************************)
(* src/mapping: a node becomes a device, a value becomes states.           *)
(*   - DeviceMapper.ts: discovery, conversion of a value, snapshot;        *)
(*   - quirks.ts: the features that are hidden;                            *)
(*   - externalId.ts: the ids of the features, built and parsed.           *)
(*                                                                         *)
(* A value is [endpoint, cc, property, key].  A node is [product, class,   *)
(* values].  A feature id is the sequence of its segments after the one of *)
(* the node: there is one node here.  Names and parameters are left out.   *)
(***************************************************************************)
EXTENDS CommandClasses

Value(endpoint, cc, property, key) ==
    [endpoint |-> endpoint, cc |-> cc, property |-> property, key |-> key]

\* The command classes whose properties have no keys in zwave-js.
Unkeyed == {"multilevel_switch", "binary_switch", "thermostat_mode", "battery"}

IsNode(n) ==
    /\ n = [product |-> n.product, class |-> n.class, values |-> n.values]
    /\ \A v \in n.values :
         /\ v = Value(v.endpoint, v.cc, v.property, v.key)
         /\ v.cc \in Unkeyed => v.key = Empty

-----------------------------------------------------------------------------
(* External ids. *)

Segment(text) == IF text = Empty THEN <<>> ELSE <<text>>

FeatureId(endpoint, cc, property, key, name) ==
    <<endpoint, cc, property>> \o Segment(key) \o Segment(name)

Parse(id) ==
    [endpoint |-> id[1], cc |-> id[2], property |-> id[3], trailing |-> SubSeq(id, 4, Len(id))]

-----------------------------------------------------------------------------
(* Discovery. *)

ReportsIsLow(node) == \E v \in node.values : v.cc = "battery" /\ v.property = "islow"

\* derivedBatteryValues(): the flag zwave-js no longer publishes.
DerivedValues(node) ==
    IF ReportsIsLow(node) THEN {}
    ELSE {[v EXCEPT !.property = "islow"] :
            v \in {w \in node.values : w.cc = "battery" /\ w.property = "level"}}

Variant(node, v) == ResolveVariant(v.cc, v.property, v.key, node.product, node.class)

Mapped(node) ==
    UNION {{[value |-> v, name |-> e.name, category |-> e.category,
             id |-> FeatureId(v.endpoint, v.cc, v.property, v.key, e.name)] :
               e \in Expose(Variant(node, v))} :
           v \in node.values \cup DerivedValues(node)}

Fgms001 == "271-4097-2048"

Endpoints(features, cc) == {f.value.endpoint : f \in {g \in features : g.value.cc = cc}}

\* Faulty variant of Duplicates: a dimmer replaces every relay of the device.
DuplicatesAnywhere(features) ==
    {f \in features : f.value.cc = "binary_switch"
                      /\ Endpoints(features, "multilevel_switch") # {}}

\* The relays a dimmer replaces: on its endpoint, or on the root of a device
\* whose dimmers are elsewhere.
Duplicates(features) ==
    LET dimmers == Endpoints(features, "multilevel_switch")
    IN  {f \in features :
            /\ f.value.cc = "binary_switch"
            /\ \/ f.value.endpoint \in dimmers
               \/ f.value.endpoint = 0 /\ dimmers # {} /\ 0 \notin dimmers}

\* What a Fibaro motion sensor reports twice.
Redundant(features, product) ==
    LET general == \E f \in features :
                      f.value.cc = "binary_sensor" /\ f.value.property = "general_purpose"
    IN  {f \in features :
            /\ product = Fgms001
            /\ \/ f.value.cc = "alarm_sensor"
               \/ general /\ f.value.cc = "binary_sensor" /\ f.value.property = "any"}

\* toDiscoveredDevice() and applyQuirks().
Discover(node) ==
    LET kept == Mapped(node) \ Duplicates(Mapped(node))
    IN  kept \ Redundant(kept, node.product)

-----------------------------------------------------------------------------
(* Conversion. *)

\* convertValue(): the states a raw value feeds, converted as the node is known.
Convert(node, v, raw) ==
    {[feature |-> IF r.property = Empty
                    THEN FeatureId(v.endpoint, v.cc, v.property, v.key, r.name)
                    ELSE FeatureId(v.endpoint, v.cc, r.property, Empty, r.name),
      state |-> r.state,
      event |-> r.property = Empty /\ IsEvent(Variant(node, v))] :
        r \in Reports(Variant(node, v), ReportsIsLow(node), raw)}

\* snapshot(): the states of all values that hold something.
Snapshot(node, raws) ==
    UNION {Convert(node, v, raws[v]) : v \in {w \in DOMAIN raws : raws[w] # Null}}

\* The property and the name of the features that values of a variant may feed,
\* whatever they hold: Empty is the property of the value itself.
Fed(variant) ==
    CASE variant = "dimmer" -> {<<Empty, "position">>, <<Empty, "state">>, <<"restoreprevious", Empty>>}
      [] variant = "shutter" -> {<<Empty, "position">>}
      [] variant = "level" -> {<<Empty, Empty>>, <<"islow", Empty>>}
      [] variant \in {"restore", "exposedRestore", "unused", NoVariant} -> {}
      [] OTHER -> {<<Empty, Empty>>}

Target(v, fed) ==
    IF fed[1] = Empty THEN FeatureId(v.endpoint, v.cc, v.property, v.key, fed[2])
                   ELSE FeatureId(v.endpoint, v.cc, fed[1], Empty, fed[2])

Targets(n, v) == {Target(v, fed) : fed \in Fed(Variant(n, v))}

\* A value that is the low battery flag.
IsFlag(v) == v.cc = "battery" /\ v.property = "islow"
=============================================================================
