---------------------------- MODULE MCCommands -----------------------------
(***************************************************************************)
(* Small instances of Commands for TLC: the nodes of the catalogue.        *)
(***************************************************************************)
EXTENDS Commands

Node(product, class, values) ==
    [product |-> product, class |-> class, values |-> values]

Numbers(S) == {Number(n) : n \in S}
Flags == {Boolean(FALSE), Boolean(TRUE)}

Level(endpoint) == Value(endpoint, "multilevel_switch", "currentvalue", Empty)
Restore(endpoint) == Value(endpoint, "multilevel_switch", "restoreprevious", Empty)
Relay(endpoint) == Value(endpoint, "binary_switch", "currentvalue", Empty)
Sensor(property) == Value(0, "binary_sensor", property, Empty)
Mode == Value(0, "thermostat_mode", "mode", Empty)
Operating == Value(0, "thermostat_operating_state", "state", Empty)
Setpoint(key) == Value(0, "thermostat_setpoint", "setpoint", key)
Charge == Value(0, "battery", "level", Empty)
Low == Value(0, "battery", "islow", Empty)
Alarm == Value(0, "alarm_sensor", "state", Empty)
Scene == Value(0, "central_scene", "scene", "001")
Door == Value(0, "notification", "access_control", "door_state_simple")
Smoke == Value(0, "notification", "smoke_alarm", "sensor_status")
Watts == Value(0, "meter", "value", "electric_w_consumed")
Air == Value(0, "multilevel_sensor", "air_temperature", Empty)

\* A dimmer that publishes its relay too.
Dimmer == Node("271-4096-258", "17-1", {Level(0), Restore(0), Relay(0)})
\* A dimmer and a relay, mirrored by the root.
Double == Node("345-1-1", "16-1", {Level(1), Restore(1), Relay(0), Relay(2)})
Shutter == Node("271-4096-771", "17-6", {Level(0), Restore(0)})
Pilot == Node("345-81-4", "17-1", {Level(0), Restore(0), Sensor("any")})
Thermostat ==
    Node("328-1-1", "8-6", {Mode, Operating, Setpoint("heating"), Setpoint("cooling")})
\* With the low battery flag, and without.
Flagged == Node("271-4096-1", "7-1", {Charge, Low})
Unflagged == Node("271-4096-1", "7-1", {Charge, Air, Smoke})
Motion == Node(Fgms001, "7-1", {Sensor("any"), Sensor("general_purpose"), Alarm})
Keypad == Node("297-1-1", "24-1", {Scene, Door})
Plug == Node("345-2-2", "16-1", {Relay(0), Watts})

Everything ==
    {Dimmer, Double, Shutter, Pilot, Thermostat, Flagged, Unflagged, Motion, Keypad, Plug}
OneDimmer == {Dimmer}

\* What the values of these nodes may hold; the level of a dimmer may be unknown.
Known(levels) ==
    Level(0) :> levels @@ Level(1) :> Numbers({0, 40}) @@ Relay(2) :> Flags
    @@ Restore(0) :> {Null} @@ Restore(1) :> {Null}
    @@ Relay(0) :> {Boolean(FALSE)} @@ Sensor("any") :> {Boolean(FALSE)}
    @@ Sensor("general_purpose") :> Flags @@ Alarm :> Numbers({255})
    @@ Mode :> Numbers({0, 11, 31}) @@ Operating :> Numbers({1})
    @@ Setpoint("heating") :> Numbers({20}) @@ Setpoint("cooling") :> Numbers({20, 25})
    @@ Charge :> Numbers({10, 11}) @@ Low :> Flags @@ Air :> Numbers({21}) @@ Watts :> Numbers({0, 9})
    @@ Smoke :> Numbers({0, 2}) @@ Scene :> Numbers({0, 3}) @@ Door :> Numbers({22, 23})

AnyLevel == Known({Null} \cup Numbers({0, 20, 45}))
KnownLevel == Known(Numbers({0, 40, 99}))

SomeAmounts == {-1, 0, 1, 3, 5, 20, 99}
OnlyLevels == {0, 99}
=============================================================================
