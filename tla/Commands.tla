------------------------------ MODULE Commands ------------------------------
(***************************************************************************)
(* One device, from the command of a user to the states Gladys shows:      *)
(*   - src/runtime/CommandDispatcher.ts: a command, and its sibling states;*)
(*   - src/runtime/ZwaveIntegration.ts: reports and getNodes answers of    *)
(*     the node, and the creation and deletion of its device;              *)
(*   - src/runtime/StatePublisher.ts: push(), its filter of the known      *)
(*     features and its deduplication.  How a pushed state travels is the  *)
(*     matter of module StatePublisher: the last one of a feature arrives. *)
(*                                                                         *)
(* The device, zwave-js-ui and Gladys are external.  Gladys saves itself   *)
(* the value a user commands, because has_feedback is false.               *)
(***************************************************************************)
EXTENDS Mapping

CONSTANTS
    Catalogue,    \* nodes, [product, class, values]
    May,          \* value -> what it may hold
    Amounts,      \* what a user may ask of a feature
    MaxEvents     \* bound: commands, changes of the device nobody asked for,
                  \* losses of the link, deletions, states that get old

ASSUME BoundAssumption == MaxEvents \in Nat

\* Nodes are those of zwave-js, and their values may hold something.
ASSUME CatalogueAssumption ==
    \A n \in Catalogue : IsNode(n) /\ \A v \in n.values : May[v] # {}

\* What quirks.ts takes for granted of the Fibaro motion sensor: it reports its
\* motion as a binary sensor, whatever else it has, and all on its root.
ASSUME MotionAssumption ==
    \A n \in Catalogue : n.product = Fgms001 =>
        /\ \E f \in Mapped(n) : f.value.cc = "binary_sensor"
        /\ \A f \in Mapped(n) : f.value.cc \in {"binary_sensor", "alarm_sensor"} =>
             f.category = "motion-sensor" /\ f.value.endpoint = 0

\* The flag of a battery always holds something.
ASSUME FlagAssumption ==
    \A n \in Catalogue : \A v \in n.values : IsFlag(v) => Null \notin May[v]

VARIABLES
    node,           \* the node
    features,       \* those of its device, as discovered
    raw,            \* value -> what it truly holds
    cache,          \* value -> what it held in the last getNodes answer
    publishing,     \* its handler awaits the publication of the discovery
    created,        \* its device exists in Gladys
    link,           \* client.connected
    asked,          \* a getNodes request on its way to zwave-js-ui
    channel,        \* reports and answers on their way to the integration
    wire,           \* commands on their way to the device
    lastPublished,  \* feature -> state: what the publisher believes is shown
    way,            \* feature -> the last state pushed, not delivered yet
    shown,          \* feature -> state: what Gladys shows
    \* What the code does not keep, but the properties talk about:
    told,           \* value -> what was last processed of it, since a command
                    \* of its features
    promise,        \* [of, states, kept]: the last command, the states it
                    \* announced, and whether the device just did as told
    behind,         \* features shown otherwise than lastPublished says, by a
                    \* command or by the deletion of the device
    overtaken,      \* values reported during that await, otherwise than cached,
                    \* and not heard of since
    events

device == <<raw, channel, wire>>
refresh == <<cache, publishing, overtaken>>
integration == <<refresh, lastPublished, way>>
vars == <<node, features, raw, cache, publishing, created, link, asked, channel, wire,
          lastPublished, way, shown, told, promise, behind, overtaken, events>>

NoPromise == [of |-> <<>>, states |-> <<>>, kept |-> FALSE]

Features == {f.id : f \in features}

\* Maps: keys forgotten, a key set.
Without(map, keys) == [x \in DOMAIN map \ keys |-> map[x]]
Put(map, key, value) ==
    [x \in DOMAIN map \cup {key} |-> IF x = key THEN value ELSE map[x]]

Init ==
    /\ node \in Catalogue /\ features = Discover(node)
    /\ raw = [v \in node.values |-> CHOOSE r \in May[v] : TRUE]
    /\ cache = <<>> /\ publishing = FALSE /\ created \in BOOLEAN
    /\ link = FALSE /\ asked = FALSE /\ channel = <<>> /\ wire = <<>>
    /\ lastPublished = <<>> /\ way = <<>> /\ shown = <<>>
    /\ told = <<>> /\ promise = NoPromise /\ behind = {} /\ overtaken = {}
    /\ events = 0

Event == events < MaxEvents /\ events' = events + 1

-----------------------------------------------------------------------------
(* The publisher. *)

\* feature -> state, of a set of states of distinct features.
ByFeature(states) ==
    [f \in {s.feature : s \in states} |-> (CHOOSE s \in states : s.feature = f).state]

\* knownFeatures(): those of the devices Gladys has.
KnownFeatures == IF created THEN Features ELSE {}

Repeated(s) == s.feature \in DOMAIN lastPublished /\ lastPublished[s.feature] = s.state

\* Faulty variant of Push: a state is reserved before the filter.
PushReserved(states, known) ==
    LET fresh == {s \in states : s.event \/ ~Repeated(s)}
        kept == {s \in fresh : s.feature \in known}
    IN  /\ lastPublished' = Merge(ByFeature(fresh), lastPublished)
        /\ way' = Merge(ByFeature(kept), way)

\* push() while these features are known: what is kept is reserved at once.
Push(states, known) ==
    LET kept == {s \in states : s.feature \in known /\ (s.event \/ ~Repeated(s))}
    IN  /\ lastPublished' = Merge(ByFeature(kept), lastPublished)
        /\ way' = Merge(ByFeature(kept), way)

\* A flush: what was pushed last reaches Gladys.
Flush ==
    /\ way # <<>>
    /\ shown' = IF created THEN Merge(way, shown) ELSE shown
    /\ behind' = IF created THEN behind \ DOMAIN way ELSE behind
    /\ way' = <<>>
    /\ UNCHANGED <<node, features, device, refresh, created, link, asked, lastPublished, told,
                   promise, events>>

\* DEDUP_TTL_MS passes since the last state of a feature.
Expire(f) ==
    /\ Event
    /\ f \in DOMAIN lastPublished
    /\ lastPublished' = Without(lastPublished, {f})
    /\ UNCHANGED <<node, features, device, refresh, created, link, asked, way, shown, told, promise,
                   behind>>

-----------------------------------------------------------------------------
(* Commands. *)

\* The command of a feature.
Resolved(f) ==
    LET p == Parse(f.id) IN ResolveCommand(p.cc, p.property, p.trailing, f.category)

\* The id of the sibling feature of an update: see applySiblingStates().
SiblingId(p, key, update) ==
    IF update.property = Empty
      THEN FeatureId(p.endpoint, p.cc, p.property, key, update.name)
      ELSE FeatureId(p.endpoint, p.cc, update.property, Empty, update.name)

SiblingStates(p, key, updates) ==
    {[feature |-> SiblingId(p, key, u), state |-> u.state, event |-> FALSE] : u \in updates}

\* The command of a feature on its way to the device.
Sent(f, value) ==
    LET p == Parse(f.id)
        command == Build(Resolved(f).variant, Resolved(f).name, value)
    IN  [endpoint |-> p.endpoint, cc |-> p.cc, name |-> command.name, raw |-> command.raw,
         type |-> command.type]

Asks(n, f, value) ==
    /\ value \in Offered(Variant(n, f.value), f.name)
    /\ Resolved(f) # NoCommand
    /\ Accepts(Resolved(f).variant, value)

\* The values that may feed one of these features.
Feeding(ids) == {v \in node.values : Targets(node, v) \cap ids # {}}

\* setValue(), for a value the feature offers.  The message is dropped while
\* the link is down; Gladys saves the value all the same.
SetValue(f, value) ==
    /\ Event
    /\ created
    /\ Asks(node, f, value)
    /\ LET command == Build(Resolved(f).variant, Resolved(f).name, value)
           p == Parse(f.id)
           siblings == SiblingStates(p, Resolved(f).key, command.updates)
           announced == Put(ByFeature({s \in siblings : s.feature \in Features}), f.id, value)
       IN  /\ wire' = IF link THEN Append(wire, Sent(f, value)) ELSE wire
           /\ Push(siblings, KnownFeatures)
           /\ shown' = Put(shown, f.id, value)
           /\ behind' = IF f.id \in DOMAIN lastPublished /\ lastPublished[f.id] # value
                          THEN behind \cup {f.id} ELSE behind \ {f.id}
           /\ told' = Without(told, Feeding(DOMAIN announced))
           /\ promise' = [of |-> f.id, states |-> announced, kept |-> FALSE]
    /\ UNCHANGED <<node, features, raw, channel, refresh, created, link, asked>>

-----------------------------------------------------------------------------
(* The device and zwave-js-ui. *)

Report(v, r) ==
    channel' = IF link THEN Append(channel, [kind |-> "report", value |-> v, raw |-> r])
                       ELSE channel

\* A value is set, maybe to what it was, and reported.
Becomes(v, r) == raw' = [raw EXCEPT ![v] = r] /\ Report(v, r)

SetpointKey ==
    [type \in {1, 2, 11} |->
        CASE type = 1 -> "heating" [] type = 2 -> "cooling" [] OTHER -> "energy_save_heating"]

\* What a device may do of a command: a set of <<value, raw>>.
Outcomes(c) ==
    LET At0(property, key) == Value(c.endpoint, c.cc, property, key)
        level == At0("currentvalue", Empty)
    IN  CASE c.name = "set" -> {<<level, c.raw>>}
          [] c.name = "stopLevelChange" -> {level} \X May[level]
          [] c.name = "restorePrevious" -> {level} \X {r \in May[level] : OnOff(r) = ON}
          [] c.name = "mode" -> {<<At0("mode", Empty), c.raw>>}
          [] c.name = "setpoint" -> {<<At0("setpoint", SetpointKey[c.type]), c.raw>>}

\* What restores a level has one.
ASSUME RestoreAssumption ==
    \A n \in Catalogue : \A v \in n.values :
        v.cc = "multilevel_switch" /\ v.property = "restoreprevious" =>
            Value(v.endpoint, v.cc, "currentvalue", Empty) \in n.values

Obeys ==
    /\ wire # <<>>
    /\ \E o \in Outcomes(Head(wire)) : Becomes(o[1], o[2])
    /\ wire' = Tail(wire)
    /\ promise' = [promise EXCEPT !.kept = (wire' = <<>>)]
    /\ UNCHANGED <<node, features, integration, created, link, asked, shown, told, behind, events>>

\* Out of reach, or unable.
Ignores ==
    /\ wire # <<>>
    /\ wire' = Tail(wire)
    /\ promise' = NoPromise
    /\ UNCHANGED <<node, features, raw, channel, integration, created, link, asked, shown, told,
                   behind, events>>

\* Somebody uses the buttons of the device.
LocalChange(v, r) ==
    /\ Event
    /\ v \in node.values /\ r \in May[v] /\ r # raw[v]
    /\ Becomes(v, r)
    /\ promise' = NoPromise
    /\ UNCHANGED <<node, features, integration, created, link, asked, wire, shown, told, behind>>

Answered ==
    /\ asked
    /\ asked' = FALSE
    /\ channel' = Append(channel, [kind |-> "nodes", raws |-> raw])
    /\ UNCHANGED <<node, features, raw, integration, created, link, wire, shown, told, promise,
                   behind, events>>

\* What was on its way is lost.
LinkDown ==
    /\ Event
    /\ link
    /\ link' = FALSE /\ asked' = FALSE /\ channel' = <<>>
    /\ \/ wire = <<>> /\ UNCHANGED <<wire, promise>>
       \/ wire # <<>> /\ wire' = <<>> /\ promise' = NoPromise
    /\ UNCHANGED <<node, features, raw, integration, created, shown, told, behind>>

LinkUp ==
    /\ ~link
    /\ link' = TRUE /\ asked' = TRUE
    /\ UNCHANGED <<node, features, device, integration, created, shown, told, promise, behind, events>>

-----------------------------------------------------------------------------
(* Reports and answers. *)

\* The node as the cache knows it: its values come with an answer only.
Cached == [node EXCEPT !.values = DOMAIN cache]

Holding(raws) == {v \in DOMAIN raws : raws[v] # Null}

Tell(raws) ==
    told' = IF created THEN Merge([v \in Holding(raws) |-> raws[v]], told) ELSE told

\* onValueUpdated(): the cache keeps the old value.
OnValueUpdated ==
    /\ channel # <<>> /\ Head(channel).kind = "report"
    /\ channel' = Tail(channel)
    /\ LET m == Head(channel) IN
       /\ Push(Convert(Cached, m.value, m.raw), KnownFeatures)
       /\ told' = IF created THEN Put(told, m.value, m.raw) ELSE told
       /\ overtaken' = IF publishing /\ cache[m.value] \notin {m.raw, Null}
                         THEN overtaken \cup {m.value} ELSE overtaken \ {m.value}
    /\ UNCHANGED <<node, features, raw, cache, publishing, created, link, asked, wire, shown,
                   promise, behind, events>>

\* publishKnownStates(): of an answer.
PublishKnownStates(raws) ==
    /\ Push(Snapshot(node, raws), KnownFeatures)
    /\ Tell(raws)

\* onNodes(): it awaits the publication of the discovery, or goes on at once
\* when one was in flight, of an earlier answer or of the discovery timer.
OnNodes ==
    /\ channel # <<>> /\ Head(channel).kind = "nodes"
    /\ channel' = Tail(channel)
    /\ cache' = Head(channel).raws
    /\ overtaken' = {}
    /\ \/ ~publishing /\ publishing' = TRUE /\ UNCHANGED <<lastPublished, way, told>>
       \/ PublishKnownStates(cache') /\ UNCHANGED publishing
    /\ UNCHANGED <<node, features, raw, created, link, asked, wire, shown, promise, behind, events>>

\* The end of the await: what is cached then is pushed.
Published ==
    /\ publishing
    /\ publishing' = FALSE
    /\ PublishKnownStates(cache)
    /\ UNCHANGED <<node, features, device, cache, created, link, asked, shown, promise, behind,
                   overtaken, events>>

\* onDeviceCreated(): the features of the device are known first.
OnDeviceCreated ==
    /\ ~created /\ cache # <<>>
    /\ created' = TRUE
    /\ Push(Snapshot(node, cache), Features)
    /\ told' = [v \in Holding(cache) |-> cache[v]]
    /\ UNCHANGED <<node, features, device, refresh, link, asked, shown, promise, behind, events>>

\* onDeviceDeleted(): the features are no longer known, lastPublished stays.
OnDeviceDeleted ==
    /\ created
    /\ created' = FALSE
    /\ Event
    /\ shown' = <<>> /\ told' = <<>>
    /\ behind' = DOMAIN lastPublished
    /\ promise' = NoPromise
    /\ UNCHANGED <<node, features, device, integration, link, asked>>

Next ==
    \/ \E f \in features, value \in Amounts : SetValue(f, value)
    \/ Flush
    \/ \E f \in DOMAIN lastPublished : Expire(f)
    \/ Obeys \/ Ignores
    \/ \E v \in DOMAIN raw : \E r \in May[v] : LocalChange(v, r)
    \/ Answered \/ LinkDown \/ LinkUp
    \/ OnValueUpdated \/ OnNodes \/ Published
    \/ OnDeviceCreated \/ OnDeviceDeleted

Spec == Init /\ [][Next]_vars

-----------------------------------------------------------------------------
(* Properties. *)

\* The variables hold what their comments say.
TypeOK ==
    /\ node \in Catalogue /\ DOMAIN raw = node.values
    /\ DOMAIN cache \in {{}, node.values} /\ DOMAIN told \subseteq node.values
    /\ {created, link, asked, publishing} \subseteq BOOLEAN /\ overtaken \subseteq node.values
    /\ DOMAIN way \cup DOMAIN lastPublished \cup DOMAIN shown \cup behind \subseteq Features
    /\ \A i \in DOMAIN channel : channel[i].kind \in {"report", "nodes"}
    /\ events \in 0..MaxEvents

\* resolveCommand() undoes discovery, which it knows nothing of: the id and the
\* category of a feature alone lead to the variant of the value it comes from,
\* or nowhere when it is read-only.  No two features share an id.
CommandInvertsDiscovery ==
    \A f \in features :
        LET own == Variant(node, f.value)
            found == Resolved(f)
        IN  /\ found = IF f.name \in Commandable(own)
                         THEN [variant |-> own, key |-> f.value.key, name |-> f.name]
                         ELSE NoCommand
            /\ \A g \in features : f.id = g.id => f = g

\* What quirks.ts hides leaves no half of a device without its control, and no
\* motion sensor without one that tells the motion: another feature that is
\* shown stands for the one that is hidden.
EveryHalfControlled ==
    \A f \in Mapped(node) \ features :
        \E g \in features :
            /\ \/ f.value.cc = "binary_switch" /\ g.value.cc = "multilevel_switch"
               \/ f.category = "motion-sensor" /\ g.category = "motion-sensor"
            /\ \/ f.value.endpoint \in {g.value.endpoint, 0}

Quiet == link /\ ~asked /\ channel = <<>> /\ wire = <<>> /\ ~publishing /\ way = <<>>

\* When the device does as the last command says and nothing else happens, the
\* states Gladys shows once its reports are in are those that the command
\* announced: that of the feature, and the sibling states, unless Gladys showed
\* them behind the back of the publisher.  Not so of a value reported while the
\* handler of an answer awaits: what it then pushes was true before the command.
ObeyedAsPredicted ==
    Quiet /\ promise.kept =>
        \A f \in DOMAIN promise.states :
            /\ f = promise.of \/ f \notin behind
            /\ \A v \in overtaken : f \notin Targets(node, v)
            => f \in DOMAIN shown /\ shown[f] = promise.states[f]

\* Once all is delivered, Gladys shows what was last processed of every value,
\* live or from an answer, converted as the whole node would have it: through
\* dropped commands, cold caches, lost messages, and the deduplication, but for
\* the features shown behind its back.
ShownAgrees ==
    Quiet => \A v \in DOMAIN told : \A s \in Convert(node, v, told[v]) :
                s.feature \in Features \ behind =>
                    s.feature \in DOMAIN shown /\ shown[s.feature] = s.state

\* The sibling features of a value are coherent: some report of the value says
\* all that Gladys shows of it (the comment of applySiblingStates()).
SiblingsCoherent ==
    Quiet => \A v \in DOMAIN told :
                \E r \in May[v] \cup {Number(a) : a \in Amounts} : \A s \in Convert(node, v, r) :
                    s.feature \in DOMAIN shown => shown[s.feature] = s.state
=============================================================================
