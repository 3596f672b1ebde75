------------------------------ MODULE Network ------------------------------
(***************************************************************************)
(* What the integration knows of the Z-Wave network and tells Gladys of it:*)
(*   - src/zwave/NodeRegistry.ts: the cache of the nodes;                  *)
(*   - src/runtime/ZwaveIntegration.ts: the MQTT messages that feed it,    *)
(*     the two debounce timers, the publication of the discovered devices, *)
(*     and the events of the devices the user creates.                     *)
(*                                                                         *)
(* zwave-js-ui is external: it holds the true nodes, answers getNodes with *)
(* all of them and announces what happens.  Its messages arrive in order;  *)
(* those sent while the link is down are lost.  The two publishers have    *)
(* modules of their own; here `states' and `badges' hold what they last    *)
(* accepted for a created device, which is what they bring to the host,    *)
(* and `lastPublished' what the first takes for a repetition.              *)
(*                                                                         *)
(* A value is a key and what it holds; the feature a key becomes and the   *)
(* conversion of what it holds are left out.  No feature is an event.      *)
(***************************************************************************)
EXTENDS Integers, Sequences, FiniteSets

CONSTANTS
    Nodes,        \* node ids
    Leaving,      \* those that may be excluded, or lose values for good
    Keys,         \* the values of a node; an interviewed node has all of them,
                  \* unless it is one of Leaving
    Holds,        \* what a value may hold
    Statuses,     \* node statuses
    Dead,         \* the status of a node zwave-js gave up reaching
    Unknown,      \* the status of a node it has not talked to yet
    Absent,       \* the `values' of a node serialized without the field
    Bare,         \* whether node events may come with values, or without
    Creatable,    \* nodes whose device the user creates and deletes
    Updatable,    \* nodes whose device the user updates
    Expiring,     \* bound: values whose last state may grow DEDUP_TTL_MS old
    MaxChanges,   \* bound: changes of the network
    MaxDrops,     \* bound: how often the link goes down
    MaxFailures,  \* bound: publications of the discovery that fail
    MaxChannel,   \* bound: messages on their way
    MaxAsked      \* bound: getNodes requests not answered yet

ASSUME SetsAssumption ==
    /\ Leaving \subseteq Nodes /\ Creatable \subseteq Nodes /\ Updatable \subseteq Nodes
    /\ Expiring \subseteq Keys /\ Bare \subseteq BOOLEAN /\ Dead # Unknown
ASSUME AbsentAssumption == Absent \notin UNION {[S -> Holds] : S \in SUBSET Keys}
ASSUME BoundsAssumption ==
    /\ MaxChanges \in Nat /\ MaxDrops \in Nat /\ MaxFailures \in Nat
    /\ MaxChannel \in Nat /\ MaxAsked \in Nat \ {0}

VARIABLES
    ui,          \* node -> [ready, status, values]: the network
    channel,     \* messages on their way to the integration
    asked,       \* getNodes requests on their way to zwave-js-ui
    link,        \* client.connected
    stopping,    \* stop() has cleared the timers and is about to close the link
    registry,    \* node -> [ready, status, values]: the cache
    resync,      \* resyncTimer is armed
    discovery,   \* discoveryTimer is armed
    publishing,  \* who awaits the publication in flight: "no" one, the "timer"
                 \* or the handler of a getNodes "answer"
    payload,     \* node -> keys of the publication in flight
    again,       \* discoveryPending
    created,     \* node -> keys of the features of its device in Gladys
    lastPublished, \* <<node, key>> -> the state push() takes for a repetition
    \* What the code does not keep, but the properties talk about:
    listed,      \* node -> keys: the discovered devices Gladys shows
    stale,       \* the last publication failed
    states,      \* <<node, key>> -> the state Gladys has of the feature
    deleted,     \* <<node, key>> deleted while remembered in lastPublished, of
                 \* which no state was accepted since
    badges,      \* node -> badge last pushed for its device
    shed,        \* <<node, key>> that the network once gave up
    changes, drops, failures

external == <<ui, channel, asked, link, shed, changes, drops>>
cache == <<registry, resync, discovery>>
publication == <<publishing, payload, again, listed, stale, failures>>
publisher == <<states, lastPublished, deleted>>
gladys == <<created, publisher, badges>>
vars == <<ui, channel, asked, link, stopping, registry, resync, discovery,
          publishing, payload, again, created, lastPublished, listed, stale,
          states, deleted, badges, shed, changes, drops, failures>>

Without(map, keys) == [x \in DOMAIN map \ keys |-> map[x]]
Put(map, key, value) ==
    [x \in DOMAIN map \cup {key} |-> IF x = key THEN value ELSE map[x]]
Merge(over, map) ==
    [x \in DOMAIN over \cup DOMAIN map |-> IF x \in DOMAIN over THEN over[x] ELSE map[x]]

\* One of the sets of values an interviewed node may have.
Whole(n, keys) == keys = Keys \/ (n \in Leaving /\ keys \subseteq Keys /\ keys # {})

Init ==
    /\ \E N \in {S \in SUBSET Nodes : Nodes \ S \subseteq Leaving}, h \in Holds, s \in Statuses :
         ui = [n \in N |-> [ready |-> TRUE, status |-> s, values |-> [k \in Keys |-> h]]]
    /\ channel = <<>> /\ asked = 0 /\ link = FALSE /\ stopping = FALSE
    /\ registry = <<>> /\ resync = FALSE /\ discovery = FALSE
    /\ publishing = "no" /\ payload = <<>> /\ again = FALSE
    /\ \E D \in {S \in SUBSET Nodes : Nodes \ S \subseteq Creatable} : created = [n \in D |-> Keys]
    /\ listed = <<>> /\ stale = FALSE /\ badges = <<>>
    /\ states = <<>> /\ lastPublished = <<>> /\ deleted = {}
    /\ shed = {} /\ changes = 0 /\ drops = 0 /\ failures = 0

-----------------------------------------------------------------------------
(* zwave-js-ui and the link. *)

Send(message) ==
    channel' = IF link THEN Append(channel, message) ELSE channel

\* How zwave-js-ui serializes node n of nodes: with its values, or bare.
Serialized(nodes, n, bare) ==
    IF bare THEN [nodes[n] EXCEPT !.values = Absent] ELSE nodes[n]

Change ==
    /\ changes < MaxChanges
    /\ changes' = changes + 1
    /\ Len(channel) < MaxChannel
    /\ UNCHANGED <<asked, link, stopping, cache, publication, gladys, drops>>

Announce(nodes, n, bare) ==
    Send([kind |-> "refreshed", node |-> n, data |-> Serialized(nodes, n, bare)])

\* A node is included, or interviewed again: zwave-js-ui restarted.
Announced(n, bare) ==
    /\ Change
    /\ \/ n \in DOMAIN ui /\ ui[n].ready
       \/ n \in Leaving \ DOMAIN ui
    /\ \E s \in Statuses :
         ui' = Put(ui, n, [ready |-> FALSE, status |-> s, values |-> <<>>])
    /\ Announce(ui', n, bare)
    /\ UNCHANGED shed

\* The interview goes on.  The integration listens to none of it.
Interviewed(n, k, h) ==
    /\ n \in DOMAIN ui /\ ~ui[n].ready
    /\ k \notin DOMAIN ui[n].values
    /\ Change
    /\ ui' = [ui EXCEPT ![n].values = Put(@, k, h)]
    /\ UNCHANGED <<channel, shed>>

Ready(n, bare) ==
    /\ n \in DOMAIN ui /\ ~ui[n].ready
    /\ Whole(n, DOMAIN ui[n].values)
    /\ Change
    /\ ui' = [ui EXCEPT ![n].ready = TRUE]
    /\ Announce(ui', n, bare)
    /\ shed' = shed \cup ({n} \X (Keys \ DOMAIN ui[n].values))

Excluded(n) ==
    /\ n \in Leaving \cap DOMAIN ui
    /\ Change
    /\ ui' = Without(ui, {n})
    /\ Send([kind |-> "removed", node |-> n])
    /\ shed' = shed \cup ({n} \X Keys)

\* A value changes; the event carries the node and the value.
Reported(n, k, h) ==
    /\ n \in DOMAIN ui /\ k \in DOMAIN ui[n].values /\ ui[n].values[k] # h
    /\ Change
    /\ ui' = [ui EXCEPT ![n].values[k] = h]
    /\ Send([kind |-> "value", node |-> n, data |-> Serialized(ui', n, TRUE),
             key |-> k, holds |-> h])
    /\ UNCHANGED shed

StatusChanged(n, s) ==
    /\ n \in DOMAIN ui /\ ui[n].status # s
    /\ Change
    /\ ui' = [ui EXCEPT ![n].status = s]
    /\ Send([kind |-> "status", node |-> n, status |-> s])
    /\ UNCHANGED shed

Answered ==
    /\ asked > 0
    /\ Len(channel) < MaxChannel
    /\ asked' = asked - 1
    /\ channel' = Append(channel, [kind |-> "nodes", nodes |-> ui])
    /\ UNCHANGED <<ui, link, stopping, cache, publication, gladys, shed, changes, drops>>

\* requestNodes(): dropped while the link is down.
RequestNodes == asked' = IF link /\ asked < MaxAsked THEN asked + 1 ELSE asked

\* onBrokerConnected().
LinkUp ==
    /\ ~link
    /\ link' = TRUE
    /\ asked' = 1
    /\ UNCHANGED <<ui, channel, stopping, cache, publication, gladys, shed, changes, drops>>

Closed == link' = FALSE /\ channel' = <<>> /\ asked' = 0

LinkDown ==
    /\ drops < MaxDrops
    /\ drops' = drops + 1
    /\ link
    /\ Closed
    /\ UNCHANGED <<ui, stopping, cache, publication, gladys, shed, changes>>

\* stop(): the timers first; the link once the publishers are drained.
Stop ==
    /\ drops < MaxDrops
    /\ drops' = drops + 1
    /\ ~stopping
    /\ stopping' = TRUE
    /\ resync' = FALSE /\ discovery' = FALSE
    /\ UNCHANGED <<ui, channel, asked, link, registry, publication, gladys, shed, changes>>

\* What follows is start(), once Gladys is connected again: it resets the state
\* publisher before it opens the link.
StopEnds ==
    /\ stopping
    /\ stopping' = FALSE
    /\ Closed
    /\ lastPublished' = <<>>
    /\ UNCHANGED <<ui, cache, publication, created, states, deleted, badges, shed,
                   changes, drops>>

-----------------------------------------------------------------------------
(* The cache. *)

ValuesOf(n) == IF n \in DOMAIN registry THEN registry[n].values ELSE <<>>

\* Faulty variant of Reconcile: what comes is taken at face value.
ReconcileNever(known, node) ==
    [node EXCEPT !.values = IF @ = Absent THEN <<>> ELSE @]

\* reconcile(): only a ready node that lists its values may drop some.
Reconcile(known, node) ==
    [node EXCEPT !.values =
        IF @ = Absent THEN known ELSE IF node.ready THEN @ ELSE Merge(@, known)]

Degraded(known, node) ==
    /\ ~node.ready
    /\ IF node.values = Absent THEN known # <<>>
                               ELSE ~(DOMAIN known \subseteq DOMAIN node.values)

Replace(nodes) == [n \in DOMAIN nodes |-> Reconcile(ValuesOf(n), nodes[n])]

Upsert(n, node) == Put(registry, n, Reconcile(ValuesOf(n), node))

\* Faulty variant of Resync: the values of a ready node are not asked for.
ResyncDegraded(known, node) == resync \/ Degraded(known, node)

\* requestResynchronization() by onNodeRefreshed().
Resync(known, node) == resync \/ Degraded(known, node) \/ node.values = Absent

-----------------------------------------------------------------------------
(* What is pushed, and what is published. *)

\* Faulty variant of Shown: any feature of a device Gladys has.
ShownAny(n, k) == n \in DOMAIN created

\* knownFeatures(): only the features Gladys has now get a state.
Shown(n, k) == n \in DOMAIN created /\ k \in created[n]

\* snapshot() for the pairs told.
Snapshot(told, reg) == [p \in told |-> reg[p[1]].values[p[2]]]

Snapshots(nodes, reg) ==
    Snapshot({p \in nodes \X Keys : p[2] \in DOMAIN reg[p[1]].values /\ Shown(p[1], p[2])}, reg)

\* push() of the states of known features: what repeats the last is dropped.
Repeated(news) ==
    {p \in DOMAIN news \cap DOMAIN lastPublished : lastPublished[p] = news[p]}
Push(news) ==
    LET accepted == Without(news, Repeated(news)) IN
    /\ states' = Merge(accepted, states)
    /\ lastPublished' = Merge(accepted, lastPublished)
    /\ deleted' = deleted \ DOMAIN accepted

\* DEDUP_TTL_MS have passed since the last state of p was accepted.
Expire(p) ==
    /\ p \in DOMAIN lastPublished
    /\ lastPublished' = Without(lastPublished, {p})
    /\ UNCHANGED <<external, stopping, cache, publication, created, states, deleted, badges>>

\* nodeTransport(): unreachable or not, degraded or not; and toUnreachable(),
\* the badge of a device whose node left.
Badge(node) == [unreachable |-> node.status = Dead, degraded |-> ~node.ready]
Gone == [unreachable |-> TRUE, degraded |-> FALSE]

\* publishTransports() for the nodes told: an unknown status says nothing.
PushedBadges(told, reg) ==
    [n \in DOMAIN badges \cup told |-> IF n \in told THEN Badge(reg[n]) ELSE badges[n]]

WithBadges(nodes, reg) ==
    PushedBadges({n \in nodes \cap DOMAIN created : reg[n].status # Unknown}, reg)

\* toDiscoveredDevices().
Listing(reg) == [n \in DOMAIN reg |-> DOMAIN reg[n].values]

\* publishDiscovered(), called by who: one publication at a time, and one more
\* for all that ask meanwhile.
PublishDiscovered(who, reg) ==
    IF publishing # "no"
      THEN again' = TRUE /\ UNCHANGED <<publishing, payload>>
      ELSE again' = FALSE /\ publishing' = who /\ payload' = Listing(reg)

\* Faulty variant of Asked: the flag is cleared once the publication is over.
AskedBefore == FALSE

\* Whether the loop of publishDiscovered() goes round again.
Asked == again

\* Faulty variants of Told and Badged: a full answer is only published.
ToldNothing(reg) == <<>>
BadgedNothing(reg) == badges

\* publishKnownStates() and publishTransports() after the await of onNodes().
Told(reg) == Snapshots(DOMAIN reg, reg)
Badged(reg) == WithBadges(DOMAIN reg, reg)

PublicationEnds(ok) ==
    /\ publishing # "no"
    /\ ok \/ failures < MaxFailures
    /\ failures' = IF ok THEN failures ELSE failures + 1
    /\ stale' = ~ok
    /\ listed' = IF ok THEN payload ELSE listed
    /\ again' = FALSE
    /\ IF Asked
         THEN /\ payload' = Listing(registry)
              /\ UNCHANGED <<publishing, publisher, badges>>
         ELSE /\ publishing' = "no"
              /\ payload' = <<>>
              /\ IF publishing = "answer"
                   THEN Push(Told(registry)) /\ badges' = Badged(registry)
                   ELSE UNCHANGED <<publisher, badges>>
    /\ UNCHANGED <<external, stopping, cache, created>>

-----------------------------------------------------------------------------
(* The handlers of the messages, the timers and the user. *)

Receive(kind) ==
    /\ channel # <<>>
    /\ Head(channel).kind = kind
    /\ channel' = Tail(channel)

Rest == <<ui, link, stopping, created, shed, changes, drops>>

\* onNodes(): it goes on at once when a publication was in flight.
OnNodes ==
    /\ Receive("nodes")
    /\ registry' = Replace(Head(channel).nodes)
    /\ PublishDiscovered("answer", registry')
    /\ IF publishing # "no"
         THEN Push(Told(registry')) /\ badges' = Badged(registry')
         ELSE UNCHANGED <<publisher, badges>>
    /\ UNCHANGED <<Rest, asked, resync, discovery, listed, stale, failures>>

OnValueUpdated ==
    /\ Receive("value")
    /\ LET m == Head(channel) IN
       /\ registry' = Upsert(m.node, m.data)
       /\ resync' = (resync \/ Degraded(ValuesOf(m.node), m.data))
       /\ Push([p \in {q \in {<<m.node, m.key>>} : Shown(q[1], q[2])} |-> m.holds])
       /\ badges' = WithBadges({m.node}, registry')
    /\ UNCHANGED <<Rest, asked, discovery, publication>>

OnNodeRefreshed ==
    /\ Receive("refreshed")
    /\ LET m == Head(channel) IN
       /\ registry' = Upsert(m.node, m.data)
       /\ resync' = Resync(ValuesOf(m.node), m.data)
       /\ badges' = WithBadges({m.node}, registry')
    /\ discovery' = TRUE
    /\ UNCHANGED <<Rest, asked, publication, publisher>>

\* Faulty variant of Left: the device of an excluded node keeps its badge.
LeftSilently(n) == badges

\* onNodeRemoved(): the badge of the device that outlives node n.
Left(n) == IF n \in DOMAIN created THEN Put(badges, n, Gone) ELSE badges

OnNodeRemoved ==
    /\ Receive("removed")
    /\ LET n == Head(channel).node IN
       /\ registry' = Without(registry, {n})
       /\ badges' = Left(n)
    /\ discovery' = TRUE
    /\ UNCHANGED <<Rest, asked, resync, publication, publisher>>

OnNodeStatus ==
    /\ Receive("status")
    /\ LET m == Head(channel) IN
       IF m.node \in DOMAIN registry
         THEN /\ registry' = [registry EXCEPT ![m.node].status = m.status]
              /\ badges' = WithBadges({m.node}, registry')
         ELSE UNCHANGED <<registry, badges>>
    /\ UNCHANGED <<Rest, asked, resync, discovery, publication, publisher>>

ResyncFires ==
    /\ resync
    /\ resync' = FALSE
    /\ RequestNodes
    /\ UNCHANGED <<Rest, channel, registry, discovery, publication, publisher, badges>>

DiscoveryFires ==
    /\ discovery
    /\ discovery' = FALSE
    /\ PublishDiscovered("timer", registry)
    /\ UNCHANGED <<Rest, channel, asked, registry, resync, listed, stale, failures,
                   publisher, badges>>

\* The user asks for a scan.
RequestScan ==
    /\ link /\ asked < MaxAsked
    /\ RequestNodes
    /\ UNCHANGED <<Rest, channel, cache, publication, publisher, badges>>

\* The user creates the device Gladys lists: what is cached of it is pushed.
OnDeviceCreated(n) ==
    /\ n \in DOMAIN listed \ DOMAIN created
    /\ created' = Put(created, n, listed[n])
    /\ LET cached == {n} \cap DOMAIN registry IN
       /\ Push(Snapshot({p \in cached \X listed[n] : p[2] \in DOMAIN registry[p[1]].values},
                        registry))
       /\ badges' = PushedBadges({m \in cached : registry[m].status # Unknown}, registry)
    /\ UNCHANGED <<external, stopping, cache, publication>>

\* Gladys drops the states of features; lastPublished is left alone.
Dropped(pairs) ==
    /\ states' = Without(states, pairs)
    /\ deleted' = deleted \cup (pairs \cap DOMAIN lastPublished)
    /\ UNCHANGED lastPublished

\* The user updates the device to what Gladys lists: only its badge is pushed.
OnDeviceUpdated(n) ==
    /\ n \in DOMAIN listed \cap DOMAIN created
    /\ created[n] # listed[n]
    /\ created' = [created EXCEPT ![n] = listed[n]]
    /\ Dropped({n} \X (Keys \ listed[n]))
    /\ badges' = WithBadges({n} \cap DOMAIN registry, registry)
    /\ UNCHANGED <<external, stopping, cache, publication>>

OnDeviceDeleted(n) ==
    /\ n \in DOMAIN created
    /\ created' = Without(created, {n})
    /\ Dropped({n} \X Keys)
    /\ badges' = Without(badges, {n})
    /\ UNCHANGED <<external, stopping, cache, publication>>

-----------------------------------------------------------------------------
NetworkNext ==
    \/ \E n \in Nodes :
         \/ \E bare \in Bare : Announced(n, bare) \/ Ready(n, bare)
         \/ \E k \in Keys, h \in Holds : Interviewed(n, k, h) \/ Reported(n, k, h)
         \/ Excluded(n)
         \/ \E s \in Statuses : StatusChanged(n, s)
    \/ Answered \/ LinkUp \/ LinkDown

IntegrationNext ==
    \/ OnNodes \/ OnValueUpdated \/ OnNodeRefreshed \/ OnNodeRemoved \/ OnNodeStatus
    \/ ResyncFires \/ DiscoveryFires \/ RequestScan \/ Stop \/ StopEnds
    \/ \E ok \in BOOLEAN : PublicationEnds(ok)
    \/ \E p \in Nodes \X Expiring : Expire(p)

UserNext ==
    \/ \E n \in Creatable : OnDeviceCreated(n) \/ OnDeviceDeleted(n)
    \/ \E n \in Updatable : OnDeviceUpdated(n)

Next == NetworkNext \/ IntegrationNext \/ UserNext

Spec == Init /\ [][Next]_vars

-----------------------------------------------------------------------------
(* Properties. *)

NodesOver(keys) == [ready : BOOLEAN, status : Statuses, values : UNION {[S -> Holds] : S \in SUBSET keys}]

\* Types; a request to publish again is only kept during a publication, and
\* nothing is pushed for a feature Gladys does not have.
TypeOK ==
    /\ DOMAIN ui \subseteq Nodes /\ DOMAIN registry \subseteq Nodes
    /\ \A n \in DOMAIN ui : ui[n] \in NodesOver(Keys)
    /\ \A n \in DOMAIN registry : registry[n] \in NodesOver(Keys)
    /\ Len(channel) <= MaxChannel /\ asked \in 0..MaxAsked
    /\ link \in BOOLEAN /\ stopping \in BOOLEAN
    /\ resync \in BOOLEAN /\ discovery \in BOOLEAN /\ again \in BOOLEAN
    /\ publishing \in {"no", "timer", "answer"}
    /\ again => publishing # "no"
    /\ shed \subseteq Nodes \X Keys
    /\ ~link => (channel = <<>> /\ asked = 0)
    /\ \A n \in DOMAIN payload : payload[n] \subseteq Keys
    /\ \A n \in DOMAIN listed : listed[n] \subseteq Keys
    /\ \A n \in DOMAIN created : n \in Nodes /\ created[n] \subseteq Keys
    /\ \A p \in DOMAIN states : p[1] \in DOMAIN created /\ p[2] \in created[p[1]] /\ states[p] \in Holds
    /\ DOMAIN lastPublished \subseteq Nodes \X Keys /\ deleted \subseteq Nodes \X Keys
    /\ \A p \in DOMAIN lastPublished : lastPublished[p] \in Holds
    /\ \A n \in DOMAIN badges : n \in DOMAIN created /\ badges[n] \in [unreachable : BOOLEAN, degraded : BOOLEAN]

\* The link is up and all that was to be said is said.
Quiescent ==
    /\ link /\ ~stopping
    /\ channel = <<>> /\ asked = 0
    /\ ~resync /\ ~discovery /\ publishing = "no"

\* "The cache never lets a half-interviewed node erase what it already knows"
\* (NodeRegistry.ts:77): the Discovery screen loses a feature only when the
\* network gave its value up, through restarts of zwave-js-ui, partial answers,
\* lost messages and publications that overlap or fail.
DiscoveryWhole ==
    [][\A n \in DOMAIN listed :
          \A k \in IF n \in DOMAIN listed' THEN listed[n] \ listed'[n] ELSE Keys :
              <<n, k>> \in shed]_vars

\* "Rather than guessing when the network will settle, we ask"
\* (ZwaveIntegration.ts:513): once nothing is on its way, the cache has the
\* nodes of the network, and the values of those that are ready.
CacheCatchesUp ==
    Quiescent =>
        /\ DOMAIN registry = DOMAIN ui
        /\ \A n \in DOMAIN ui :
             ui[n].ready => DOMAIN registry[n].values = DOMAIN ui[n].values

\* "A request arriving during a publication schedules exactly one more" (lines
\* 493-494): what Gladys lists in the end is what is cached, unless the last
\* publication failed.
DiscoveryUpToDate == (Quiescent /\ ~stale) => listed = Listing(registry)

\* The badge of a device says of its node what zwave-js-ui last said of it,
\* status and interview, whatever was announced, answered or lost meanwhile.
BadgeCurrent ==
    Quiescent => \A n \in DOMAIN created \cap DOMAIN ui :
        ui[n].status # Unknown => n \in DOMAIN badges /\ badges[n] = Badge(ui[n])

\* The features Gladys has, and their ready node reports.
Reporting ==
    {p \in Nodes \X Keys : /\ p[1] \in DOMAIN created \cap DOMAIN ui /\ p[2] \in created[p[1]]
                           /\ ui[p[1]].ready /\ p[2] \in DOMAIN ui[p[1]].values}

\* Stated at ZwaveIntegration.ts:402-405, "publish what we already know about it
\* instead of leaving it blank until the next report": no such feature is blank.
NothingBlank == Quiescent => Reporting \subseteq DOMAIN states

\* What is left of it (lines 401-405, 558-572): however creation, interview,
\* answers and losses interleave, only a feature that was deleted less than
\* DEDUP_TTL_MS after its last state was accepted may be blank, and it no longer
\* is once a state of it is accepted.
OnlyDeletedBlank == Quiescent => Reporting \subseteq DOMAIN states \cup deleted

\* Stated at ZwaveIntegration.ts:559, "republish what the network already told
\* us": what a feature holds in the end is what its ready node told last.
StatesNewest ==
    Quiescent => \A p \in DOMAIN states :
        (p[1] \in DOMAIN ui /\ ui[p[1]].ready /\ p[2] \in DOMAIN ui[p[1]].values)
            => states[p] = ui[p[1]].values[p[2]]

\* "Say it is gone rather than leave the badge frozen" (ZwaveIntegration.ts:
\* 369-370): the device of a node that left shows it, whatever is answered or
\* announced around its exclusion, unless the link was down meanwhile.
RemovedShownGone ==
    (Quiescent /\ drops = 0) =>
        \A n \in DOMAIN badges \ DOMAIN ui : badges[n] = Gone
=============================================================================
