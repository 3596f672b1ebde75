# Verification of the Z-Wave JS UI integration for Gladys

This directory models the integration of `src/` in TLA+, checks the models with
TLC on small instances and proves theorems about them with TLAPS. Every
definition is translated from the source; `PROJECT.json` maps each definition to
the lines it stands for, each property to the hazard it is about, and each
property to a faulty variant of the code that breaks it.

    tlc -workers 2 -config <Run>.cfg MC<Module>.tla      # one of the runs below
    tlapm StatePublisherProofs.tla                       # the proofs, and those of
    tlapm OutboxProofs.tla                               # OutboxProofs (which rests on it),
    tlapm DeliveryProofs.tla                             # and DeliveryProofs on both
    tlapm TransportPublisherProofs.tla
    tlapm LifecycleProofs.tla
    tlapm NetworkProofs.tla
    tlapm MappingProofs.tla
    tlapm CommandsProofs.tla                             # on MappingProofs

## The system

The integration is one Node process between two networks. Node runs one piece of
JavaScript at a time; what interleaves is everything separated by an `await`, a
timer or a callback.

| Component | State | Operations | Talks to |
|---|---|---|---|
| `StatePublisher` | queue, index of the sampled features, last value per feature, send times, timer, flush in flight, stopped | push, flush/drain, requeue, degrade, stop, reset | `gladys.publishStates` |
| `TransportPublisher` | latest entry per device, published badge per device, generation, queue of sends, retry timer, stopped | push, forget, send, retry, stop, reset | `gladys.publishTransports` |
| `ZwaveIntegration`, lifecycle | queue of start and stop, broker, broker error | start, stop, onConfigUpdated, applyConfig, testConnection | the SDK, the link, both publishers |
| `ZwaveJsUiClient` | mqtt client, topics, queue of open and close | open, close, publish, requestNodes | the MQTT broker |
| `ZwaveIntegration`, network | features and devices Gladys has, discovery and resync timers, publication flags | onMessage and its handlers, onDeviceCreated/Updated/Deleted, publishDiscovered, requestScan | zwave-js-ui, the registry, both publishers, `gladys.publishDiscoveredDevices` |
| `NodeRegistry` | node id -> node | replace, upsert (reconcile), setStatus, remove | read by the network part |
| `DeviceMapper`, quirks, external ids, transport | none | node -> device, value -> states, node -> badge | called by the network part |
| `CommandDispatcher`, command classes | none | Gladys command -> MQTT message and sibling states; report -> state | the link, the state publisher |
| `config`, `topics`, `plural`, types | none | reading settings, building strings | - |

What is hard here:

- **Await points.** A drain awaits each request while reports keep being pushed,
  and `stop()` joins it; a send awaits each request while `forget()` clears its
  memory; `onNodes()` awaits a publication while reports arrive; `open()` awaits
  the end of the previous client while its callbacks may still come.
- **Failure and retry.** Each of the three publications to Gladys may fail, and
  may fail after Gladys stored it. States and badges are retried by timers that
  must not be armed twice, nor after `stop()`, nor refused when nothing else
  will send; a failed publication of the discovery is not retried.
- **Loss.** What zwave-js-ui sends while the link is down is lost; only a
  `getNodes` answer recovers it. Event nodes carry no values, answers may be
  given in the middle of an interview.
- **Limits.** A sliding window of 300 states a minute, 100 per request, a
  high-water mark and a hard limit of the queue, deduplication that expires.
- **Lifecycle.** Connections, disconnections and saved settings come from
  outside, unordered with the promises they start.

What makes each component correct:

- *State publisher*: the last reported value of every feature reaches Gladys; the
  reports of a feature arrive in order; no event is lost; the limit of the host
  is respected; what waits is sent.
- *Transport publisher*: Gladys ends up showing the latest badge of each device,
  never an older one after it, and a refused badge is retried.
- *Lifecycle and link*: one mqtt client at most; the link ends up as the last
  call and the saved settings want it; every call ends; the banner is right.
- *Network view*: no feature disappears from the discovery screen because of an
  interview; cache, screen, badges and values catch up with the network.
- *Mapping and commands*: a command goes to the value its feature came from; a
  report becomes the state a user expects; external ids are unambiguous.

## The modules

### StatePublisher

`src/runtime/StatePublisher.ts`, whole. A variable per field of the class, under
its name (`queue`, `sampledIndex`, `lastPublished`, `sentAt`, `timer`, `inFlight`,
`stopped`); `flushing` is `inFlight # <<>>`, because the only await of a drain is
the call of `publish`. Actions:

| Action | Code |
|---|---|
| `Push`, `PushSuppressed` | `push()` of one state that is queued, or dropped by the deduplication; a state of an unknown feature changes nothing. A call with several states is several pushes: nothing happens between them that another action could see. |
| `TimerFires` | the scheduled `flush()`, up to the call of `publish` (`SendBatch`), the empty queue (`DrainedAll`) or the exhausted budget (`OverBudget`, with `degrade()`) |
| `HostStores` | the host stores the batch (external) |
| `PublishOk`, `PublishFails` | the answer, and the drain up to its next await or its end |
| `Stop`, `Reset` | `stop()`, joined to a running drain or draining itself; `reset()` |
| `DeviceCreated`, `DeviceDeleted` | the callback `knownFeatures()` changes its answer |
| `Tick` | the clock |

Times are ages which saturate at the largest value the code tells apart, so that the
clock has no bound. Delays of timers are left out: an armed timer may fire at any
moment. An entry carries the number of its report. Ghost variables hold what the host
stored and when (`told`), the last reported value, what the hard limit cut (`cut`), and
the features that were deleted: `blank`, those Gladys has no state of since, so that
`Gladys` is `told` without them, and `deleted`, those of which nothing was accepted
since. `DeviceDeleted` leaves `lastPublished` alone, as `onDeviceDeleted()` does: a
re-created device whose values repeat stays blank. `stop()` and `reset()` are not called
while a stopped publisher drains (`MayCall`): `ZwaveIntegration.serialize` runs
`start()` after the `stop()` before it is over.

### Outbox

What the state publisher promises, without timers, batches, budget or index: every
report is told to the host, in the order of its feature; one that waits may be left out
only when a newer one of its feature waits, and never an event, unless only `Capacity`
reports are kept. `StatePublisher` implements it: `Out == INSTANCE Outbox` maps `said`
to the pushes, `pending` to the reports of the pipe the host has yet to store (the batch
on its way, then the queue), `unsure` to the batch it stored without having answered,
`shown` to the numbers of the reports it holds, `Capacity` to the hard limit; `IsOutbox`
is the property. `HostStores` tells the batch, `PublishOk` settles it (with the thinning
and the cut of `degrade()`), `PublishFails` either settles, when the host had stored
nothing, or tells it again. The abstract specification is small enough to be read as the
contract; it says nothing of *when* a report is told, which `EventuallySent`,
`OnlyRestartStrands` and `HostBudget` add.

### TransportPublisher

`src/runtime/TransportPublisher.ts`, whole. The promise chain `queue` is the
number of `send()` calls in it; the running one has its captured entries in
`rest` and `batch`. The generation is compared only with its value when
`publish` was called, so one flag, `moved`, says whether it changed since. The
order of the devices within a request is left out: any slice of at most
`MaxPerRequest` entries may be next. The same entry is pushed under a new number,
which stands for the identity of the object that `send()` compares.

### Lifecycle

`index.ts`, `start`, `stop`, `onConfigUpdated`, `applyConfig`, `testConnection` of
`ZwaveIntegration`, and `ZwaveJsUiClient`. The two promise chains are sequences of
calls, each with the await it stands at. `sockets` holds the mqtt clients that
have not ended, the one being ended included: its `removeAllListeners()` does not
stop the callback of a `subscribe()` on its way. A call whose turn has come (`Ready`)
begins before anything else happens: `Begins` is the microtask drain of Node, and
the SDK, the user, the mqtt library and the awaits that end come only when it is over
(`Idle`). So an `open()` on an empty queue without a client is one step with the call
that queued it; a call only waits behind one that stands at an await. The further await of
`start()` on its status report is left out: nothing of it follows. A malformed URL makes
`mqtt.connect()` throw. The publishers are reduced to the await of their drains.

### Network

`NodeRegistry`, the handlers of the MQTT messages, the two debounce timers, the
publication of the discovered devices, and the device events of `ZwaveIntegration`; the
listing, snapshot and badge of `DeviceMapper` and `transport.ts`. zwave-js-ui and the
broker are external: `ui` is the true network, `channel` the messages on their way. A
value is a key and what it holds; a feature is the key it comes from. `states` and
`badges` hold what was accepted last for a feature or a device Gladys has, which is what
the two publisher modules show to reach the host. `Push` is `push()` with its filter and
its deduplication: `lastPublished` outlives the deletion of a device (`Dropped`), grows
old (`Expire`) and is forgotten by the `start()` that follows a `stop()` (`StopEnds`).
`deleted` holds the values of which Gladys lost the state and has been pushed none
since. `again` is `discoveryPending`; `publishing` says whether `onNodes()` awaits the
publication in flight, and then its continuation (`Told`, `Badged`) runs at the end of
it.

Assumed of zwave-js-ui, from how the code uses it: messages arrive in order;
`getNodes` is answered with every included node; a ready node lists all its
values (those of `Leaving` may lose some when they are interviewed again); a node
event carries status and `ready`, with or without values; the steps of an
interview in between are announced by no event the integration listens to.

### CommandClasses, Mapping

`src/zwave/commandClasses` and `src/mapping` are pure functions, so these two
modules have operators and no variables. In `CommandClasses`, a command class is
a function from a property and its key (`Empty` for the property itself) to a
*variant*; `Expose`, `Reports`,
`Commandable`, `Offered`, `Build` say what a variant shows, converts and sends (the
`expose`, `fromZwave` and `toZwave` of the code), each dispatching to one operator per
file of the directory (`DimmerFeatures`, `SceneCodes`, `SetpointCommand`, ...);
`ResolveVariant` goes from a value to its
variant (product, device class, command class, key before property) and
`ResolveCommand` from the id and the category of a feature back to the variant
that commands it, in the two passes of the code: `Candidates` is what each map
leads to for each way of reading the end of an id, `First` the one the loops of the
code meet first. In `Mapping`, `FeatureId` and
`Parse` build and read external ids as sequences of segments, `Discover` lists
the features of a node, derived battery flags and quirks included, `Convert` and
`Snapshot` make states of values. `Fed` and `Targets` say which features a value may
feed, whatever it holds; `IsNode`, what zwave-js gives a node, in particular that the
properties of some command classes have no keys (`Unkeyed`).

A raw value carries its JavaScript type, since converters test it. Names,
parameters, units and types of features are left out.

### Commands

One device, composed of `CommandDispatcher`, `CommandClasses`, `Mapping`, the cache of
the node, and `push()` of the state publisher: the filter by known features and the
deduplication. How a pushed state travels from there is what `StatePublisher` shows
(`Flush` delivers the last one of each feature). Actions: a user's command (`SetValue`,
dropped by `client.publish` while the link is down), the device that obeys or ignores
it, buttons pressed on the device, reports and answers of `getNodes` (`OnNodes` replaces
the cache and awaits the publication of the discovery, `Published` is the end of that
await and pushes what is cached then; both at once when another publication was in
flight), losses of the link, the creation and deletion of the device, and the expiry of
a deduplication. External, from how the code uses them: Gladys saves a commanded value
itself, because the features are announced with `has_feedback: false`; a device carries
a command out and reports it, or ignores it; what `stopLevelChange` and
`restorePrevious` lead to is any level that fits.

A command outdates what was told of the values that may feed the features it announces
(`Feeding`).

Ghosts: `told`, what was last processed of each value; `promise`, what the last
command announced; `behind`, the features that Gladys shows otherwise than
`lastPublished` believes; `overtaken`, the values reported during the await of an
answer otherwise than the answer has them, over which it will push the older ones.

### MC modules

`MCStatePublisher`, `MCTransportPublisher`, `MCLifecycle`, `MCNetwork` declare the model
values the configurations use. `MCCommands` holds the catalogue of nodes, ten of them,
chosen for the paths through the mapping: a dimmer that publishes its relay too, a
dimmer and a relay mirrored by the root endpoint, a shutter, a pilot-wire heater, a
thermostat, a battery with its own low flag, a sensor whose flag is derived (with smoke
and temperature), a Fibaro motion sensor with its duplicates, a keypad with scenes and a
door, a plug with a meter.

## The runs

Passing runs (deadlock is checked where time or the user can always move; the
lifecycle, network and command models stop when their bounded events are used up,
and say `CHECK_DEADLOCK FALSE`):

| Run | Shows | Instance |
|---|---|---|
| `StatePublisherOrder` | `IndexConsistent`, `InOrder`, `FinalStateKept`, `OnlyRestartStrands`, `EventuallySent`, `IsOutbox` | a sampled and an ordinary feature, the latter created and deleted, 3 reports, batches of 2, budget 2, fairness below |
| `StatePublisherLimits` | `HostBudget`, `FinalStateKept`, `EventsConserved`, `IsOutbox` | budget 1 in a window of 2 ticks, hard limit 3, 5 reports: thinning and cutting happen; an event feature, an answer lost |
| `TransportPublisher` | `EndsUpLatest`, `RetryArmed`, `Settles` | two devices, one deleted and created around its requests, both badges, 3 pushes, requests of one entry, an answer lost, fairness below |
| `Lifecycle` | `AtMostOneClient`, `LastCallWins`, `BannerOfSettings`, `CallsEnd` | two good brokers and a malformed one, 5 outside events, the link up or down twice, fairness below |
| `Network` | `DiscoveryWhole`, `CacheCatchesUp`, `DiscoveryUpToDate`, `RemovedShownGone` | a node with two values excluded, included, interviewed again, losing a value for good; events bare or not, a publication fails |
| `NetworkDevices` | `OnlyDeletedBlank`, `BadgeCurrent` | a device created and deleted while its node reports, is interviewed and changes its status; one status is unknown; the deduplication of a value expires |
| `Commands` | `CommandInvertsDiscovery`, `EveryHalfControlled`, `ObeyedAsPredicted`, `ShownAgrees` | each node of the catalogue, two events out of commands, local changes, losses of the link, deletions, expiries |

Violation runs, each a place where the code does not do what one of its own
comments or tests says (`PROJECT.json` quotes them):

| Run | Shows |
|---|---|
| `TransportPublisherForget` | `forget()` of one device disowns the request of another, whose next badge may be dropped as unchanged |
| `LifecycleAction` | a malformed URL refused after a good one was saved: the test action reports it while the banner says connected |
| `NetworkRefresh` | a report received during the await of `onNodes()` is overwritten by the older value of the answer |
| `NetworkRecreated` | a device deleted and created again within five minutes stays blank: what is known of it is pushed, and dropped as a repetition of what was pushed before the deletion |
| `CommandsCoherent` | a dimmer commanded while the link is down is shown on at position 0, or off at position 99: Gladys keeps the value, the answer that follows is deduplicated for one sibling and not for the other |

Other limits of the code, which the conditions of the properties name rather than
runs of their own:

- `HostBudget` and `EndsUpLatest` need every answer of the host to arrive. A batch
  stored without an answer is not counted in `sentAt`, so that its retry overruns
  the window; a badge stored without an answer is not undone by the badge
  recorded before, which is dropped as unchanged.
- A batch refused while `stop()` drains is queued again without a timer, and `reset()`
  arms none: it waits for another push, which the answer to `getNodes` after `start()`
  usually brings. `OnlyRestartStrands` names that step, and excludes all others.
- `QUEUE_HARD_LIMIT` is enforced only when the budget is exhausted: the queue
  outgrows it while the host refuses.
- A report is pushed but never cached (`onValueUpdated`), so that a device
  created later gets the value of the last full answer.
- A node excluded while the link is down leaves its badge behind:
  `RemovedShownGone` is about a link that stayed up.
- A state Gladys saves itself, on a command, is not in `lastPublished`: a report of
  the value from before the command is dropped as a repetition until the
  deduplication expires. The same happens to a device deleted and created again
  within five minutes. `ShownAgrees` and `ObeyedAsPredicted` name these features
  (`behind`), `FinalStateKept` and `OnlyDeletedBlank` those of a deleted device
  (`deleted`) until a state of them is accepted.
- A device commanded while `onNodes()` awaits, which obeys and reports at once, is
  then shown as the answer had it, from before the command (`NetworkRefresh` is the same
  fault). `ObeyedAsPredicted` names these values (`overtaken`).
- Settings without a URL do not clear `brokerError` either: the test action then
  reports the malformed URL saved before, while the banner says not configured.

**Bounds.** Queues hold at most `MaxPush` entries and the limits are scaled down
with them (batch 1-2, budget 1-2), so that every comparison of the code (queue
longer than a batch, than the budget, than the high-water mark, than the hard
limit) goes both ways. Two features, devices or brokers are what the code relates
at most: it never compares three. Two values tell a repetition from a change.
Three reports fill a batch of 2 and leave one that supersedes part of it or waits
behind it when it is requeued; `StatePublisherOrder` passes with 4 as well.
`MaxEvents = 2` in `Commands` is a command and what races it (a loss, a local change,
another command, a deletion). `MaxLost`, `MaxDrops`, `MaxFailures` bound failures
that need one occurrence to matter; `MaxChannel` bounds messages on their way
(2 or 3: an answer and the events around it).

**Fairness.** Node runs an armed timer and delivers an answer (weak fairness of
`TimerFires`, `RetryFires`, `PublishOk`, `StartSend`, of the progress of the two
lifecycle queues, and of time). The host stores a batch in the end if it is asked
again and again (strong fairness of `HostStores`); without it the retries are all
the code can do. Nothing is assumed of the network or the user.

**What the properties do not say.** `FinalStateKept` excludes features the hard limit
cut and those of a re-created device that have only repeated themselves since,
`HostBudget` and `EndsUpLatest` hold without lost answers, `OnlyRestartStrands` names
the one step that strands the queue (`reset()`), `LastCallWins` excludes a
`start()` whose `getConfig()` failed, `DiscoveryUpToDate` a failed last publication,
`OnlyDeletedBlank` is checked without updates, since only the badge of an updated device
is pushed. `EndsUpLatest` also excludes a device whose request `forget()` disowned
(`TransportPublisherForget`) and what was pushed before a `reset()`, `DiscoveryWhole` a
value the network gave up (`shed`), and `ShownAgrees` the features of `behind`,
`ObeyedAsPredicted` those and the values of `overtaken`, `RemovedShownGone` a link that
went down.

## The proofs

`StatePublisherProofs` proves, for all constants that meet the assumptions of
`StatePublisher`:

- `TypeCorrect`, `Spec => []TypeOK`. The invariant is inductive as it stands. Its
  hard part is that what is filtered, sliced and put back is still a queue: the
  filter is `Keep`, which enumerates positions by rank, and `RankRange`,
  `RankMonotonic`, `NthRank` and `KeepProperties` show that the rank is a
  bijection.
- `HostBudgetKept`, `Spec => []HostBudget`. The host's window and the publisher's
  `sentAt` disagree about when a state is counted. The inductive invariant
  `BudgetInv`, which holds while `lost = 0`, says that what the host received in
  its window is either in `sentAt`, at least as young, or in the batch in flight
  (`Covered`), that the room of the batch in flight stays reserved in the window
  (`Reserved`), and that nothing was stored twice (`StoredOnce`). The condition is
  necessary: TLC refutes the bound once an answer is lost.
- `IndexCorrect`, `Spec => []IndexConsistent`. Strengthened by: no sampled
  feature is twice in the batch in flight, which `requeue()` puts back.
- `RetriesArmed`, `Spec => OnlyRestartStrands`: every step but `Reset` that
  ends a drain with a queue arms the timer.

`OutboxProofs` goes on from there:

- `OrderCorrect`, `Spec => []InOrder`. Two inductive invariants. `OrderInv` orders
  the numbers of the reports of a feature along the pipe (batch in flight, then
  queue), which requires that filtering, slicing, requeueing and thinning keep an
  ordered sequence ordered (`KeepOrdered`, `SplitOrdered`, `ConcatOrdered`, ...).
  `HostInv` says that the host is behind the pipe as long as no answer is lost.
- `OutboxImplemented`, `Spec => IsOutbox`: initial states map to initial states,
  and each action to a step of the outbox or a stutter. `PushSays`: a push says a
  report, replacing at most the waiting one of its sampled feature. `HostTold`:
  storing a batch is telling it, since the oldest reports are at the head of the
  pipe. `DrainSettles`: what a drain leaves, thinned by `degrade()` or cut at the
  hard limit, is a coalescing of what waited, or `Capacity` reports of it.
  `FailureSettles`: a refused batch is put back behind nothing newer.

`DeliveryProofs` goes on from both, about what is delivered:

- `FinalStateCorrect`, `Spec => []FinalStateKept`. `FinalInv` says of every state
  feature which the hard limit has not cut, and which was not deleted with nothing
  accepted since, that the last of the host, the batch in
  flight and the queue is what was reported last (`AllKept`), that `lastPublished`
  remembers no other value (`Remembered`), since the deduplication drops what it
  remembers, and that what the host stored of a batch is in its memory (`Landed`),
  since a refused batch is put back and filtered. The lemmas follow the last entry of
  a feature through filtering, slicing, concatenation and thinning (`KeepLast`,
  `Split`, `ConcatLast`, `DegradeLast`, `RequeueLast`); when a newer entry supersedes
  an older one they use the order of the pipe, hence `OrderInv`.
- `EventsCounted`, `Spec => []EventsConserved`. Inductive with the type invariant. The
  work is in counting: `KeepProperties` numbers what is kept, and `CountConcat`,
  `CountKeep`, `CountThin`, `CountDrain` say what each operator of the queue does to
  the number of events.

`TransportPublisherProofs` proves, for all constants that meet the assumptions of
`TransportPublisher`:

- `TypeCorrect`, `Spec => []TypeOK`, with two more facts: a failure is recorded only
  while a run is in progress, and the batch in flight is disjoint from the rest.
- `RetryKept`, `Spec => []RetryArmed`. `RetryArmed` alone is not inductive: a run
  that ends must know whether an entry was left behind. `RetryInv` gives every
  waiting entry its reason (a send to come, the failure that will arm the timer, the
  timer, a stopped publisher, its place among those captured by the run, or a request
  that `forget()` disowned) and says how entries are numbered, since `send()` compares
  their identity.
- `LatestShown`, `Spec => []EndsUpLatest`. `LatestInv` has three parts. `EntriesLatest`:
  what waits of a device is its last push, and so is a captured entry unless a newer
  one waits. `HostInv`: what Gladys stored of the request in flight is still that of the
  entries in it, unless the device was disowned. `ShownInv`: a badge on record is the
  one Gladys shows, and a device whose last badge neither waits nor is disowned shows it.

`LifecycleProofs` proves, for all constants that meet the assumptions of `Lifecycle`:

- `OneClient`, `Spec => []AtMostOneClient`. `LinkInv` adds what makes it inductive: only
  the head of the queue of operations has begun (`OneBegun`); while it ends a client,
  that one is alone and nobody listens to it (`Ending`); otherwise the client of the
  integration is the only one (`Settled`).
- `TypeCorrect`, `Spec => []TypeOK`: only the first call of each queue has begun, and an
  operation that has begun waits for a client that has not ended, which rests on
  `LinkInv`.
- `LastCallDecides`, `Spec => []LastCallWins`. When both queues are empty, the link is
  what the last operation made it; before that, what the *last* operation still queued
  will make it, or, when it is not queued yet, what the last call still to run will
  ask (`Outcome`). `CallsInv` says that the last call is the last event of the SDK,
  `Awaited` ties the call that awaits the link to its operation in the other queue,
  `SettingsInv` says whose settings the last operation, or the client, has.
- `BannerCorrect`, `Spec => []BannerOfSettings`, along the same argument: no client that
  is listened to is left to overwrite the banner of settings that open none.

`NetworkProofs` proves, for all constants that meet the assumptions of `Network` (any
nodes, values, statuses and bounds; `Absent` is no set of values; a request for
`getNodes` may always be made, `MaxAsked > 0`):

- `TypeCorrect`, `Spec => []TypeOK`, with the types of the messages.
- `CacheCorrect`, `Spec => []CacheCatchesUp`. "Nothing is on its way" is not
  inductive, so the invariants compare the cache with the network *through the
  channel* (`LastIn`, `Unsaid`): once the link is up and no answer is owed, the last
  message that decides of a node (`Deciding`) tells it as it is, and when there is none,
  the cache has it as it is, or a resynchronization is armed (`CacheInv`).
  `ReadyInv` and `StatusInv` are the same for the interview and the status of a node,
  which other messages tell. `AliveInv` is needed because a report puts its node back into
  the cache: a report of a node that is gone always comes before its removal or an answer.
- `DiscoveryCorrect`, `Spec => []DiscoveryUpToDate`: until a timer, a flag or a message
  asks for one more publication, what is listed, or about to be, is the cache.
- `BadgeCorrect`, `Spec => []BadgeCurrent`: the badge pushed is that of the cached node
  (`BadgeInv`) but between the two halves of `onNodes()`; the cached node is the true
  one by the invariants above.
- `RemovedCorrect`, `Spec => []RemovedShownGone`: as long as the link stayed up, the last
  message about an absent node is its removal, or its badge is that of a node gone.
- `DiscoveryNeverLoses`, `Spec => DiscoveryWhole`, an action property. Four invariants:
  a ready node, in the network or in a message, lacks only what was given up
  (`CompleteInv`); a node that is cached or announced stays unless it was excluded
  (`PresenceInv`); of what is listed, the payload in flight and the cache keep
  all that was not given up (`ListedInv`).
- `NothingStaysBlank`, `Spec => []OnlyDeletedBlank`, under two hypotheses on the constants
  that the run has too: events carry no values, as the code says of them, and no
  device is updated with new features (only its badge is pushed then). `FilledInv` says
  that a feature of which something is cached has a state or is in `deleted`; it rests on
  the same being true of what `lastPublished` remembers, so that what the deduplication
  drops was there already, or is excused. Without the
  excuse the property is false of the code (`NetworkRecreated`).

These steps are proved on `View`, which says of every action what it does to the
network, the channel and the cache (a message is sent, read, or lost), so that each
invariant is shown once per kind of step and not once per action.

`CommandsProofs` proves, for every catalogue of nodes and whatever their values may
hold, as long as `Commands`' assumptions are met:

- `TypeCorrect`, `Spec => []TypeOK`.
- `ShownCorrect`, `Spec => []ShownAgrees`. `PublishInv` says that what the publisher
  believes (`lastPublished`) is what Gladys shows once what is on its way has arrived
  (`Current`), but for the features of `behind`. `AgreeInv` is `ShownAgrees` before all is
  delivered: what was told of a value agrees with `Current`. Reports are converted
  against the cache, which is empty until the first answer: a battery level then feeds
  the flag of a node that reports it itself, so that `AgreeInv` excuses the flag while the
  cache is cold, and `WarmInv` (with the link up, an answer is asked, on its way, or has
  been read) ends the excuse before all is quiet.
- `HalvesControlled`, `Spec => []EveryHalfControlled`: a hidden relay has a dimmer on its
  endpoint, or is on the root (`RelayReplaced`), and no rule hides a dimmer; a hidden
  sensor of a Fibaro has another binary sensor (`MotionTold`).

- `CommandInverts`, `Spec => []CommandInvertsDiscovery`, from `Inverts` and `Unambiguous`
  below: it needs no invariant but that the features are those of the node.
- `ObeyedCorrect`, `Spec => []ObeyedAsPredicted`. `ObeyInv` goes on from the invariant
  of `ShownCorrect`. Of a command that is not outdated, it says that the last message on
  the wire will do as announced, whatever the device makes of it (`Coming`); that a
  report which would be dropped as a repetition finds shown what it repeats
  (`Believed`); and, once the device has done as told, that some value holds what
  fulfils the announcement and that the last message about it says so, unless it was
  processed already or an answer is still asked (`Followed`). So the last report of a
  value decides, and earlier ones on their way, from before the command, may come and be
  shown meanwhile. Not so of an answer read before the report and pushed after it: while
  `onNodes()` awaits, a value whose report differs from the cache is in `overtaken`, and
  the others are cached as they were reported. `Coming` rests on `CommandForetells`: of
  every feature, every value offered and every outcome, the value that changes feeds the
  feature and the siblings with what was announced, and no other value feeds that
  feature. It is the one place where the level of a dimmer, a shutter, a pilot wire, a
  setpoint, ... goes from `toZwave` through the device and back through `fromZwave`
  (`DimmerPredicts`, `ShutterPredicts`, `RestorePredicts`, `PilotPredicts`,
  `SwitchPredicts`, `ModePredicts`, `SetpointPredicts`).

Of conversion they use that a value feeds one state of each of its targets, the
same however the node is known (`OneConversion`), and that another value feeds that
feature only as the level of a battery whose flag is not cached (`OneSource`); of
`push()`, that each feature is reserved with its state or stays as it was (`Pushed`).

The assumptions on the catalogue, which TLC evaluates on its ten nodes:

- `CatalogueAssumption`: nodes are those of zwave-js (`IsNode`), and every value may
  hold something.
- `FlagAssumption`: the low flag of a battery always holds something. It is needed: a
  level converted with a cold cache overwrites a flag reported just before, and only an
  answer that has the flag puts it right.
- `RestoreAssumption`: a node that has a level to restore has that level.
- `MotionAssumption`: the Fibaro sensor whose duplicates are hidden reports its motion
  as a binary sensor, on its root, as the comment of the rule says (`quirks.ts:66`); of
  one that had only its alarm, the rule would hide the motion.

`MappingProofs` proves what these theorems need of the pure functions, for every node
of zwave-js and not only those of a catalogue:

- External ids are read back: `Parsed` (endpoint, command class, property, and a tail
  that spells the key and the name) and `SameId` (two values with the same id of a
  feature differ at most in what the tail leaves open, a key or a name).
- `VariantAt` says which variants a value of each command class can have, and where,
  whatever the product and the device class; `Unambiguous`, that two features of a
  node never share an id.
- `Inverts`: `ResolveCommand`, which knows neither product nor device class, leads from
  the id and the category of a feature to its own variant, key and name, or nowhere.
  `ResolvesTo` and `ResolvesToNone` reduce the two passes of the code to a condition on
  single candidates, by the order of the loops (`LeastIn`, `FirstFound`);
  `ResolvesMultilevel` is the class that needs the category: a dimmer, a shutter, a
  pilot wire and a restoration live there at the same two properties.
- `TwoTargets` and `OneTarget`: no two values of a node feed one feature, but the flag
  and the level of a battery; and a value feeds each of its features one way.
- `Converted` and `OneReport`: what is converted of a value, known as the whole node or
  with a cold cache; `BuildIs`, `ReportsIs` and `OfferedIs`, the arms of the tables.

The rest is model-checked only. Every type and safety invariant and every action
property of the passing runs is now a theorem; what is left is liveness
(`EventuallySent`, `Settles`, `CallsEnd`), which is beyond the prover. The violation
runs are counterexamples, hence with TLC alone.

## Not modelled

Wording, logging, throttled warnings and the diagnostics that only read; the
reading of settings and building of topics (strings); plural forms; the manifest.
Of the mapping: `refineCategory()`, which renames the category of read-only sensors;
names, parameters, types, units and bounds of features that cannot be commanded.
Delays, and everything about mqtt.js and the SDK that the code does not use. A
connection status Gladys refuses is lost for good (`setStatus`); the model assumes
that reports of the status arrive, in order, and that the answer of `getConfig()`
is not older than an update delivered before it.

Hazards without a property, with the reason, are listed in `PROJECT.json`: the hard
limit while the host refuses, `brokerError` after settings without a URL, a
refused status report, a `start()` whose `getConfig()` fails.

## Plan

Done: the modules above, their runs, the refinement of the outbox, and a theorem for
each invariant and action property of a passing run. What would come next:

1. `Session` (open or closed, as last wanted), the abstract specification
   `Lifecycle` would implement.
2. `Network` over the queues of both publishers instead of the last pushed values.
