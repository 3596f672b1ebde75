--------------------------- MODULE StatePublisher ---------------------------
(***************************************************************************)
(* src/runtime/StatePublisher.ts: the queue between the Z-Wave network and *)
(* the Gladys host.  Device states are pushed at any moment; a timer sends *)
(* them in batches, inside a sliding budget; a failed batch comes back in  *)
(* front of the queue; stop() drains, reset() revives.                     *)
(*                                                                         *)
(* An action is one run of the JavaScript event loop up to the next await. *)
(* The only await of a drain is the call of options.publish, so a drain is *)
(* under way exactly while `inFlight' holds a batch.                       *)
(*                                                                         *)
(* Timestamps are ages: Tick makes every one of them a step older, up to   *)
(* the largest value the code tells apart, so that time has no bound.  How *)
(* long a timer waits is left out: an armed timer may fire at any moment.  *)
(***************************************************************************)
EXTENDS Integers, Sequences, FiniteSets

CONSTANTS
    Features,       \* feature external ids the network reports
    Sampled,        \* those whose queued value is overwritten in place
    Events,         \* those whose every occurrence counts
    Creatable,      \* those whose device may be created or deleted meanwhile
    Values,         \* the states a feature may take
    MaxPerRequest,  \* MAX_STATES_PER_REQUEST
    MaxPerMinute,   \* MAX_STATES_PER_MINUTE, also QUEUE_HIGH_WATER_MARK
    HardFactor,     \* QUEUE_HARD_LIMIT is HardFactor * MAX_STATES_PER_MINUTE
    Window,         \* BUDGET_WINDOW_MS, in ticks
    DedupTTL,       \* DEDUP_TTL_MS, in ticks
    MaxPush,        \* bound: how many states are accepted into the queue
    MaxLost         \* bound: how many batches the host stores without the
                    \* publisher being told so

ASSUME FeaturesAssumption ==
    /\ Sampled \subseteq Features
    /\ Events \subseteq Features
    /\ Creatable \subseteq Features
    /\ Sampled \cap Events = {}
ASSUME LimitsAssumption ==
    /\ MaxPerRequest \in Nat \ {0}
    /\ MaxPerMinute \in Nat \ {0}
    /\ HardFactor \in Nat \ {0}
ASSUME TimeAssumption == Window \in Nat \ {0} /\ DedupTTL \in Nat \ {0}
ASSUME BoundsAssumption == MaxPush \in Nat /\ MaxLost \in Nat

HighWater == MaxPerMinute
HardLimit == HardFactor * MaxPerMinute

VARIABLES
    known,          \* what knownFeatures() answers
    queue,          \* entries [feature, state, no]; `no' identifies the report
    sampledIndex,   \* sampled feature -> position in the queue
    lastPublished,  \* feature -> [state, age]
    sentAt,         \* report number -> age, for the states the host accepted
    timer,          \* whether a flush is scheduled
    inFlight,       \* the batch publish() was called with, <<>> if none
    stopped,
    \* What the code does not keep, but the properties talk about:
    arrived,        \* the host has stored the batch in flight
    told,           \* feature -> [state, no] the host was last told
    blank,          \* features deleted since Gladys last stored a state of them
    deleted,        \* features deleted since their last state was accepted
    received,       \* <<no, lost>> -> age, for what the host stored in its
                    \* current window
    reported,       \* feature -> value last pushed while its device existed
    owed,           \* events queued, less the events acknowledged
    cutEvents,      \* events the hard limit dropped
    cut,            \* features whose newest state the hard limit dropped
    pushes, lost    \* counters behind MaxPush and MaxLost

code == <<known, queue, sampledIndex, lastPublished, sentAt, timer, inFlight,
          stopped>>
ghosts == <<arrived, told, blank, deleted, received, reported, owed, cutEvents,
            cut, pushes, lost>>
vars == <<known, queue, sampledIndex, lastPublished, sentAt, timer, inFlight,
          stopped, arrived, told, blank, deleted, received, reported, owed,
          cutEvents, cut, pushes, lost>>

Flushing == inFlight # <<>>

-----------------------------------------------------------------------------
(* Operators on queues and maps. *)

Put(map, key, value) ==
    [x \in DOMAIN map \cup {key} |-> IF x = key THEN value ELSE map[x]]

Without(map, keys) == [x \in DOMAIN map \ keys |-> map[x]]

Entry == [feature : Features, state : Values, no : 1..MaxPush]

FeaturesIn(q) == {q[i].feature : i \in DOMAIN q}
NumbersIn(q) == {q[i].no : i \in DOMAIN q}
EventsIn(q) == {i \in DOMAIN q : q[i].feature \in Events}

\* Position of the newest entry of feature f, which q holds.
LastOf(q, f) ==
    CHOOSE i \in DOMAIN q :
        q[i].feature = f /\ \A j \in DOMAIN q : q[j].feature = f => j <= i

\* The j-th smallest of a set of positions, and the entries at these positions.
Nth(I, j) == CHOOSE i \in I : Cardinality({k \in I : k <= i}) = j
Keep(q, I) == [j \in 1..Cardinality(I) |-> q[Nth(I, j)]]

Smaller(a, b) == IF a <= b THEN a ELSE b

\* reindex(): a later entry of the same feature takes the place of an earlier.
Reindex(q) == [f \in FeaturesIn(q) \cap Sampled |-> LastOf(q, f)]

\* Faulty variants of Requeue: the batch goes behind, nothing is superseded,
\* the batch wins over what is fresher.
RequeueBehind(batch, q) == q \o batch
RequeueAll(batch, q) == batch \o q
RequeueStale(batch, q) ==
    batch \o Keep(q, {i \in DOMAIN q : q[i].feature \notin FeaturesIn(batch)})

\* requeue(): back in front, but never over a fresher value.
Requeue(batch, q) ==
    LET superseded == FeaturesIn(q) \ Events
    IN  Keep(batch, {i \in DOMAIN batch : batch[i].feature \notin superseded}) \o q

\* Faulty variants of Thin: only first values are kept, or events are thinned.
ThinToFirst(q) ==
    Keep(q, {i \in DOMAIN q :
        \/ q[i].feature \in Events
        \/ \A j \in DOMAIN q : q[j].feature = q[i].feature => i <= j})
ThinEvents(q) ==
    Keep(q, {i \in DOMAIN q :
        \/ \A j \in DOMAIN q : q[j].feature = q[i].feature => i <= j
        \/ \A j \in DOMAIN q : q[j].feature = q[i].feature => j <= i})

\* The part of degrade() that drops intermediate states.
Thin(q) ==
    Keep(q, {i \in DOMAIN q :
        \/ q[i].feature \in Events
        \/ \A j \in DOMAIN q : q[j].feature = q[i].feature => i <= j
        \/ \A j \in DOMAIN q : q[j].feature = q[i].feature => j <= i})

\* enforceHardLimit(): the oldest entries go.
EnforceHardLimit(q) ==
    IF Len(q) <= HardLimit THEN q ELSE SubSeq(q, Len(q) - HardLimit + 1, Len(q))

Degrade(q) == IF Len(q) <= HighWater THEN q ELSE EnforceHardLimit(Thin(q))

-----------------------------------------------------------------------------
Init ==
    /\ known \in {K \in SUBSET Features : Features \ K \subseteq Creatable}
    /\ queue = <<>> /\ inFlight = <<>>
    /\ sampledIndex = <<>> /\ lastPublished = <<>> /\ sentAt = <<>>
    /\ timer = FALSE /\ stopped = FALSE
    /\ arrived = FALSE
    /\ told = <<>> /\ blank = {} /\ deleted = {}
    /\ received = <<>> /\ reported = <<>>
    /\ owed = 0 /\ cutEvents = 0 /\ cut = {} /\ pushes = 0 /\ lost = 0

\* The user creates or deletes a device: knownFeatures() answers differently.
\* Gladys loses the states of a device it deletes; nothing of the publisher is
\* cleared, lastPublished least of all.
DeviceCreated(f) ==
    /\ f \notin known
    /\ known' = known \cup {f}
    /\ UNCHANGED <<queue, sampledIndex, lastPublished, sentAt, timer, inFlight, stopped, ghosts>>
DeviceDeleted(f) ==
    /\ f \in known
    /\ known' = known \ {f}
    /\ blank' = blank \cup {f}
    /\ deleted' = deleted \cup {f}
    /\ reported' = Without(reported, {f})
    /\ UNCHANGED <<queue, sampledIndex, lastPublished, sentAt, timer, inFlight, stopped,
                   arrived, told, received, owed, cutEvents, cut, pushes, lost>>

\* The dedup test of push().  An entry as old as DedupTTL no longer suppresses.
Repeated(f, v) ==
    /\ f \notin Events
    /\ f \in DOMAIN lastPublished
    /\ lastPublished[f].state = v
    /\ lastPublished[f].age < DedupTTL

\* push() of a state the code drops, because the host has it or is about to,
\* or had it of a device deleted and created again.
PushSuppressed(f, v) ==
    /\ f \in known
    /\ Repeated(f, v)
    /\ reported' = Put(reported, f, v)
    /\ UNCHANGED <<code, arrived, told, blank, deleted, received, owed, cutEvents,
                   cut, pushes, lost>>

\* Where push() overwrites instead of appending: sampledIndex, if it points
\* at an entry.
HasSlot(f) ==
    f \in Sampled /\ f \in DOMAIN sampledIndex /\ sampledIndex[f] \in DOMAIN queue

\* The queue and its index after push() of a state it does not drop.
Enqueue(f, v, no) ==
    IF HasSlot(f)
      THEN /\ queue' = [queue EXCEPT ![sampledIndex[f]] =
                            [feature |-> @.feature, state |-> v, no |-> no]]
           /\ UNCHANGED sampledIndex
      ELSE /\ queue' = Append(queue, [feature |-> f, state |-> v, no |-> no])
           /\ sampledIndex' = IF f \in Sampled
                              THEN Put(sampledIndex, f, Len(queue) + 1)
                              ELSE sampledIndex

\* Faulty variant of Schedule: a timer is armed during a flush.
ScheduleAnyway(whileFlushing) == timer \/ ~stopped

\* schedule(): refused while a flush is scheduled or runs, and once stopped.
Schedule(whileFlushing) == timer \/ (~whileFlushing /\ ~stopped)

\* Faulty variant of Retry: asked for inside the loop, where schedule() refuses.
RetryInLoop(ended) == FALSE

\* schedule() in the `finally' of drain(): the flush is over, the timer clear.
Retry(ended) == ~ended

\* push() of a state that enters the queue.
Push(f, v) ==
    /\ pushes < MaxPush
    /\ f \in known
    /\ ~Repeated(f, v)
    /\ pushes' = pushes + 1
    /\ lastPublished' = Put(lastPublished, f, [state |-> v, age |-> 0])
    /\ Enqueue(f, v, pushes + 1)
    /\ timer' = Schedule(Flushing)
    /\ reported' = Put(reported, f, v)
    /\ owed' = IF f \in Events THEN owed + 1 ELSE owed
    /\ cut' = cut \ {f}
    /\ deleted' = deleted \ {f}
    /\ UNCHANGED <<known, sentAt, inFlight, stopped, arrived, told, blank, received,
                   cutEvents, lost>>

-----------------------------------------------------------------------------
(* The drain. *)

\* Faulty variants of Fresh: a timestamp leaves the window a tick early, or never.
FreshTooShort(sent) == {n \in DOMAIN sent : sent[n] + 1 < Window}
FreshForever(sent) == DOMAIN sent

\* availableBudget() first forgets the timestamps that left the window.
Fresh(sent) == {n \in DOMAIN sent : sent[n] < Window}
Prune(sent) == [n \in Fresh(sent) |-> sent[n]]
Budget(sent) == MaxPerMinute - Cardinality(Fresh(sent))

BatchSize(sent, q) == Smaller(Smaller(Budget(sent), MaxPerRequest), Len(q))

\* What the hard limit takes away when it leaves r of the queue q.
CutFrom(q, r) ==
    /\ cutEvents' = cutEvents + Cardinality(EventsIn(q)) - Cardinality(EventsIn(r))
    /\ cut' = cut \cup {f \in FeaturesIn(q) \ Events :
                            \/ f \notin FeaturesIn(r)
                            \/ r[LastOf(r, f)].no # q[LastOf(q, f)].no}

\* The loop of drain() from the top, up to the call of publish or its end,
\* with the timestamps `sent'; `ended' is the value of the field stopped.
DrainedAll(sent) ==
    /\ queue = <<>>
    /\ inFlight' = <<>>
    /\ timer' = FALSE
    /\ sentAt' = sent
    /\ UNCHANGED <<queue, sampledIndex, cutEvents, cut>>

OverBudget(sent, ended) ==
    /\ queue # <<>>
    /\ Budget(sent) <= 0
    /\ sentAt' = Prune(sent)
    /\ queue' = Degrade(queue)
    /\ sampledIndex' = IF Len(queue) <= HighWater THEN sampledIndex ELSE Reindex(queue')
    /\ IF Len(queue) <= HighWater THEN UNCHANGED <<cutEvents, cut>>
                                 ELSE CutFrom(Thin(queue), queue')
    /\ inFlight' = <<>>
    /\ timer' = Retry(ended)

SendBatch(sent) ==
    /\ queue # <<>>
    /\ Budget(sent) > 0
    /\ sentAt' = Prune(sent)
    /\ inFlight' = SubSeq(queue, 1, BatchSize(sent, queue))
    /\ queue' = SubSeq(queue, BatchSize(sent, queue) + 1, Len(queue))
    /\ sampledIndex' = Reindex(queue')
    /\ timer' = FALSE
    /\ UNCHANGED <<cutEvents, cut>>

Drain(sent, ended) ==
    \/ DrainedAll(sent)
    \/ OverBudget(sent, ended)
    \/ SendBatch(sent)

\* The scheduled flush.  No flush is running: a drain clears the timer and
\* schedule() arms none meanwhile.
TimerFires ==
    /\ timer
    /\ ~Flushing
    /\ Drain(sentAt, stopped)
    /\ UNCHANGED <<known, lastPublished, stopped, arrived, told, blank, deleted,
                   received, reported, owed, pushes, lost>>

\* The host stores the batch; its answer is still on the way.  Gladys ignores
\* the states of a device it does not have.
HostStores ==
    /\ Flushing
    /\ ~arrived
    /\ arrived' = TRUE
    /\ told' = [f \in DOMAIN told \cup FeaturesIn(inFlight) |->
                    IF f \in FeaturesIn(inFlight)
                    THEN LET last == inFlight[LastOf(inFlight, f)]
                         IN  [state |-> last.state, no |-> last.no]
                    ELSE told[f]]
    /\ blank' = blank \ (FeaturesIn(inFlight) \cap known)
    /\ received' = [r \in DOMAIN received \cup (NumbersIn(inFlight) \X {lost}) |->
                      IF r \in NumbersIn(inFlight) \X {lost} THEN 0 ELSE received[r]]
    /\ UNCHANGED <<code, deleted, reported, owed, cutEvents, cut, pushes, lost>>

\* publish() resolves: the batch is counted now, and the loop goes on.
Accepted == [n \in DOMAIN sentAt \cup NumbersIn(inFlight) |->
                IF n \in NumbersIn(inFlight) THEN 0 ELSE sentAt[n]]
PublishOk ==
    /\ Flushing
    /\ arrived
    /\ arrived' = FALSE
    /\ owed' = owed - Cardinality(EventsIn(inFlight))
    /\ Drain(Accepted, stopped)
    /\ UNCHANGED <<known, lastPublished, stopped, told, blank, deleted, received,
                   reported, pushes, lost>>

\* publish() rejects, though the host may have stored the batch: it is queued
\* again, the drain gives up and schedules a retry.
PublishFails ==
    /\ Flushing
    /\ arrived => lost < MaxLost
    /\ lost' = IF arrived THEN lost + 1 ELSE lost
    /\ arrived' = FALSE
    /\ queue' = Requeue(inFlight, queue)
    /\ sampledIndex' = Reindex(queue')
    /\ inFlight' = <<>>
    /\ timer' = Retry(stopped)
    /\ UNCHANGED <<known, lastPublished, sentAt, stopped, told, blank, deleted,
                   received, reported, owed, cutEvents, cut, pushes>>

-----------------------------------------------------------------------------
(* Stop and restart.  ZwaveIntegration runs start() and stop() one after the *)
(* other and stop() awaits the drain: while a drain of a stopped publisher   *)
(* runs, neither is called.                                                  *)

MayCall == ~(stopped /\ Flushing)

Stop ==
    /\ MayCall
    /\ stopped' = TRUE
    /\ IF Flushing
         THEN /\ timer' = FALSE
              /\ UNCHANGED <<queue, sampledIndex, sentAt, inFlight, cutEvents, cut>>
         ELSE Drain(sentAt, TRUE)
    /\ UNCHANGED <<known, lastPublished, arrived, told, blank, deleted, received,
                   reported, owed, pushes, lost>>

Reset ==
    /\ MayCall
    /\ lastPublished' = <<>>
    /\ stopped' = FALSE
    /\ UNCHANGED <<known, queue, sampledIndex, sentAt, timer, inFlight, ghosts>>

-----------------------------------------------------------------------------
(* Time. *)

Older(age, limit) == Smaller(age + 1, limit)

Tick ==
    /\ sentAt' = [n \in DOMAIN sentAt |-> Older(sentAt[n], Window)]
    /\ lastPublished' =
         [f \in DOMAIN lastPublished |->
            [state |-> lastPublished[f].state,
             age |-> Older(lastPublished[f].age, DedupTTL)]]
    /\ received' = [r \in {x \in DOMAIN received : received[x] + 1 < Window} |->
                      received[r] + 1]
    /\ UNCHANGED <<known, queue, sampledIndex, timer, inFlight, stopped,
                   arrived, told, blank, deleted, reported, owed, cutEvents, cut,
                   pushes, lost>>

Next ==
    \/ \E f \in Features, v \in Values : Push(f, v) \/ PushSuppressed(f, v)
    \/ \E f \in Creatable : DeviceCreated(f) \/ DeviceDeleted(f)
    \/ TimerFires \/ HostStores \/ PublishOk \/ PublishFails
    \/ Stop \/ Reset
    \/ Tick

Spec == Init /\ [][Next]_vars

\* Node runs an armed timer, time passes, an answer of the host is delivered;
\* and a host that is asked again and again stores a batch in the end.
Fairness ==
    /\ WF_vars(TimerFires) /\ WF_vars(Tick) /\ WF_vars(PublishOk)
    /\ SF_vars(HostStores)

FairSpec == Spec /\ Fairness

-----------------------------------------------------------------------------
(* What a drain of the queue is made of, oldest first. *)

\* What the host has yet to store.
Pipe == (IF arrived THEN <<>> ELSE inFlight) \o queue

\* What Gladys shows.
Gladys == [f \in DOMAIN told \ blank |-> told[f].state]

\* The newest state of f on its way, or else at the host.
HasNewest(f) == f \in FeaturesIn(inFlight \o queue) \cup DOMAIN Gladys
NewestState(f) ==
    LET way == inFlight \o queue
    IN  IF f \in FeaturesIn(way) THEN way[LastOf(way, f)].state ELSE Gladys[f]

AtMostOneSampled(q) ==
    \A i, j \in DOMAIN q :
        (q[i].feature = q[j].feature /\ q[i].feature \in Sampled) => i = j

-----------------------------------------------------------------------------
(* Properties. *)

\* Types; and a timer is never armed while a drain runs, so that TimerFires
\* need not consider joining one.
TypeOK ==
    /\ known \subseteq Features
    /\ queue \in Seq(Entry) /\ inFlight \in Seq(Entry)
    /\ DOMAIN sampledIndex \subseteq Sampled
    /\ DOMAIN lastPublished \subseteq Features
    /\ \A f \in DOMAIN lastPublished :
         lastPublished[f] \in [state : Values, age : 0..DedupTTL]
    /\ DOMAIN sentAt \subseteq 1..MaxPush
    /\ \A n \in DOMAIN sentAt : sentAt[n] \in 0..Window
    /\ DOMAIN received \subseteq (1..MaxPush) \X (0..MaxLost)
    /\ \A r \in DOMAIN received : received[r] \in 0..(Window - 1)
    /\ timer \in BOOLEAN /\ stopped \in BOOLEAN /\ arrived \in BOOLEAN
    /\ timer => ~Flushing
    /\ arrived => Flushing
    /\ blank \subseteq Features /\ deleted \subseteq Features
    /\ DOMAIN told \subseteq Features /\ DOMAIN reported \subseteq Features
    /\ \A f \in DOMAIN told : told[f] \in [state : Values, no : 1..MaxPush]
    /\ \A f \in DOMAIN reported : reported[f] \in Values
    /\ owed \in Int /\ cutEvents \in Int /\ cut \subseteq Features \ Events
    /\ pushes \in 0..MaxPush /\ lost \in 0..MaxLost

\* sampledIndex always points at the one queued entry of each sampled feature,
\* through batching, requeueing and degradation: an overwrite in place
\* (push(), lines 136-145) never hits the entry of another feature, and no
\* sampled feature is queued twice.
IndexConsistent ==
    /\ AtMostOneSampled(queue)
    /\ DOMAIN sampledIndex = FeaturesIn(queue) \cap Sampled
    /\ \A f \in DOMAIN sampledIndex :
         sampledIndex[f] \in DOMAIN queue /\ queue[sampledIndex[f]].feature = f

\* The budget of availableBudget() is the host's: in no window does the host
\* store more states than it accepts, although the publisher counts a batch
\* when its answer comes and the host counted it when it was stored.  A batch
\* whose answer was lost is stored twice and counted once.
HostBudget == lost = 0 => Cardinality(DOMAIN received) <= MaxPerMinute

\* "Batches must land in order" (line 197): the reports of a feature reach the
\* host in the order the network made them, failures and retries included, and
\* none is sent behind a newer one unless the answer to a batch was lost.
InOrder ==
    /\ \A i, j \in DOMAIN Pipe :
         (i < j /\ Pipe[i].feature = Pipe[j].feature) => Pipe[i].no < Pipe[j].no
    /\ lost = 0 =>
         \A i \in DOMAIN Pipe :
           Pipe[i].feature \in DOMAIN told => told[Pipe[i].feature].no < Pipe[i].no

\* "Never the final state" (line 312): the last value the network reported for
\* a feature is what the host ends up with: deduplication, coalescing, batching,
\* requeueing and thinning only ever drop a value that a newer one replaced.
\* Two exceptions: the hard limit cut it; or the device was deleted, created
\* again, and has only repeated since what it said before, which push() drops.
FinalStateKept ==
    \A f \in DOMAIN reported \ (Events \cup cut \cup deleted) :
        HasNewest(f) /\ NewestState(f) = reported[f]

\* Events are occurrences: none is coalesced, superseded or thinned, so that
\* those accepted are acknowledged, cut by the hard limit, or still there.
EventsConserved ==
    owed = cutEvents + Cardinality(EventsIn(queue)) + Cardinality(EventsIn(inFlight))

\* The queue, the batch in flight and the host are the outbox of module Outbox:
\* of every feature the host is told the reports in order, at least once, events
\* one by one, across refusals, lost answers, thinning, stops and restarts.
Reports(q) == {[feature |-> q[i].feature, no |-> q[i].no] : i \in DOMAIN q}
Out == INSTANCE Outbox WITH
    Capacity <- HardLimit,
    said <- pushes,
    pending <- Reports(Pipe),
    unsure <- IF arrived THEN Reports(inFlight) ELSE {},
    shown <- [f \in DOMAIN told |-> told[f].no]
IsOutbox == Out!Spec

\* A queue nothing will send: neither a timer nor a drain, and not stopped.
Stranded == queue # <<>> /\ ~timer /\ ~Flushing /\ ~stopped

\* A retry asked for by a drain is always armed (lines 180-182): no step but
\* the revival by reset() leaves a queue behind that nothing will send.
OnlyRestartStrands ==
    [][(~Stranded /\ Stranded') => (stopped /\ ~stopped')]_vars

\* A queue that is being sent is sent to its end, the last batch answered,
\* through failures and exhausted budgets, unless stop() is called
\* (lines 177-224).
EventuallySent ==
    (queue # <<>> /\ (timer \/ Flushing) /\ ~stopped)
        ~> ((queue = <<>> /\ ~Flushing) \/ stopped)
=============================================================================
