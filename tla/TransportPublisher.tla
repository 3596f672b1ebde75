------------------------- MODULE TransportPublisher -------------------------
(***************************************************************************)
(* src/runtime/TransportPublisher.ts: the transport badge of each device,  *)
(* published to the Gladys host when it changes.  The latest entry of each *)
(* device waits in `pending'; push() and the retry timer queue a send(),   *)
(* sends run one after the other, and each publishes what it captured in   *)
(* batches.  forget() drops the memory of one device, reset() all of it.   *)
(*                                                                         *)
(* An action is one run of the event loop up to the next await.  An entry  *)
(* carries the number of its push, which stands for the identity of the    *)
(* object.  The order of the devices inside a request is left out: any of  *)
(* them may be in the next batch.                                          *)
(***************************************************************************)
EXTENDS Integers, FiniteSets

CONSTANTS
    Devices,        \* external ids of the Z-Wave devices
    Deletable,      \* those the user creates and deletes meanwhile
    Badges,         \* what keyOf() tells apart
    MaxPerRequest,  \* MAX_ENTRIES_PER_REQUEST
    MaxPush,        \* bound: how many entries are pushed
    MaxLost         \* bound: how many batches the host stores without the
                    \* publisher being told so

ASSUME DevicesAssumption == Deletable \subseteq Devices /\ IsFiniteSet(Devices)
ASSUME LimitAssumption == MaxPerRequest \in Nat \ {0}
ASSUME BoundsAssumption == MaxPush \in Nat /\ MaxLost \in Nat

VARIABLES
    known,      \* what knownDevices() answers: the devices Gladys has
    pending,    \* device -> [badge, no], its latest entry not known published
    published,  \* device -> badge the host accepted last
    sends,      \* calls of send() queued, the running one included
    rest,       \* entries the running send captured and has yet to send
    batch,      \* the entries publish() was called with, {} if no send runs
    moved,      \* the generation changed since publish() was called
    failed,     \* a batch of the running send was refused
    retryTimer,
    stopped,
    \* What the code does not keep, but the properties talk about:
    arrived,    \* the host has stored the batch
    host,       \* device -> badge Gladys shows
    latest,     \* device -> last badge pushed in this session
    disowned,   \* devices that a deletion left with a wrong record: of the
                \* others in the request in flight, of its own in the next ones
    pushes, lost

vars == <<known, pending, published, sends, rest, batch, moved, failed,
          retryTimer, stopped, arrived, host, latest, disowned, pushes, lost>>

Entry == [device : Devices, badge : Badges, no : 1..MaxPush]

Put(map, key, value) ==
    [x \in DOMAIN map \cup {key} |-> IF x = key THEN value ELSE map[x]]
Without(map, keys) == [x \in DOMAIN map \ keys |-> map[x]]

Running == batch # {}

-----------------------------------------------------------------------------
Init ==
    /\ known \in {K \in SUBSET Devices : Devices \ K \subseteq Deletable}
    /\ pending = <<>> /\ published = <<>> /\ host = <<>> /\ latest = <<>>
    /\ sends = 0 /\ rest = {} /\ batch = {}
    /\ moved = FALSE /\ failed = FALSE /\ retryTimer = FALSE
    /\ stopped = FALSE /\ arrived = FALSE /\ disowned = {}
    /\ pushes = 0 /\ lost = 0

\* push() of one entry; a stopped publisher refuses it.
Accept(d, b) ==
    /\ pushes < MaxPush
    /\ pushes' = pushes + 1
    /\ pending' = Put(pending, d, [badge |-> b, no |-> pushes + 1])
    /\ sends' = sends + 1
    /\ latest' = Put(latest, d, b)

Push(d, b) ==
    /\ ~stopped
    /\ Accept(d, b)
    /\ UNCHANGED <<known, published, rest, batch, moved, failed, retryTimer,
                   stopped, arrived, host, disowned, lost>>

\* ZwaveIntegration.onDeviceCreated(): the device starts blank, and the badge
\* of its node, if there is one, is pushed in the same turn.
DeviceCreated(d) ==
    /\ d \notin known
    /\ known' = known \cup {d}
    /\ host' = Without(host, {d})
    /\ \/ ~stopped /\ \E b \in Badges : Accept(d, b)
       \/ latest' = Without(latest, {d}) /\ UNCHANGED <<pending, sends, pushes>>
    /\ UNCHANGED <<published, rest, batch, moved, failed, retryTimer, stopped,
                   arrived, disowned, lost>>

\* Faulty variant of Forget: the generation is left alone.
ForgetSilently(devices) ==
    /\ published' = Without(published, devices)
    /\ pending' = Without(pending, devices)
    /\ UNCHANGED moved

\* forget(): of one device or of all; a request in flight is disowned.
Forget(devices) ==
    /\ published' = Without(published, devices)
    /\ pending' = Without(pending, devices)
    /\ moved' = TRUE

\* ZwaveIntegration.onDeviceDeleted().
DeviceDeleted(d) ==
    /\ d \in known
    /\ known' = known \ {d}
    /\ Forget({d})
    /\ host' = Without(host, {d})
    /\ latest' = Without(latest, {d})
    /\ disowned' = disowned \cup ({e.device : e \in batch} \ {d})
                            \cup ({e.device : e \in rest} \cap {d})
    /\ UNCHANGED <<sends, rest, batch, failed, retryTimer, stopped, arrived,
                   pushes, lost>>

-----------------------------------------------------------------------------
(* send(). *)

\* The devices whose pending entry is worth sending.
Changed ==
    {d \in DOMAIN pending :
        d \in known /\ (d \in DOMAIN published => published[d] # pending[d].badge)}

Capture(devices) ==
    {[device |-> d, badge |-> pending[d].badge, no |-> pending[d].no] : d \in devices}

\* Faulty variant of Retry: a refused entry waits for the next report.
RetryNever(refused) == retryTimer

\* scheduleRetry() at the end of a send that was refused something.
Retry(refused) == retryTimer \/ (refused /\ ~stopped)

\* Faulty variant of Slices: everything in one request.
WholeSlice(left) == {left}

\* What the next request may carry of the entries left to send.
Slices(left) ==
    {B \in SUBSET left :
        \/ Cardinality(B) = MaxPerRequest
        \/ B = left /\ Cardinality(left) < MaxPerRequest}

\* The loop over the batches, with the entries `left' to send.
NextBatch(left, refused) ==
    \/ /\ left = {}
       /\ batch' = {} /\ rest' = {} /\ failed' = FALSE
       /\ sends' = sends - 1
       /\ retryTimer' = Retry(refused)
       /\ UNCHANGED moved
    \/ /\ left # {}
       /\ \E B \in Slices(left) :
            /\ batch' = B
            /\ rest' = left \ B
       /\ moved' = FALSE
       /\ failed' = refused
       /\ UNCHANGED <<sends, retryTimer>>

\* A queued send starts: what need not be sent stops waiting.
StartSend ==
    /\ sends > 0
    /\ ~Running
    /\ pending' = Without(pending, DOMAIN pending \ Changed)
    /\ NextBatch(Capture(Changed), FALSE)
    /\ UNCHANGED <<known, published, stopped, arrived, host, latest, disowned, pushes, lost>>

\* The host stores the entries of the devices it has; its answer is on the way.
HostStores ==
    /\ Running
    /\ ~arrived
    /\ arrived' = TRUE
    /\ LET stored == {e \in batch : e.device \in known}
       IN  host' = [d \in DOMAIN host \cup {e.device : e \in stored} |->
                      IF \E e \in stored : e.device = d
                      THEN (CHOOSE e \in stored : e.device = d).badge
                      ELSE host[d]]
    /\ UNCHANGED <<known, pending, published, sends, rest, batch, moved, failed,
                   retryTimer, stopped, latest, disowned, pushes, lost>>

\* Faulty variant of Settled: an entry pushed during the request is dropped.
SettledAlways == {e.device : e \in batch}

\* The devices for which nothing newer was pushed during the request.
Settled == {e.device : e \in {x \in batch :
                /\ x.device \in DOMAIN pending
                /\ pending[x.device].no = x.no}}

\* publish() resolves: unless disowned, the batch is recorded as published.
PublishOk ==
    /\ Running
    /\ arrived
    /\ arrived' = FALSE
    /\ IF moved
         THEN UNCHANGED <<published, pending, disowned>>
         ELSE /\ published' =
                   [d \in DOMAIN published \cup {e.device : e \in batch} |->
                      IF \E e \in batch : e.device = d
                      THEN (CHOOSE e \in batch : e.device = d).badge
                      ELSE published[d]]
              /\ pending' = Without(pending, Settled)
              /\ disowned' = disowned \ {d \in DOMAIN host : \E e \in batch :
                                             e.device = d /\ e.badge = host[d]}
    /\ NextBatch(rest, failed)
    /\ UNCHANGED <<known, stopped, host, latest, pushes, lost>>

\* publish() rejects, though the host may have stored the batch: its entries
\* never left `pending', or a newer one is there.
PublishFails ==
    /\ Running
    /\ arrived => lost < MaxLost
    /\ lost' = IF arrived THEN lost + 1 ELSE lost
    /\ arrived' = FALSE
    /\ NextBatch(rest, TRUE)
    /\ UNCHANGED <<known, pending, published, stopped, host, latest, disowned,
                   pushes>>

RetryFires ==
    /\ retryTimer
    /\ retryTimer' = FALSE
    /\ sends' = IF stopped THEN sends ELSE sends + 1
    /\ UNCHANGED <<known, pending, published, rest, batch, moved, failed, stopped,
                   arrived, host, latest, disowned, pushes, lost>>

-----------------------------------------------------------------------------
(* Stop and restart: ZwaveIntegration runs them one after the other, and     *)
(* stop() awaits the sends that are queued.                                  *)

MayCall == ~(stopped /\ sends > 0)

Stop ==
    /\ MayCall
    /\ stopped' = TRUE
    /\ retryTimer' = FALSE
    /\ UNCHANGED <<known, pending, published, sends, rest, batch, moved, failed,
                   arrived, host, latest, disowned, pushes, lost>>

Reset ==
    /\ MayCall
    /\ Forget(Devices)
    /\ stopped' = FALSE
    /\ latest' = <<>> /\ disowned' = disowned \cap {e.device : e \in rest}
    /\ UNCHANGED <<known, sends, rest, batch, failed, retryTimer, arrived, host,
                   pushes, lost>>

Next ==
    \/ \E d \in Devices, b \in Badges : Push(d, b)
    \/ \E d \in Deletable : DeviceCreated(d) \/ DeviceDeleted(d)
    \/ StartSend \/ HostStores \/ PublishOk \/ PublishFails \/ RetryFires
    \/ Stop \/ Reset

Spec == Init /\ [][Next]_vars

\* Node runs queued work and armed timers and delivers answers; a host that is
\* asked again and again stores a batch in the end.
Fairness ==
    /\ WF_vars(StartSend) /\ WF_vars(RetryFires) /\ WF_vars(PublishOk)
    /\ SF_vars(HostStores)

FairSpec == Spec /\ Fairness

-----------------------------------------------------------------------------
(* Properties. *)

TypeOK ==
    /\ known \subseteq Devices
    /\ DOMAIN pending \subseteq Devices /\ DOMAIN published \subseteq Devices
    /\ DOMAIN host \subseteq Devices /\ DOMAIN latest \subseteq Devices
    /\ \A d \in DOMAIN pending : pending[d] \in [badge : Badges, no : 1..MaxPush]
    /\ \A d \in DOMAIN host : host[d] \in Badges
    /\ \A d \in DOMAIN published : published[d] \in Badges
    /\ \A d \in DOMAIN latest : latest[d] \in Badges
    /\ disowned \subseteq Devices /\ rest \subseteq Entry /\ batch \subseteq Entry
    /\ Cardinality(batch) <= MaxPerRequest
    /\ \A e, f \in batch \cup rest : e.device = f.device => e = f
    /\ sends \in Nat
    /\ Running => sends > 0
    /\ rest # {} => Running
    /\ moved \in BOOLEAN /\ failed \in BOOLEAN /\ arrived \in BOOLEAN
    /\ retryTimer \in BOOLEAN /\ stopped \in BOOLEAN
    /\ pushes \in 0..MaxPush /\ lost \in 0..MaxLost

\* Nothing left to do, short of a new entry.
Quiet == sends = 0 /\ ~retryTimer /\ ~stopped

ShowsLatest(d) == d \in DOMAIN host /\ host[d] = latest[d]

\* "A node going dead then alive while a request is in flight ends up alive"
\* (lines 31-33): once nothing is queued or to be retried, Gladys shows of each
\* device it has the last badge pushed since the session began, provided no
\* answer of the host was lost, and but for what forget() does around a send:
\* it disowns the request in flight of every device, and none of the next.
EndsUpLatest ==
    (Quiet /\ lost = 0) => \A d \in (known \cap DOMAIN latest) \ disowned : ShowsLatest(d)

\* The same, as the comment has it: without that exception.
LatestOfAll == (Quiet /\ lost = 0) => \A d \in known \cap DOMAIN latest : ShowsLatest(d)

\* The entries that wait, but for those Gladys has and that were disowned.
Waiting == DOMAIN pending \ disowned

\* A refused entry is retried on a timer, not by the next report (lines 33-35):
\* no entry waits without a send or a retry to come.
RetryArmed == Waiting # {} => (sends > 0 \/ retryTimer \/ stopped)

\* Refusals and retries come to an end: every entry is published, replaced or
\* dropped, unless stop() is called.
Settles == (Waiting # {} /\ ~stopped) ~> (Waiting = {} \/ stopped)
=============================================================================
