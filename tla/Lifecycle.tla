----------------------------- MODULE Lifecycle ------------------------------
(***************************************************************************)
(* The lifecycle of the integration and of its MQTT link:                  *)
(*   - index.ts: the SDK events that start and stop it;                    *)
(*   - src/runtime/ZwaveIntegration.ts: start(), stop(), their serialized  *)
(*     queue, onConfigUpdated(), applyConfig(), the status banner;         *)
(*   - src/zwave/ZwaveJsUiClient.ts: open() and close(), their own queue,  *)
(*     and the events of the mqtt client.                                  *)
(*                                                                         *)
(* Both queues are chains of promises.  Here a queue is a sequence of      *)
(* calls, each with the await it stands at; what a call does between two   *)
(* awaits, and what the caller of a link operation does when it resolves,  *)
(* is one action.  A call that has nothing to wait for begins in the same  *)
(* drain of microtasks: no event of the host, of the user or of the mqtt   *)
(* library comes in between.                                               *)
(*                                                                         *)
(* The Gladys host delivers configuration updates and the answers to       *)
(* getConfig() in order; status reports reach it in the order of the calls.*)
(***************************************************************************)
EXTENDS Integers, Sequences, FiniteSets, SequencesExt

CONSTANTS
    Brokers,    \* broker settings resolveBroker() may return
    Malformed,  \* those whose URL mqtt.connect() refuses by throwing
    None,       \* no broker settings, no mqtt client
    MaxEvents,  \* bound: SDK lifecycle events and saved configurations
    MaxDrops    \* bound: how often the link goes down or comes up

ASSUME BrokersAssumption == Malformed \subseteq Brokers /\ None \notin Brokers
ASSUME BoundsAssumption == MaxEvents \in Nat /\ MaxDrops \in Nat
ASSUME NumbersAssumption == None \notin Nat

VARIABLES
    online,      \* the last lifecycle event of the SDK was `connected'
    config,      \* what the user saved last: a broker, or None
    lifecycle,   \* queue of start() and stop() calls: [call, at]
    broker,      \* the settings applyConfig() kept
    brokerError, \* whether it kept the error of a malformed URL
    ops,         \* queue of the link: [call, broker, caller, at, ending]
    client,      \* number of the mqtt client, or None
    sockets,     \* number -> [broker, listening, connected, subscribing]:
                 \* the mqtt clients that have not ended
    banner,      \* the last connection status reported to Gladys
    startFailed, \* getConfig() rejected, and nothing was applied since
    events, drops, created  \* counters; `created' numbers the mqtt clients

vars == <<online, config, lifecycle, broker, brokerError, ops, client, sockets,
          banner, startFailed, events, drops, created>>

Init ==
    /\ online = FALSE /\ config \in Brokers \cup {None}
    /\ lifecycle = <<>> /\ ops = <<>>
    /\ broker = None /\ brokerError = FALSE
    /\ client = None /\ sockets = <<>>
    /\ banner = "none" /\ startFailed = FALSE
    /\ events = 0 /\ drops = 0 /\ created = 0

\* client.connected, as the integration sees it.
Connected == client # None /\ sockets[client].connected

-----------------------------------------------------------------------------
(* The queue of start() and stop(). *)

\* Faulty variant of Turn: the calls are not serialized.
TurnAny(queue, i) == TRUE

\* serialize() and enqueue(): a call runs once those before it are over.
Turn(queue, i) == i = 1

Call(name) == [call |-> name, at |-> "queued"]

SdkConnected ==
    /\ events < MaxEvents
    /\ ~online
    /\ online' = TRUE
    /\ lifecycle' = Append(lifecycle, Call("start"))
    /\ events' = events + 1
    /\ UNCHANGED <<config, broker, brokerError, ops, client, sockets, banner,
                   startFailed, drops, created>>

\* A disconnection, or a signal: handleShutdown() calls stop() too.
SdkDisconnected ==
    /\ events < MaxEvents
    /\ online' = FALSE
    /\ lifecycle' = Append(lifecycle, Call("stop"))
    /\ events' = events + 1
    /\ UNCHANGED <<config, broker, brokerError, ops, client, sockets, banner,
                   startFailed, drops, created>>

\* start() asks for the configuration; stop() drains the two publishers.
CallBegins(i) ==
    /\ Turn(lifecycle, i)
    /\ lifecycle[i].at = "queued"
    /\ lifecycle' = [lifecycle EXCEPT ![i].at =
                       IF lifecycle[i].call = "start" THEN "config" ELSE "draining"]
    /\ UNCHANGED <<online, config, broker, brokerError, ops, client, sockets,
                   banner, startFailed, events, drops, created>>

LinkOp(call, settings, caller) ==
    [call |-> call, broker |-> settings, caller |-> caller, at |-> "queued", ending |-> None]

\* brokerError: an absent URL returns before it is cleared.
ErrorAfter(settings) == IF settings = None THEN brokerError ELSE FALSE

\* applyConfig() up to its await: what it keeps, and the operation it queues.
Apply(settings, caller) ==
    /\ brokerError' = ErrorAfter(settings)
    /\ broker' = settings
    /\ ops' = Append(ops, LinkOp(IF settings = None THEN "close" ELSE "open",
                                 settings, caller))

\* Saved again unchanged while the link is up: nothing to do.  start() forces.
AlreadyOpen(settings) == settings # None /\ settings = broker /\ Connected

\* getConfig() answered: start() resets the publishers and applies what it got.
ConfigArrives(i) ==
    /\ lifecycle[i].at = "config"
    /\ lifecycle' = [lifecycle EXCEPT ![i].at = "link"]
    /\ Apply(config, "start")
    /\ startFailed' = FALSE
    /\ UNCHANGED <<online, config, client, sockets, banner, events, drops, created>>

\* getConfig() rejected: index.ts logs it, the next call runs.
ConfigFails(i) ==
    /\ lifecycle[i].at = "config"
    /\ lifecycle' = RemoveAt(lifecycle, i)
    /\ startFailed' = TRUE
    /\ UNCHANGED <<online, config, broker, brokerError, ops, client, sockets,
                   banner, events, drops, created>>

\* The publishers are drained: stop() closes the link.
Drained(i) ==
    /\ lifecycle[i].at = "draining"
    /\ lifecycle' = [lifecycle EXCEPT ![i].at = "link"]
    /\ ops' = Append(ops, LinkOp("close", None, "stop"))
    /\ UNCHANGED <<online, config, broker, brokerError, client, sockets, banner,
                   startFailed, events, drops, created>>

\* The user saves the settings.  onConfigUpdated() is called only while Gladys
\* is connected, and does not wait for start() or stop().
ConfigSaved(settings) ==
    /\ events < MaxEvents
    /\ events' = events + 1
    /\ config' = settings
    /\ IF online
         THEN /\ startFailed' = FALSE
              /\ IF AlreadyOpen(settings)
                   THEN UNCHANGED <<broker, brokerError, ops>>
                   ELSE Apply(settings, "update")
         ELSE UNCHANGED <<broker, brokerError, ops, startFailed>>
    /\ UNCHANGED <<online, lifecycle, client, sockets, banner, drops, created>>

-----------------------------------------------------------------------------
(* The queue of open() and close(). *)

\* Once the operation is over its caller goes on: start() and stop() are over.
\* onConfigUpdated() is not in their queue.
CallerReturns(caller) ==
    LET waiting == {i \in DOMAIN lifecycle :
                      lifecycle[i].at = "link" /\ lifecycle[i].call = caller}
    IN  IF waiting = {} THEN lifecycle
        ELSE RemoveAt(lifecycle, CHOOSE i \in waiting : \A j \in waiting : i <= j)

\* Faulty variant of Refused: the rejected operation stays at the head.
RefusedForEver(i) == ops

\* A rejected operation does not break the chain for the next one.
Refused(i) == RemoveAt(ops, i)

\* Faulty variant of BannerAfter: the error of mqtt.connect() is only logged.
BannerSilent(op) ==
    IF op.call = "close" /\ op.caller # "stop" THEN "notConfigured" ELSE banner

\* What the caller reports when its close() resolves or its open() throws;
\* stop() reports nothing.
BannerAfter(op) ==
    IF op.call = "open" THEN "badUrl"
    ELSE IF op.caller = "stop" THEN banner ELSE "notConfigured"

\* Faulty variant of Forgotten: doClose() keeps the client it ends.
ForgottenNever == client

\* this.client while doClose() waits for the previous client to end, and after.
Forgotten == None

\* The rest of operation i once the previous client, if any, has ended; `left'
\* are the clients that remain.
Finish(i, left) ==
    LET op == ops[i] IN
    \/ /\ op.call = "close"
       /\ ops' = RemoveAt(ops, i)
       /\ sockets' = left
       /\ banner' = BannerAfter(op)
       /\ lifecycle' = CallerReturns(op.caller)
       /\ UNCHANGED <<brokerError, client, created>>
    \/ /\ op.call = "open" /\ op.broker \notin Malformed
       /\ ops' = RemoveAt(ops, i)
       /\ created' = created + 1
       /\ client' = created + 1
       /\ sockets' = [n \in DOMAIN left \cup {created + 1} |->
                        IF n \in DOMAIN left THEN left[n]
                        ELSE [broker |-> op.broker, listening |-> TRUE,
                              connected |-> FALSE, subscribing |-> FALSE]]
       /\ lifecycle' = CallerReturns(op.caller)
       /\ UNCHANGED <<brokerError, banner>>
    \/ /\ op.call = "open" /\ op.broker \in Malformed
       /\ ops' = Refused(i)
       /\ sockets' = left
       /\ brokerError' = TRUE
       /\ banner' = BannerAfter(op)
       /\ lifecycle' = CallerReturns(op.caller)
       /\ UNCHANGED <<client, created>>

\* doClose(): the client is forgotten and its listeners removed before it has
\* ended; without a client there is nothing to wait for.
OpBegins(i) ==
    /\ Turn(ops, i)
    /\ ops[i].at = "queued"
    /\ IF client = None
         THEN Finish(i, sockets)
         ELSE /\ ops' = [ops EXCEPT ![i].at = "ending", ![i].ending = client]
              /\ client' = Forgotten
              /\ sockets' = [sockets EXCEPT ![client].listening = FALSE,
                                            ![client].connected = FALSE]
              /\ UNCHANGED <<brokerError, banner, lifecycle, created>>
    /\ UNCHANGED <<online, config, broker, startFailed, events, drops>>

\* endAsync() is over, successfully or not.
OpEnds(i) ==
    /\ ops[i].at = "ending"
    /\ Finish(i, [n \in DOMAIN sockets \ {ops[i].ending} |-> sockets[n]])
    /\ UNCHANGED <<online, config, broker, startFailed, events, drops>>

-----------------------------------------------------------------------------
(* What the mqtt library reports. *)

Unreachable == banner' = "unreachable"

\* `connect': the client is up, and subscribes.
LinkUp(n) ==
    /\ drops < MaxDrops
    /\ drops' = drops + 1
    /\ sockets[n].listening /\ ~sockets[n].connected
    /\ sockets' = [sockets EXCEPT ![n].connected = TRUE, ![n].subscribing = TRUE]
    /\ UNCHANGED <<online, config, lifecycle, broker, brokerError, ops, client,
                   banner, startFailed, events, created>>

\* The callback of subscribe(): onBrokerConnected() or an error.
Subscribed(n) ==
    /\ sockets[n].subscribing /\ sockets[n].connected
    /\ sockets' = [sockets EXCEPT ![n].subscribing = FALSE]
    /\ banner' = "connected"
    /\ UNCHANGED <<online, config, lifecycle, broker, brokerError, ops, client,
                   startFailed, events, drops, created>>

\* It is no listener: a client that is being ended may still call it.
SubscribeFails(n) ==
    /\ sockets[n].subscribing
    /\ sockets' = [sockets EXCEPT ![n].subscribing = FALSE]
    /\ Unreachable
    /\ UNCHANGED <<online, config, lifecycle, broker, brokerError, ops, client,
                   startFailed, events, drops, created>>

\* `error' and `offline'; the library retries on its own.
LinkDown(n) ==
    /\ drops < MaxDrops
    /\ drops' = drops + 1
    /\ sockets[n].listening
    /\ sockets' = [sockets EXCEPT ![n].connected = FALSE]
    /\ Unreachable
    /\ UNCHANGED <<online, config, lifecycle, broker, brokerError, ops, client,
                   startFailed, events, created>>

-----------------------------------------------------------------------------
\* A call whose turn has come begins in a microtask: nothing else happens before.
Ready(queue) == \E i \in DOMAIN queue : Turn(queue, i) /\ queue[i].at = "queued"

Begins ==
    \/ \E i \in DOMAIN lifecycle : CallBegins(i)
    \/ \E i \in DOMAIN ops : OpBegins(i)

\* An await of a call or of an operation is over.
Resumes ==
    \/ \E i \in DOMAIN lifecycle : ConfigArrives(i) \/ ConfigFails(i) \/ Drained(i)
    \/ \E i \in DOMAIN ops : OpEnds(i)

Idle == ~Ready(lifecycle) /\ ~Ready(ops)

Next ==
    \/ Begins
    \/ /\ Idle
       /\ \/ SdkConnected \/ SdkDisconnected
          \/ \E settings \in Brokers \cup {None} : ConfigSaved(settings)
          \/ Resumes
          \/ \E n \in DOMAIN sockets :
               LinkUp(n) \/ Subscribed(n) \/ SubscribeFails(n) \/ LinkDown(n)

Spec == Init /\ [][Next]_vars

\* The event loop runs what is ready; the host answers getConfig(), the drains
\* of the publishers and endAsync() come to an end (their own modules, and the
\* mqtt library, see to that).
Progress == Begins \/ (Idle /\ Resumes)

FairSpec == Spec /\ WF_vars(Progress)

-----------------------------------------------------------------------------
(* Properties. *)

Quiet == lifecycle = <<>> /\ ops = <<>>

TypeOK ==
    /\ online \in BOOLEAN /\ startFailed \in BOOLEAN /\ brokerError \in BOOLEAN
    /\ config \in Brokers \cup {None} /\ broker \in Brokers \cup {None}
    /\ \A i \in DOMAIN lifecycle :
         /\ \/ lifecycle[i].call = "start" /\ lifecycle[i].at \in {"queued", "config", "link"}
            \/ lifecycle[i].call = "stop" /\ lifecycle[i].at \in {"queued", "draining", "link"}
         /\ i # 1 => lifecycle[i].at = "queued"
    /\ \A i \in DOMAIN ops :
         \/ ops[i].at = "queued"
         \/ i = 1 /\ ops[i].at = "ending" /\ ops[i].ending \in DOMAIN sockets
    /\ client = None \/ client \in DOMAIN sockets
    /\ DOMAIN sockets \subseteq 1..created
    /\ banner \in {"none", "connected", "unreachable", "notConfigured", "badUrl"}

\* "Two overlapping calls would each create one" (ZwaveJsUiClient.ts:36-40):
\* there is never more than one mqtt client, ended ones apart, and the one that
\* listens is the one the integration knows.
AtMostOneClient ==
    /\ Cardinality(DOMAIN sockets) <= 1
    /\ \A n \in DOMAIN sockets : sockets[n].listening => client = n

\* ZwaveIntegration.ts:138-144: a start and a stop that overlap leave the link
\* as the last one wants it.  Once nothing is queued, the link is open to the
\* saved broker if Gladys is connected, and closed otherwise.
LastCallWins ==
    Quiet =>
        IF online /\ ~startFailed /\ config \in Brokers \ Malformed
        THEN client # None /\ sockets[client].broker = config
        ELSE ~startFailed => client = None

\* "Without this the user saves the form and sees strictly nothing"
\* (ZwaveIntegration.ts:205-209): once nothing is queued, missing or malformed
\* settings are what the banner shows, whatever replaced clients, earlier saves
\* or restarts had still to report.
BannerOfSettings ==
    (Quiet /\ online /\ ~startFailed) =>
        /\ config = None => banner = "notConfigured"
        /\ config \in Malformed => banner = "badUrl"

\* "A failed operation must not break the chain for the next one"
\* (ZwaveJsUiClient.ts:62): every start() and stop() comes to an end.
CallsEnd == (lifecycle # <<>>) ~> (lifecycle = <<>>)

\* What the manifest action testConnection() answers.
TestConnection ==
    IF brokerError THEN "badUrl"
    ELSE IF broker = None THEN "notConfigured"
    ELSE IF ~Connected THEN "unreachable" ELSE "connected"

\* Stated at ZwaveIntegration.ts:434, "say the same thing as the status banner
\* this action is meant to explain": once nothing is queued, the action does
\* not report a malformed URL while the banner says the broker is connected.
ActionSaysBanner == (Quiet /\ banner = "connected") => TestConnection # "badUrl"
=============================================================================
