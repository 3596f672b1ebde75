-------------------------- MODULE LifecycleProofs ---------------------------
(***************************************************************************)
(* Theorems about Lifecycle, for every value of its constants: there is    *)
(* one mqtt client at most, whatever the queues hold, and once they are    *)
(* empty the link and the banner are those of the last event.              *)
(***************************************************************************)
EXTENDS Lifecycle, TLAPS, FiniteSetTheorems

Op == [call : {"open", "close"}, broker : Brokers \cup {None},
       caller : {"start", "stop", "update"}, at : {"queued", "ending"},
       ending : Nat \cup {None}]

Socket == [broker : Brokers \cup {None}, listening : BOOLEAN, connected : BOOLEAN,
           subscribing : BOOLEAN]

\* The part of the state the link is about.
LinkType ==
    /\ config \in Brokers \cup {None}
    /\ ops \in Seq(Op)
    /\ sockets \in [DOMAIN sockets -> Socket]
    /\ client \in Nat \cup {None}
    /\ created \in Nat

\* Only the head of the queue has begun.
OneBegun == \A i \in DOMAIN ops : i # 1 => ops[i].at = "queued"

\* A client is being ended: it is the only one, and nobody listens to it.
Ending ==
    /\ ops # <<>> /\ ops[1].at = "ending"
    /\ client = None
    /\ DOMAIN sockets = {ops[1].ending}
    /\ \A n \in DOMAIN sockets : ~sockets[n].listening

\* None is: the client of the integration is the only one, if it has one.
Settled ==
    /\ \A i \in DOMAIN ops : ops[i].at = "queued"
    /\ DOMAIN sockets = IF client = None THEN {} ELSE {client}

\* AtMostOneClient, made inductive.
LinkInv == LinkType /\ OneBegun /\ (Ending \/ Settled)

USE BrokersAssumption, NumbersAssumption

-----------------------------------------------------------------------------
(* Queues: what is appended to one, and what is left when its head is over. *)

LastOf(q) == q[Len(q)]

LEMMA Appended ==
    ASSUME NEW S, NEW q \in Seq(S), NEW x \in S, NEW r, r = Append(q, x)
    PROVE  /\ r \in Seq(S) /\ r # <<>> /\ LastOf(r) = x
           /\ \A i \in DOMAIN q : i \in DOMAIN r /\ r[i] = q[i]
           /\ \A i \in DOMAIN r : i \notin DOMAIN q => r[i] = x
           /\ \A i, j \in DOMAIN r : i = j \/ i \in DOMAIN q \/ j \in DOMAIN q
           /\ q = <<>> \/ 1 \in DOMAIN q
           /\ \E i \in DOMAIN r : r[i] = x
<1>1. /\ r \in Seq(S) /\ Len(r) = Len(q) + 1 /\ Len(q) \in Nat
      /\ r[Len(q) + 1] = x /\ \A i \in 1..Len(q) : r[i] = q[i]
  OBVIOUS
<1>2. DOMAIN q = 1..Len(q) /\ DOMAIN r = 1..Len(q) + 1
  BY <1>1
<1>3. \A i \in 1..Len(q) + 1 : i \in 1..Len(q) \/ i = Len(q) + 1
  BY <1>1
<1>4. Len(q) + 1 \in 1..Len(q) + 1 /\ \A i \in 1..Len(q) : i \in 1..Len(q) + 1
  BY <1>1
<1>5. q = <<>> \/ 1 \in 1..Len(q)
  BY <1>1
<1> QED
  BY <1>1, <1>2, <1>3, <1>4, <1>5 DEF LastOf

LEMMA HeadGone ==
    ASSUME NEW S, NEW q \in Seq(S), q # <<>>, NEW r, r = RemoveAt(q, 1)
    PROVE  /\ r \in Seq(S) /\ 1 \in DOMAIN q
           /\ \A i \in DOMAIN r : i + 1 \in DOMAIN q /\ i + 1 # 1 /\ r[i] = q[i + 1] /\ i \in Nat
           /\ r # <<>> => LastOf(r) = LastOf(q)
           /\ r = <<>> => LastOf(q) = q[1]
           /\ \A i \in DOMAIN q : i # 1 => \E j \in DOMAIN r : r[j] = q[i]
<1>1. Len(q) \in Nat /\ Len(q) >= 1
  OBVIOUS
<1>2. SubSeq(q, 1, 0) = <<>>
  BY <1>1
<1> DEFINE left == SubSeq(q, 2, Len(q))
<1>3. /\ left \in Seq(S) /\ Len(left) = Len(q) - 1
      /\ \A i \in 1..Len(left) : left[i] = q[i + 1]
  <2>1. \A j \in 2..Len(q) : q[j] \in S
    BY <1>1
  <2>2. left = [i \in 1..(Len(q) - 1) |-> q[i + 1]]
    BY <1>1
  <2>3. left \in Seq(S) /\ Len(left) = Len(q) - 1
    <3> HIDE DEF left
    <3>1. Len(q) - 1 \in Nat
      BY <1>1
    <3>2. \A i \in 1..(Len(q) - 1) : q[i + 1] \in S
      <4>1. \A i \in 1..(Len(q) - 1) : i + 1 \in 2..Len(q)
        BY <1>1
      <4> QED
        BY <2>1, <4>1
    <3>3. left \in [1..(Len(q) - 1) -> S]
      BY <2>2, <3>2
    <3>4. left \in Seq(S)
      BY <3>1, <3>3
    <3> QED
      BY <3>1, <3>3, <3>4
  <2> QED
    BY <1>1, <2>2, <2>3
<1>4. r = left
  BY <1>1, <1>2, <1>3 DEF RemoveAt
<1> HIDE DEF left
<1>5. DOMAIN r = 1..Len(q) - 1 /\ DOMAIN q = 1..Len(q) /\ r \in Seq(S) /\ Len(r) = Len(q) - 1
  BY <1>3, <1>4
<1>6. \A i \in 1..Len(q) - 1 : i + 1 \in 1..Len(q) /\ i + 1 # 1 /\ i \in Nat /\ r[i] = q[i + 1]
  BY <1>1, <1>3, <1>4
<1>7. \A i \in 1..Len(q) : i # 1 => i - 1 \in 1..Len(q) - 1 /\ (i - 1) + 1 = i
  BY <1>1
<1>8. r # <<>> => Len(q) - 1 \in 1..Len(q) - 1 /\ (Len(q) - 1) + 1 = Len(q)
  BY <1>1, <1>5
<1>9. r = <<>> => Len(q) = 1
  BY <1>1, <1>5
<1>10. 1 \in 1..Len(q)
  BY <1>1
<1>11. r # <<>> => LastOf(r) = LastOf(q)
  BY <1>5, <1>6, <1>8 DEF LastOf
<1>12. \A i \in DOMAIN q : i # 1 => \E j \in DOMAIN r : r[j] = q[i]
  <2> SUFFICES ASSUME NEW i \in 1..Len(q), i # 1
               PROVE  \E j \in DOMAIN r : r[j] = q[i]
    BY <1>5
  <2>1. i - 1 \in 1..Len(q) - 1 /\ (i - 1) + 1 = i
    BY <1>7
  <2>2. i - 1 \in DOMAIN r /\ r[i - 1] = q[i]
    BY <1>5, <1>6, <2>1
  <2> QED
    BY <2>2
<1> QED
  BY <1>5, <1>6, <1>9, <1>10, <1>11, <1>12 DEF LastOf

\* The head of a queue goes on, the others stay as they are.
LEMMA HeadGoesOn ==
    ASSUME NEW S, NEW q \in Seq(S), 1 \in DOMAIN q, NEW x \in S, NEW r, r = [q EXCEPT ![1] = x]
    PROVE  /\ r \in Seq(S) /\ r # <<>> /\ q # <<>> /\ DOMAIN r = DOMAIN q /\ r[1] = x
           /\ \A i \in DOMAIN q : i # 1 => r[i] = q[i]
           /\ \/ LastOf(r) = x /\ LastOf(q) = q[1] /\ DOMAIN q = {1}
              \/ LastOf(r) = LastOf(q) /\ \E i \in DOMAIN q : i # 1 /\ LastOf(q) = q[i]
<1>1. Len(q) \in Nat /\ Len(q) >= 1
  OBVIOUS
<1>2. r \in Seq(S) /\ DOMAIN r = DOMAIN q /\ r[1] = x /\ \A i \in DOMAIN q : i # 1 => r[i] = q[i]
  OBVIOUS
<1>3. Len(r) = Len(q)
  BY <1>2
<1>4. r # <<>> /\ q # <<>>
  BY <1>1, <1>3
<1>5. DOMAIN q = 1..Len(q) /\ Len(q) \in DOMAIN q
  BY <1>1
<1>6. CASE Len(q) = 1
  BY <1>2, <1>3, <1>4, <1>5, <1>6 DEF LastOf
<1>7. CASE Len(q) # 1
  BY <1>2, <1>3, <1>4, <1>5, <1>7 DEF LastOf
<1> QED
  BY <1>6, <1>7

-----------------------------------------------------------------------------
(* The queue of the link. *)

\* An operation queued behind the others leaves them alone.
LEMMA Queued ==
    ASSUME LinkInv, NEW op \in Op, op.at = "queued", ops' = Append(ops, op),
           UNCHANGED <<sockets, client, created>>, config' \in Brokers \cup {None}
    PROVE  LinkInv'
<1>1. LinkType /\ ops \in Seq(Op) /\ Len(ops) \in Nat
  BY DEF LinkInv, LinkType
<1>2. /\ ops' \in Seq(Op) /\ Len(ops') = Len(ops) + 1 /\ ops' # <<>>
      /\ ops'[Len(ops) + 1] = op
      /\ \A i \in 1..Len(ops) : ops'[i] = ops[i]
  BY <1>1
<1>3. LinkType'
  BY <1>1, <1>2 DEF LinkType
<1>4. \A i \in DOMAIN ops' : (ops'[i] = op) \/ (i \in DOMAIN ops /\ ops'[i] = ops[i])
  <2>1. DOMAIN ops = 1..Len(ops) /\ DOMAIN ops' = 1..(Len(ops) + 1)
    BY <1>1, <1>2
  <2>2. \A i \in 1..(Len(ops) + 1) : i = Len(ops) + 1 \/ i \in 1..Len(ops)
    BY <1>1
  <2> QED
    BY <1>2, <2>1, <2>2
<1>5. OneBegun'
  BY <1>4 DEF LinkInv, OneBegun
<1>6. CASE Ending
  <2>1. Len(ops) >= 1 /\ ops'[1] = ops[1]
    BY <1>1, <1>2, <1>6 DEF Ending
  <2> QED
    BY <1>2, <1>3, <1>5, <1>6, <2>1 DEF LinkInv, Ending
<1>7. CASE Settled
  BY <1>3, <1>4, <1>5, <1>7 DEF LinkInv, Settled
<1> QED
  BY <1>6, <1>7 DEF LinkInv

\* The operations left once the head is over have not begun.
LEMMA HeadOver ==
    ASSUME LinkType, OneBegun, ops # <<>>
    PROVE  /\ RemoveAt(ops, 1) \in Seq(Op)
           /\ \A i \in DOMAIN RemoveAt(ops, 1) : RemoveAt(ops, 1)[i].at = "queued"
<1>1. ops \in Seq(Op)
  BY DEF LinkType
<1>2. /\ RemoveAt(ops, 1) \in Seq(Op)
      /\ \A i \in DOMAIN RemoveAt(ops, 1) :
           i + 1 \in DOMAIN ops /\ i + 1 # 1 /\ RemoveAt(ops, 1)[i] = ops[i + 1]
  BY <1>1, HeadGone
<1> QED
  BY <1>2 DEF OneBegun

\* What an operation does once the previous client has ended: at most the one
\* it creates is left.
LEMMA Finished ==
    ASSUME LinkType, OneBegun, ops # <<>>, client = None,
           NEW left, DOMAIN left = {}, left \in [{} -> Socket],
           Finish(1, left), UNCHANGED config
    PROVE  LinkInv'
<1>1. ops[1] \in Op
  BY DEF LinkType
<1>2. ops' = RemoveAt(ops, 1)
  BY DEF Finish, Refused
<1>3. ops' \in Seq(Op) /\ \A i \in DOMAIN ops' : ops'[i].at = "queued"
  BY <1>2, HeadOver
<1>4. CASE sockets' = left /\ UNCHANGED <<client, created>>
  BY <1>3, <1>4 DEF LinkInv, LinkType, OneBegun, Settled
<1>5. CASE /\ created' = created + 1 /\ client' = created + 1
           /\ sockets' = [n \in DOMAIN left \cup {created + 1} |->
                            IF n \in DOMAIN left THEN left[n]
                            ELSE [broker |-> ops[1].broker, listening |-> TRUE,
                                  connected |-> FALSE, subscribing |-> FALSE]]
  <2>1. created + 1 \in Nat /\ created + 1 # None
    BY DEF LinkType
  <2>2. DOMAIN sockets' = {created + 1}
    BY <1>5
  <2>3. [broker |-> ops[1].broker, listening |-> TRUE,
         connected |-> FALSE, subscribing |-> FALSE] \in Socket
    BY <1>1 DEF Op, Socket
  <2>4. sockets' \in [DOMAIN sockets' -> Socket]
    BY <1>5, <2>2, <2>3
  <2> QED
    BY <1>3, <1>5, <2>1, <2>2, <2>4 DEF LinkInv, LinkType, OneBegun, Settled
<1> QED
  BY <1>4, <1>5 DEF Finish

\* A step of the mqtt library changes no more than what a client reports.
LEMMA Reported ==
    ASSUME LinkInv, NEW n \in DOMAIN sockets, NEW s \in Socket,
           sockets' = [sockets EXCEPT ![n] = s], s.listening => sockets[n].listening,
           UNCHANGED <<config, ops, client, created>>
    PROVE  LinkInv'
<1>1. DOMAIN sockets' = DOMAIN sockets /\ sockets' \in [DOMAIN sockets' -> Socket]
  BY DEF LinkInv, LinkType
<1>2. \A m \in DOMAIN sockets' : sockets'[m].listening => sockets[m].listening
  BY DEF LinkInv, LinkType
<1> QED
  BY <1>1, <1>2 DEF LinkInv, LinkType, OneBegun, Ending, Settled

-----------------------------------------------------------------------------
(* The invariant. *)

LEMMA LinkInvariant == Spec => []LinkInv
<1>1. Init => LinkInv
  BY DEF Init, LinkInv, LinkType, OneBegun, Settled
<1>2. LinkInv /\ [Next]_vars => LinkInv'
  <2> SUFFICES ASSUME LinkInv, [Next]_vars PROVE LinkInv'
    OBVIOUS
  <2>1. config \in Brokers \cup {None} /\ LinkType /\ OneBegun
    BY DEF LinkInv, LinkType
  <2>2. \A settings \in Brokers \cup {None}, caller \in {"start", "stop", "update"},
           call \in {"open", "close"} :
          /\ LinkOp(call, settings, caller) \in Op
          /\ LinkOp(call, settings, caller).at = "queued"
    BY DEF LinkOp, Op
  <2>3. ASSUME UNCHANGED <<config, ops, client, sockets, created>>
        PROVE  LinkInv'
    BY <2>3 DEF LinkInv, LinkType, OneBegun, Ending, Settled
  <2>4. CASE SdkConnected \/ SdkDisconnected
    BY <2>3, <2>4 DEF SdkConnected, SdkDisconnected
  <2>5. ASSUME NEW settings \in Brokers \cup {None}, ConfigSaved(settings)
        PROVE  LinkInv'
    <3>1. config' = settings /\ UNCHANGED <<client, sockets, created>>
      BY <2>5 DEF ConfigSaved
    <3>2. CASE online /\ ~AlreadyOpen(settings)
      <4>1. Apply(settings, "update")
        BY <2>5, <3>2 DEF ConfigSaved
      <4> QED
        BY <2>2, <3>1, <4>1, Queued DEF Apply
    <3>3. CASE ~online \/ AlreadyOpen(settings)
      <4>1. UNCHANGED ops
        BY <2>5, <3>3 DEF ConfigSaved
      <4> QED
        BY <3>1, <4>1 DEF LinkInv, LinkType, OneBegun, Ending, Settled
    <3> QED
      BY <3>2, <3>3
  <2>6. ASSUME NEW i \in DOMAIN lifecycle,
               CallBegins(i) \/ ConfigArrives(i) \/ ConfigFails(i) \/ Drained(i)
        PROVE  LinkInv'
    <3>1. CASE CallBegins(i) \/ ConfigFails(i)
      BY <2>3, <3>1 DEF CallBegins, ConfigFails
    <3>2. CASE ConfigArrives(i)
      BY <2>1, <2>2, <3>2, Queued DEF ConfigArrives, Apply
    <3>3. CASE Drained(i)
      BY <2>1, <2>2, <3>3, Queued DEF Drained
    <3> QED
      BY <2>6, <3>1, <3>2, <3>3
  <2>7. ASSUME NEW i \in DOMAIN ops, OpBegins(i)
        PROVE  LinkInv'
    <3>1. i = 1 /\ ops # <<>> /\ ops[1].at = "queued" /\ UNCHANGED config
      BY <2>7 DEF OpBegins, Turn, LinkInv, LinkType
    <3>2. Settled
      BY <3>1 DEF LinkInv, Ending
    <3>3. CASE client = None
      <4>1. DOMAIN sockets = {} /\ sockets \in [{} -> Socket] /\ Finish(1, sockets)
        BY <2>1, <2>7, <3>1, <3>2, <3>3 DEF OpBegins, Settled, LinkType
      <4> QED
        BY <2>1, <3>1, <3>3, <4>1, Finished
    <3>4. CASE client # None
      <4>1. /\ ops' = [ops EXCEPT ![1].at = "ending", ![1].ending = client]
            /\ client' = None /\ UNCHANGED created
            /\ sockets' = [sockets EXCEPT ![client].listening = FALSE,
                                          ![client].connected = FALSE]
        BY <2>7, <3>1, <3>4 DEF OpBegins, Forgotten
      <4>2. DOMAIN sockets = {client} /\ client \in Nat /\ sockets[client] \in Socket
        BY <2>1, <3>2, <3>4 DEF Settled, LinkType
      <4>3. ops \in Seq(Op) /\ 1 \in DOMAIN ops /\ ops[1] \in Op
        BY <2>1, <2>7, <3>1 DEF LinkType
      <4>4. /\ ops' \in Seq(Op) /\ ops' # <<>> /\ DOMAIN ops' = DOMAIN ops
            /\ ops'[1].at = "ending" /\ ops'[1].ending = client
            /\ \A j \in DOMAIN ops' : j # 1 => ops'[j] = ops[j]
        <5>1. [ops[1] EXCEPT !.at = "ending", !.ending = client] \in Op
          BY <4>2, <4>3 DEF Op
        <5>2. ops' = [ops EXCEPT ![1] = [ops[1] EXCEPT !.at = "ending", !.ending = client]]
          BY <4>1, <4>3
        <5> DEFINE begun == [ops[1] EXCEPT !.at = "ending", !.ending = client]
        <5>3. begun.at = "ending" /\ begun.ending = client
          BY <4>3 DEF Op
        <5> HIDE DEF begun
        <5>4. ops' = [ops EXCEPT ![1] = begun] /\ begun \in Op
          BY <5>1, <5>2 DEF begun
        <5>5. ops' \in Seq(Op) /\ Len(ops') = Len(ops) /\ DOMAIN ops' = DOMAIN ops
          BY <4>3, <5>4
        <5>6. ops'[1] = begun /\ \A j \in DOMAIN ops' : j # 1 => ops'[j] = ops[j]
          BY <4>3, <5>4
        <5>7. ops' # <<>>
          BY <4>3, <5>5
        <5> QED
          BY <5>3, <5>5, <5>6, <5>7
      <4>5. /\ DOMAIN sockets' = {client} /\ sockets' \in [DOMAIN sockets' -> Socket]
            /\ ~sockets'[client].listening
        <5>1. [sockets[client] EXCEPT !.listening = FALSE, !.connected = FALSE] \in Socket
          BY <4>2 DEF Socket
        <5>2. sockets' = [sockets EXCEPT ![client] =
                            [sockets[client] EXCEPT !.listening = FALSE, !.connected = FALSE]]
          BY <2>1, <4>1, <4>2 DEF LinkType
        <5> QED
          BY <2>1, <4>2, <5>1, <5>2 DEF LinkType, Socket
      <4>6. LinkType' /\ OneBegun' /\ Ending'
        BY <2>1, <3>1, <4>1, <4>4, <4>5 DEF LinkType, OneBegun, Ending
      <4> QED
        BY <4>6 DEF LinkInv
    <3> QED
      BY <3>3, <3>4
  <2>8. ASSUME NEW i \in DOMAIN ops, OpEnds(i)
        PROVE  LinkInv'
    <3>1. ops[i].at = "ending" /\ i = 1 /\ Ending
      BY <2>1, <2>8 DEF OpEnds, OneBegun, LinkInv, Settled
    <3> DEFINE left == [n \in DOMAIN sockets \ {ops[i].ending} |-> sockets[n]]
    <3>2. DOMAIN left = {} /\ left \in [{} -> Socket]
      BY <3>1 DEF Ending
    <3>3. Finish(1, left) /\ UNCHANGED config
      BY <2>8, <3>1 DEF OpEnds
    <3>4. ops # <<>> /\ client = None
      BY <3>1 DEF Ending
    <3> HIDE DEF left
    <3> QED
      BY <2>1, <3>2, <3>3, <3>4, Finished
  <2>9. ASSUME NEW n \in DOMAIN sockets,
               LinkUp(n) \/ Subscribed(n) \/ SubscribeFails(n) \/ LinkDown(n)
        PROVE  LinkInv'
    <3>1. sockets[n] \in Socket
      BY <2>1 DEF LinkType
    <3>2. PICK s \in Socket : /\ sockets' = [sockets EXCEPT ![n] = s]
                              /\ s.listening = sockets[n].listening
      <4>1. CASE LinkUp(n)
        <5> DEFINE up == [sockets[n] EXCEPT !.connected = TRUE, !.subscribing = TRUE]
        <5>1. up \in Socket /\ up.listening = sockets[n].listening
          BY <3>1 DEF Socket
        <5>2. sockets' = [sockets EXCEPT ![n] = up]
          BY <2>1, <4>1 DEF LinkUp, LinkType
        <5> QED
          BY <5>1, <5>2
      <4>2. CASE Subscribed(n) \/ SubscribeFails(n)
        BY <3>1, <4>2 DEF Subscribed, SubscribeFails, Socket
      <4>3. CASE LinkDown(n)
        <5> DEFINE down == [sockets[n] EXCEPT !.connected = FALSE]
        <5>1. down \in Socket /\ down.listening = sockets[n].listening
          BY <3>1 DEF Socket
        <5>2. sockets' = [sockets EXCEPT ![n] = down]
          BY <2>1, <4>3 DEF LinkDown, LinkType
        <5> QED
          BY <5>1, <5>2
      <4> QED
        BY <2>9, <4>1, <4>2, <4>3
    <3>3. UNCHANGED <<config, ops, client, created>>
      BY <2>9 DEF LinkUp, Subscribed, SubscribeFails, LinkDown
    <3> QED
      BY <3>2, <3>3, Reported
  <2>10. CASE UNCHANGED vars
    BY <2>3, <2>10 DEF vars
  <2> QED
    BY <2>4, <2>5, <2>6, <2>7, <2>8, <2>9, <2>10 DEF Next, Begins, Resumes
<1> QED
  BY <1>1, <1>2, PTL DEF Spec

\* There is one mqtt client at most, ended ones apart, and only the one the
\* integration knows is listened to: ZwaveJsUiClient.ts queues open() and
\* close() so that two that overlap do not each create one.
THEOREM OneClient == Spec => []AtMostOneClient
<1>1. LinkInv => AtMostOneClient
  <2> SUFFICES ASSUME LinkInv PROVE AtMostOneClient
    OBVIOUS
  <2>1. DOMAIN sockets = {} \/ \E n : DOMAIN sockets = {n}
    BY DEF LinkInv, Ending, Settled
  <2>2. Cardinality(DOMAIN sockets) <= 1
    <3>1. CASE DOMAIN sockets = {}
      BY <3>1, FS_EmptySet
    <3>2. ASSUME NEW n, DOMAIN sockets = {n} PROVE Cardinality(DOMAIN sockets) <= 1
      <4>1. Cardinality({n}) = 1
        BY FS_Singleton
      <4> QED
        BY <3>2, <4>1
    <3> QED
      BY <2>1, <3>1, <3>2
  <2>3. \A n \in DOMAIN sockets : sockets[n].listening => client = n
    BY DEF LinkInv, Ending, Settled
  <2> QED
    BY <2>2, <2>3 DEF AtMostOneClient
<1> QED
  BY <1>1, LinkInvariant, PTL

-----------------------------------------------------------------------------
(* The queue of start() and stop(). *)

LifeCall == [call : {"start"}, at : {"queued", "config", "link"}]
              \cup [call : {"stop"}, at : {"queued", "draining", "link"}]

\* Only the head of the queue has begun, and its last call is the last event
\* of the SDK.
CallsInv ==
    /\ lifecycle \in Seq(LifeCall)
    /\ \A i \in DOMAIN lifecycle : i # 1 => lifecycle[i].at = "queued"
    /\ lifecycle # <<>> => (online <=> LastOf(lifecycle).call = "start")

\* A start() or stop() that waits for the link has its operation in the queue of
\* the link, which holds no other but those of saved settings.
Awaited ==
    /\ \A i, j \in DOMAIN ops :
         ops[i].caller # "update" /\ ops[j].caller # "update" => i = j
    /\ \A i \in DOMAIN ops : ops[i].caller # "update" =>
         /\ lifecycle # <<>>
         /\ lifecycle[1].call = ops[i].caller /\ lifecycle[1].at = "link"
    /\ lifecycle # <<>> /\ lifecycle[1].at = "link" =>
         \E j \in DOMAIN ops : ops[j].caller = lifecycle[1].call

\* The operation at the head is over: so is its caller, if it is not an update.
LEMMA CallerReturned ==
    ASSUME CallsInv, Awaited, ops \in Seq(Op), ops # <<>>
    PROVE  \/ /\ ops[1].caller = "update"
              /\ CallerReturns(ops[1].caller) = lifecycle
           \/ /\ ops[1].caller # "update"
              /\ lifecycle # <<>> /\ lifecycle[1].call = ops[1].caller
              /\ lifecycle[1].at = "link"
              /\ CallerReturns(ops[1].caller) = RemoveAt(lifecycle, 1)
<1> DEFINE waiting == {i \in DOMAIN lifecycle :
                         lifecycle[i].at = "link" /\ lifecycle[i].call = ops[1].caller}
<1>1. ops[1] \in Op /\ 1 \in DOMAIN ops
  OBVIOUS
<1>2. \A i \in DOMAIN lifecycle : lifecycle[i] \in LifeCall
  BY DEF CallsInv
<1>3. CASE ops[1].caller = "update"
  <2>1. waiting = {}
    BY <1>2, <1>3 DEF LifeCall
  <2> QED
    BY <1>3, <2>1 DEF CallerReturns
<1>4. CASE ops[1].caller # "update"
  <2>1. lifecycle # <<>> /\ lifecycle[1].call = ops[1].caller /\ lifecycle[1].at = "link"
    BY <1>1, <1>4 DEF Awaited
  <2>2. 1 \in DOMAIN lifecycle
    BY <2>1 DEF CallsInv
  <2>3. waiting = {1}
    BY <2>1, <2>2 DEF CallsInv
  <2>4. (CHOOSE i \in waiting : \A j \in waiting : i <= j) = 1
    BY <2>3
  <2> QED
    BY <1>4, <2>1, <2>3, <2>4 DEF CallerReturns
<1> QED
  BY <1>3, <1>4

\* What an operation that is over leaves: of its queue, of the queue of the calls,
\* and of the link.
Over(op) ==
    /\ ops # <<>> /\ op = ops[1] /\ client = None
    /\ ops' = RemoveAt(ops, 1)
    /\ \/ op.caller = "update" /\ lifecycle' = lifecycle
       \/ /\ op.caller # "update"
          /\ lifecycle # <<>> /\ lifecycle[1].call = op.caller /\ lifecycle[1].at = "link"
          /\ lifecycle' = RemoveAt(lifecycle, 1)
    /\ \/ /\ op.call = "close" \/ op.broker \in Malformed
          /\ client' = None /\ DOMAIN sockets' = {} /\ UNCHANGED created
          /\ banner' = BannerAfter(op)
       \/ /\ op.call = "open" /\ op.broker \notin Malformed
          /\ client' = created + 1 /\ DOMAIN sockets' = {created + 1} /\ created' = created + 1
          /\ sockets'[created + 1].broker = op.broker
          /\ UNCHANGED banner
    /\ UNCHANGED <<online, config, broker, startFailed>>
    /\ brokerError' \in {brokerError, TRUE}

LEMMA FinishOver ==
    ASSUME CallsInv, Awaited, LinkInv, ops # <<>>, client = None,
           NEW left, DOMAIN left = {}, Finish(1, left),
           UNCHANGED <<online, config, broker, startFailed>>
    PROVE  Over(ops[1])
<1>1. ops \in Seq(Op) /\ ops' = RemoveAt(ops, 1)
  BY DEF LinkInv, LinkType, Finish, Refused
<1>2. lifecycle' = CallerReturns(ops[1].caller)
  BY DEF Finish
<1>3. ops[1] \in Op
  BY <1>1
<1>4. ops[1].call = "open" \/ ops[1].call = "close"
  BY <1>3 DEF Op
<1>5. CASE ops[1].call = "close" \/ ops[1].broker \in Malformed
  <2>1. /\ client' = None /\ DOMAIN sockets' = {} /\ UNCHANGED created
        /\ banner' = BannerAfter(ops[1]) /\ brokerError' \in {brokerError, TRUE}
    BY <1>5 DEF Finish
  <2> QED
    BY <1>1, <1>2, <1>5, <2>1, CallerReturned DEF Over
<1>6. CASE ops[1].call = "open" /\ ops[1].broker \notin Malformed
  <2>1. /\ client' = created + 1 /\ created' = created + 1 /\ UNCHANGED <<banner, brokerError>>
        /\ sockets' = [n \in DOMAIN left \cup {created + 1} |->
                         IF n \in DOMAIN left THEN left[n]
                         ELSE [broker |-> ops[1].broker, listening |-> TRUE,
                               connected |-> FALSE, subscribing |-> FALSE]]
    BY <1>6 DEF Finish
  <2>2. DOMAIN sockets' = {created + 1} /\ sockets'[created + 1].broker = ops[1].broker
    BY <2>1
  <2> QED
    BY <1>1, <1>2, <1>6, <2>1, <2>2, CallerReturned DEF Over
<1> QED
  BY <1>4, <1>5, <1>6

-----------------------------------------------------------------------------
(* What each step is, as far as the queues and the settings go. *)

Same(f, g) == f.call = g.call /\ f.broker = g.broker /\ f.caller = g.caller

\* An event of the SDK.
Called ==
    \E c \in LifeCall :
      /\ lifecycle' = Append(lifecycle, c) /\ c.at = "queued"
      /\ online' = (c.call = "start")
      /\ UNCHANGED <<config, broker, brokerError, ops, client, sockets, banner, startFailed, created>>

\* A call leaves the queue's head in another state, and still before its await
\* of the link.
CallStarts ==
    \E c \in LifeCall :
      /\ lifecycle # <<>> /\ lifecycle[1].at = "queued"
      /\ c.at \notin {"queued", "link"} /\ c.call = lifecycle[1].call
      /\ lifecycle' = [lifecycle EXCEPT ![1] = c]
      /\ UNCHANGED <<online, config, broker, brokerError, ops, client, sockets, banner,
                     startFailed, created>>

\* A call queues its operation of the link: start() with the saved settings.
CallQueues ==
    \E c \in LifeCall, op \in Op :
      /\ lifecycle # <<>> /\ lifecycle[1].at \notin {"queued", "link"}
      /\ c.at = "link" /\ c.call = lifecycle[1].call
      /\ lifecycle' = [lifecycle EXCEPT ![1] = c]
      /\ ops' = Append(ops, op) /\ op.at = "queued" /\ op.caller = c.call
      /\ op.call = (IF op.broker = None THEN "close" ELSE "open")
      /\ \/ /\ c.call = "start" /\ op.broker = config /\ broker' = config
            /\ brokerError' = ErrorAfter(config)
         \/ c.call = "stop" /\ op.broker = None /\ UNCHANGED <<broker, brokerError>>
      /\ startFailed' \in {startFailed, FALSE}
      /\ UNCHANGED <<online, config, client, sockets, banner, created>>

\* getConfig() fails.
CallFails ==
    /\ lifecycle # <<>> /\ lifecycle[1].at = "config"
    /\ lifecycle' = RemoveAt(lifecycle, 1) /\ startFailed' = TRUE
    /\ UNCHANGED <<online, config, broker, brokerError, ops, client, sockets, banner, created>>

\* The settings are saved: while Gladys is away, or as they are, or anew.
Saved ==
    /\ config' \in Brokers \cup {None}
    /\ UNCHANGED <<online, lifecycle, client, sockets, banner, created>>
    /\ \/ ~online /\ UNCHANGED <<broker, brokerError, ops, startFailed>>
       \/ online /\ AlreadyOpen(config') /\ startFailed' = FALSE /\ UNCHANGED <<broker, brokerError, ops>>
       \/ \E op \in Op :
            /\ online /\ startFailed' = FALSE /\ broker' = config' /\ brokerError' = ErrorAfter(config')
            /\ ops' = Append(ops, op) /\ op.at = "queued" /\ op.caller = "update"
            /\ op.broker = config' /\ op.call = (IF op.broker = None THEN "close" ELSE "open")

\* The client is being ended.
OpStarts ==
    \E op \in Op :
      /\ ops # <<>> /\ Same(op, ops[1]) /\ ops' = [ops EXCEPT ![1] = op]
      /\ client # None /\ client' = None
      /\ DOMAIN sockets' = DOMAIN sockets
      /\ \A n \in DOMAIN sockets : sockets'[n].broker = sockets[n].broker
      /\ UNCHANGED <<online, config, lifecycle, broker, brokerError, banner, startFailed, created>>

\* An mqtt client reports.
LinkReports ==
    /\ DOMAIN sockets # {} /\ DOMAIN sockets' = DOMAIN sockets
    /\ \A n \in DOMAIN sockets : sockets'[n].broker = sockets[n].broker
    /\ banner' \in {banner, "connected", "unreachable"}
    /\ UNCHANGED <<online, config, lifecycle, broker, brokerError, ops, client, startFailed, created>>

Form ==
    \/ Called \/ CallStarts \/ CallQueues \/ CallFails \/ Saved \/ OpStarts
    \/ (\E op \in Op : Over(op)) \/ LinkReports
    \/ UNCHANGED vars

LEMMA Forms ==
    ASSUME CallsInv, Awaited, LinkInv, [Next]_vars
    PROVE  Form
<1>1. /\ config \in Brokers \cup {None} /\ ops \in Seq(Op) /\ lifecycle \in Seq(LifeCall)
      /\ OneBegun /\ LinkType
  BY DEF LinkInv, LinkType, CallsInv
<1>2. \A settings \in Brokers \cup {None}, caller \in {"start", "stop", "update"},
         call \in {"open", "close"} : LinkOp(call, settings, caller) \in Op
  BY DEF LinkOp, Op
<1>3. CASE SdkConnected
  <2>1. Call("start") \in LifeCall /\ Call("start").at = "queued" /\ Call("start").call = "start"
    BY DEF Call, LifeCall
  <2> QED
    BY <1>3, <2>1 DEF SdkConnected, Called, Form
<1>4. CASE SdkDisconnected
  <2>1. Call("stop") \in LifeCall /\ Call("stop").at = "queued" /\ Call("stop").call = "stop"
    BY DEF Call, LifeCall
  <2>2. online' = (Call("stop").call = "start")
    BY <1>4, <2>1 DEF SdkDisconnected
  <2> QED
    BY <1>4, <2>1, <2>2 DEF SdkDisconnected, Called, Form
<1>5. ASSUME NEW settings \in Brokers \cup {None}, ConfigSaved(settings) PROVE Form
  <2> DEFINE op == LinkOp(IF settings = None THEN "close" ELSE "open", settings, "update")
  <2>1. op \in Op /\ op.at = "queued" /\ op.caller = "update" /\ op.broker = settings
        /\ op.call = (IF op.broker = None THEN "close" ELSE "open")
    BY DEF LinkOp, Op
  <2>2. online /\ ~AlreadyOpen(settings) =>
           /\ ops' = Append(ops, op) /\ broker' = settings /\ brokerError' = ErrorAfter(settings)
    BY <1>5 DEF ConfigSaved, Apply
  <2> HIDE DEF op
  <2>3. config' = settings /\ UNCHANGED <<online, lifecycle, client, sockets, banner, created>>
    BY <1>5 DEF ConfigSaved
  <2>4. CASE ~online
    BY <1>5, <2>3, <2>4 DEF ConfigSaved, Saved, Form
  <2>5. CASE online /\ AlreadyOpen(settings)
    BY <1>5, <2>3, <2>5 DEF ConfigSaved, Saved, Form
  <2>6. CASE online /\ ~AlreadyOpen(settings)
    <3>1. startFailed' = FALSE
      BY <1>5, <2>6 DEF ConfigSaved
    <3>2. Saved
      BY <2>1, <2>2, <2>3, <2>6, <3>1 DEF Saved
    <3> QED
      BY <3>2 DEF Form
  <2> QED
    BY <2>4, <2>5, <2>6
<1>6. ASSUME NEW i \in DOMAIN lifecycle, CallBegins(i) PROVE Form
  <2> DEFINE c == [lifecycle[1] EXCEPT !.at = IF lifecycle[1].call = "start" THEN "config" ELSE "draining"]
  <2>1. i = 1 /\ lifecycle # <<>> /\ lifecycle[1].at = "queued" /\ lifecycle[1] \in LifeCall
    BY <1>1, <1>6 DEF CallBegins, Turn
  <2>2. c \in LifeCall /\ c.at \notin {"queued", "link"} /\ c.call = lifecycle[1].call
    BY <2>1 DEF LifeCall
  <2>3. lifecycle' = [lifecycle EXCEPT ![1] = c]
    BY <1>1, <1>6, <2>1 DEF CallBegins
  <2> HIDE DEF c
  <2>4. CallStarts
    BY <1>6, <2>1, <2>2, <2>3 DEF CallBegins, CallStarts
  <2> QED
    BY <2>4 DEF Form
<1>7. ASSUME NEW i \in DOMAIN lifecycle, lifecycle[i].at \notin {"queued", "link"}
      PROVE  /\ i = 1 /\ lifecycle # <<>> /\ lifecycle[1] \in LifeCall
             /\ [lifecycle[1] EXCEPT !.at = "link"] \in LifeCall
             /\ lifecycle' = [lifecycle EXCEPT ![i].at = "link"] =>
                  lifecycle' = [lifecycle EXCEPT ![1] = [lifecycle[1] EXCEPT !.at = "link"]]
             /\ [lifecycle[1] EXCEPT !.at = "link"].at = "link"
             /\ [lifecycle[1] EXCEPT !.at = "link"].call = lifecycle[1].call
  <2>1. i = 1 /\ lifecycle # <<>> /\ lifecycle[1] \in LifeCall
    BY <1>1, <1>7 DEF CallsInv
  <2> QED
    BY <2>1 DEF LifeCall
<1>8. ASSUME NEW i \in DOMAIN lifecycle, ConfigArrives(i) PROVE Form
  <2>1. lifecycle[i].at = "config"
    BY <1>8 DEF ConfigArrives
  <2> DEFINE c == [lifecycle[1] EXCEPT !.at = "link"]
             op == LinkOp(IF config = None THEN "close" ELSE "open", config, "start")
  <2>2. /\ i = 1 /\ lifecycle # <<>> /\ lifecycle[1] \in LifeCall
        /\ c \in LifeCall /\ c.at = "link" /\ c.call = lifecycle[1].call
        /\ lifecycle' = [lifecycle EXCEPT ![1] = c]
    BY <1>7, <1>8, <2>1 DEF ConfigArrives
  <2>3. c.call = "start"
    BY <2>1, <2>2 DEF LifeCall
  <2>4. /\ op \in Op /\ op.at = "queued" /\ op.caller = "start" /\ op.broker = config
        /\ op.call = (IF op.broker = None THEN "close" ELSE "open")
    BY <1>1 DEF LinkOp, Op
  <2>5. ops' = Append(ops, op) /\ broker' = config /\ brokerError' = ErrorAfter(config)
    BY <1>8 DEF ConfigArrives, Apply
  <2> HIDE DEF c, op
  <2>6. lifecycle[1].at \notin {"queued", "link"}
    BY <2>1, <2>2
  <2>7. startFailed' = FALSE /\ UNCHANGED <<online, config, client, sockets, banner, created>>
    BY <1>8 DEF ConfigArrives
  <2>8. CallQueues
    BY <2>2, <2>3, <2>4, <2>5, <2>6, <2>7 DEF CallQueues
  <2> QED
    BY <2>8 DEF Form
<1>9. ASSUME NEW i \in DOMAIN lifecycle, Drained(i) PROVE Form
  <2>1. lifecycle[i].at = "draining"
    BY <1>9 DEF Drained
  <2> DEFINE c == [lifecycle[1] EXCEPT !.at = "link"]
             op == LinkOp("close", None, "stop")
  <2>2. /\ i = 1 /\ lifecycle # <<>> /\ lifecycle[1] \in LifeCall
        /\ c \in LifeCall /\ c.at = "link" /\ c.call = lifecycle[1].call
        /\ lifecycle' = [lifecycle EXCEPT ![1] = c]
    BY <1>7, <1>9, <2>1 DEF Drained
  <2>3. c.call = "stop"
    BY <2>1, <2>2 DEF LifeCall
  <2>4. /\ op \in Op /\ op.at = "queued" /\ op.caller = "stop" /\ op.broker = None
        /\ op.call = (IF op.broker = None THEN "close" ELSE "open")
    BY DEF LinkOp, Op
  <2>5. ops' = Append(ops, op) /\ UNCHANGED <<broker, brokerError, startFailed>>
    BY <1>9 DEF Drained
  <2> HIDE DEF c, op
  <2>6. lifecycle[1].at \notin {"queued", "link"}
    BY <2>1, <2>2
  <2>7. UNCHANGED <<online, config, client, sockets, banner, created>>
    BY <1>9 DEF Drained
  <2>8. CallQueues
    BY <2>2, <2>3, <2>4, <2>5, <2>6, <2>7 DEF CallQueues
  <2> QED
    BY <2>8 DEF Form
<1>10. ASSUME NEW i \in DOMAIN lifecycle, ConfigFails(i) PROVE Form
  <2>1. lifecycle[i].at = "config" /\ lifecycle' = RemoveAt(lifecycle, i)
    BY <1>10 DEF ConfigFails
  <2>2. i = 1 /\ lifecycle # <<>>
    BY <1>7, <2>1
  <2>3. CallFails
    BY <1>10, <2>1, <2>2 DEF ConfigFails, CallFails
  <2> QED
    BY <2>3 DEF Form
<1>11. ASSUME NEW i \in DOMAIN ops, OpBegins(i) PROVE Form
  <2>1. /\ i = 1 /\ ops # <<>> /\ ops[1].at = "queued" /\ ops[1] \in Op /\ 1 \in DOMAIN ops
        /\ UNCHANGED <<online, config, broker, startFailed>>
    BY <1>1, <1>11 DEF OpBegins, Turn
  <2>2. Settled
    BY <2>1 DEF LinkInv, Ending
  <2>3. CASE client = None
    <3>1. DOMAIN sockets = {} /\ Finish(1, sockets)
      BY <1>11, <2>1, <2>2, <2>3 DEF OpBegins, Settled
    <3>2. Over(ops[1])
      BY <2>1, <2>3, <3>1, FinishOver
    <3> QED
      BY <2>1, <3>2 DEF Form
  <2>4. CASE client # None
    <3>1. /\ ops' = [ops EXCEPT ![1].at = "ending", ![1].ending = client]
          /\ client' = None
          /\ sockets' = [sockets EXCEPT ![client].listening = FALSE,
                                        ![client].connected = FALSE]
          /\ UNCHANGED <<brokerError, banner, lifecycle, created>>
      BY <1>11, <2>1, <2>4 DEF OpBegins, Forgotten
    <3> DEFINE op == [ops[1] EXCEPT !.at = "ending", !.ending = client]
    <3>2. op \in Op /\ Same(op, ops[1])
      BY <1>1, <2>1 DEF Op, Same, LinkType
    <3>3. ops' = [ops EXCEPT ![1] = op]
      BY <1>1, <2>1, <3>1
    <3> HIDE DEF op
    <3>4. /\ DOMAIN sockets' = DOMAIN sockets
          /\ \A n \in DOMAIN sockets : sockets'[n].broker = sockets[n].broker
      <4>1. DOMAIN sockets = {client} /\ sockets[client] \in Socket
        BY <1>1, <2>2, <2>4 DEF Settled, LinkType
      <4>2. DOMAIN sockets' = DOMAIN sockets
        BY <3>1
      <4>3. sockets'[client] = [sockets[client] EXCEPT !.listening = FALSE, !.connected = FALSE]
        BY <1>1, <3>1, <4>1 DEF LinkType
      <4> QED
        BY <4>1, <4>2, <4>3 DEF Socket
    <3>5. OpStarts
      BY <2>1, <2>4, <3>1, <3>2, <3>3, <3>4 DEF OpStarts
    <3> QED
      BY <3>5 DEF Form
  <2> QED
    BY <2>3, <2>4
<1>12. ASSUME NEW i \in DOMAIN ops, OpEnds(i) PROVE Form
  <2>1. ops[i].at = "ending" /\ i = 1 /\ Ending /\ 1 \in DOMAIN ops /\ ops[1] \in Op
    BY <1>1, <1>12 DEF OpEnds, OneBegun, LinkInv, Settled
  <2> DEFINE left == [n \in DOMAIN sockets \ {ops[i].ending} |-> sockets[n]]
  <2>2. DOMAIN left = {}
    BY <2>1 DEF Ending
  <2>3. Finish(1, left) /\ UNCHANGED <<online, config, broker, startFailed>>
    BY <1>12, <2>1 DEF OpEnds
  <2>4. ops # <<>> /\ client = None
    BY <2>1 DEF Ending
  <2> HIDE DEF left
  <2>5. Over(ops[1])
    BY <2>2, <2>3, <2>4, FinishOver
  <2> QED
    BY <2>1, <2>5 DEF Form
<1>13. ASSUME NEW n \in DOMAIN sockets,
              LinkUp(n) \/ Subscribed(n) \/ SubscribeFails(n) \/ LinkDown(n)
       PROVE  Form
  <2>1. /\ banner' \in {banner, "connected", "unreachable"}
        /\ UNCHANGED <<online, config, lifecycle, broker, brokerError, ops, client, startFailed, created>>
    BY <1>13 DEF LinkUp, Subscribed, SubscribeFails, LinkDown, Unreachable
  <2>2. sockets \in [DOMAIN sockets -> Socket] /\ sockets[n] \in Socket
    BY <1>1 DEF LinkType
  <2>3. PICK s : sockets' = [sockets EXCEPT ![n] = s] /\ s.broker = sockets[n].broker
    <3>1. CASE LinkUp(n)
      <4> DEFINE up == [sockets[n] EXCEPT !.connected = TRUE, !.subscribing = TRUE]
      <4>1. up.broker = sockets[n].broker
        BY <2>2 DEF Socket
      <4>2. sockets' = [sockets EXCEPT ![n] = up]
        BY <2>2, <3>1 DEF LinkUp
      <4> QED
        BY <4>1, <4>2
    <3>2. CASE Subscribed(n) \/ SubscribeFails(n)
      BY <2>2, <3>2 DEF Subscribed, SubscribeFails, Socket
    <3>3. CASE LinkDown(n)
      <4> DEFINE down == [sockets[n] EXCEPT !.connected = FALSE]
      <4>1. down.broker = sockets[n].broker
        BY <2>2 DEF Socket
      <4>2. sockets' = [sockets EXCEPT ![n] = down]
        BY <2>2, <3>3 DEF LinkDown
      <4> QED
        BY <4>1, <4>2
    <3> QED
      BY <1>13, <3>1, <3>2, <3>3
  <2>4. LinkReports
    BY <2>1, <2>2, <2>3 DEF LinkReports
  <2> QED
    BY <2>4 DEF Form
<1>14. CASE UNCHANGED vars
  BY <1>14 DEF Form
<1> QED
  BY <1>3, <1>4, <1>5, <1>6, <1>8, <1>9, <1>10, <1>11, <1>12, <1>13, <1>14 DEF Next, Begins, Resumes

\* The calls run one after the other, and each that waits for the link has its
\* operation there.
LEMMA CallsKept ==
    ASSUME CallsInv, Awaited, LinkInv, Form
    PROVE  CallsInv' /\ Awaited'
<1>1. /\ lifecycle \in Seq(LifeCall) /\ ops \in Seq(Op)
      /\ \A i \in DOMAIN lifecycle : lifecycle[i] \in LifeCall
      /\ lifecycle # <<>> => 1 \in DOMAIN lifecycle
  BY DEF CallsInv, LinkInv, LinkType
<1>2. CASE Called
  <2>1. PICK c \in LifeCall :
          /\ lifecycle' = Append(lifecycle, c) /\ c.at = "queued"
          /\ online' = (c.call = "start") /\ UNCHANGED ops
    BY <1>2 DEF Called
  <2>2. /\ lifecycle' \in Seq(LifeCall) /\ lifecycle' # <<>> /\ LastOf(lifecycle') = c
        /\ \A i \in DOMAIN lifecycle : i \in DOMAIN lifecycle' /\ lifecycle'[i] = lifecycle[i]
        /\ \A i \in DOMAIN lifecycle' : i \notin DOMAIN lifecycle => lifecycle'[i] = c
        /\ lifecycle = <<>> \/ 1 \in DOMAIN lifecycle
        /\ 1 \in DOMAIN lifecycle'
    <3>1. lifecycle' \in Seq(LifeCall) /\ lifecycle' # <<>>
      BY <1>1, <2>1, Appended
    <3>2. 1 \in DOMAIN lifecycle'
      BY <3>1
    <3>3. LastOf(lifecycle') = c
      BY <1>1, <2>1, Appended DEF LastOf
    <3>4. /\ \A i \in DOMAIN lifecycle : i \in DOMAIN lifecycle' /\ lifecycle'[i] = lifecycle[i]
          /\ \A i \in DOMAIN lifecycle' : i \notin DOMAIN lifecycle => lifecycle'[i] = c
      BY <1>1, <2>1, Appended
    <3> QED
      BY <1>1, <3>1, <3>2, <3>3, <3>4
  <2>3. CallsInv'
    BY <2>1, <2>2 DEF CallsInv
  <2>4. \/ lifecycle'[1] = lifecycle[1] /\ lifecycle # <<>>
        \/ lifecycle'[1] = c /\ lifecycle = <<>>
    BY <1>1, <2>2
  <2>5. Awaited'
    BY <2>1, <2>2, <2>4 DEF Awaited
  <2> QED
    BY <2>3, <2>5
<1>3. ASSUME NEW c \in LifeCall, lifecycle # <<>>, c.call = lifecycle[1].call,
             lifecycle' = [lifecycle EXCEPT ![1] = c], UNCHANGED online
      PROVE  CallsInv' /\ lifecycle'[1] = c /\ lifecycle' # <<>>
  <2>1. /\ lifecycle' \in Seq(LifeCall) /\ lifecycle' # <<>> /\ lifecycle'[1] = c
        /\ DOMAIN lifecycle' = DOMAIN lifecycle
        /\ \A i \in DOMAIN lifecycle : i # 1 => lifecycle'[i] = lifecycle[i]
        /\ \/ LastOf(lifecycle') = c /\ LastOf(lifecycle) = lifecycle[1]
           \/ LastOf(lifecycle') = LastOf(lifecycle)
    <3>1. lifecycle \in Seq(LifeCall) /\ 1 \in DOMAIN lifecycle
      BY <1>1, <1>3
    <3>2. lifecycle' \in Seq(LifeCall) /\ lifecycle' # <<>> /\ lifecycle'[1] = c
      BY <3>1, <1>3, HeadGoesOn
    <3>3. \/ LastOf(lifecycle') = c /\ LastOf(lifecycle) = lifecycle[1]
          \/ LastOf(lifecycle') = LastOf(lifecycle)
      BY <3>1, <1>3, HeadGoesOn DEF LastOf
    <3> QED
      BY <1>3, <3>1, <3>2, <3>3
  <2> QED
    BY <1>3, <2>1 DEF CallsInv
<1>4. ASSUME lifecycle # <<>>, lifecycle' = RemoveAt(lifecycle, 1), UNCHANGED online
      PROVE  CallsInv' /\ (lifecycle' # <<>> => lifecycle'[1].at = "queued")
  <2>1. /\ lifecycle' \in Seq(LifeCall)
        /\ \A i \in DOMAIN lifecycle' : i + 1 \in DOMAIN lifecycle /\ i + 1 # 1
                                        /\ lifecycle'[i] = lifecycle[i + 1]
        /\ lifecycle' # <<>> => LastOf(lifecycle') = LastOf(lifecycle)
    BY <1>1, <1>4, HeadGone
  <2>2. \A i \in DOMAIN lifecycle' : lifecycle'[i].at = "queued"
    BY <2>1 DEF CallsInv
  <2>3. CallsInv'
    BY <1>4, <2>1, <2>2 DEF CallsInv
  <2>4. lifecycle' # <<>> => 1 \in DOMAIN lifecycle'
    BY <2>1
  <2> QED
    BY <2>2, <2>3, <2>4
<1>5. CASE CallStarts
  <2>1. PICK c \in LifeCall :
          /\ lifecycle # <<>> /\ lifecycle[1].at = "queued"
          /\ c.at \notin {"queued", "link"} /\ c.call = lifecycle[1].call
          /\ lifecycle' = [lifecycle EXCEPT ![1] = c] /\ UNCHANGED <<online, ops>>
    BY <1>5 DEF CallStarts
  <2>2. CallsInv' /\ lifecycle'[1] = c
    BY <1>3, <2>1
  <2>3. Awaited'
    BY <2>1, <2>2 DEF Awaited
  <2> QED
    BY <2>2, <2>3
<1>6. ASSUME NEW op \in Op, ops' = Append(ops, op)
      PROVE  /\ ops' \in Seq(Op)
             /\ \A i \in DOMAIN ops : i \in DOMAIN ops' /\ ops'[i] = ops[i]
             /\ \A i \in DOMAIN ops' : i \notin DOMAIN ops => ops'[i] = op
             /\ \A i, j \in DOMAIN ops' : i = j \/ i \in DOMAIN ops \/ j \in DOMAIN ops
             /\ \E i \in DOMAIN ops' : ops'[i] = op
  BY <1>1, <1>6, Appended
<1>7. CASE CallQueues
  <2>1. PICK c \in LifeCall, op \in Op :
          /\ lifecycle # <<>> /\ lifecycle[1].at \notin {"queued", "link"}
          /\ c.at = "link" /\ c.call = lifecycle[1].call
          /\ lifecycle' = [lifecycle EXCEPT ![1] = c]
          /\ ops' = Append(ops, op) /\ op.caller = c.call /\ UNCHANGED online
    BY <1>7 DEF CallQueues
  <2>2. CallsInv' /\ lifecycle'[1] = c /\ lifecycle' # <<>>
    BY <1>3, <2>1
  <2>3. \A i \in DOMAIN ops : ops[i].caller = "update"
    BY <2>1 DEF Awaited
  <2>4. Awaited'
    BY <1>6, <2>1, <2>2, <2>3 DEF Awaited
  <2> QED
    BY <2>2, <2>4
<1>8. CASE CallFails
  <2>1. /\ lifecycle # <<>> /\ lifecycle[1].at = "config"
        /\ lifecycle' = RemoveAt(lifecycle, 1) /\ UNCHANGED <<online, ops>>
    BY <1>8 DEF CallFails
  <2>2. CallsInv' /\ (lifecycle' # <<>> => lifecycle'[1].at = "queued")
    BY <1>4, <2>1
  <2>3. Awaited'
    BY <2>1, <2>2 DEF Awaited
  <2> QED
    BY <2>2, <2>3
<1>9. CASE Saved
  <2>1. CallsInv' /\ UNCHANGED lifecycle
    BY <1>9 DEF Saved, CallsInv
  <2>2. CASE UNCHANGED ops
    BY <2>1, <2>2 DEF Awaited
  <2>3. ASSUME NEW op \in Op, ops' = Append(ops, op), op.caller = "update" PROVE Awaited'
    BY <1>6, <2>1, <2>3 DEF Awaited
  <2> QED
    BY <1>9, <2>1, <2>2, <2>3 DEF Saved
<1>10. CASE OpStarts
  <2>1. PICK op \in Op : ops # <<>> /\ Same(op, ops[1]) /\ ops' = [ops EXCEPT ![1] = op]
    BY <1>10 DEF OpStarts
  <2>2. 1 \in DOMAIN ops
    BY <1>1, <2>1
  <2>3. DOMAIN ops' = DOMAIN ops /\ \A i \in DOMAIN ops : ops'[i].caller = ops[i].caller
    BY <1>1, <2>1, <2>2 DEF Same
  <2>4. UNCHANGED <<online, lifecycle>>
    BY <1>10 DEF OpStarts
  <2> QED
    BY <2>3, <2>4 DEF CallsInv, Awaited
<1>11. ASSUME NEW op \in Op, Over(op) PROVE CallsInv' /\ Awaited'
  <2>1. /\ ops # <<>> /\ op = ops[1] /\ ops' = RemoveAt(ops, 1) /\ UNCHANGED online
    BY <1>11 DEF Over
  <2>2. /\ ops' \in Seq(Op) /\ 1 \in DOMAIN ops
        /\ \A i \in DOMAIN ops' : i + 1 \in DOMAIN ops /\ i + 1 # 1 /\ ops'[i] = ops[i + 1] /\ i \in Nat
        /\ \A i \in DOMAIN ops : i # 1 => \E j \in DOMAIN ops' : ops'[j] = ops[i]
    BY <1>1, <2>1, HeadGone
  <2>3. \A i, j \in DOMAIN ops' : i + 1 = j + 1 => i = j
    BY <2>2
  <2>4. CASE op.caller = "update" /\ UNCHANGED lifecycle
    <3>1. CallsInv'
      BY <2>1, <2>4 DEF CallsInv
    <3>2. \A i, j \in DOMAIN ops' :
            ops'[i].caller # "update" /\ ops'[j].caller # "update" => i = j
      BY <2>2, <2>3 DEF Awaited
    <3>3. \A i \in DOMAIN ops' : ops'[i].caller # "update" =>
            /\ lifecycle' # <<>>
            /\ lifecycle'[1].call = ops'[i].caller /\ lifecycle'[1].at = "link"
      BY <2>2, <2>4 DEF Awaited
    <3>4. lifecycle' # <<>> /\ lifecycle'[1].at = "link" =>
            \E j \in DOMAIN ops' : ops'[j].caller = lifecycle'[1].call
      <4> SUFFICES ASSUME lifecycle # <<>>, lifecycle[1].at = "link"
                   PROVE  \E j \in DOMAIN ops' : ops'[j].caller = lifecycle[1].call
        BY <2>4
      <4>1. PICK k \in DOMAIN ops : ops[k].caller = lifecycle[1].call
        BY DEF Awaited
      <4>2. k # 1
        BY <1>1, <2>1, <2>4, <4>1 DEF LifeCall
      <4> QED
        BY <2>2, <4>1, <4>2
    <3> QED
      BY <3>1, <3>2, <3>3, <3>4 DEF Awaited
  <2>5. CASE op.caller # "update" /\ lifecycle # <<>> /\ lifecycle' = RemoveAt(lifecycle, 1)
    <3>1. CallsInv' /\ (lifecycle' # <<>> => lifecycle'[1].at = "queued")
      BY <1>4, <2>1, <2>5
    <3>2. \A i \in DOMAIN ops' : ops'[i].caller = "update"
      BY <2>1, <2>2, <2>5 DEF Awaited
    <3> QED
      BY <3>1, <3>2 DEF Awaited
  <2> QED
    BY <1>11, <2>4, <2>5 DEF Over
<1>12. CASE LinkReports \/ UNCHANGED vars
  BY <1>12 DEF LinkReports, vars, CallsInv, Awaited
<1> QED
  BY <1>2, <1>5, <1>7, <1>8, <1>9, <1>10, <1>11, <1>12 DEF Form

-----------------------------------------------------------------------------
(* The settings and the outcome. *)

\* An operation closes for want of settings, and stop() wants none; the last
\* operation, or once all are over the client, has the settings applied last;
\* and no client has malformed ones.
SettingsInv ==
    /\ online \in BOOLEAN /\ startFailed \in BOOLEAN /\ brokerError \in BOOLEAN
    /\ broker \in Brokers \cup {None}
    /\ banner \in {"none", "connected", "unreachable", "notConfigured", "badUrl"}
    /\ \A i \in DOMAIN ops :
         /\ ops[i].call = (IF ops[i].broker = None THEN "close" ELSE "open")
         /\ ops[i].caller = "stop" => ops[i].broker = None
    /\ ops # <<>> /\ LastOf(ops).caller # "stop" => LastOf(ops).broker = broker
    /\ ops = <<>> /\ client # None => sockets[client].broker = broker
    /\ \A n \in DOMAIN sockets :
         n \in 1..created /\ sockets[n].broker \notin Malformed \cup {None}

LEMMA SettingsKept ==
    ASSUME CallsInv, Awaited, LinkInv, SettingsInv, Form
    PROVE  SettingsInv'
<1>1. /\ ops \in Seq(Op) /\ lifecycle \in Seq(LifeCall) /\ created \in Nat
      /\ config \in Brokers \cup {None} /\ (ops # <<>> => 1 \in DOMAIN ops)
  BY DEF LinkInv, LinkType, CallsInv
<1>2. CASE Called
  <2>1. online' \in BOOLEAN
    BY <1>2 DEF Called
  <2> QED
    BY <1>2, <2>1 DEF Called, SettingsInv
<1>3. CASE CallStarts \/ CallFails
  BY <1>3 DEF CallStarts, CallFails, SettingsInv
<1>4. ASSUME NEW op \in Op, ops' = Append(ops, op),
             op.call = (IF op.broker = None THEN "close" ELSE "open"),
             op.caller = "stop" => op.broker = None, op.caller # "stop" => op.broker = broker',
             broker' \in Brokers \cup {None}, brokerError' \in BOOLEAN, startFailed' \in BOOLEAN,
             UNCHANGED <<online, client, sockets, banner, created>>
      PROVE  SettingsInv'
  <2>1. /\ ops' # <<>>
        /\ \A i \in DOMAIN ops : i \in DOMAIN ops' /\ ops'[i] = ops[i]
        /\ \A i \in DOMAIN ops' : i \notin DOMAIN ops => ops'[i] = op
    BY <1>1, <1>4, Appended
  <2>2. LastOf(ops') = op
    BY <1>1, <1>4, Appended DEF LastOf
  <2> QED
    BY <1>4, <2>1, <2>2 DEF SettingsInv
<1>5. CASE CallQueues
  <2>1. PICK c \in LifeCall, op \in Op :
          /\ ops' = Append(ops, op) /\ op.caller = c.call
          /\ op.call = (IF op.broker = None THEN "close" ELSE "open")
          /\ \/ /\ c.call = "start" /\ op.broker = config /\ broker' = config
                /\ brokerError' = ErrorAfter(config)
             \/ c.call = "stop" /\ op.broker = None /\ UNCHANGED <<broker, brokerError>>
          /\ startFailed' \in {startFailed, FALSE}
          /\ UNCHANGED <<online, client, sockets, banner, created>>
    BY <1>5 DEF CallQueues
  <2>2. brokerError' \in BOOLEAN /\ startFailed' \in BOOLEAN /\ broker' \in Brokers \cup {None}
    BY <1>1, <2>1 DEF SettingsInv, ErrorAfter
  <2> QED
    BY <1>4, <2>1, <2>2
<1>6. CASE Saved
  <2>1. /\ config' \in Brokers \cup {None}
        /\ UNCHANGED <<online, client, sockets, banner, created>>
    BY <1>6 DEF Saved
  <2>2. CASE UNCHANGED <<broker, brokerError, ops>> /\ startFailed' \in {startFailed, FALSE}
    BY <2>1, <2>2 DEF SettingsInv
  <2>3. ASSUME NEW op \in Op, startFailed' = FALSE, broker' = config', brokerError' = ErrorAfter(config'),
               ops' = Append(ops, op), op.caller = "update", op.broker = config',
               op.call = (IF op.broker = None THEN "close" ELSE "open")
        PROVE  SettingsInv'
    <3>1. brokerError' \in BOOLEAN
      BY <2>3 DEF SettingsInv, ErrorAfter
    <3>2. startFailed' \in BOOLEAN
      BY <1>6, <2>3
    <3> QED
      BY <1>4, <2>1, <2>3, <3>1, <3>2
  <2> QED
    BY <1>6, <2>2, <2>3 DEF Saved
<1>7. CASE OpStarts
  <2>1. PICK op \in Op :
          /\ ops # <<>> /\ Same(op, ops[1]) /\ ops' = [ops EXCEPT ![1] = op]
          /\ client # None /\ client' = None /\ DOMAIN sockets' = DOMAIN sockets
          /\ \A n \in DOMAIN sockets : sockets'[n].broker = sockets[n].broker
          /\ UNCHANGED <<online, broker, brokerError, banner, startFailed, created>>
    BY <1>7 DEF OpStarts
  <2>2. /\ ops' # <<>> /\ DOMAIN ops' = DOMAIN ops /\ ops'[1] = op
        /\ \A i \in DOMAIN ops : i # 1 => ops'[i] = ops[i]
    BY <1>1, <2>1, HeadGoesOn
  <2>3. \/ LastOf(ops') = op /\ LastOf(ops) = ops[1]
        \/ LastOf(ops') = LastOf(ops)
    BY <1>1, <2>1, HeadGoesOn DEF LastOf
  <2> QED
    BY <1>1, <2>1, <2>2, <2>3 DEF SettingsInv, Same
<1>8. ASSUME NEW op \in Op, Over(op) PROVE SettingsInv'
  <2>1. /\ ops # <<>> /\ op = ops[1] /\ ops' = RemoveAt(ops, 1)
        /\ UNCHANGED <<online, broker, startFailed>> /\ brokerError' \in {brokerError, TRUE}
    BY <1>8 DEF Over
  <2>2. /\ \A i \in DOMAIN ops' : i + 1 \in DOMAIN ops /\ ops'[i] = ops[i + 1]
        /\ ops' # <<>> => LastOf(ops') = LastOf(ops)
        /\ ops' = <<>> => LastOf(ops) = op
    BY <1>1, <2>1, HeadGone DEF LastOf
  <2>3. BannerAfter(op) \in {banner, "notConfigured", "badUrl"}
    BY DEF BannerAfter
  <2>4. CASE op.call = "open" /\ op.broker \notin Malformed
    <3>1. /\ client' = created + 1 /\ DOMAIN sockets' = {created + 1} /\ created' = created + 1
          /\ sockets'[created + 1].broker = op.broker /\ UNCHANGED banner
      BY <1>8, <2>4 DEF Over
    <3>2. op.broker # None /\ op.caller # "stop"
      BY <1>1, <2>1, <2>4 DEF SettingsInv
    <3>3. ops' = <<>> => op.broker = broker
      BY <2>1, <2>2, <3>2 DEF SettingsInv
    <3>4. \A n \in DOMAIN sockets' :
            n \in 1..created' /\ sockets'[n].broker \notin Malformed \cup {None}
      BY <1>1, <2>4, <3>1, <3>2
    <3>5. /\ \A i \in DOMAIN ops' :
               /\ ops'[i].call = (IF ops'[i].broker = None THEN "close" ELSE "open")
               /\ ops'[i].caller = "stop" => ops'[i].broker = None
          /\ ops' # <<>> /\ LastOf(ops').caller # "stop" => LastOf(ops').broker = broker'
      BY <2>1, <2>2 DEF SettingsInv
    <3>6. ops' = <<>> /\ client' # None => sockets'[client'].broker = broker'
      BY <2>1, <3>1, <3>3
    <3>7. /\ online' \in BOOLEAN /\ startFailed' \in BOOLEAN /\ brokerError' \in BOOLEAN
          /\ broker' \in Brokers \cup {None}
          /\ banner' \in {"none", "connected", "unreachable", "notConfigured", "badUrl"}
      BY <2>1, <3>1 DEF SettingsInv
    <3> QED
      BY <3>4, <3>5, <3>6, <3>7 DEF SettingsInv
  <2>5. CASE client' = None /\ DOMAIN sockets' = {} /\ banner' = BannerAfter(op)
    <3>1. /\ \A i \in DOMAIN ops' :
               /\ ops'[i].call = (IF ops'[i].broker = None THEN "close" ELSE "open")
               /\ ops'[i].caller = "stop" => ops'[i].broker = None
          /\ ops' # <<>> /\ LastOf(ops').caller # "stop" => LastOf(ops').broker = broker'
      BY <2>1, <2>2 DEF SettingsInv
    <3>2. /\ online' \in BOOLEAN /\ startFailed' \in BOOLEAN /\ brokerError' \in BOOLEAN
          /\ broker' \in Brokers \cup {None}
          /\ banner' \in {"none", "connected", "unreachable", "notConfigured", "badUrl"}
      BY <2>1, <2>3, <2>5 DEF SettingsInv
    <3> QED
      BY <2>5, <3>1, <3>2 DEF SettingsInv
  <2> QED
    BY <1>8, <2>4, <2>5 DEF Over
<1>9. CASE LinkReports
  <2>1. /\ DOMAIN sockets' = DOMAIN sockets
        /\ \A n \in DOMAIN sockets : sockets'[n].broker = sockets[n].broker
        /\ banner' \in {banner, "connected", "unreachable"}
        /\ UNCHANGED <<online, broker, brokerError, ops, client, startFailed, created>>
    BY <1>9 DEF LinkReports
  <2>2. ops = <<>> /\ client # None => client \in DOMAIN sockets
    BY DEF LinkInv, Ending, Settled
  <2> QED
    BY <2>1, <2>2 DEF SettingsInv
<1>10. CASE UNCHANGED vars
  BY <1>10 DEF vars, SettingsInv
<1> QED
  BY <1>2, <1>3, <1>5, <1>6, <1>7, <1>8, <1>9, <1>10 DEF Form

\* The broker of the link opened with these settings, if it can be.
Want(settings) == IF settings \in Brokers \ Malformed THEN settings ELSE None

\* The broker of the link once its queue is empty.
Effect ==
    IF ops # <<>> THEN Want(LastOf(ops).broker)
    ELSE IF client = None THEN None ELSE sockets[client].broker

\* Every call has queued its operation of the link.
Decided == \A i \in DOMAIN lifecycle : lifecycle[i].at = "link"

\* Once every call has: if Gladys is connected, the settings applied are those
\* saved, the link will be open as they say, and the banner reports settings
\* that cannot be opened; otherwise the link will be closed.
Outcome ==
    Decided =>
      /\ online /\ ~startFailed =>
           /\ broker = config /\ Effect = Want(config)
           /\ ops = <<>> =>
                /\ config = None => banner = "notConfigured"
                /\ config \in Malformed => banner = "badUrl"
      /\ ~online => Effect = None

\* A call that waits for the link is the last one once every call does.
LEMMA DecidedLast ==
    ASSUME CallsInv, Decided, lifecycle # <<>>
    PROVE  LastOf(lifecycle) = lifecycle[1] /\ lifecycle[1].at = "link"
<1>1. Len(lifecycle) \in DOMAIN lifecycle /\ 1 \in DOMAIN lifecycle
  BY DEF CallsInv
<1> QED
  BY <1>1 DEF CallsInv, Decided, LastOf

\* As long as Gladys is connected, the last operation is not that of a stop().
LEMMA NoStopLast ==
    ASSUME CallsInv, Awaited, Decided, online, NEW i \in DOMAIN ops
    PROVE  ops[i].caller # "stop"
BY DecidedLast DEF CallsInv, Awaited

\* The steps of the link take it where its queue leads.
LEMMA EffectKept ==
    ASSUME CallsInv, LinkInv, SettingsInv,
           OpStarts \/ (\E op \in Op : Over(op)) \/ LinkReports
    PROVE  Effect' = Effect
<1>1. ops \in Seq(Op) /\ created \in Nat /\ (ops # <<>> => 1 \in DOMAIN ops)
  BY DEF LinkInv, LinkType
<1>2. CASE OpStarts
  <2>1. PICK op \in Op :
          ops # <<>> /\ Same(op, ops[1]) /\ ops' = [ops EXCEPT ![1] = op]
    BY <1>2 DEF OpStarts
  <2>2. ops' # <<>>
    BY <1>1, <2>1, HeadGoesOn
  <2>3. \/ LastOf(ops') = op /\ LastOf(ops) = ops[1]
        \/ LastOf(ops') = LastOf(ops)
    BY <1>1, <2>1, HeadGoesOn DEF LastOf
  <2> QED
    BY <2>1, <2>2, <2>3 DEF Effect, Same
<1>3. ASSUME NEW op \in Op, Over(op) PROVE Effect' = Effect
  <2>1. ops # <<>> /\ op = ops[1] /\ ops' = RemoveAt(ops, 1)
    BY <1>3 DEF Over
  <2>2. /\ ops' # <<>> => LastOf(ops') = LastOf(ops)
        /\ ops' = <<>> => LastOf(ops) = op
    BY <1>1, <2>1, HeadGone DEF LastOf
  <2>3. CASE ops' # <<>>
    BY <2>1, <2>2, <2>3 DEF Effect
  <2>4. CASE ops' = <<>>
    <3>1. Effect = Want(op.broker) /\ Effect' = IF client' = None THEN None ELSE sockets'[client'].broker
      BY <2>1, <2>2, <2>4 DEF Effect
    <3>2. op.call = (IF op.broker = None THEN "close" ELSE "open") /\ op.broker \in Brokers \cup {None}
      BY <1>1, <2>1 DEF SettingsInv, Op
    <3>3. CASE op.call = "close" \/ op.broker \in Malformed
      <4>1. client' = None /\ Want(op.broker) = None
        BY <1>3, <3>2, <3>3 DEF Over, Want
      <4> QED
        BY <3>1, <4>1
    <3>4. CASE op.call = "open" /\ op.broker \notin Malformed
      <4>1. client' = created + 1 /\ client' # None /\ sockets'[client'].broker = op.broker
        <5>1. client' = created + 1 /\ sockets'[created + 1].broker = op.broker
          BY <1>3, <3>4 DEF Over
        <5>2. created + 1 \in Nat
          BY <1>1
        <5> QED
          BY <5>1, <5>2
      <4>2. Want(op.broker) = op.broker
        BY <3>2, <3>4 DEF Want
      <4> QED
        BY <3>1, <4>1, <4>2
    <3> QED
      BY <3>2, <3>3, <3>4
  <2> QED
    BY <2>3, <2>4
<1>4. CASE LinkReports
  <2>1. ops = <<>> /\ client # None => client \in DOMAIN sockets
    BY DEF LinkInv, Ending, Settled
  <2> QED
    BY <1>4, <2>1 DEF LinkReports, Effect
<1> QED
  BY <1>2, <1>3, <1>4

\* Every step leads to the outcome.
LEMMA OutcomeKept ==
    ASSUME CallsInv, Awaited, LinkInv, SettingsInv, Outcome, Form
    PROVE  Outcome'
<1>1. /\ ops \in Seq(Op) /\ lifecycle \in Seq(LifeCall)
      /\ \A i \in DOMAIN lifecycle : lifecycle[i] \in LifeCall
      /\ lifecycle # <<>> => 1 \in DOMAIN lifecycle
      /\ ops # <<>> => 1 \in DOMAIN ops /\ LastOf(ops) = ops[Len(ops)] /\ Len(ops) \in DOMAIN ops
  BY DEF LinkInv, LinkType, CallsInv, LastOf
<1>2. CASE Called
  <2>1. PICK c \in LifeCall : lifecycle' = Append(lifecycle, c) /\ c.at = "queued"
    BY <1>2 DEF Called
  <2>2. \E i \in DOMAIN lifecycle' : lifecycle'[i] = c
    BY <1>1, <2>1, Appended
  <2> QED
    BY <2>1, <2>2 DEF Outcome, Decided
<1>3. CASE CallStarts
  <2>1. PICK c \in LifeCall : /\ lifecycle # <<>> /\ lifecycle' = [lifecycle EXCEPT ![1] = c]
                              /\ c.at # "link"
    BY <1>3 DEF CallStarts
  <2>2. 1 \in DOMAIN lifecycle' /\ lifecycle'[1] = c
    BY <1>1, <2>1
  <2> QED
    BY <2>1, <2>2 DEF Outcome, Decided
<1>4. ASSUME NEW op \in Op, ops' = Append(ops, op)
      PROVE  ops' # <<>> /\ LastOf(ops') = op
  BY <1>1, <1>4, Appended DEF LastOf
<1>5. CASE CallQueues
  <2>1. PICK c \in LifeCall, op \in Op :
          /\ lifecycle # <<>> /\ c.at = "link" /\ c.call = lifecycle[1].call
          /\ lifecycle' = [lifecycle EXCEPT ![1] = c]
          /\ ops' = Append(ops, op)
          /\ \/ c.call = "start" /\ op.broker = config /\ broker' = config
             \/ c.call = "stop" /\ op.broker = None
          /\ UNCHANGED <<online, config>>
    BY <1>5 DEF CallQueues
  <2>2. /\ DOMAIN lifecycle' = DOMAIN lifecycle
        /\ \A i \in DOMAIN lifecycle : i # 1 => lifecycle'[i] = lifecycle[i]
    BY <1>1, <2>1
  <2>3. \/ LastOf(lifecycle) = lifecycle[1]
        \/ \E i \in DOMAIN lifecycle : i # 1 /\ LastOf(lifecycle) = lifecycle[i]
    BY <1>1, <2>1, HeadGoesOn DEF LastOf
  <2>4. Decided' => (online <=> c.call = "start")
    BY <2>1, <2>2, <2>3 DEF Decided, CallsInv
  <2>5. ops' # <<>> /\ Effect' = Want(op.broker)
    BY <1>4, <2>1 DEF Effect
  <2>6. Want(None) = None
    BY DEF Want
  <2> QED
    BY <2>1, <2>4, <2>5, <2>6 DEF Outcome
<1>6. ASSUME lifecycle # <<>>, lifecycle' = RemoveAt(lifecycle, 1), Decided'
      PROVE  LastOf(lifecycle) = lifecycle[1] /\ (lifecycle[1].at = "link" => Decided)
  <2>1. /\ \A i \in DOMAIN lifecycle' : i + 1 \in DOMAIN lifecycle /\ i + 1 # 1
                                        /\ lifecycle'[i] = lifecycle[i + 1]
        /\ \A i \in DOMAIN lifecycle : i # 1 => \E j \in DOMAIN lifecycle' : lifecycle'[j] = lifecycle[i]
        /\ lifecycle' \in Seq(LifeCall)
    BY <1>1, <1>6, HeadGone
  <2>2. lifecycle' = <<>> => LastOf(lifecycle) = lifecycle[1]
    BY <1>1, <1>6, HeadGone DEF LastOf
  <2>3. \A i \in DOMAIN lifecycle' : lifecycle'[i].at = "queued" /\ lifecycle'[i].at = "link"
    BY <1>6, <2>1 DEF CallsInv, Decided
  <2>4. lifecycle' = <<>>
    BY <2>1, <2>3
  <2>5. \A i \in DOMAIN lifecycle : i = 1
    BY <2>1, <2>4
  <2> QED
    BY <2>2, <2>4, <2>5 DEF Decided
<1>7. CASE CallFails
  <2>1. Decided' => LastOf(lifecycle).call = "start"
    BY <1>1, <1>6, <1>7 DEF CallFails, LifeCall
  <2>2. Decided' => online'
    BY <1>7, <2>1 DEF CallFails, CallsInv
  <2> QED
    BY <1>7, <2>2 DEF CallFails, Outcome
<1>8. CASE Saved
  <2>1. UNCHANGED <<online, lifecycle, client, sockets, banner>> /\ (Decided' <=> Decided)
    BY <1>8 DEF Saved, Decided
  <2>2. CASE ~online /\ UNCHANGED <<broker, ops, startFailed>>
    BY <2>1, <2>2 DEF Outcome, Effect
  <2>3. CASE online /\ AlreadyOpen(config') /\ UNCHANGED <<broker, ops>>
    <3>1. config' # None /\ config' = broker /\ client # None
      BY <2>3 DEF AlreadyOpen, Connected
    <3>2. ASSUME Decided PROVE Effect = Want(config')
      <4>1. CASE ops # <<>>
        <5>1. LastOf(ops).caller # "stop"
          BY <1>1, <2>3, <3>2, <4>1, NoStopLast
        <5> QED
          BY <3>1, <4>1, <5>1 DEF Effect, SettingsInv
      <4>2. CASE ops = <<>>
        <5>1. sockets[client].broker = config' /\ client \in DOMAIN sockets
          BY <3>1, <4>2 DEF SettingsInv, LinkInv, Ending, Settled
        <5>2. config' \in Brokers \ Malformed
          BY <3>1, <5>1 DEF SettingsInv
        <5> QED
          BY <3>1, <4>2, <5>1, <5>2 DEF Effect, Want
      <4> QED
        BY <4>1, <4>2
    <3>3. ops = <<>> => config' \notin Malformed
      BY <3>1 DEF SettingsInv, LinkInv, Ending, Settled
    <3>4. Effect' = Effect
      BY <2>1, <2>3 DEF Effect
    <3> QED
      BY <2>1, <2>3, <3>1, <3>2, <3>3, <3>4 DEF Outcome
  <2>4. ASSUME NEW op \in Op, online, broker' = config', ops' = Append(ops, op),
               op.broker = config'
        PROVE  Outcome'
    <3>1. ops' # <<>> /\ Effect' = Want(config')
      BY <1>4, <2>4 DEF Effect
    <3> QED
      BY <2>1, <2>4, <3>1 DEF Outcome
  <2> QED
    BY <1>8, <2>2, <2>3, <2>4 DEF Saved
<1>9. CASE OpStarts
  <2>1. Effect' = Effect
    BY <1>9, EffectKept
  <2>2. /\ UNCHANGED <<online, config, lifecycle, broker, startFailed>>
        /\ ops' # <<>>
    <3>1. PICK op \in Op : ops # <<>> /\ ops' = [ops EXCEPT ![1] = op]
      BY <1>9 DEF OpStarts
    <3>2. ops' # <<>>
      BY <1>1, <3>1, HeadGoesOn
    <3> QED
      BY <1>9, <3>2 DEF OpStarts
  <2> QED
    BY <2>1, <2>2 DEF Outcome, Decided
<1>10. ASSUME NEW op \in Op, Over(op) PROVE Outcome'
  <2>1. Effect' = Effect
    BY <1>10, EffectKept
  <2>2. ops # <<>> /\ op = ops[1] /\ ops' = RemoveAt(ops, 1)
        /\ UNCHANGED <<online, config, broker, startFailed>>
    BY <1>10 DEF Over
  <2>3. Decided' => Decided
    BY <1>6, <1>10 DEF Over, Decided
  <2>4. ASSUME Decided, online, ~startFailed, ops' = <<>>
        PROVE  /\ config = None => banner' = "notConfigured"
               /\ config \in Malformed => banner' = "badUrl"
    <3>1. op.caller # "stop" /\ LastOf(ops) = op
      <4>1. LastOf(ops) = op
        BY <1>1, <2>2, <2>4, HeadGone DEF LastOf
      <4> QED
        BY <1>1, <2>2, <2>4, <4>1, NoStopLast
    <3>2. op.broker = config
      BY <2>2, <2>4, <3>1 DEF SettingsInv, Outcome
    <3>3. op.call = (IF config = None THEN "close" ELSE "open")
      BY <1>1, <2>2, <3>2 DEF SettingsInv
    <3>4. (config = None \/ config \in Malformed) => banner' = BannerAfter(op)
      BY <1>10, <3>2, <3>3 DEF Over
    <3>5. config = None => op.call = "close" /\ BannerAfter(op) = "notConfigured"
      BY <3>1, <3>3 DEF BannerAfter
    <3>6. config \in Malformed => op.call = "open" /\ BannerAfter(op) = "badUrl"
      BY <3>3 DEF BannerAfter
    <3> QED
      BY <3>4, <3>5, <3>6
  <2> QED
    BY <2>1, <2>2, <2>3, <2>4 DEF Outcome
<1>11. CASE LinkReports
  <2>1. Effect' = Effect
    BY <1>11, EffectKept
  <2>2. /\ UNCHANGED <<online, config, lifecycle, broker, ops, startFailed>>
        /\ DOMAIN sockets # {}
    BY <1>11 DEF LinkReports
  <2>3. ops = <<>> => Effect \notin Malformed \cup {None} /\ Effect # None
    BY <2>2 DEF Effect, SettingsInv, LinkInv, Ending, Settled
  <2>4. Effect = Want(config) /\ Effect # None => config # None /\ config \notin Malformed
    BY DEF Want
  <2> QED
    BY <2>1, <2>2, <2>3, <2>4 DEF Outcome, Decided
<1>12. CASE UNCHANGED vars
  BY <1>12 DEF vars, Outcome, Decided, Effect
<1> QED
  BY <1>2, <1>3, <1>5, <1>7, <1>8, <1>9, <1>10, <1>11, <1>12 DEF Form

LifeInv == CallsInv /\ Awaited /\ SettingsInv /\ Outcome

LEMMA LifeInvariant == Spec => []LifeInv
<1>1. Init => LifeInv
  <2> SUFFICES ASSUME Init PROVE LifeInv
    OBVIOUS
  <2>1. CallsInv /\ Awaited
    BY DEF Init, CallsInv, Awaited
  <2>2. SettingsInv
    <3>1. DOMAIN ops = {} /\ DOMAIN sockets = {}
      BY DEF Init
    <3> QED
      BY <3>1 DEF Init, SettingsInv
  <2>3. Outcome
    BY DEF Init, Outcome, Effect
  <2> QED
    BY <2>1, <2>2, <2>3 DEF LifeInv
<1>2. LinkInv /\ LifeInv /\ [Next]_vars => LifeInv'
  <2> SUFFICES ASSUME LinkInv, LifeInv, [Next]_vars PROVE LifeInv'
    OBVIOUS
  <2>1. Form
    BY Forms DEF LifeInv
  <2> QED
    BY <2>1, CallsKept, SettingsKept, OutcomeKept DEF LifeInv
<1> QED
  BY <1>1, <1>2, LinkInvariant, PTL DEF Spec

\* The variables of the lifecycle are well typed: a call is where its kind may
\* be, only the first call and the first operation of the link have begun, an
\* operation that has begun waits for a client that has not ended, and the
\* client the integration knows is one that was created.
THEOREM TypeCorrect == Spec => []TypeOK
<1>1. LinkInv /\ LifeInv => TypeOK
  <2> SUFFICES ASSUME LinkInv, LifeInv PROVE TypeOK
    OBVIOUS
  <2>1. \A i \in DOMAIN lifecycle : lifecycle[i] \in LifeCall
    BY DEF LifeInv, CallsInv
  <2>2. \A i \in DOMAIN lifecycle : i # 1 => lifecycle[i].at = "queued"
    BY DEF LifeInv, CallsInv
  <2>3. ASSUME NEW i \in DOMAIN ops
        PROVE  \/ ops[i].at = "queued"
               \/ i = 1 /\ ops[i].at = "ending" /\ ops[i].ending \in DOMAIN sockets
    <3>1. CASE Ending
      BY <3>1 DEF LinkInv, OneBegun, Ending
    <3>2. CASE Settled
      BY <3>2 DEF Settled
    <3> QED
      BY <3>1, <3>2 DEF LinkInv
  <2>4. client = None \/ client \in DOMAIN sockets
    BY DEF LinkInv, Ending, Settled
  <2>5. \A i \in DOMAIN lifecycle :
          \/ lifecycle[i].call = "start" /\ lifecycle[i].at \in {"queued", "config", "link"}
          \/ lifecycle[i].call = "stop" /\ lifecycle[i].at \in {"queued", "draining", "link"}
    BY <2>1 DEF LifeCall
  <2> QED
    BY <2>2, <2>3, <2>4, <2>5 DEF LifeInv, SettingsInv, LinkInv, LinkType, TypeOK
<1> QED
  BY <1>1, LinkInvariant, LifeInvariant, PTL

\* Once nothing is queued the link is open to the saved broker if Gladys is
\* connected, and closed otherwise, however starts, stops and saved settings
\* overlapped: ZwaveIntegration.ts serializes them so that the last one wins.
THEOREM LastCallDecides == Spec => []LastCallWins
<1>1. LinkInv /\ LifeInv => LastCallWins
  <2> SUFFICES ASSUME LinkInv, LifeInv, Quiet PROVE LastCallWins
    BY DEF LastCallWins
  <2>1. Decided /\ Effect = IF client = None THEN None ELSE sockets[client].broker
    BY DEF Quiet, Decided, Effect
  <2>2. client # None => sockets[client].broker # None
    BY DEF Quiet, LifeInv, SettingsInv, LinkInv, Ending, Settled
  <2>3. CASE online /\ ~startFailed
    <3>1. Effect = Want(config)
      BY <2>1, <2>3 DEF LifeInv, Outcome
    <3>2. CASE config \in Brokers \ Malformed
      <4>1. Want(config) = config /\ config # None
        BY <3>2 DEF Want
      <4>2. client # None /\ sockets[client].broker = config
        BY <2>1, <3>1, <4>1
      <4> QED
        BY <2>3, <3>2, <4>2 DEF LastCallWins
    <3>3. CASE config \notin Brokers \ Malformed
      <4>1. client = None
        BY <2>1, <2>2, <3>1, <3>3 DEF Want
      <4> QED
        BY <3>3, <4>1 DEF LastCallWins
    <3> QED
      BY <3>2, <3>3
  <2>4. CASE ~online
    <3>1. Effect = None
      BY <2>1, <2>4 DEF LifeInv, Outcome
    <3> QED
      BY <2>1, <2>2, <2>4, <3>1 DEF LastCallWins
  <2>5. CASE startFailed
    BY <2>5 DEF LastCallWins
  <2> QED
    BY <2>3, <2>4, <2>5
<1> QED
  BY <1>1, LinkInvariant, LifeInvariant, PTL

\* Once nothing is queued, missing or malformed settings are what the banner
\* shows, whatever clients, earlier saves or restarts reported meanwhile.
THEOREM BannerCorrect == Spec => []BannerOfSettings
<1>1. LifeInv => BannerOfSettings
  BY DEF LifeInv, Outcome, Decided, Quiet, BannerOfSettings
<1> QED
  BY <1>1, LifeInvariant, PTL
=============================================================================
