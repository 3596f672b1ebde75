--------------------------- MODULE NetworkProofs ---------------------------
(***************************************************************************)
(* Theorems about Network, for every value of its constants: what the      *)
(* cache, the Discovery screen and the badges come to once nothing is on   *)
(* its way, and what the Discovery screen never loses.                     *)
(*                                                                         *)
(* The state of the integration is compared with the network through the   *)
(* channel: of the messages that settle something about a node, the last   *)
(* one still to be read tells it as it is; when none is left, the cache    *)
(* has it as it is.                                                        *)
(***************************************************************************)
EXTENDS Network, TLAPS

Values == UNION {[S -> Holds] : S \in SUBSET Keys}
Caches == UNION {[S -> NodesOver(Keys)] : S \in SUBSET Nodes}
Badges == [unreachable : BOOLEAN, degraded : BOOLEAN]

\* A node in an event: with its values or without.
Data == [ready : BOOLEAN, status : Statuses, values : Values \cup {Absent}]
BareData == [ready : BOOLEAN, status : Statuses, values : {Absent}]

Message ==
    [kind : {"nodes"}, nodes : Caches]
        \cup [kind : {"refreshed"}, node : Nodes, data : Data]
        \cup [kind : {"removed"}, node : Nodes]
        \cup [kind : {"value"}, node : Nodes, data : BareData, key : Keys, holds : Holds]
        \cup [kind : {"status"}, node : Nodes, status : Statuses]

\* TypeOK, with the types of the functions and of the messages.
WorldType ==
    /\ ui \in Caches
    /\ channel \in Seq(Message) /\ Len(channel) <= MaxChannel
    /\ asked \in 0..MaxAsked
    /\ link \in BOOLEAN /\ stopping \in BOOLEAN
    /\ ~link => channel = <<>> /\ asked = 0
    /\ shed \subseteq Nodes \X Keys
    /\ changes \in Nat /\ drops \in Nat

CacheType == registry \in Caches /\ resync \in BOOLEAN /\ discovery \in BOOLEAN

Listings == UNION {[S -> SUBSET Keys] : S \in SUBSET Nodes}

PublicationType ==
    /\ publishing \in {"no", "timer", "answer"}
    /\ again \in BOOLEAN /\ (again => publishing # "no")
    /\ listed \in Listings /\ payload \in Listings
    /\ failures \in Nat

\* What push() remembers was accepted: Gladys has it, or had it deleted.
PublisherType ==
    /\ states \in [DOMAIN states -> Holds] /\ DOMAIN states \subseteq Nodes \X Keys
    /\ lastPublished \in [DOMAIN lastPublished -> Holds] /\ deleted \subseteq Nodes \X Keys
    /\ DOMAIN lastPublished \subseteq DOMAIN states \cup deleted

GladysType ==
    /\ created \in Listings
    /\ PublisherType
    /\ \A p \in DOMAIN states : p[1] \in DOMAIN created /\ p[2] \in created[p[1]]
    /\ badges \in [DOMAIN badges -> Badges] /\ DOMAIN badges \subseteq DOMAIN created

TypeInv == WorldType /\ CacheType /\ PublicationType /\ GladysType

-----------------------------------------------------------------------------
(* The invariants. *)

\* No message of D comes after the i-th.
Unsaid(q, D, i) == \A j \in 1..Len(q) : j > i => q[j] \notin D

\* The last message of D, if there is one, is one of G.
LastIn(q, D, G) == \A i \in 1..Len(q) : q[i] \in D /\ Unsaid(q, D, i) => q[i] \in G

\* The messages that say of node n whether it is there and what values it has;
\* whether it is interviewed; what its status is; and that name it.
Deciding(n) ==
    {m \in Message : m.kind = "nodes" \/ (m.kind \in {"refreshed", "removed"} /\ m.node = n)}
Describing(n) ==
    {m \in Message : m.kind = "nodes" \/ (m.kind \in {"refreshed", "value"} /\ m.node = n)}
Rating(n) ==
    {m \in Message : m.kind = "nodes"
                     \/ (m.kind \in {"refreshed", "value", "status"} /\ m.node = n)}
About(n) ==
    {m \in Message : IF m.kind = "nodes" THEN n \in DOMAIN m.nodes ELSE m.node = n}

\* Full answers without node n; messages that change what is listed.
Lacking(n) == {m \in Message : m.kind = "nodes" /\ n \notin DOMAIN m.nodes}
Structural == {m \in Message : m.kind \in {"nodes", "refreshed", "removed"}}

\* What a message says of node n.
Node(n, m) == IF m.kind = "nodes" THEN m.nodes[n] ELSE m.data
StatusIn(n, m) == IF m.kind = "status" THEN m.status ELSE Node(n, m).status

\* What is said of node n, and what is cached of it, is what it is in `nodes',
\* the network.
RightMessage(n, m, nodes) ==
    /\ m.kind = "nodes" =>
         /\ n \in DOMAIN m.nodes <=> n \in DOMAIN nodes
         /\ n \in DOMAIN nodes /\ nodes[n].ready =>
              m.nodes[n].ready /\ DOMAIN m.nodes[n].values = DOMAIN nodes[n].values
    /\ m.kind = "refreshed" =>
         /\ n \in DOMAIN nodes
         /\ nodes[n].ready =>
              /\ m.data.ready
              /\ m.data.values = Absent \/ DOMAIN m.data.values = DOMAIN nodes[n].values
    /\ m.kind = "removed" => n \notin DOMAIN nodes

RightCache(n) ==
    /\ n \in DOMAIN registry <=> n \in DOMAIN ui
    /\ n \in DOMAIN ui /\ ui[n].ready =>
         resync \/ stopping \/ DOMAIN registry[n].values = DOMAIN ui[n].values

Settled == link /\ asked = 0

CacheRight(n) ==
    /\ LastIn(channel, Deciding(n), {m \in Message : RightMessage(n, m, ui)})
    /\ Unsaid(channel, Deciding(n), 0) => RightCache(n)

CacheInv == Settled => \A n \in Nodes : CacheRight(n)

\* A node whose value or status is on its way is there, unless more is to come.
AliveInv ==
    \A i \in 1..Len(channel) :
        /\ channel[i].kind \in {"value", "status"}
        /\ Unsaid(channel, Deciding(channel[i].node), i)
        => channel[i].node \in DOMAIN ui

ReadyRight(n) ==
    /\ LastIn(channel, Describing(n), {m \in Message : Node(n, m).ready = ui[n].ready})
    /\ Unsaid(channel, Describing(n), 0) /\ n \in DOMAIN registry =>
         registry[n].ready = ui[n].ready

ReadyInv == Settled => \A n \in DOMAIN ui : ReadyRight(n)

StatusRight(n) ==
    /\ LastIn(channel, Rating(n), {m \in Message : StatusIn(n, m) = ui[n].status})
    /\ Unsaid(channel, Rating(n), 0) /\ n \in DOMAIN registry =>
         registry[n].status = ui[n].status

StatusInv == Settled => \A n \in DOMAIN ui : StatusRight(n)

DiscoveryInv ==
    (Settled /\ ~stopping /\ ~discovery /\ ~again /\ Unsaid(channel, Structural, 0)) =>
        IF publishing = "no" THEN ~stale => listed = Listing(registry)
                             ELSE payload = Listing(registry)

BadgeRight(n) ==
    registry[n].status # Unknown => n \in DOMAIN badges /\ badges[n] = Badge(registry[n])

BadgeInv ==
    publishing = "answer" \/ \A n \in DOMAIN created \cap DOMAIN registry : BadgeRight(n)

\* No feature of a device is blank of which something is cached, unless it was
\* deleted while push() remembered its state.
Held == DOMAIN states \cup deleted
Filled(n) == \A k \in created[n] \cap DOMAIN registry[n].values : <<n, k>> \in Held

FilledInv == publishing = "answer" \/ \A n \in DOMAIN created \cap DOMAIN registry : Filled(n)

\* No event carries the values of its node.
BareInv == \A i \in 1..Len(channel) :
               channel[i].kind = "refreshed" => channel[i].data.values = Absent

\* Nothing is left of a node that is not there, once its removal is read.
Removals == {m \in Message : m.kind = "removed"}
Forgotten(n) == n \notin DOMAIN registry /\ (n \in DOMAIN badges => badges[n] = Gone)

GoneRight(n) ==
    /\ LastIn(channel, About(n), Removals)
    /\ Unsaid(channel, About(n), 0) => Forgotten(n)

GoneInv ==
    drops = 0 =>
        /\ ~stopping
        /\ ~link => DOMAIN registry = {} /\ DOMAIN badges = {}
        /\ \A n \in Nodes \ DOMAIN ui : GoneRight(n)

\* Node n was excluded once: all its values were given up.
Given(n, given) == {n} \X Keys \subseteq given

\* The values that a ready node lacks were given up.
Complete(n, node, given) ==
    (node.ready /\ node.values # Absent) => {n} \X (Keys \ DOMAIN node.values) \subseteq given

Honest(m, given) ==
    /\ m.kind = "nodes" => \A n \in DOMAIN m.nodes : Complete(n, m.nodes[n], given)
    /\ m.kind = "refreshed" => Complete(m.node, m.data, given)
    /\ m.kind = "removed" => Given(m.node, given)

CompleteInv ==
    /\ \A n \in DOMAIN ui : Complete(n, ui[n], shed)
    /\ \A i \in 1..Len(channel) : Honest(channel[i], shed)

\* A node that is cached, or announced, stays unless it was excluded.
Stays(n, i) == n \in DOMAIN ui /\ Unsaid(channel, Lacking(n), i)
Named(n, m) == m.kind \in {"nodes", "refreshed", "value"} /\ m \in About(n)

Present(n) ==
    /\ n \in DOMAIN registry => Stays(n, 0)
    /\ \A i \in 1..Len(channel) : Named(n, channel[i]) => Stays(n, i)

PresenceInv == \A n \in Nodes : Given(n, shed) \/ Present(n)

\* Of what `map' lists, `over' lists all that was not given up.
Kept(map, over, given) ==
    \A n \in DOMAIN map :
        /\ Given(n, given) \/ n \in DOMAIN over
        /\ \A k \in map[n] : <<n, k>> \in given \/ (n \in DOMAIN over /\ k \in over[n])

ListedInv ==
    /\ Kept(listed, Listing(registry), shed)
    /\ publishing # "no" =>
         Kept(listed, payload, shed) /\ Kept(payload, Listing(registry), shed)

-----------------------------------------------------------------------------
(* The operators of the model. *)

LEMMA PutIs ==
    ASSUME NEW map, NEW key, NEW value
    PROVE  /\ DOMAIN Put(map, key, value) = DOMAIN map \cup {key}
           /\ Put(map, key, value)[key] = value
           /\ \A x \in DOMAIN map : x # key => Put(map, key, value)[x] = map[x]
BY DEF Put

LEMMA WithoutIs ==
    ASSUME NEW map, NEW keys
    PROVE  /\ DOMAIN Without(map, keys) = DOMAIN map \ keys
           /\ \A x \in DOMAIN map \ keys : Without(map, keys)[x] = map[x]
BY DEF Without

LEMMA IsValues ==
    ASSUME NEW v
    PROVE  v \in Values <=> v \in [DOMAIN v -> Holds] /\ DOMAIN v \subseteq Keys
<1>1. v \in Values => v \in [DOMAIN v -> Holds] /\ DOMAIN v \subseteq Keys
  BY DEF Values
<1>2. v \in [DOMAIN v -> Holds] /\ DOMAIN v \subseteq Keys => v \in Values
  BY DEF Values
<1> QED
  BY <1>1, <1>2

LEMMA IsCache ==
    ASSUME NEW c
    PROVE  c \in Caches <=> c \in [DOMAIN c -> NodesOver(Keys)] /\ DOMAIN c \subseteq Nodes
<1>1. c \in Caches => c \in [DOMAIN c -> NodesOver(Keys)] /\ DOMAIN c \subseteq Nodes
  BY DEF Caches
<1>2. c \in [DOMAIN c -> NodesOver(Keys)] /\ DOMAIN c \subseteq Nodes => c \in Caches
  BY DEF Caches
<1> QED
  BY <1>1, <1>2

LEMMA EmptyMap ==
    /\ <<>> \in Values /\ <<>> \in Caches /\ DOMAIN <<>> = {}
    /\ \A f : (DOMAIN f = {} /\ f \in [DOMAIN f -> Holds]) => f = <<>>
<1>1. DOMAIN <<>> = {}
  OBVIOUS
<1>2. \A S : <<>> \in [{} -> S]
  OBVIOUS
<1>3. <<>> \in Values /\ <<>> \in Caches
  BY <1>1, <1>2, IsValues, IsCache
<1>4. \A f : (DOMAIN f = {} /\ f \in [DOMAIN f -> Holds]) => f = <<>>
  OBVIOUS
<1> QED
  BY <1>1, <1>3, <1>4

LEMMA NodesOverValues == NodesOver(Keys) = [ready : BOOLEAN, status : Statuses, values : Values]
BY DEF NodesOver, Values

LEMMA AbsentApart == Absent \notin Values
BY AbsentAssumption DEF Values

\* A node of a cache, put or changed.
LEMMA CachePut ==
    ASSUME NEW c \in Caches, NEW n \in Nodes, NEW node \in NodesOver(Keys)
    PROVE  Put(c, n, node) \in Caches
<1>1. c \in [DOMAIN c -> NodesOver(Keys)] /\ DOMAIN c \subseteq Nodes
  BY IsCache
<1>2. Put(c, n, node) \in [DOMAIN c \cup {n} -> NodesOver(Keys)]
  BY <1>1 DEF Put
<1>3. DOMAIN Put(c, n, node) = DOMAIN c \cup {n}
  BY PutIs
<1> QED
  BY <1>1, <1>2, <1>3, IsCache

LEMMA CacheWithout ==
    ASSUME NEW c \in Caches, NEW keys
    PROVE  Without(c, keys) \in Caches
<1>1. c \in [DOMAIN c -> NodesOver(Keys)] /\ DOMAIN c \subseteq Nodes
  BY IsCache
<1>2. Without(c, keys) \in [DOMAIN c \ keys -> NodesOver(Keys)]
  BY <1>1 DEF Without
<1> QED
  BY <1>1, <1>2, WithoutIs, IsCache

\* What reconcile() makes of a node.
LEMMA Reconciled ==
    ASSUME NEW known \in Values, NEW node \in Data,
           NEW r, r = Reconcile(known, node)
    PROVE  /\ r \in NodesOver(Keys) /\ r.ready = node.ready /\ r.status = node.status
           /\ node.values = Absent => r.values = known
           /\ node.values # Absent =>
                /\ node.ready => r.values = node.values
                /\ ~node.ready => DOMAIN r.values = DOMAIN node.values \cup DOMAIN known
<1> DEFINE v == IF node.values = Absent THEN known
                ELSE IF node.ready THEN node.values ELSE Merge(node.values, known)
<1>1. r = [node EXCEPT !.values = v]
  BY DEF Reconcile
<1>2. node.values # Absent => node.values \in Values
  BY DEF Data
<1>3. node.values # Absent =>
        /\ DOMAIN Merge(node.values, known) = DOMAIN node.values \cup DOMAIN known
        /\ Merge(node.values, known) \in Values
  <2> SUFFICES ASSUME node.values \in Values
               PROVE  /\ DOMAIN Merge(node.values, known) = DOMAIN node.values \cup DOMAIN known
                      /\ Merge(node.values, known) \in Values
    BY <1>2
  <2>1. /\ node.values \in [DOMAIN node.values -> Holds] /\ DOMAIN node.values \subseteq Keys
        /\ known \in [DOMAIN known -> Holds] /\ DOMAIN known \subseteq Keys
    BY IsValues
  <2>2. Merge(node.values, known) \in [DOMAIN node.values \cup DOMAIN known -> Holds]
    BY <2>1 DEF Merge
  <2>3. DOMAIN Merge(node.values, known) = DOMAIN node.values \cup DOMAIN known
    BY DEF Merge
  <2> QED
    BY <2>1, <2>2, <2>3, IsValues
<1>4. v \in Values
  BY <1>2, <1>3
<1>5. node.values # Absent /\ ~node.ready => v = Merge(node.values, known)
  OBVIOUS
<1>6. /\ node.values = Absent => v = known
      /\ node.values # Absent /\ node.ready => v = node.values
  OBVIOUS
<1> HIDE DEF v
<1>7. r \in NodesOver(Keys) /\ r.ready = node.ready /\ r.status = node.status /\ r.values = v
  BY <1>1, <1>4, NodesOverValues DEF Data
<1> QED
  BY <1>3, <1>5, <1>6, <1>7

-----------------------------------------------------------------------------
(* The channel. *)

LEMMA Sent ==
    ASSUME NEW S, NEW q \in Seq(S), NEW m \in S
    PROVE  /\ Append(q, m) \in Seq(S) /\ Len(Append(q, m)) = Len(q) + 1 /\ Len(q) \in Nat
           /\ \A i \in 1..Len(q) + 1 : IF i = Len(q) + 1 THEN Append(q, m)[i] = m
                                       ELSE i \in 1..Len(q) /\ Append(q, m)[i] = q[i]
           /\ \A D : \A i \in 0..Len(q) + 1 :
                IF i = Len(q) + 1 THEN TRUE
                ELSE i \in 0..Len(q) /\ (Unsaid(Append(q, m), D, i) <=> Unsaid(q, D, i) /\ m \notin D)
<1>1. /\ Append(q, m) \in Seq(S) /\ Len(Append(q, m)) = Len(q) + 1 /\ Len(q) \in Nat
      /\ Append(q, m)[Len(q) + 1] = m
      /\ \A i \in 1..Len(q) : Append(q, m)[i] = q[i]
  OBVIOUS
<1>2. \A i \in 1..Len(q) + 1 : i # Len(q) + 1 => i \in 1..Len(q)
  BY <1>1
<1>3. \A i \in 0..Len(q) + 1 : i # Len(q) + 1 => i \in 0..Len(q) /\ Len(q) + 1 > i
  BY <1>1
<1>4. Len(q) + 1 \in 1..Len(q) + 1 /\ \A i \in 1..Len(q) : i \in 1..Len(q) + 1
  BY <1>1
<1> QED
  BY <1>1, <1>2, <1>3, <1>4 DEF Unsaid

LEMMA Taken ==
    ASSUME NEW S, NEW q \in Seq(S), q # <<>>
    PROVE  /\ Tail(q) \in Seq(S) /\ Len(Tail(q)) = Len(q) - 1 /\ Len(q) \in Nat
           /\ Head(q) = q[1] /\ Head(q) \in S /\ 1 \in 1..Len(q)
           /\ \A i \in 1..Len(Tail(q)) :
                /\ i + 1 \in 1..Len(q) /\ Tail(q)[i] = q[i + 1] /\ i + 1 # 0 /\ i # 0
           /\ \A D : \A i \in 0..Len(Tail(q)) :
                /\ i + 1 \in 1..Len(q) /\ i + 1 \in 0..Len(q)
                /\ Unsaid(Tail(q), D, i) <=> Unsaid(q, D, i + 1)
           /\ \A D : Unsaid(q, D, 1) /\ q[1] \notin D => Unsaid(q, D, 0)
<1>1. /\ Tail(q) \in Seq(S) /\ Len(Tail(q)) = Len(q) - 1 /\ Len(q) \in Nat /\ Len(q) >= 1
      /\ Head(q) = q[1] /\ Head(q) \in S
      /\ \A i \in 1..Len(q) - 1 : Tail(q)[i] = q[i + 1]
  OBVIOUS
<1>2. /\ \A i \in 1..Len(q) - 1 : i + 1 \in 1..Len(q) /\ i + 1 # 0 /\ i # 0
      /\ \A i \in 0..Len(q) - 1 : i + 1 \in 1..Len(q) /\ i + 1 \in 0..Len(q)
  BY <1>1
<1>3. \A i \in 0..Len(q) - 1, j \in 1..Len(q) : j > i + 1 =>
         j - 1 \in 1..Len(q) - 1 /\ j - 1 > i /\ (j - 1) + 1 = j
  BY <1>1
<1>4. \A i \in 0..Len(q) - 1, j \in 1..Len(q) - 1 : j > i => j + 1 > i + 1
  BY <1>1
<1>5. ASSUME NEW D, NEW i \in 0..Len(q) - 1
      PROVE  Unsaid(Tail(q), D, i) <=> Unsaid(q, D, i + 1)
  <2>1. ASSUME Unsaid(Tail(q), D, i), NEW j \in 1..Len(q), j > i + 1
        PROVE  q[j] \notin D
    <3>1. j - 1 \in 1..Len(q) - 1 /\ j - 1 > i /\ (j - 1) + 1 = j
      BY <1>3, <2>1
    <3>2. Tail(q)[j - 1] = q[j]
      BY <1>1, <3>1
    <3> QED
      BY <1>1, <2>1, <3>1, <3>2 DEF Unsaid
  <2>2. ASSUME Unsaid(q, D, i + 1), NEW j \in 1..Len(q) - 1, j > i
        PROVE  Tail(q)[j] \notin D
    BY <1>1, <1>2, <1>4, <2>2 DEF Unsaid
  <2> QED
    BY <1>1, <2>1, <2>2 DEF Unsaid
<1>6. ASSUME NEW D, Unsaid(q, D, 1), q[1] \notin D
      PROVE  Unsaid(q, D, 0)
  <2>1. \A j \in 1..Len(q) : j = 1 \/ j > 1
    BY <1>1
  <2> QED
    BY <1>6, <2>1 DEF Unsaid
<1>7. 1 \in 1..Len(q)
  BY <1>1
<1> QED
  BY <1>1, <1>2, <1>5, <1>6, <1>7

\* What the fields of the messages are.
LEMMA Messages ==
    ASSUME NEW m \in Message
    PROVE  /\ m.kind \in {"nodes", "refreshed", "removed", "value", "status"}
           /\ m.kind = "nodes" => m.nodes \in Caches
           /\ m.kind # "nodes" => m.node \in Nodes
           /\ m.kind = "refreshed" => m.data \in Data
           /\ m.kind = "value" => /\ m.data \in BareData /\ m.data \in Data
                                  /\ m.key \in Keys /\ m.holds \in Holds
           /\ m.kind = "status" => m.status \in Statuses
BY DEF Message, Data, BareData

-----------------------------------------------------------------------------
(* What the network does, in four forms. *)

\* Nothing changes for the other nodes.
Others(n) ==
    \A x \in Nodes \ {n} : /\ x \in DOMAIN ui' <=> x \in DOMAIN ui
                           /\ x \in DOMAIN ui => ui'[x] = ui[x]

\* Something happens to node n, and m says so.
Says(n, m) ==
    /\ Change /\ Send(m) /\ Others(n)
    /\ n \in Nodes /\ m \in Message /\ m.kind # "nodes" /\ m.node = n
    /\ ui' \in Caches
    /\ shed \subseteq shed' /\ shed' \subseteq Nodes \X Keys

\* The node is announced, or ready.
Tells(n, m) ==
    /\ Says(n, m) /\ m.kind = "refreshed"
    /\ n \in DOMAIN ui'
    /\ m.data.ready = ui'[n].ready /\ m.data.status = ui'[n].status
    /\ m.data.values # Absent => m.data.values = ui'[n].values
    /\ Bare = {TRUE} => m.data.values = Absent
    /\ ui'[n].ready => {n} \X (Keys \ DOMAIN ui'[n].values) \subseteq shed'

\* The node is excluded.
Removes(n, m) ==
    /\ Says(n, m) /\ m.kind = "removed"
    /\ n \notin DOMAIN ui'
    /\ {n} \X Keys \subseteq shed'

\* A value or the status of the node changes.
Reports(n, m) ==
    /\ Says(n, m) /\ m.kind \in {"value", "status"}
    /\ n \in DOMAIN ui /\ n \in DOMAIN ui'
    /\ ui'[n].ready = ui[n].ready /\ DOMAIN ui'[n].values = DOMAIN ui[n].values
    /\ m.kind = "value" => /\ m.data.ready = ui'[n].ready /\ m.data.status = ui'[n].status
                           /\ ui'[n].status = ui[n].status
    /\ m.kind = "status" => m.status = ui'[n].status
    /\ shed' = shed

\* A value is known of the node, and nothing is said of it.
Interviews(n) ==
    /\ Change /\ Others(n)
    /\ n \in Nodes /\ ui' \in Caches
    /\ n \in DOMAIN ui /\ n \in DOMAIN ui'
    /\ ui[n].ready = FALSE /\ ui'[n].ready = FALSE /\ ui'[n].status = ui[n].status
    /\ UNCHANGED <<channel, shed>>

\* The fields of the nodes of a cache.
LEMMA NodesOf ==
    ASSUME NEW c \in Caches, NEW n \in DOMAIN c
    PROVE  /\ n \in Nodes /\ c[n] \in NodesOver(Keys) /\ c[n] \in Data
           /\ c[n].ready \in BOOLEAN /\ c[n].status \in Statuses /\ c[n].values \in Values
           /\ c[n].values # Absent /\ DOMAIN c[n].values \subseteq Keys
           /\ c[n] = [ready |-> c[n].ready, status |-> c[n].status, values |-> c[n].values]
<1>1. n \in Nodes /\ c[n] \in NodesOver(Keys)
  BY IsCache
<1>2. c[n] \in [ready : BOOLEAN, status : Statuses, values : Values]
  BY <1>1, NodesOverValues
<1>3. c[n].values \in Values
  BY <1>2
<1>4. c[n].values # Absent /\ DOMAIN c[n].values \subseteq Keys
  BY <1>3, AbsentApart, IsValues
<1>5. c[n] \in Data
  BY <1>2 DEF Data
<1> QED
  BY <1>1, <1>2, <1>3, <1>4, <1>5

LEMMA NodeExcept ==
    ASSUME NEW node \in NodesOver(Keys), NEW r, NEW s, NEW v
    PROVE  /\ [node EXCEPT !.ready = r] = [ready |-> r, status |-> node.status, values |-> node.values]
           /\ [node EXCEPT !.status = s] = [ready |-> node.ready, status |-> s, values |-> node.values]
           /\ [node EXCEPT !.values = v] = [ready |-> node.ready, status |-> node.status, values |-> v]
BY NodesOverValues

LEMMA SerializedIs ==
    ASSUME NEW c \in Caches, NEW n \in DOMAIN c, NEW bare \in BOOLEAN
    PROVE  /\ Serialized(c, n, bare) \in Data
           /\ Serialized(c, n, TRUE) \in BareData
           /\ Serialized(c, n, bare).ready = c[n].ready
           /\ Serialized(c, n, bare).status = c[n].status
           /\ Serialized(c, n, bare).values # Absent =>
                Serialized(c, n, bare).values = c[n].values
           /\ bare = TRUE => Serialized(c, n, bare).values = Absent
BY NodesOf DEF Serialized, Data, BareData

LEMMA OthersPut ==
    ASSUME NEW n, NEW node, ui' = Put(ui, n, node)
    PROVE  Others(n) /\ DOMAIN ui' = DOMAIN ui \cup {n} /\ ui'[n] = node
<1>1. DOMAIN ui' = DOMAIN ui \cup {n} /\ ui'[n] = node
  BY DEF Put
<1>2. \A x \in DOMAIN ui : x # n => ui'[x] = ui[x]
  BY DEF Put
<1> QED
  BY <1>1, <1>2 DEF Others

LEMMA OthersExcept ==
    ASSUME NEW n \in DOMAIN ui, NEW node, ui' = [ui EXCEPT ![n] = node]
    PROVE  Others(n) /\ DOMAIN ui' = DOMAIN ui /\ ui'[n] = node
BY DEF Others

LEMMA CacheExcept ==
    ASSUME NEW c \in Caches, NEW n \in DOMAIN c, NEW node \in NodesOver(Keys)
    PROVE  [c EXCEPT ![n] = node] \in Caches
<1>1. c \in [DOMAIN c -> NodesOver(Keys)] /\ DOMAIN c \subseteq Nodes
  BY IsCache
<1>2. /\ [c EXCEPT ![n] = node] \in [DOMAIN c -> NodesOver(Keys)]
      /\ DOMAIN [c EXCEPT ![n] = node] = DOMAIN c
  BY <1>1
<1> QED
  BY <1>1, <1>2, IsCache

LEMMA AnnouncedForm ==
    ASSUME TypeInv, NEW n \in Nodes, NEW bare \in Bare, Announced(n, bare)
    PROVE  \E m : Tells(n, m)
<1> PICK s \in Statuses : ui' = Put(ui, n, [ready |-> FALSE, status |-> s, values |-> <<>>])
  BY DEF Announced
<1> DEFINE node == [ready |-> FALSE, status |-> s, values |-> <<>>]
           m == [kind |-> "refreshed", node |-> n, data |-> Serialized(ui', n, bare)]
<1>1. node \in NodesOver(Keys)
  BY EmptyMap, NodesOverValues
<1>2. Others(n) /\ DOMAIN ui' = DOMAIN ui \cup {n} /\ ui'[n] = node
  BY OthersPut
<1>3. ui' \in Caches
  BY <1>1, CachePut DEF TypeInv, WorldType
<1>4. bare \in BOOLEAN
  BY SetsAssumption
<1>5. m \in Message
  BY <1>2, <1>3, <1>4, SerializedIs DEF Message
<1>6. Change /\ Send(m) /\ shed' = shed
  BY DEF Announced, Announce
<1>7. Says(n, m)
  BY <1>2, <1>3, <1>5, <1>6 DEF Says, TypeInv, WorldType
<1>8. ui'[n].ready = FALSE
  BY <1>2
<1>9. /\ m.data.ready = ui'[n].ready /\ m.data.status = ui'[n].status
      /\ m.data.values # Absent => m.data.values = ui'[n].values
  BY <1>2, <1>3, <1>4, SerializedIs
<1>10. Bare = {TRUE} => m.data.values = Absent
  <2>1. bare = TRUE => Serialized(ui', n, bare).values = Absent
    BY <1>2, <1>3, <1>4, SerializedIs
  <2>2. Bare = {TRUE} => bare = TRUE
    OBVIOUS
  <2> QED
    BY <2>1, <2>2
<1> QED
  BY <1>2, <1>7, <1>8, <1>9, <1>10 DEF Tells

LEMMA ReadyForm ==
    ASSUME TypeInv, NEW n \in Nodes, NEW bare \in Bare, Ready(n, bare)
    PROVE  \E m : Tells(n, m)
<1> DEFINE node == [ready |-> TRUE, status |-> ui[n].status, values |-> ui[n].values]
           m == [kind |-> "refreshed", node |-> n, data |-> Serialized(ui', n, bare)]
<1>1. n \in DOMAIN ui /\ ui \in Caches
  BY DEF Ready, TypeInv, WorldType
<1>2. node \in NodesOver(Keys)
  BY <1>1, NodesOf, NodesOverValues
<1>3. ui' = [ui EXCEPT ![n] = node]
  <2>1. ui' = [ui EXCEPT ![n] = [@ EXCEPT !.ready = TRUE]]
    BY <1>1 DEF Ready
  <2>2. ui[n] \in NodesOver(Keys)
    BY <1>1, NodesOf
  <2>3. [ui[n] EXCEPT !.ready = TRUE] = node
    BY <2>2, NodeExcept
  <2> QED
    BY <2>1, <2>3
<1>4. Others(n) /\ DOMAIN ui' = DOMAIN ui /\ ui'[n] = node
  BY <1>1, <1>3, OthersExcept
<1>5. ui' \in Caches
  BY <1>1, <1>2, <1>3, CacheExcept
<1>6. bare \in BOOLEAN
  BY SetsAssumption
<1>7. m \in Message
  BY <1>1, <1>4, <1>5, <1>6, SerializedIs DEF Message
<1>8. Change /\ Send(m) /\ shed' = shed \cup ({n} \X (Keys \ DOMAIN ui[n].values))
  BY DEF Ready, Announce
<1>9. Says(n, m)
  BY <1>4, <1>5, <1>7, <1>8 DEF Says, TypeInv, WorldType
<1>10. /\ m.data.ready = ui'[n].ready /\ m.data.status = ui'[n].status
       /\ m.data.values # Absent => m.data.values = ui'[n].values
  BY <1>1, <1>4, <1>5, <1>6, SerializedIs
<1>11. ui'[n].values = ui[n].values
  BY <1>4
<1>12. Bare = {TRUE} => m.data.values = Absent
  <2>1. bare = TRUE => Serialized(ui', n, bare).values = Absent
    BY <1>1, <1>4, <1>5, <1>6, SerializedIs
  <2>2. Bare = {TRUE} => bare = TRUE
    OBVIOUS
  <2> QED
    BY <2>1, <2>2
<1> QED
  BY <1>1, <1>4, <1>8, <1>9, <1>10, <1>11, <1>12 DEF Tells

LEMMA ExcludedForm ==
    ASSUME TypeInv, NEW n \in Nodes, Excluded(n)
    PROVE  \E m : Removes(n, m)
<1> DEFINE m == [kind |-> "removed", node |-> n]
<1>1. m \in Message
  BY DEF Message
<1>2. ui' = Without(ui, {n}) /\ ui' \in Caches
  BY CacheWithout DEF Excluded, TypeInv, WorldType
<1>3. /\ DOMAIN ui' = DOMAIN ui \ {n}
      /\ \A x \in DOMAIN ui \ {n} : ui'[x] = ui[x]
  BY <1>2, WithoutIs
<1>4. Others(n) /\ n \notin DOMAIN ui'
  BY <1>3 DEF Others
<1>5. Change /\ Send(m) /\ shed' = shed \cup ({n} \X Keys)
  BY DEF Excluded
<1> QED
  BY <1>1, <1>2, <1>4, <1>5 DEF Removes, Says, TypeInv, WorldType

LEMMA ReportedForm ==
    ASSUME TypeInv, NEW n \in Nodes, NEW k \in Keys, NEW h \in Holds, Reported(n, k, h)
    PROVE  \E m : Reports(n, m)
<1> DEFINE v == [ui[n].values EXCEPT ![k] = h]
           node == [ready |-> ui[n].ready, status |-> ui[n].status, values |-> v]
           m == [kind |-> "value", node |-> n, data |-> Serialized(ui', n, TRUE),
                 key |-> k, holds |-> h]
<1>1. n \in DOMAIN ui /\ ui \in Caches /\ k \in DOMAIN ui[n].values
  BY DEF Reported, TypeInv, WorldType
<1>2. v \in Values /\ DOMAIN v = DOMAIN ui[n].values
  BY <1>1, NodesOf, IsValues
<1>3. ui' = [ui EXCEPT ![n] = node]
  <2>1. ui' = [ui EXCEPT ![n] = [@ EXCEPT !.values = v]]
    BY <1>1 DEF Reported
  <2>2. ui[n] \in NodesOver(Keys)
    BY <1>1, NodesOf
  <2>3. [ui[n] EXCEPT !.values = v] = node
    BY <2>2, NodeExcept
  <2> QED
    BY <2>1, <2>3
<1> HIDE DEF v
<1>4. node \in NodesOver(Keys)
  BY <1>1, <1>2, NodesOf, NodesOverValues
<1>5. Others(n) /\ DOMAIN ui' = DOMAIN ui /\ ui'[n] = node
  BY <1>1, <1>3, OthersExcept
<1>6. ui' \in Caches
  BY <1>1, <1>3, <1>4, CacheExcept
<1>7. m \in Message
  BY <1>1, <1>5, <1>6, SerializedIs DEF Message
<1>8. Change /\ Send(m) /\ shed' = shed
  BY DEF Reported
<1>9. Says(n, m)
  BY <1>5, <1>6, <1>7, <1>8 DEF Says, TypeInv, WorldType
<1>10. m.data.ready = ui'[n].ready /\ m.data.status = ui'[n].status
  BY <1>1, <1>5, <1>6, SerializedIs
<1>11. /\ ui'[n].ready = ui[n].ready /\ ui'[n].status = ui[n].status
       /\ DOMAIN ui'[n].values = DOMAIN ui[n].values
  BY <1>2, <1>5
<1> QED
  BY <1>1, <1>5, <1>8, <1>9, <1>10, <1>11 DEF Reports

LEMMA StatusChangedForm ==
    ASSUME TypeInv, NEW n \in Nodes, NEW s \in Statuses, StatusChanged(n, s)
    PROVE  \E m : Reports(n, m)
<1> DEFINE node == [ready |-> ui[n].ready, status |-> s, values |-> ui[n].values]
           m == [kind |-> "status", node |-> n, status |-> s]
<1>1. n \in DOMAIN ui /\ ui \in Caches
  BY DEF StatusChanged, TypeInv, WorldType
<1>2. ui' = [ui EXCEPT ![n] = node]
  <2>1. ui' = [ui EXCEPT ![n] = [@ EXCEPT !.status = s]]
    BY <1>1 DEF StatusChanged
  <2>2. ui[n] \in NodesOver(Keys)
    BY <1>1, NodesOf
  <2>3. [ui[n] EXCEPT !.status = s] = node
    BY <2>2, NodeExcept
  <2> QED
    BY <2>1, <2>3
<1>3. node \in NodesOver(Keys)
  BY <1>1, NodesOf, NodesOverValues
<1>4. Others(n) /\ DOMAIN ui' = DOMAIN ui /\ ui'[n] = node
  BY <1>1, <1>2, OthersExcept
<1>5. ui' \in Caches
  BY <1>1, <1>2, <1>3, CacheExcept
<1>6. m \in Message
  BY DEF Message
<1>7. Change /\ Send(m) /\ shed' = shed
  BY DEF StatusChanged
<1>8. Says(n, m)
  BY <1>4, <1>5, <1>6, <1>7 DEF Says, TypeInv, WorldType
<1> QED
  BY <1>1, <1>4, <1>7, <1>8 DEF Reports

LEMMA InterviewedForm ==
    ASSUME TypeInv, NEW n \in Nodes, NEW k \in Keys, NEW h \in Holds, Interviewed(n, k, h)
    PROVE  Interviews(n)
<1> DEFINE v == Put(ui[n].values, k, h)
           node == [ready |-> ui[n].ready, status |-> ui[n].status, values |-> v]
<1>1. n \in DOMAIN ui /\ ui \in Caches /\ ~ui[n].ready
  BY DEF Interviewed, TypeInv, WorldType
<1>2. v \in Values
  <2>1. /\ ui[n].values \in [DOMAIN ui[n].values -> Holds]
        /\ DOMAIN ui[n].values \subseteq Keys
    BY <1>1, NodesOf, IsValues
  <2>2. v \in [DOMAIN ui[n].values \cup {k} -> Holds] /\ DOMAIN v = DOMAIN ui[n].values \cup {k}
    BY <2>1 DEF Put
  <2> QED
    BY <2>1, <2>2, IsValues
<1>3. ui' = [ui EXCEPT ![n] = node]
  <2>1. ui' = [ui EXCEPT ![n] = [@ EXCEPT !.values = v]]
    BY <1>1 DEF Interviewed
  <2>2. ui[n] \in NodesOver(Keys)
    BY <1>1, NodesOf
  <2>3. [ui[n] EXCEPT !.values = v] = node
    BY <2>2, NodeExcept
  <2> QED
    BY <2>1, <2>3
<1> HIDE DEF v
<1>4. node \in NodesOver(Keys)
  BY <1>1, <1>2, NodesOf, NodesOverValues
<1>5. Others(n) /\ DOMAIN ui' = DOMAIN ui /\ ui'[n] = node
  BY <1>1, <1>3, OthersExcept
<1>6. ui' \in Caches
  BY <1>1, <1>3, <1>4, CacheExcept
<1>7. ui[n].ready \in BOOLEAN
  BY <1>1, NodesOf
<1>8. Change /\ UNCHANGED <<channel, shed>>
  BY DEF Interviewed
<1> QED
  BY <1>1, <1>5, <1>6, <1>7, <1>8 DEF Interviews

-----------------------------------------------------------------------------
(* What the handlers of the messages make of the cache and of the badges. *)

LEMMA IsListing ==
    ASSUME NEW l
    PROVE  l \in Listings <=> l \in [DOMAIN l -> SUBSET Keys] /\ DOMAIN l \subseteq Nodes
<1>1. l \in Listings => l \in [DOMAIN l -> SUBSET Keys] /\ DOMAIN l \subseteq Nodes
  BY DEF Listings
<1>2. l \in [DOMAIN l -> SUBSET Keys] /\ DOMAIN l \subseteq Nodes => l \in Listings
  BY DEF Listings
<1> QED
  BY <1>1, <1>2

LEMMA ListingIs ==
    ASSUME NEW c \in Caches
    PROVE  /\ Listing(c) \in Listings /\ DOMAIN Listing(c) = DOMAIN c
           /\ \A n \in DOMAIN c : Listing(c)[n] = DOMAIN c[n].values
<1>1. DOMAIN Listing(c) = DOMAIN c /\ \A n \in DOMAIN c : Listing(c)[n] = DOMAIN c[n].values
  BY DEF Listing
<1>2. DOMAIN c \subseteq Nodes /\ \A n \in DOMAIN c : DOMAIN c[n].values \in SUBSET Keys
  BY NodesOf
<1>3. Listing(c) \in [DOMAIN c -> SUBSET Keys]
  BY <1>2 DEF Listing
<1> QED
  BY <1>1, <1>2, <1>3, IsListing

LEMMA ValuesOfType ==
    ASSUME registry \in Caches, NEW n
    PROVE  /\ ValuesOf(n) \in Values
           /\ n \in DOMAIN registry => ValuesOf(n) = registry[n].values
           /\ n \notin DOMAIN registry => ValuesOf(n) = <<>>
BY EmptyMap, NodesOf DEF ValuesOf

\* What an event that carries node n makes of the cache.
UpsertedBy(r, n, node) ==
    /\ r \in Caches /\ DOMAIN r = DOMAIN registry \cup {n}
    /\ \A x \in DOMAIN registry : x # n => r[x] = registry[x]
    /\ r[n].ready = node.ready /\ r[n].status = node.status
    /\ node.values = Absent => r[n].values = ValuesOf(n)
    /\ node.values # Absent /\ node.ready => r[n].values = node.values
    /\ node.values # Absent /\ ~node.ready =>
         DOMAIN r[n].values = DOMAIN node.values \cup DOMAIN ValuesOf(n)

LEMMA Upserted ==
    ASSUME registry \in Caches, NEW n \in Nodes, NEW node \in Data,
           NEW r, r = Upsert(n, node)
    PROVE  UpsertedBy(r, n, node)
<1> DEFINE new == Reconcile(ValuesOf(n), node)
<1>1. r = Put(registry, n, new)
  BY DEF Upsert
<1>2. ValuesOf(n) \in Values
  BY ValuesOfType
<1>3. /\ new \in NodesOver(Keys) /\ new.ready = node.ready /\ new.status = node.status
      /\ node.values = Absent => new.values = ValuesOf(n)
      /\ node.values # Absent /\ node.ready => new.values = node.values
      /\ node.values # Absent /\ ~node.ready =>
           DOMAIN new.values = DOMAIN node.values \cup DOMAIN ValuesOf(n)
  BY <1>2, Reconciled
<1> HIDE DEF new
<1>4. r \in Caches
  BY <1>1, <1>3, CachePut
<1>5. DOMAIN r = DOMAIN registry \cup {n} /\ r[n] = new
  BY <1>1 DEF Put
<1>6. \A x \in DOMAIN registry : x # n => r[x] = registry[x]
  BY <1>1 DEF Put
<1> QED
  BY <1>3, <1>4, <1>5, <1>6 DEF UpsertedBy

LEMMA Replaced ==
    ASSUME registry \in Caches, NEW nodes \in Caches, NEW r, r = Replace(nodes)
    PROVE  /\ r \in Caches /\ DOMAIN r = DOMAIN nodes
           /\ \A n \in DOMAIN nodes :
                /\ r[n].ready = nodes[n].ready /\ r[n].status = nodes[n].status
                /\ nodes[n].ready => r[n].values = nodes[n].values
                /\ ~nodes[n].ready =>
                     DOMAIN r[n].values = DOMAIN nodes[n].values \cup DOMAIN ValuesOf(n)
<1>1. DOMAIN r = DOMAIN nodes
  BY DEF Replace
<1>2. \A n \in DOMAIN nodes : r[n] = Reconcile(ValuesOf(n), nodes[n])
  BY DEF Replace
<1>3. ASSUME NEW n \in DOMAIN nodes
      PROVE  /\ r[n] \in NodesOver(Keys)
             /\ r[n].ready = nodes[n].ready /\ r[n].status = nodes[n].status
             /\ nodes[n].ready => r[n].values = nodes[n].values
             /\ ~nodes[n].ready =>
                  DOMAIN r[n].values = DOMAIN nodes[n].values \cup DOMAIN ValuesOf(n)
  <2>1. nodes[n] \in Data /\ nodes[n].values # Absent
    BY NodesOf
  <2>2. ValuesOf(n) \in Values
    BY ValuesOfType
  <2> QED
    BY <1>2, <2>1, <2>2, Reconciled
<1>4. DOMAIN nodes \subseteq Nodes
  BY IsCache
<1>5. r = [n \in DOMAIN nodes |-> r[n]]
  BY DEF Replace
<1>6. r \in [DOMAIN nodes -> NodesOver(Keys)]
  BY <1>3, <1>5
<1>7. r \in Caches
  BY <1>1, <1>4, <1>6, IsCache
<1> QED
  BY <1>1, <1>3, <1>7

LEMMA BadgeType ==
    ASSUME NEW c \in Caches, NEW n \in DOMAIN c
    PROVE  Badge(c[n]) \in Badges
BY NodesOf DEF Badge, Badges

LEMMA Badging ==
    ASSUME GladysType, NEW reg \in Caches, NEW told, told \subseteq DOMAIN reg,
           NEW b, b = PushedBadges(told, reg)
    PROVE  /\ b \in [DOMAIN b -> Badges] /\ DOMAIN b = DOMAIN badges \cup told
           /\ \A n \in DOMAIN b : b[n] = IF n \in told THEN Badge(reg[n]) ELSE badges[n]
<1>1. DOMAIN b = DOMAIN badges \cup told
  BY DEF PushedBadges
<1>2. \A n \in DOMAIN b : b[n] = IF n \in told THEN Badge(reg[n]) ELSE badges[n]
  BY <1>1 DEF PushedBadges
<1>3. \A n \in told : Badge(reg[n]) \in Badges
  BY BadgeType
<1>4. \A n \in DOMAIN badges : badges[n] \in Badges
  BY DEF GladysType
<1>5. \A n \in DOMAIN b : b[n] \in Badges
  BY <1>1, <1>2, <1>3, <1>4
<1>6. b = [n \in DOMAIN b |-> b[n]]
  BY <1>1 DEF PushedBadges
<1> QED
  BY <1>1, <1>2, <1>5, <1>6

\* publishTransports() for the nodes of a cache.
LEMMA BadgingAll ==
    ASSUME GladysType, NEW reg \in Caches, NEW nodes, nodes \subseteq DOMAIN reg,
           NEW b, b = WithBadges(nodes, reg)
    PROVE  /\ b \in [DOMAIN b -> Badges] /\ DOMAIN badges \subseteq DOMAIN b
           /\ DOMAIN b \subseteq DOMAIN created
           /\ \A n \in DOMAIN b : n \notin nodes => n \in DOMAIN badges
           /\ \A n \in nodes \cap DOMAIN created :
                reg[n].status # Unknown => n \in DOMAIN b /\ b[n] = Badge(reg[n])
           /\ \A n \in DOMAIN badges : n \notin nodes => b[n] = badges[n]
<1> DEFINE told == {n \in nodes \cap DOMAIN created : reg[n].status # Unknown}
<1>1. b = PushedBadges(told, reg)
  BY DEF WithBadges
<1>2. /\ told \subseteq nodes /\ told \subseteq DOMAIN created
      /\ \A n \in nodes \cap DOMAIN created : reg[n].status # Unknown => n \in told
  OBVIOUS
<1> HIDE DEF told
<1>3. /\ b \in [DOMAIN b -> Badges] /\ DOMAIN b = DOMAIN badges \cup told
      /\ \A n \in DOMAIN b : b[n] = IF n \in told THEN Badge(reg[n]) ELSE badges[n]
  BY <1>1, <1>2, Badging
<1>4. DOMAIN badges \subseteq DOMAIN created
  BY DEF GladysType
<1> QED
  BY <1>2, <1>3, <1>4

\* push() keeps what it knows, and knows all that it is given.
LEMMA Pushing ==
    ASSUME PublisherType, NEW news, news \in [DOMAIN news -> Holds],
           DOMAIN news \subseteq Nodes \X Keys, Push(news)
    PROVE  /\ PublisherType'
           /\ DOMAIN states \subseteq DOMAIN states' /\ DOMAIN states' \subseteq DOMAIN states \cup DOMAIN news
           /\ Held \subseteq Held'
           /\ DOMAIN news \subseteq Held'
<1> DEFINE accepted == Without(news, Repeated(news))
<1>1. /\ states' = Merge(accepted, states) /\ lastPublished' = Merge(accepted, lastPublished)
      /\ deleted' = deleted \ DOMAIN accepted
  BY DEF Push
<1>2. /\ DOMAIN accepted = DOMAIN news \ Repeated(news)
      /\ accepted \in [DOMAIN accepted -> Holds]
  BY WithoutIs DEF Without
<1>3. Repeated(news) \subseteq DOMAIN lastPublished
  BY DEF Repeated
<1> HIDE DEF accepted
<1>4. /\ DOMAIN states' = DOMAIN states \cup DOMAIN accepted
      /\ DOMAIN lastPublished' = DOMAIN lastPublished \cup DOMAIN accepted
  BY <1>1 DEF Merge
<1>5. states' \in [DOMAIN states' -> Holds]
  BY <1>1, <1>2, <1>4 DEF PublisherType, Merge
<1>6. lastPublished' \in [DOMAIN lastPublished' -> Holds]
  BY <1>1, <1>2, <1>4 DEF PublisherType, Merge
<1>7. /\ DOMAIN states' \subseteq Nodes \X Keys /\ deleted' \subseteq Nodes \X Keys
      /\ DOMAIN lastPublished' \subseteq DOMAIN states' \cup deleted'
  BY <1>1, <1>2, <1>4 DEF PublisherType
<1> QED
  BY <1>1, <1>2, <1>3, <1>4, <1>5, <1>6, <1>7 DEF PublisherType, Held

\* What is pushed holds what the nodes of a cache do.
LEMMA Telling ==
    ASSUME PublisherType, NEW reg \in Caches, NEW pairs,
           \A p \in pairs : p[1] \in DOMAIN reg /\ p[2] \in DOMAIN reg[p[1]].values,
           pairs \subseteq Nodes \X Keys, Push(Snapshot(pairs, reg))
    PROVE  /\ PublisherType'
           /\ DOMAIN states \subseteq DOMAIN states' /\ DOMAIN states' \subseteq DOMAIN states \cup pairs
           /\ Held \subseteq Held'
           /\ pairs \subseteq Held'
<1> DEFINE news == Snapshot(pairs, reg)
<1>1. DOMAIN news = pairs /\ \A p \in pairs : news[p] = reg[p[1]].values[p[2]]
  BY DEF Snapshot
<1>2. ASSUME NEW p \in pairs
      PROVE  reg[p[1]].values[p[2]] \in Holds
  <2>1. p[1] \in DOMAIN reg /\ p[2] \in DOMAIN reg[p[1]].values
    OBVIOUS
  <2>2. reg[p[1]].values \in [DOMAIN reg[p[1]].values -> Holds]
    BY <2>1, NodesOf, IsValues
  <2> QED
    BY <2>1, <2>2
<1>3. news = [p \in DOMAIN news |-> news[p]]
  BY <1>1 DEF Snapshot
<1> HIDE DEF news
<1>4. news \in [DOMAIN news -> Holds]
  BY <1>1, <1>2, <1>3
<1>5. Push(news)
  BY DEF news
<1> QED
  BY <1>1, <1>4, <1>5, Pushing

\* The features of created devices of which a cache has the value.
Owned(reg) ==
    {p \in (DOMAIN reg) \X Keys : p[2] \in DOMAIN reg[p[1]].values /\ Shown(p[1], p[2])}

LEMMA TellingAll ==
    ASSUME GladysType, NEW reg \in Caches, Push(Told(reg)), UNCHANGED created
    PROVE  /\ PublisherType'
           /\ \A p \in DOMAIN states' : p[1] \in DOMAIN created /\ p[2] \in created[p[1]]
           /\ Held \subseteq Held'
           /\ Owned(reg) \subseteq Held'
<1> DEFINE pairs == Owned(reg)
<1>1. Push(Snapshot(pairs, reg))
  BY DEF Told, Snapshots, Owned
<1>2. ASSUME NEW p \in pairs
      PROVE  p \in (DOMAIN reg) \X Keys
  BY DEF Owned
<1>3. ASSUME NEW p \in pairs
      PROVE  p[2] \in DOMAIN reg[p[1]].values /\ Shown(p[1], p[2])
  BY Zenon DEF Owned
<1> HIDE DEF pairs
<1>4. \A p \in pairs : /\ p[1] \in DOMAIN reg /\ p[2] \in DOMAIN reg[p[1]].values
                       /\ p[1] \in DOMAIN created /\ p[2] \in created[p[1]]
  <2>1. ASSUME NEW p \in pairs
        PROVE  p[1] \in DOMAIN reg
    BY <1>2
  <2>2. ASSUME NEW p \in pairs
        PROVE  p[1] \in DOMAIN created /\ p[2] \in created[p[1]]
    BY <1>3, Zenon DEF Shown
  <2>3. ASSUME NEW p \in pairs
        PROVE  p[2] \in DOMAIN reg[p[1]].values
    BY <1>3
  <2> QED
    BY <2>1, <2>2, <2>3
<1>5. pairs \subseteq Nodes \X Keys
  <2>1. DOMAIN reg \subseteq Nodes
    BY IsCache
  <2> QED
    BY <1>2, <2>1
<1>6. /\ PublisherType' /\ DOMAIN states' \subseteq DOMAIN states \cup pairs
      /\ Held \subseteq Held'
      /\ pairs \subseteq Held'
  BY <1>1, <1>4, <1>5, Telling DEF GladysType
<1>7. \A p \in DOMAIN states : p[1] \in DOMAIN created /\ p[2] \in created[p[1]]
  BY DEF GladysType
<1> QED
  BY <1>4, <1>6, <1>7 DEF pairs

\* Gladys drops the states of features.
LEMMA Dropping ==
    ASSUME PublisherType, NEW lost \in SUBSET (Nodes \X Keys), Dropped(lost)
    PROVE  /\ PublisherType' /\ DOMAIN states' = DOMAIN states \ lost
           /\ deleted \subseteq deleted'
<1>1. /\ states' = Without(states, lost) /\ UNCHANGED lastPublished
      /\ deleted' = deleted \cup (lost \cap DOMAIN lastPublished)
  BY DEF Dropped
<1>2. DOMAIN states' = DOMAIN states \ lost /\ states' \in [DOMAIN states' -> Holds]
  BY <1>1, WithoutIs DEF PublisherType, Without
<1> QED
  BY <1>1, <1>2 DEF PublisherType

-----------------------------------------------------------------------------
(* Types. *)

LEMMA TypeFacts ==
    ASSUME TypeInv
    PROVE  TypeOK
<1>1. /\ DOMAIN ui \subseteq Nodes /\ DOMAIN registry \subseteq Nodes
      /\ \A n \in DOMAIN ui : ui[n] \in NodesOver(Keys)
      /\ \A n \in DOMAIN registry : registry[n] \in NodesOver(Keys)
  BY NodesOf, IsCache DEF TypeInv, WorldType, CacheType
<1>2. /\ \A n \in DOMAIN payload : payload[n] \subseteq Keys
      /\ \A n \in DOMAIN listed : listed[n] \subseteq Keys
      /\ \A n \in DOMAIN created : n \in Nodes /\ created[n] \subseteq Keys
  BY IsListing DEF TypeInv, PublicationType, GladysType
<1>3. /\ \A p \in DOMAIN states : states[p] \in Holds
      /\ \A p \in DOMAIN lastPublished : lastPublished[p] \in Holds
      /\ DOMAIN lastPublished \subseteq Nodes \X Keys /\ deleted \subseteq Nodes \X Keys
      /\ \A n \in DOMAIN badges : n \in DOMAIN created /\ badges[n] \in Badges
  BY DEF TypeInv, GladysType, PublisherType
<1> QED
  BY <1>1, <1>2, <1>3
  DEF TypeOK, TypeInv, WorldType, CacheType, PublicationType, GladysType, Badges

LEMMA TypeInit == Init => TypeInv
<1> SUFFICES ASSUME Init PROVE TypeInv
  OBVIOUS
<1>1. WorldType
  <2>1. PICK N \in SUBSET Nodes, h \in Holds, s \in Statuses :
          ui = [n \in N |-> [ready |-> TRUE, status |-> s, values |-> [k \in Keys |-> h]]]
    BY DEF Init
  <2>2. [k \in Keys |-> h] \in Values
    BY DEF Values
  <2>3. [ready |-> TRUE, status |-> s, values |-> [k \in Keys |-> h]] \in NodesOver(Keys)
    BY <2>2, NodesOverValues
  <2>4. ui \in Caches
    BY <2>1, <2>3 DEF Caches
  <2>5. channel = <<>> /\ channel \in Seq(Message) /\ Len(channel) = 0
    BY DEF Init
  <2>6. 0 <= MaxChannel /\ 0 \in 0..MaxAsked /\ 0 \in Nat
    BY BoundsAssumption
  <2>7. /\ asked = 0 /\ link = FALSE /\ stopping = FALSE
        /\ shed = {} /\ changes = 0 /\ drops = 0
    BY DEF Init
  <2> QED
    BY <2>4, <2>5, <2>6, <2>7 DEF WorldType
<1>2. CacheType
  BY EmptyMap DEF Init, CacheType
<1>3. <<>> \in Listings
  <2>1. DOMAIN <<>> = {} /\ <<>> \in [{} -> SUBSET Keys]
    OBVIOUS
  <2> QED
    BY <2>1, IsListing
<1>4. PublicationType
  BY <1>3 DEF Init, PublicationType
<1>5. created \in Listings
  <2>1. PICK D \in SUBSET Nodes : created = [n \in D |-> Keys]
    BY DEF Init
  <2> QED
    BY <2>1 DEF Listings
<1>6. states = <<>> /\ badges = <<>> /\ lastPublished = <<>> /\ deleted = {}
  BY DEF Init
<1>7. GladysType
  <2>1. DOMAIN <<>> = {} /\ \A S : <<>> \in [{} -> S]
    OBVIOUS
  <2>2. DOMAIN states = {} /\ DOMAIN badges = {} /\ DOMAIN lastPublished = {}
    BY <1>6, <2>1
  <2> QED
    BY <1>5, <1>6, <2>1, <2>2 DEF GladysType, PublisherType
<1> QED
  BY <1>1, <1>2, <1>4, <1>7 DEF TypeInv

\* A message is sent, or read.
LEMMA SendKept ==
    ASSUME WorldType, NEW m \in Message, Send(m), Len(channel) < MaxChannel
    PROVE  /\ channel' \in Seq(Message) /\ Len(channel') <= MaxChannel
           /\ link => channel' = Append(channel, m)
           /\ ~link => channel' = <<>> /\ channel = <<>>
<1>1. /\ channel \in Seq(Message) /\ Len(channel) <= MaxChannel /\ (~link => channel = <<>>)
      /\ MaxChannel \in Nat /\ link \in BOOLEAN
  BY BoundsAssumption DEF WorldType
<1>2. channel' = IF link THEN Append(channel, m) ELSE channel
  BY DEF Send
<1>3. /\ Append(channel, m) \in Seq(Message) /\ Len(channel) \in Nat
      /\ Len(Append(channel, m)) = Len(channel) + 1
  BY <1>1
<1> QED
  BY <1>1, <1>2, <1>3

LEMMA Reading ==
    ASSUME WorldType, NEW kind, Receive(kind), UNCHANGED <<asked, Rest>>
    PROVE  /\ WorldType' /\ UNCHANGED <<ui, link, stopping, created, shed, changes, drops>>
           /\ channel \in Seq(Message) /\ channel # <<>> /\ channel' = Tail(channel)
           /\ Head(channel) = channel[1] /\ Head(channel) \in Message
           /\ Head(channel).kind = kind
           /\ link
<1>1. channel # <<>> /\ channel' = Tail(channel) /\ Head(channel).kind = kind
  BY DEF Receive
<1>2. channel \in Seq(Message) /\ Len(channel) <= MaxChannel /\ MaxChannel \in Nat
  BY BoundsAssumption DEF WorldType
<1>3. /\ channel' \in Seq(Message) /\ Len(channel') <= MaxChannel
      /\ Head(channel) = channel[1] /\ Head(channel) \in Message
  <2>1. /\ Tail(channel) \in Seq(Message) /\ Len(Tail(channel)) = Len(channel) - 1
        /\ Len(channel) \in Nat /\ Head(channel) = channel[1] /\ Head(channel) \in Message
    BY <1>1, <1>2, Taken
  <2> QED
    BY <1>1, <1>2, <2>1
<1>4. link
  BY <1>1 DEF WorldType
<1> QED
  BY <1>1, <1>2, <1>3, <1>4 DEF WorldType, Rest

LEMMA SaysType ==
    ASSUME TypeInv, NEW n, NEW m, Says(n, m)
    PROVE  TypeInv'
<1>1. channel' \in Seq(Message) /\ Len(channel') <= MaxChannel /\ (~link => channel' = <<>>)
  BY SendKept DEF Says, Change, TypeInv
<1>2. WorldType'
  BY <1>1 DEF Says, Change, TypeInv, WorldType
<1> QED
  BY <1>2 DEF Says, Change, TypeInv, CacheType, PublicationType, GladysType,
              PublisherType, cache, publication, gladys, publisher

LEMMA InterviewsType ==
    ASSUME TypeInv, NEW n, Interviews(n)
    PROVE  TypeInv'
BY DEF Interviews, Change, TypeInv, WorldType, CacheType, PublicationType, GladysType,
       PublisherType, cache, publication, gladys, publisher

\* Nothing happens, but that push() forgets.
Idle ==
    /\ DOMAIN lastPublished' \subseteq DOMAIN lastPublished
    /\ lastPublished' \in [DOMAIN lastPublished' -> Holds]
    /\ UNCHANGED <<ui, channel, asked, link, stopping, shed, changes, drops>>
    /\ UNCHANGED <<registry, resync, discovery>>
    /\ UNCHANGED <<publishing, payload, again, listed, stale, failures>>
    /\ UNCHANGED <<created, states, deleted, badges>>

LEMMA Idling ==
    ASSUME TypeInv, UNCHANGED vars \/ \E p : Expire(p)
    PROVE  Idle
<1>1. lastPublished \in [DOMAIN lastPublished -> Holds]
  BY DEF TypeInv, GladysType, PublisherType
<1>2. CASE UNCHANGED vars
  BY <1>1, <1>2 DEF vars, Idle
<1>3. ASSUME NEW p, Expire(p)
      PROVE  Idle
  <2>1. /\ lastPublished' = Without(lastPublished, {p})
        /\ UNCHANGED <<external, stopping, cache, publication, created, states, deleted, badges>>
    BY <1>3 DEF Expire
  <2>2. /\ DOMAIN lastPublished' \subseteq DOMAIN lastPublished
        /\ lastPublished' \in [DOMAIN lastPublished' -> Holds]
    BY <1>1, <2>1 DEF Without
  <2> QED
    BY <2>1, <2>2 DEF Idle, external, cache, publication
<1> QED
  BY <1>2, <1>3

\* The actions that touch neither the nodes nor the messages.
LEMMA ControlType ==
    ASSUME TypeInv, LinkUp \/ LinkDown \/ Stop \/ StopEnds \/ ResyncFires \/ RequestScan \/ Idle
    PROVE  TypeInv'
<1>1. WorldType'
  <2>1. CASE LinkUp
    BY <2>1, BoundsAssumption DEF LinkUp, TypeInv, WorldType
  <2>2. CASE LinkDown \/ StopEnds
    <3>1. <<>> \in Seq(Message) /\ Len(<<>>) = 0 /\ 0 <= MaxChannel /\ 0 \in 0..MaxAsked
      BY BoundsAssumption
    <3>2. channel' = <<>> /\ asked' = 0 /\ link' = FALSE
      BY <2>2 DEF LinkDown, StopEnds, Closed
    <3>3. stopping' \in BOOLEAN /\ drops' \in Nat /\ UNCHANGED <<ui, shed, changes>>
      <4>1. stopping \in BOOLEAN /\ drops \in Nat
        BY DEF TypeInv, WorldType
      <4>2. CASE LinkDown
        BY <4>1, <4>2 DEF LinkDown
      <4>3. CASE StopEnds
        BY <4>1, <4>3 DEF StopEnds
      <4> QED
        BY <2>2, <4>2, <4>3
    <3> QED
      BY <3>1, <3>2, <3>3 DEF TypeInv, WorldType
  <2>3. CASE Stop
    BY <2>3 DEF Stop, TypeInv, WorldType
  <2>4. CASE ResyncFires \/ RequestScan
    <3>1. asked' \in 0..MaxAsked /\ (~link => asked' = asked)
      <4>1. asked \in 0..MaxAsked /\ MaxAsked \in Nat
        BY BoundsAssumption DEF TypeInv, WorldType
      <4> QED
        BY <2>4, <4>1 DEF ResyncFires, RequestScan, RequestNodes
    <3> QED
      BY <2>4, <3>1 DEF ResyncFires, RequestScan, Rest, TypeInv, WorldType
  <2>5. CASE Idle
    BY <2>5 DEF Idle, TypeInv, WorldType
  <2> QED
    BY <2>1, <2>2, <2>3, <2>4, <2>5
<1>2. CacheType'
  BY DEF LinkUp, LinkDown, Stop, StopEnds, ResyncFires, RequestScan, Idle, cache, TypeInv, CacheType
<1>3. PublicationType'
  BY DEF LinkUp, LinkDown, Stop, StopEnds, ResyncFires, RequestScan, Idle, publication, Rest,
         TypeInv, PublicationType
<1>4. GladysType'
  <2>1. UNCHANGED <<created, states, deleted, badges>>
    BY DEF LinkUp, LinkDown, Stop, StopEnds, ResyncFires, RequestScan, Idle, gladys, publisher, Rest
  <2>2. /\ DOMAIN lastPublished' \subseteq DOMAIN lastPublished
        /\ lastPublished' \in [DOMAIN lastPublished' -> Holds]
    <3>1. CASE UNCHANGED lastPublished
      BY <3>1 DEF TypeInv, GladysType, PublisherType
    <3>2. CASE StopEnds
      <4>1. DOMAIN <<>> = {} /\ <<>> \in [{} -> Holds]
        OBVIOUS
      <4> QED
        BY <3>2, <4>1 DEF StopEnds
    <3>3. CASE Idle
      BY <3>3 DEF Idle
    <3> QED
      BY <3>1, <3>2, <3>3
      DEF LinkUp, LinkDown, Stop, ResyncFires, RequestScan, gladys, publisher
  <2> QED
    BY <2>1, <2>2 DEF TypeInv, GladysType, PublisherType
<1> QED
  BY <1>1, <1>2, <1>3, <1>4 DEF TypeInv

LEMMA PublishType ==
    ASSUME PublicationType, NEW who \in {"timer", "answer"}, NEW reg \in Caches,
           PublishDiscovered(who, reg), UNCHANGED <<listed, failures>>
    PROVE  PublicationType'
BY ListingIs DEF PublishDiscovered, PublicationType

\* The handlers of the messages.
LEMMA OnNodesType ==
    ASSUME TypeInv, OnNodes
    PROVE  TypeInv'
<1> DEFINE nodes == Head(channel).nodes
<1>1. /\ WorldType' /\ UNCHANGED created /\ UNCHANGED <<listed, failures, resync, discovery>>
      /\ nodes \in Caches /\ registry \in Caches
  BY Reading, Messages DEF OnNodes, TypeInv, CacheType
<1>2. registry' = Replace(nodes) /\ registry' \in Caches
  BY <1>1, Replaced DEF OnNodes
<1> HIDE DEF nodes
<1>3. PublicationType'
  BY <1>1, <1>2, PublishType DEF OnNodes, TypeInv
<1>4. GladysType'
  <2>1. CASE UNCHANGED <<publisher, badges>>
    BY <1>1, <2>1 DEF TypeInv, GladysType, PublisherType, publisher
  <2>2. CASE Push(Told(registry')) /\ badges' = Badged(registry')
    <3>1. /\ PublisherType'
          /\ \A p \in DOMAIN states' : p[1] \in DOMAIN created /\ p[2] \in created[p[1]]
      BY <1>1, <1>2, <2>2, TellingAll DEF TypeInv
    <3>2. badges' \in [DOMAIN badges' -> Badges] /\ DOMAIN badges' \subseteq DOMAIN created
      BY <1>2, <2>2, BadgingAll DEF TypeInv, Badged
    <3> QED
      BY <1>1, <3>1, <3>2 DEF TypeInv, GladysType
  <2> QED
    BY <2>1, <2>2 DEF OnNodes
<1> QED
  BY <1>1, <1>2, <1>3, <1>4 DEF TypeInv, CacheType

\* One node is read, cached and badged.
LEMMA NodeType ==
    ASSUME TypeInv, NEW n \in Nodes, registry' \in Caches,
           badges' = WithBadges({n}, registry'), n \in DOMAIN registry', UNCHANGED created
    PROVE  badges' \in [DOMAIN badges' -> Badges] /\ DOMAIN badges' \subseteq DOMAIN created
BY BadgingAll DEF TypeInv

LEMMA OnValueUpdatedType ==
    ASSUME TypeInv, OnValueUpdated
    PROVE  TypeInv'
<1> DEFINE m == Head(channel)
<1>1. /\ WorldType' /\ UNCHANGED created /\ UNCHANGED <<discovery, publication>>
      /\ m \in Message /\ m.kind = "value" /\ registry \in Caches
  BY Reading DEF OnValueUpdated, TypeInv, CacheType
<1>2. m.node \in Nodes /\ m.data \in Data /\ m.holds \in Holds /\ m.key \in Keys
  BY <1>1, Messages
<1>3. /\ registry' = Upsert(m.node, m.data)
      /\ resync' = (resync \/ Degraded(ValuesOf(m.node), m.data))
      /\ badges' = WithBadges({m.node}, registry')
      /\ Push([p \in {q \in {<<m.node, m.key>>} : Shown(q[1], q[2])} |-> m.holds])
  BY DEF OnValueUpdated
<1> HIDE DEF m
<1>4. registry' \in Caches /\ m.node \in DOMAIN registry'
  <2>1. registry \in Caches
    BY <1>1
  <2>2. m.node \in Nodes /\ m.data \in Data
    BY <1>2
  <2>3. registry' = Upsert(m.node, m.data)
    BY <1>3
  <2>4. UpsertedBy(registry', m.node, m.data)
    BY <2>1, <2>2, <2>3, Upserted
  <2> QED
    BY <2>4 DEF UpsertedBy
<1>5. CacheType'
  <2>1. Degraded(ValuesOf(m.node), m.data) \in BOOLEAN
    BY DEF Degraded
  <2> QED
    BY <1>1, <1>3, <1>4, <2>1 DEF TypeInv, CacheType
<1>6. badges' \in [DOMAIN badges' -> Badges] /\ DOMAIN badges' \subseteq DOMAIN created
  BY <1>1, <1>2, <1>3, <1>4, NodeType
<1>7. /\ PublisherType'
      /\ \A p \in DOMAIN states' : p[1] \in DOMAIN created /\ p[2] \in created[p[1]]
  <2> DEFINE told == {q \in {<<m.node, m.key>>} : Shown(q[1], q[2])}
             news == [p \in told |-> m.holds]
  <2>1. told \subseteq Nodes \X Keys
    BY <1>2
  <2>2. \A p \in told : p[1] \in DOMAIN created /\ p[2] \in created[p[1]]
    BY DEF Shown
  <2>3. news \in [told -> Holds] /\ DOMAIN news = told /\ Push(news)
    BY <1>2, <1>3
  <2> HIDE DEF told, news
  <2>4. PublisherType' /\ DOMAIN states' \subseteq DOMAIN states \cup told
    BY <2>1, <2>3, Pushing DEF TypeInv, GladysType
  <2> QED
    BY <2>2, <2>4 DEF TypeInv, GladysType
<1> QED
  BY <1>1, <1>5, <1>6, <1>7 DEF TypeInv, PublicationType, GladysType, publication

LEMMA OnNodeRefreshedType ==
    ASSUME TypeInv, OnNodeRefreshed
    PROVE  TypeInv'
<1> DEFINE m == Head(channel)
<1>1. /\ WorldType' /\ UNCHANGED created /\ UNCHANGED <<publication, publisher>>
      /\ m \in Message /\ m.kind = "refreshed" /\ registry \in Caches /\ discovery' = TRUE
  BY Reading DEF OnNodeRefreshed, TypeInv, CacheType
<1>2. m.node \in Nodes /\ m.data \in Data
  BY <1>1, Messages
<1>3. /\ registry' = Upsert(m.node, m.data)
      /\ resync' = Resync(ValuesOf(m.node), m.data)
      /\ badges' = WithBadges({m.node}, registry')
  BY DEF OnNodeRefreshed
<1> HIDE DEF m
<1>4. registry' \in Caches /\ m.node \in DOMAIN registry'
  <2>1. registry \in Caches
    BY <1>1
  <2>2. m.node \in Nodes /\ m.data \in Data
    BY <1>2
  <2>3. registry' = Upsert(m.node, m.data)
    BY <1>3
  <2>4. UpsertedBy(registry', m.node, m.data)
    BY <2>1, <2>2, <2>3, Upserted
  <2> QED
    BY <2>4 DEF UpsertedBy
<1>5. resync' \in BOOLEAN
  BY <1>3 DEF Resync
<1>6. badges' \in [DOMAIN badges' -> Badges] /\ DOMAIN badges' \subseteq DOMAIN created
  BY <1>1, <1>2, <1>3, <1>4, NodeType
<1> QED
  BY <1>1, <1>4, <1>5, <1>6
  DEF TypeInv, CacheType, PublicationType, GladysType, PublisherType, publication, publisher

LEMMA OnNodeRemovedType ==
    ASSUME TypeInv, OnNodeRemoved
    PROVE  TypeInv'
<1> DEFINE n == Head(channel).node
<1>1. /\ WorldType' /\ UNCHANGED created /\ UNCHANGED <<publication, publisher, resync>>
      /\ registry \in Caches /\ discovery' = TRUE
      /\ registry' = Without(registry, {n}) /\ badges' = Left(n)
  BY Reading DEF OnNodeRemoved, TypeInv, CacheType
<1>2. registry' \in Caches
  BY <1>1, CacheWithout
<1> HIDE DEF n
<1>3. badges' \in [DOMAIN badges' -> Badges] /\ DOMAIN badges' \subseteq DOMAIN created
  <2>1. CASE n \notin DOMAIN created
    BY <1>1, <2>1 DEF Left, TypeInv, GladysType
  <2>2. CASE n \in DOMAIN created
    <3>1. badges' = Put(badges, n, Gone) /\ Gone \in Badges
      BY <1>1, <2>2 DEF Left, Gone, Badges
    <3>2. badges' \in [DOMAIN badges \cup {n} -> Badges] /\ DOMAIN badges' = DOMAIN badges \cup {n}
      BY <3>1 DEF Put, TypeInv, GladysType
    <3> QED
      BY <2>2, <3>2 DEF TypeInv, GladysType
  <2> QED
    BY <2>1, <2>2
<1> QED
  BY <1>1, <1>2, <1>3
  DEF TypeInv, CacheType, PublicationType, GladysType, PublisherType, publication, publisher

\* What onNodeStatus() does to the cache.
LEMMA Rated ==
    ASSUME TypeInv, NEW n \in DOMAIN registry, NEW s \in Statuses,
           registry' = [registry EXCEPT ![n].status = s]
    PROVE  /\ registry' \in Caches /\ DOMAIN registry' = DOMAIN registry
           /\ \A x \in DOMAIN registry : x # n => registry'[x] = registry[x]
           /\ registry'[n].ready = registry[n].ready /\ registry'[n].status = s
           /\ registry'[n].values = registry[n].values
<1> DEFINE node == [ready |-> registry[n].ready, status |-> s, values |-> registry[n].values]
<1>1. registry \in Caches
  BY DEF TypeInv, CacheType
<1>2. registry[n] \in NodesOver(Keys) /\ node \in NodesOver(Keys)
  BY <1>1, NodesOf, NodesOverValues
<1>3. registry' = [registry EXCEPT ![n] = node]
  <2>1. registry' = [registry EXCEPT ![n] = [@ EXCEPT !.status = s]]
    OBVIOUS
  <2>2. [registry[n] EXCEPT !.status = s] = node
    BY <1>2, NodeExcept
  <2> QED
    BY <2>1, <2>2
<1>4. registry' \in Caches
  <2>1. [registry EXCEPT ![n] = node] \in Caches
    <3> HIDE DEF node
    <3> QED
      BY <1>1, <1>2, CacheExcept, Zenon
  <2> QED
    BY <1>3, <2>1, Zenon
<1>5. /\ DOMAIN registry' = DOMAIN registry /\ registry'[n] = node
      /\ \A x \in DOMAIN registry : x # n => registry'[x] = registry[x]
  BY <1>3
<1> QED
  BY <1>4, <1>5

LEMMA OnNodeStatusType ==
    ASSUME TypeInv, OnNodeStatus
    PROVE  TypeInv'
<1> DEFINE m == Head(channel)
<1>1. /\ WorldType' /\ UNCHANGED created /\ UNCHANGED <<publication, publisher, resync, discovery>>
      /\ m \in Message /\ m.kind = "status"
  BY Reading DEF OnNodeStatus, TypeInv
<1>2. m.node \in Nodes /\ m.status \in Statuses
  BY <1>1, Messages
<1>3. IF m.node \in DOMAIN registry
        THEN /\ registry' = [registry EXCEPT ![m.node].status = m.status]
             /\ badges' = WithBadges({m.node}, registry')
        ELSE UNCHANGED <<registry, badges>>
  BY DEF OnNodeStatus
<1> HIDE DEF m
<1>4. /\ registry' \in Caches
      /\ badges' \in [DOMAIN badges' -> Badges] /\ DOMAIN badges' \subseteq DOMAIN created
  <2>1. CASE m.node \notin DOMAIN registry
    BY <1>3, <2>1 DEF TypeInv, CacheType, GladysType
  <2>2. CASE m.node \in DOMAIN registry
    <3>1. registry' \in Caches /\ m.node \in DOMAIN registry'
      BY <1>2, <1>3, <2>2, Rated
    <3> QED
      BY <1>1, <1>2, <1>3, <2>2, <3>1, NodeType
  <2> QED
    BY <2>1, <2>2
<1> QED
  BY <1>1, <1>4
  DEF TypeInv, CacheType, PublicationType, GladysType, PublisherType, publication, publisher

\* The timer and the end of a publication.
LEMMA DiscoveryFiresType ==
    ASSUME TypeInv, DiscoveryFires
    PROVE  TypeInv'
<1>1. registry \in Caches
  BY DEF TypeInv, CacheType
<1>2. PublicationType'
  BY <1>1, PublishType DEF DiscoveryFires, TypeInv
<1> QED
  BY <1>2 DEF DiscoveryFires, Rest, TypeInv, WorldType, CacheType, GladysType, PublisherType, publisher

LEMMA PublicationEndsType ==
    ASSUME TypeInv, NEW ok \in BOOLEAN, PublicationEnds(ok)
    PROVE  TypeInv'
<1>1. registry \in Caches /\ UNCHANGED registry /\ UNCHANGED created
  BY DEF TypeInv, CacheType, PublicationEnds, cache
<1>2. WorldType' /\ CacheType'
  BY DEF PublicationEnds, external, cache, TypeInv, WorldType, CacheType
<1>3. PublicationType'
  <2>1. Listing(registry) \in Listings /\ <<>> \in Listings
    <3>1. DOMAIN <<>> = {} /\ <<>> \in [{} -> SUBSET Keys]
      OBVIOUS
    <3> QED
      BY <1>1, <3>1, IsListing, ListingIs
  <2>2. failures' \in Nat
    BY DEF PublicationEnds, TypeInv, PublicationType
  <2>3. listed' \in Listings /\ again' = FALSE
    BY DEF PublicationEnds, TypeInv, PublicationType
  <2>4. publishing' \in {"no", "timer", "answer"} /\ payload' \in Listings
    BY <2>1 DEF PublicationEnds, TypeInv, PublicationType
  <2> QED
    BY <2>2, <2>3, <2>4 DEF PublicationType
<1>4. GladysType'
  <2>1. CASE UNCHANGED <<publisher, badges>>
    BY <1>1, <2>1 DEF TypeInv, GladysType, PublisherType, publisher
  <2>2. CASE Push(Told(registry)) /\ badges' = Badged(registry)
    <3>1. /\ PublisherType'
          /\ \A p \in DOMAIN states' : p[1] \in DOMAIN created /\ p[2] \in created[p[1]]
      BY <1>1, <2>2, TellingAll DEF TypeInv
    <3>2. badges' \in [DOMAIN badges' -> Badges] /\ DOMAIN badges' \subseteq DOMAIN created
      BY <1>1, <2>2, BadgingAll DEF TypeInv, Badged
    <3> QED
      BY <1>1, <3>1, <3>2 DEF TypeInv, GladysType
  <2> QED
    BY <2>1, <2>2 DEF PublicationEnds
<1> QED
  BY <1>2, <1>3, <1>4 DEF TypeInv

\* The user.
LEMMA OnDeviceCreatedType ==
    ASSUME TypeInv, NEW n, OnDeviceCreated(n)
    PROVE  TypeInv'
<1> DEFINE cached == {n} \cap DOMAIN registry
           pairs == {p \in cached \X listed[n] : p[2] \in DOMAIN registry[p[1]].values}
           badged == {m \in cached : registry[m].status # Unknown}
<1>1. /\ n \in DOMAIN listed \ DOMAIN created
      /\ created' = Put(created, n, listed[n])
      /\ Push(Snapshot(pairs, registry)) /\ badges' = PushedBadges(badged, registry)
  BY DEF OnDeviceCreated
<1>2. registry \in Caches
  BY DEF TypeInv, CacheType
<1>3. ASSUME NEW p \in pairs
      PROVE  p \in cached \X listed[n] /\ p[2] \in DOMAIN registry[p[1]].values
  OBVIOUS
<1>4. ASSUME NEW p \in pairs
      PROVE  p[1] \in cached /\ p[2] \in listed[n]
  BY <1>3
<1>5. \A p \in pairs : p \in cached \X listed[n]
  BY <1>3
<1>6. badged \subseteq {n} /\ badged \subseteq DOMAIN registry /\ cached = {n} \cap DOMAIN registry
  OBVIOUS
<1> HIDE DEF pairs, badged, cached
<1>7. \A p \in pairs : /\ p[1] \in DOMAIN registry /\ p[2] \in DOMAIN registry[p[1]].values
                      /\ p[1] = n /\ p[2] \in listed[n]
  BY <1>3, <1>4, <1>6
<1>8. PublisherType' /\ DOMAIN states' \subseteq DOMAIN states \cup pairs
  <2>1. n \in Nodes /\ listed[n] \subseteq Keys
    BY <1>1, IsListing DEF TypeInv, PublicationType
  <2>2. cached \X listed[n] \subseteq Nodes \X Keys
    BY <1>6, <2>1
  <2>3. pairs \subseteq Nodes \X Keys
    BY <1>5, <2>2
  <2> QED
    BY <1>1, <1>2, <1>7, <2>3, Telling DEF TypeInv, GladysType
<1>9. badges' \in [DOMAIN badges' -> Badges] /\ DOMAIN badges' = DOMAIN badges \cup badged
  BY <1>1, <1>2, <1>6, Badging DEF TypeInv
<1>10. /\ created' \in Listings /\ DOMAIN created' = DOMAIN created \cup {n}
      /\ created'[n] = listed[n] /\ \A m \in DOMAIN created : created'[m] = created[m]
  <2>1. /\ listed \in [DOMAIN listed -> SUBSET Keys] /\ DOMAIN listed \subseteq Nodes
        /\ created \in [DOMAIN created -> SUBSET Keys] /\ DOMAIN created \subseteq Nodes
    BY IsListing DEF TypeInv, PublicationType, GladysType
  <2>2. DOMAIN created' = DOMAIN created \cup {n} /\ created'[n] = listed[n]
    BY <1>1 DEF Put
  <2>3. \A m \in DOMAIN created : created'[m] = created[m]
    BY <1>1 DEF Put
  <2>4. created' \in [DOMAIN created \cup {n} -> SUBSET Keys]
    BY <1>1, <2>1 DEF Put
  <2>5. created' \in Listings
    BY <1>1, <2>1, <2>2, <2>4, IsListing
  <2> QED
    BY <2>2, <2>3, <2>5
<1>11. \A p \in DOMAIN states' : p[1] \in DOMAIN created' /\ p[2] \in created'[p[1]]
  <2>1. \A p \in DOMAIN states : p[1] \in DOMAIN created /\ p[2] \in created[p[1]]
    BY DEF TypeInv, GladysType
  <2> QED
    BY <1>7, <1>8, <1>10, <2>1
<1>13. DOMAIN badges' \subseteq DOMAIN created'
  BY <1>6, <1>9, <1>10 DEF TypeInv, GladysType
<1>14. GladysType'
  BY <1>8, <1>9, <1>10, <1>11, <1>13 DEF GladysType
<1> QED
  BY <1>14 DEF OnDeviceCreated, external, cache, publication,
               TypeInv, WorldType, CacheType, PublicationType

LEMMA OnDeviceUpdatedType ==
    ASSUME TypeInv, NEW n, OnDeviceUpdated(n)
    PROVE  TypeInv'
<1> DEFINE lost == {n} \X (Keys \ listed[n])
<1>1. /\ n \in DOMAIN listed \cap DOMAIN created
      /\ created' = [created EXCEPT ![n] = listed[n]]
      /\ Dropped(lost)
      /\ badges' = WithBadges({n} \cap DOMAIN registry, registry)
  BY DEF OnDeviceUpdated
<1>2. registry \in Caches
  BY DEF TypeInv, CacheType
<1>3. /\ listed \in [DOMAIN listed -> SUBSET Keys] /\ DOMAIN listed \subseteq Nodes
      /\ created \in [DOMAIN created -> SUBSET Keys] /\ DOMAIN created \subseteq Nodes
  BY IsListing DEF TypeInv, PublicationType, GladysType
<1>4. /\ created' \in [DOMAIN created -> SUBSET Keys] /\ DOMAIN created' = DOMAIN created
      /\ created'[n] = listed[n] /\ \A m \in DOMAIN created : m # n => created'[m] = created[m]
  BY <1>1, <1>3
<1>5. created' \in Listings
  BY <1>3, <1>4, IsListing
<1>6. badges' \in [DOMAIN badges' -> Badges] /\ DOMAIN badges' \subseteq DOMAIN created
  BY <1>1, <1>2, BadgingAll DEF TypeInv
<1>7. \A k \in Keys : <<n, k>> \notin lost => k \in listed[n]
  OBVIOUS
<1>7a. lost \in SUBSET (Nodes \X Keys)
  BY <1>1, <1>3
<1> HIDE DEF lost
<1>8. DOMAIN states' = DOMAIN states \ lost /\ PublisherType'
  BY <1>1, <1>7a, Dropping DEF TypeInv, GladysType
<1>9. DOMAIN states' \subseteq Nodes \X Keys
  BY <1>8 DEF PublisherType
<1>10. \A p \in DOMAIN states' : p[1] \in DOMAIN created' /\ p[2] \in created'[p[1]]
  <2> SUFFICES ASSUME NEW p \in DOMAIN states'
               PROVE  p[1] \in DOMAIN created' /\ p[2] \in created'[p[1]]
    OBVIOUS
  <2>1. p[1] \in DOMAIN created /\ p[2] \in created[p[1]] /\ p \notin lost
    BY <1>8 DEF TypeInv, GladysType, PublisherType
  <2>2. CASE p[1] # n
    BY <1>4, <2>1, <2>2
  <2>3. CASE p[1] = n
    <3>1. p[2] \in Keys
      BY <1>3, <2>1
    <3>2. p = <<n, p[2]>>
      BY <1>9, <2>3
    <3> QED
      BY <1>4, <1>7, <2>1, <2>3, <3>1, <3>2
  <2> QED
    BY <2>2, <2>3
<1>11. GladysType'
  BY <1>4, <1>5, <1>6, <1>8, <1>10 DEF GladysType
<1> QED
  BY <1>11 DEF OnDeviceUpdated, external, cache, publication,
               TypeInv, WorldType, CacheType, PublicationType

LEMMA OnDeviceDeletedType ==
    ASSUME TypeInv, NEW n, OnDeviceDeleted(n)
    PROVE  TypeInv'
<1> DEFINE lost == {n} \X Keys
<1>1a. n \in DOMAIN created
  BY DEF OnDeviceDeleted
<1>1. /\ created' = Without(created, {n})
      /\ Dropped(lost) /\ badges' = Without(badges, {n})
  BY DEF OnDeviceDeleted
<1>2. created \in [DOMAIN created -> SUBSET Keys] /\ DOMAIN created \subseteq Nodes
  BY IsListing DEF TypeInv, GladysType
<1>3. /\ DOMAIN created' = DOMAIN created \ {n}
      /\ \A m \in DOMAIN created \ {n} : created'[m] = created[m]
  BY <1>1, WithoutIs
<1>4. created' \in [DOMAIN created \ {n} -> SUBSET Keys]
  BY <1>1, <1>2 DEF Without
<1>5. created' \in Listings
  BY <1>2, <1>3, <1>4, IsListing
<1>6. badges' \in [DOMAIN badges' -> Badges] /\ DOMAIN badges' \subseteq DOMAIN created'
  <2>1. DOMAIN badges' = DOMAIN badges \ {n}
    BY <1>1, WithoutIs
  <2>2. badges' \in [DOMAIN badges \ {n} -> Badges]
    BY <1>1 DEF Without, TypeInv, GladysType
  <2> QED
    BY <1>3, <2>1, <2>2 DEF TypeInv, GladysType
<1>7. \A k \in Keys : <<n, k>> \in lost
  OBVIOUS
<1>7a. lost \in SUBSET (Nodes \X Keys)
  BY <1>1a, <1>2
<1> HIDE DEF lost
<1>8. DOMAIN states' = DOMAIN states \ lost /\ PublisherType'
  BY <1>1, <1>7a, Dropping DEF TypeInv, GladysType
<1>9. DOMAIN states' \subseteq Nodes \X Keys
  BY <1>8 DEF PublisherType
<1>10. \A p \in DOMAIN states' : p[1] \in DOMAIN created' /\ p[2] \in created'[p[1]]
  <2> SUFFICES ASSUME NEW p \in DOMAIN states'
               PROVE  p[1] \in DOMAIN created' /\ p[2] \in created'[p[1]]
    OBVIOUS
  <2>1. p[1] \in DOMAIN created /\ p[2] \in created[p[1]] /\ p \notin lost
    BY <1>8 DEF TypeInv, GladysType
  <2>2. p[2] \in Keys
    BY <1>2, <2>1
  <2>3. p[1] # n
    BY <1>7, <1>9, <2>1, <2>2
  <2> QED
    BY <1>3, <2>1, <2>3
<1>11. GladysType'
  BY <1>5, <1>6, <1>8, <1>10 DEF GladysType
<1> QED
  BY <1>11 DEF OnDeviceDeleted, external, cache, publication,
               TypeInv, WorldType, CacheType, PublicationType

LEMMA AnsweredType ==
    ASSUME TypeInv, Answered
    PROVE  /\ TypeInv' /\ channel' = Append(channel, [kind |-> "nodes", nodes |-> ui])
           /\ [kind |-> "nodes", nodes |-> ui] \in Message
           /\ channel \in Seq(Message)
<1> DEFINE m == [kind |-> "nodes", nodes |-> ui]
<1>1. m \in Message
  BY DEF Message, TypeInv, WorldType
<1>2. /\ channel \in Seq(Message) /\ Len(channel) < MaxChannel /\ asked > 0
      /\ asked \in 0..MaxAsked /\ MaxAsked \in Nat /\ MaxChannel \in Nat
      /\ channel' = Append(channel, m) /\ asked' = asked - 1
  BY BoundsAssumption DEF Answered, TypeInv, WorldType
<1> HIDE DEF m
<1>3. channel' \in Seq(Message) /\ Len(channel') <= MaxChannel
  BY <1>1, <1>2, Sent
<1>4. asked' \in 0..MaxAsked
  BY <1>2
<1>5. link /\ UNCHANGED <<ui, link, stopping, shed, changes, drops>>
  BY <1>2 DEF Answered, TypeInv, WorldType
<1>6. WorldType'
  BY <1>3, <1>4, <1>5 DEF TypeInv, WorldType
<1>7. TypeInv'
  BY <1>6 DEF Answered, cache, publication, gladys, publisher, TypeInv, CacheType, PublicationType,
              GladysType, PublisherType
<1> QED
  BY <1>1, <1>2, <1>7 DEF m

(***************************************************************************)
(* The steps: what the network does, in its four forms, and the actions.   *)
(***************************************************************************)
Form ==
    \/ \E n, m : Tells(n, m) \/ Removes(n, m) \/ Reports(n, m)
    \/ \E n : Interviews(n)
    \/ Answered
    \/ OnNodes \/ OnValueUpdated \/ OnNodeRefreshed \/ OnNodeRemoved \/ OnNodeStatus
    \/ DiscoveryFires \/ \E ok \in BOOLEAN : PublicationEnds(ok)
    \/ \E n : OnDeviceCreated(n) \/ (n \in Updatable /\ OnDeviceUpdated(n)) \/ OnDeviceDeleted(n)
    \/ LinkUp \/ LinkDown \/ Stop \/ StopEnds \/ ResyncFires \/ RequestScan \/ Idle

LEMMA Forms ==
    ASSUME TypeInv, [Next]_vars
    PROVE  Form
<1>1. CASE NetworkNext
  <2>1. ASSUME NEW n \in Nodes, NEW bare \in Bare, Announced(n, bare) \/ Ready(n, bare)
        PROVE  Form
    BY <2>1, AnnouncedForm, ReadyForm DEF Form
  <2>2. ASSUME NEW n \in Nodes, NEW k \in Keys, NEW h \in Holds,
               Interviewed(n, k, h) \/ Reported(n, k, h)
        PROVE  Form
    BY <2>2, InterviewedForm, ReportedForm DEF Form
  <2>3. ASSUME NEW n \in Nodes, Excluded(n)
        PROVE  Form
    BY <2>3, ExcludedForm DEF Form
  <2>4. ASSUME NEW n \in Nodes, NEW s \in Statuses, StatusChanged(n, s)
        PROVE  Form
    BY <2>4, StatusChangedForm DEF Form
  <2> QED
    BY <1>1, <2>1, <2>2, <2>3, <2>4 DEF NetworkNext, Form
<1>2. CASE IntegrationNext
  BY <1>2, Idling DEF IntegrationNext, Form
<1>3. CASE UserNext
  BY <1>3 DEF UserNext, Form
<1>4. CASE UNCHANGED vars
  BY <1>4, Idling DEF Form
<1> QED
  BY <1>1, <1>2, <1>3, <1>4 DEF Next

LEMMA TypeKept ==
    ASSUME TypeInv, [Next]_vars
    PROVE  TypeInv'
<1>1. ASSUME NEW n, NEW m, Tells(n, m) \/ Removes(n, m) \/ Reports(n, m)
      PROVE  TypeInv'
  BY <1>1, SaysType DEF Tells, Removes, Reports
<1>2. Form
  BY Forms
<1> QED
  BY <1>1, <1>2, InterviewsType, AnsweredType, OnNodesType, OnValueUpdatedType,
     OnNodeRefreshedType, OnNodeRemovedType, OnNodeStatusType, DiscoveryFiresType,
     PublicationEndsType, OnDeviceCreatedType, OnDeviceUpdatedType, OnDeviceDeletedType,
     ControlType
  DEF Form

LEMMA TypeInvariant == Spec => []TypeInv
BY TypeInit, TypeKept, PTL DEF Spec

(***************************************************************************)
(* The cache only holds nodes of the network, whatever is announced; a     *)
(* request to publish again is only kept during a publication, and nothing *)
(* is pushed for a feature Gladys does not have, which the host refuses    *)
(* (ZwaveIntegration.ts:401-429).                                          *)
(***************************************************************************)
THEOREM TypeCorrect == Spec => []TypeOK
BY TypeInvariant, TypeFacts, PTL

-----------------------------------------------------------------------------
(* What the steps do to the nodes, the channel and the cache. *)

\* A message was sent.
Longer(m) ==
    /\ Len(channel) \in Nat /\ Len(channel') = Len(channel) + 1
    /\ \A i \in 1..Len(channel') :
         IF i = Len(channel') THEN channel'[i] = m
                              ELSE i \in 1..Len(channel) /\ channel'[i] = channel[i]
    /\ \A D : \A i \in 0..Len(channel') :
         IF i = Len(channel') THEN i # 0
         ELSE i \in 0..Len(channel) /\ (Unsaid(channel', D, i) <=> Unsaid(channel, D, i) /\ m \notin D)

\* A message, m, was read.
Reads(m) ==
    /\ m = channel[1] /\ m \in Message /\ 1 \in 1..Len(channel) /\ link
    /\ Len(channel') \in Nat
    /\ \A i \in 1..Len(channel') :
         i + 1 \in 1..Len(channel) /\ i + 1 # 0 /\ i # 0 /\ channel'[i] = channel[i + 1]
    /\ \A D : \A i \in 0..Len(channel') :
         /\ i + 1 \in 1..Len(channel) /\ i + 1 \in 0..Len(channel) /\ i + 1 # 0
         /\ i # 0 => channel'[i] = channel[i + 1]
         /\ Unsaid(channel', D, i) <=> Unsaid(channel, D, i + 1)
         /\ i = 0 /\ m \notin D /\ Unsaid(channel', D, i) => Unsaid(channel, D, 0)
    /\ UNCHANGED <<asked, ui, link, stopping, created, shed, changes, drops>>
    /\ registry' \in Caches

NodesRead(m) ==
    /\ Reads(m) /\ m.kind = "nodes" /\ m.nodes \in Caches
    /\ DOMAIN registry' = DOMAIN m.nodes
    /\ \A n \in DOMAIN m.nodes :
         /\ registry'[n].ready = m.nodes[n].ready /\ registry'[n].status = m.nodes[n].status
         /\ m.nodes[n].ready => registry'[n].values = m.nodes[n].values
         /\ ~m.nodes[n].ready =>
              DOMAIN registry'[n].values = DOMAIN m.nodes[n].values \cup DOMAIN ValuesOf(n)
    /\ UNCHANGED resync

ValueRead(m) ==
    /\ Reads(m) /\ m.kind = "value" /\ m.node \in Nodes
    /\ UpsertedBy(registry', m.node, m.data) /\ m.data.values = Absent
    /\ resync => resync'

RefreshRead(m) ==
    /\ Reads(m) /\ m.kind = "refreshed" /\ m.node \in Nodes /\ m.data \in Data
    /\ UpsertedBy(registry', m.node, m.data)
    /\ resync \/ m.data.values = Absent => resync'

RemovalRead(m) ==
    /\ Reads(m) /\ m.kind = "removed" /\ m.node \in Nodes
    /\ DOMAIN registry' = DOMAIN registry \ {m.node}
    /\ \A x \in DOMAIN registry : x # m.node => registry'[x] = registry[x]
    /\ UNCHANGED resync

StatusRead(m) ==
    /\ Reads(m) /\ m.kind = "status" /\ m.node \in Nodes
    /\ DOMAIN registry' = DOMAIN registry
    /\ \A x \in DOMAIN registry :
         /\ registry'[x].ready = registry[x].ready /\ registry'[x].values = registry[x].values
         /\ registry'[x].status = IF x = m.node THEN m.status ELSE registry[x].status
    /\ UNCHANGED resync

Closes == link' = FALSE /\ channel' = <<>> /\ UNCHANGED <<ui, registry, shed>>

Elsewhere ==
    /\ UNCHANGED <<ui, channel, registry, shed>>
    /\ Settled' => Settled /\ (resync \/ stopping => resync' \/ stopping')

\* The steps, for what relates the three.
View ==
    \/ \E n, m : (link => Longer(m)) /\ (Tells(n, m) \/ Removes(n, m) \/ Reports(n, m))
    \/ \E n : Interviews(n)
    \/ \E m : Answered /\ link /\ Longer(m) /\ m \in Message /\ m = [kind |-> "nodes", nodes |-> ui]
    \/ \E m : NodesRead(m) \/ ValueRead(m) \/ RefreshRead(m) \/ RemovalRead(m) \/ StatusRead(m)
    \/ Closes
    \/ Elsewhere

LEMMA LongerSent ==
    ASSUME NEW m \in Message, channel \in Seq(Message), channel' = Append(channel, m)
    PROVE  Longer(m)
<1>1. /\ Len(channel') = Len(channel) + 1 /\ Len(channel) \in Nat
      /\ \A i \in 1..Len(channel) + 1 :
           IF i = Len(channel) + 1 THEN channel'[i] = m
                                   ELSE i \in 1..Len(channel) /\ channel'[i] = channel[i]
      /\ \A D : \A i \in 0..Len(channel) + 1 :
           IF i = Len(channel) + 1 THEN TRUE
           ELSE i \in 0..Len(channel) /\ (Unsaid(channel', D, i) <=> Unsaid(channel, D, i) /\ m \notin D)
  BY Sent
<1>2. Len(channel) + 1 # 0
  BY <1>1
<1> QED
  BY <1>1, <1>2 DEF Longer

LEMMA ReadsTaken ==
    ASSUME TypeInv, TypeInv', NEW kind, Receive(kind), UNCHANGED <<asked, Rest>>
    PROVE  Reads(Head(channel)) /\ Head(channel).kind = kind
<1>1. /\ UNCHANGED <<ui, link, stopping, created, shed, changes, drops>>
      /\ channel \in Seq(Message) /\ channel # <<>> /\ channel' = Tail(channel)
      /\ Head(channel) = channel[1] /\ Head(channel) \in Message
      /\ Head(channel).kind = kind /\ link
  BY Reading DEF TypeInv
<1>2. /\ 1 \in 1..Len(channel)
      /\ \A i \in 1..Len(channel') :
           i + 1 \in 1..Len(channel) /\ channel'[i] = channel[i + 1] /\ i + 1 # 0 /\ i # 0
      /\ \A D : \A i \in 0..Len(channel') :
           /\ i + 1 \in 1..Len(channel) /\ i + 1 \in 0..Len(channel)
           /\ Unsaid(channel', D, i) <=> Unsaid(channel, D, i + 1)
      /\ \A D : Unsaid(channel, D, 1) /\ channel[1] \notin D => Unsaid(channel, D, 0)
  BY <1>1, Taken
<1>3. Len(channel') \in Nat
  BY DEF TypeInv, WorldType
<1>4. \A i \in 0..Len(channel') : i + 1 # 0 /\ (i # 0 => i \in 1..Len(channel'))
  BY <1>3
<1>5. 0 + 1 = 1
  OBVIOUS
<1>6. ASSUME NEW D, NEW i \in 0..Len(channel')
      PROVE  /\ i + 1 \in 1..Len(channel) /\ i + 1 \in 0..Len(channel) /\ i + 1 # 0
             /\ i # 0 => channel'[i] = channel[i + 1]
             /\ Unsaid(channel', D, i) <=> Unsaid(channel, D, i + 1)
             /\ i = 0 /\ Head(channel) \notin D /\ Unsaid(channel', D, i) => Unsaid(channel, D, 0)
  BY <1>1, <1>2, <1>4, <1>5
<1>7. registry' \in Caches
  BY DEF TypeInv, CacheType
<1> QED
  BY <1>1, <1>2, <1>3, <1>6, <1>7 DEF Reads

LEMMA Views ==
    ASSUME TypeInv, TypeInv', [Next]_vars
    PROVE  View
<1>1. ASSUME NEW n, NEW m, Tells(n, m) \/ Removes(n, m) \/ Reports(n, m)
      PROVE  View
  <2>1. Says(n, m)
    BY <1>1 DEF Tells, Removes, Reports
  <2>2. m \in Message /\ channel \in Seq(Message) /\ (link => channel' = Append(channel, m))
    BY <2>1 DEF Says, Send, TypeInv, WorldType
  <2>3. link => Longer(m)
    BY <2>2, LongerSent
  <2> QED
    BY <1>1, <2>3 DEF View
<1>2. ASSUME Answered
      PROVE  View
  <2> DEFINE m == [kind |-> "nodes", nodes |-> ui]
  <2>1. m \in Message /\ channel \in Seq(Message) /\ channel' = Append(channel, m)
    BY <1>2, AnsweredType
  <2>2. Longer(m)
    <3> HIDE DEF m
    <3> QED
      BY <2>1, LongerSent
  <2>3. link
    <3>1. asked # 0
      BY <1>2 DEF Answered
    <3> QED
      BY <3>1 DEF TypeInv, WorldType
  <2> QED
    BY <1>2, <2>1, <2>2, <2>3 DEF View
<1>3. ASSUME OnNodes
      PROVE  View
  <2>1. PICK m : m = Head(channel)
    OBVIOUS
  <2>2. Reads(m) /\ m.kind = "nodes"
    BY <1>3, <2>1, ReadsTaken DEF OnNodes
  <2>3. m.nodes \in Caches /\ registry \in Caches /\ registry' = Replace(m.nodes)
    BY <1>3, <2>1, <2>2, Messages DEF OnNodes, Reads, TypeInv, CacheType
  <2>4. NodesRead(m)
    BY <1>3, <2>2, <2>3, Replaced DEF NodesRead, OnNodes
  <2> QED
    BY <2>4 DEF View
<1>4. ASSUME OnValueUpdated
      PROVE  View
  <2>1. PICK m : m = Head(channel)
    OBVIOUS
  <2>2. Reads(m) /\ m.kind = "value"
    BY <1>4, <2>1, ReadsTaken DEF OnValueUpdated
  <2>3. m.node \in Nodes /\ m.data \in Data /\ m.data.values = Absent
    BY <2>2, Messages DEF Reads, BareData
  <2>4. registry \in Caches
    BY DEF TypeInv, CacheType
  <2>5. registry' = Upsert(m.node, m.data) /\ (resync => resync')
    BY <1>4, <2>1 DEF OnValueUpdated
  <2>6. UpsertedBy(registry', m.node, m.data)
    BY <2>3, <2>4, <2>5, Upserted
  <2> QED
    BY <2>2, <2>3, <2>5, <2>6 DEF View, ValueRead
<1>5. ASSUME OnNodeRefreshed
      PROVE  View
  <2>1. PICK m : m = Head(channel)
    OBVIOUS
  <2>2. Reads(m) /\ m.kind = "refreshed"
    BY <1>5, <2>1, ReadsTaken DEF OnNodeRefreshed
  <2>3. m.node \in Nodes /\ m.data \in Data
    BY <2>2, Messages DEF Reads
  <2>4. registry \in Caches
    BY DEF TypeInv, CacheType
  <2>5. registry' = Upsert(m.node, m.data)
    BY <1>5, <2>1 DEF OnNodeRefreshed
  <2>6. resync \/ m.data.values = Absent => resync'
    BY <1>5, <2>1 DEF OnNodeRefreshed, Resync
  <2>7. UpsertedBy(registry', m.node, m.data)
    BY <2>3, <2>4, <2>5, Upserted
  <2> QED
    BY <2>2, <2>3, <2>6, <2>7 DEF View, RefreshRead
<1>6. ASSUME OnNodeRemoved
      PROVE  View
  <2>1. PICK m : m = Head(channel)
    OBVIOUS
  <2>2. Reads(m) /\ m.kind = "removed"
    BY <1>6, <2>1, ReadsTaken DEF OnNodeRemoved
  <2>3. m.node \in Nodes
    BY <2>2, Messages DEF Reads
  <2>4. registry' = Without(registry, {m.node}) /\ UNCHANGED resync
    BY <1>6, <2>1 DEF OnNodeRemoved
  <2>5. /\ DOMAIN registry' = DOMAIN registry \ {m.node}
        /\ \A x \in DOMAIN registry : x # m.node => registry'[x] = registry[x]
    BY <2>4 DEF Without
  <2> QED
    BY <2>2, <2>3, <2>4, <2>5 DEF View, RemovalRead
<1>7. ASSUME OnNodeStatus
      PROVE  View
  <2>1. PICK m : m = Head(channel)
    OBVIOUS
  <2>2. Reads(m) /\ m.kind = "status"
    BY <1>7, <2>1, ReadsTaken DEF OnNodeStatus
  <2>3. m.node \in Nodes /\ m.status \in Statuses
    BY <2>2, Messages DEF Reads
  <2>4. /\ DOMAIN registry' = DOMAIN registry
        /\ \A x \in DOMAIN registry :
             /\ registry'[x].ready = registry[x].ready /\ registry'[x].values = registry[x].values
             /\ registry'[x].status = IF x = m.node THEN m.status ELSE registry[x].status
    <3>1. CASE m.node \notin DOMAIN registry
      <4>1. registry' = registry
        BY <1>7, <2>1, <3>1 DEF OnNodeStatus
      <4> QED
        BY <3>1, <4>1
    <3>2. CASE m.node \in DOMAIN registry
      <4>1. registry' = [registry EXCEPT ![m.node].status = m.status]
        BY <1>7, <2>1, <3>2 DEF OnNodeStatus
      <4> QED
        BY <2>3, <3>2, <4>1, Rated
    <3> QED
      BY <3>1, <3>2
  <2>5. UNCHANGED resync
    BY <1>7 DEF OnNodeStatus
  <2> QED
    BY <2>2, <2>3, <2>4, <2>5 DEF View, StatusRead
<1>8. ASSUME DiscoveryFires \/ \E ok \in BOOLEAN : PublicationEnds(ok)
      PROVE  View
  BY <1>8 DEF DiscoveryFires, PublicationEnds, Rest, external, cache, View, Elsewhere, Settled
<1>9. ASSUME NEW n, OnDeviceCreated(n) \/ OnDeviceUpdated(n) \/ OnDeviceDeleted(n)
      PROVE  View
  BY <1>9 DEF OnDeviceCreated, OnDeviceUpdated, OnDeviceDeleted, external, cache,
              View, Elsewhere, Settled
<1>10. ASSUME LinkDown \/ StopEnds
       PROVE  View
  BY <1>10 DEF LinkDown, StopEnds, Closed, cache, View, Closes
<1>11. ASSUME LinkUp \/ Stop \/ ResyncFires \/ RequestScan \/ Idle
       PROVE  View
  <2>1. UNCHANGED <<ui, channel, registry, shed>>
    BY <1>11 DEF LinkUp, Stop, ResyncFires, RequestScan, Rest, cache, Idle
  <2>2. CASE LinkUp
    BY <2>1, <2>2 DEF LinkUp, View, Elsewhere, Settled
  <2>3. CASE Stop
    BY <2>1, <2>3 DEF Stop, View, Elsewhere, Settled
  <2>4. CASE ResyncFires \/ RequestScan
    <3>1. link' = link /\ (link => asked' # 0)
      <4>1. asked \in 0..MaxAsked /\ MaxAsked \in Nat \ {0}
        BY BoundsAssumption DEF TypeInv, WorldType
      <4> QED
        BY <2>4, <4>1 DEF ResyncFires, RequestScan, RequestNodes, Rest
    <3> QED
      BY <2>1, <3>1 DEF View, Elsewhere, Settled
  <2>5. CASE Idle
    BY <2>1, <2>5 DEF Idle, View, Elsewhere, Settled
  <2> QED
    BY <1>11, <2>2, <2>3, <2>4, <2>5
<1>12. Form
  BY Forms
<1> QED
  BY <1>1, <1>2, <1>3, <1>4, <1>5, <1>6, <1>7, <1>8, <1>9, <1>10, <1>11, <1>12 DEF Form, View

-----------------------------------------------------------------------------
(* The cache has the nodes of the network, and their values. *)

\* Nothing of what is right of node n becomes wrong.
Alike(n) ==
    /\ n \in DOMAIN ui' <=> n \in DOMAIN ui
    /\ n \in DOMAIN ui' /\ ui'[n].ready =>
         ui[n].ready /\ DOMAIN ui'[n].values = DOMAIN ui[n].values

LEMMA RightKept ==
    ASSUME NEW n, Alike(n), UNCHANGED registry, resync \/ stopping => resync' \/ stopping'
    PROVE  /\ RightCache(n) => RightCache(n)'
           /\ \A m : RightMessage(n, m, ui) => RightMessage(n, m, ui')
<1>1. RightCache(n) => RightCache(n)'
  BY DEF Alike, RightCache
<1>2. ASSUME NEW m, RightMessage(n, m, ui)
      PROVE  RightMessage(n, m, ui')
  BY <1>2 DEF Alike, RightMessage
<1> QED
  BY <1>1, <1>2

LEMMA OthersAlike ==
    ASSUME NEW n, Others(n), NEW x \in Nodes, x # n
    PROVE  Alike(x)
BY DEF Others, Alike

\* Which messages decide, and of which node.
LEMMA DecidingOf ==
    ASSUME NEW m \in Message, NEW n
    PROVE  /\ m.kind = "nodes" => m \in Deciding(n)
           /\ m.kind \in {"refreshed", "removed"} => (m \in Deciding(n) <=> m.node = n)
           /\ m.kind \in {"value", "status"} => m \notin Deciding(n)
BY DEF Deciding

\* The last message of D, when one was sent, or read.
LEMMA LastSent ==
    ASSUME NEW D, NEW G, NEW H, NEW m, Longer(m), LastIn(channel, D, G),
           m \in D => m \in H, m \notin D => D \cap G \subseteq H
    PROVE  /\ LastIn(channel', D, H)
           /\ Unsaid(channel', D, 0) => Unsaid(channel, D, 0) /\ m \notin D
<1>1. /\ Len(channel) \in Nat /\ Len(channel') = Len(channel) + 1
      /\ 0 \in 0..Len(channel') /\ 0 # Len(channel')
      /\ \A i \in 1..Len(channel') : i \in 0..Len(channel')
  BY DEF Longer
<1>2. ASSUME NEW i \in 1..Len(channel'), channel'[i] \in D, Unsaid(channel', D, i)
      PROVE  channel'[i] \in H
  <2>1. CASE i = Len(channel')
    <3>1. channel'[i] = m
      BY <2>1 DEF Longer
    <3> QED
      BY <1>2, <3>1
  <2>2. CASE i # Len(channel')
    <3>1. i \in 1..Len(channel) /\ channel'[i] = channel[i]
      BY <2>2 DEF Longer
    <3>2. Unsaid(channel, D, i) /\ m \notin D
      BY <1>1, <1>2, <2>2 DEF Longer
    <3>3. channel[i] \in D \cap G
      BY <1>2, <3>1, <3>2 DEF LastIn
    <3> QED
      BY <3>1, <3>2, <3>3
  <2> QED
    BY <2>1, <2>2
<1>3. Unsaid(channel', D, 0) => Unsaid(channel, D, 0) /\ m \notin D
  BY <1>1 DEF Longer
<1> QED
  BY <1>2, <1>3 DEF LastIn

LEMMA LastRead ==
    ASSUME NEW D, NEW G, NEW m, Reads(m), LastIn(channel, D, G)
    PROVE  /\ LastIn(channel', D, G)
           /\ Unsaid(channel', D, 0) /\ m \in D => m \in G
           /\ Unsaid(channel', D, 0) /\ m \notin D => Unsaid(channel, D, 0)
<1>1. \A i \in 1..Len(channel') : i \in 0..Len(channel')
  OBVIOUS
<1>2. ASSUME NEW i \in 1..Len(channel'), channel'[i] \in D, Unsaid(channel', D, i)
      PROVE  channel'[i] \in G
  <2>1. /\ i + 1 \in 1..Len(channel) /\ channel'[i] = channel[i + 1]
        /\ Unsaid(channel, D, i + 1)
    BY <1>1, <1>2 DEF Reads
  <2> QED
    BY <1>2, <2>1 DEF LastIn
<1>3. ASSUME Unsaid(channel', D, 0)
      PROVE  Unsaid(channel, D, 1) /\ (m \notin D => Unsaid(channel, D, 0))
  <2>1. Len(channel') \in Nat
    BY DEF Reads
  <2>2. 0 \in 0..Len(channel') /\ 0 + 1 = 1
    BY <2>1
  <2> QED
    BY <1>3, <2>2 DEF Reads
<1>4. Unsaid(channel, D, 1) /\ m \in D => m \in G
  BY DEF Reads, LastIn
<1> QED
  BY <1>2, <1>3, <1>4 DEF LastIn

LEMMA CacheSays ==
    ASSUME CacheInv, NEW n, NEW m, Says(n, m), (link => Longer(m)), Settled', NEW x \in Nodes,
           m \notin Deciding(x) => Alike(x),
           m \in Deciding(x) => RightMessage(x, m, ui')
    PROVE  CacheRight(x)'
<1>1. /\ Settled /\ Longer(m) /\ UNCHANGED registry /\ m \in Message
      /\ (resync \/ stopping => resync' \/ stopping')
  BY DEF Says, Change, cache, Settled
<1> DEFINE G == {y \in Message : RightMessage(x, y, ui)}
           H == {y \in Message : RightMessage(x, y, ui')}
<1>2. LastIn(channel, Deciding(x), G) /\ (Unsaid(channel, Deciding(x), 0) => RightCache(x))
  BY <1>1 DEF CacheInv, CacheRight
<1>3. m \in Deciding(x) => m \in H
  BY <1>1
<1>4. m \notin Deciding(x) => G \subseteq H /\ (RightCache(x) => RightCache(x)')
  BY <1>1, RightKept
<1> HIDE DEF G, H
<1>5. m \notin Deciding(x) => Deciding(x) \cap G \subseteq H
  BY <1>4
<1>6. /\ LastIn(channel', Deciding(x), H)
      /\ Unsaid(channel', Deciding(x), 0) =>
           Unsaid(channel, Deciding(x), 0) /\ m \notin Deciding(x)
  BY <1>1, <1>2, <1>3, <1>5, LastSent
<1> QED
  BY <1>2, <1>4, <1>6 DEF CacheRight, H

LEMMA CacheReads ==
    ASSUME CacheInv, NEW m, Reads(m), Settled', NEW x \in Nodes,
           m \in Deciding(x) /\ RightMessage(x, m, ui) => RightCache(x)',
           m \notin Deciding(x) /\ RightCache(x) /\ Unsaid(channel', Deciding(x), 0)
               => RightCache(x)'
    PROVE  CacheRight(x)'
<1>1. Settled /\ UNCHANGED ui
  BY DEF Reads, Settled
<1> DEFINE G == {y \in Message : RightMessage(x, y, ui)}
<1>2. LastIn(channel, Deciding(x), G) /\ (Unsaid(channel, Deciding(x), 0) => RightCache(x))
  BY <1>1 DEF CacheInv, CacheRight
<1>3. m \in G => RightMessage(x, m, ui)
  OBVIOUS
<1>4. G = {y \in Message : RightMessage(x, y, ui')}
  BY <1>1
<1> HIDE DEF G
<1>5. /\ LastIn(channel', Deciding(x), G)
      /\ Unsaid(channel', Deciding(x), 0) /\ m \in Deciding(x) => m \in G
      /\ Unsaid(channel', Deciding(x), 0) /\ m \notin Deciding(x) =>
           Unsaid(channel, Deciding(x), 0)
  BY <1>2, LastRead
<1> QED
  BY <1>2, <1>3, <1>4, <1>5 DEF CacheRight

LEMMA CacheKept ==
    ASSUME TypeInv, TypeInv', CacheInv, AliveInv, [Next]_vars
    PROVE  CacheInv'
<1> SUFFICES ASSUME Settled', NEW x \in Nodes
             PROVE  CacheRight(x)'
  BY DEF CacheInv, CacheRight
<1>1. ASSUME NEW n, NEW m, link => Longer(m), Tells(n, m)
      PROVE  CacheRight(x)'
  <2>1. Says(n, m) /\ m \in Message /\ m.kind = "refreshed" /\ m.node = n /\ Others(n)
    BY <1>1 DEF Tells, Says
  <2>2. m \in Deciding(x) <=> x = n
    BY <2>1, DecidingOf
  <2>3. x = n => RightMessage(x, m, ui')
    BY <1>1, <2>1 DEF Tells, RightMessage
  <2>4. x # n => Alike(x)
    BY <2>1, OthersAlike
  <2> QED
    BY <1>1, <2>1, <2>2, <2>3, <2>4, CacheSays
<1>2. ASSUME NEW n, NEW m, link => Longer(m), Removes(n, m)
      PROVE  CacheRight(x)'
  <2>1. Says(n, m) /\ m \in Message /\ m.kind = "removed" /\ m.node = n /\ Others(n)
    BY <1>2 DEF Removes, Says
  <2>2. m \in Deciding(x) <=> x = n
    BY <2>1, DecidingOf
  <2>3. x = n => RightMessage(x, m, ui')
    BY <1>2, <2>1 DEF Removes, RightMessage
  <2>4. x # n => Alike(x)
    BY <2>1, OthersAlike
  <2> QED
    BY <1>2, <2>1, <2>2, <2>3, <2>4, CacheSays
<1>3. ASSUME NEW n, NEW m, link => Longer(m), Reports(n, m)
      PROVE  CacheRight(x)'
  <2>1. Says(n, m) /\ m \in Message /\ m.kind \in {"value", "status"} /\ Others(n)
    BY <1>3 DEF Reports, Says
  <2>2. m \notin Deciding(x)
    BY <2>1, DecidingOf
  <2>3. x # n => Alike(x)
    BY <2>1, OthersAlike
  <2>4. x = n => Alike(x)
    BY <1>3 DEF Reports, Alike
  <2> QED
    BY <1>3, <2>1, <2>2, <2>3, <2>4, CacheSays
<1>4. ASSUME NEW n, Interviews(n)
      PROVE  CacheRight(x)'
  <2>1. x # n => Alike(x)
    BY <1>4, OthersAlike DEF Interviews
  <2>2. x = n => Alike(x)
    BY <1>4 DEF Interviews, Alike
  <2>3. Settled /\ UNCHANGED <<registry, channel>> /\ (resync \/ stopping => resync' \/ stopping')
    BY <1>4 DEF Interviews, Change, cache, Settled
  <2>4. CacheRight(x)
    BY <2>3 DEF CacheInv, CacheRight
  <2>5. /\ RightCache(x) => RightCache(x)'
        /\ \A m : RightMessage(x, m, ui) => RightMessage(x, m, ui')
    BY <2>1, <2>2, <2>3, RightKept
  <2> QED
    BY <2>3, <2>4, <2>5 DEF CacheRight, LastIn
<1>5. ASSUME NEW m, Answered, Longer(m), m \in Message, m = [kind |-> "nodes", nodes |-> ui]
      PROVE  CacheRight(x)'
  <2>1. m.kind = "nodes" /\ m.nodes = ui /\ UNCHANGED ui
    BY <1>5 DEF Answered
  <2>2. m \in Deciding(x)
    BY <1>5, <2>1, DecidingOf
  <2>3. RightMessage(x, m, ui')
    BY <2>1 DEF RightMessage
  <2>4. LastIn(channel, Deciding(x), Message)
    BY DEF LastIn, Deciding
  <2>5. /\ LastIn(channel', Deciding(x), {y \in Message : RightMessage(x, y, ui')})
        /\ ~Unsaid(channel', Deciding(x), 0)
    BY <1>5, <2>2, <2>3, <2>4, LastSent
  <2> QED
    BY <2>5 DEF CacheRight
<1>6. ASSUME NEW m, NodesRead(m)
      PROVE  CacheRight(x)'
  <2>1. Reads(m) /\ m \in Message /\ m.kind = "nodes" /\ UNCHANGED ui
    BY <1>6 DEF NodesRead, Reads
  <2>2. m \in Deciding(x)
    BY <2>1, DecidingOf
  <2>3. RightMessage(x, m, ui) => RightCache(x)'
    BY <1>6, <2>1 DEF NodesRead, RightMessage, RightCache
  <2> QED
    BY <2>1, <2>2, <2>3, CacheReads
<1>7. ASSUME NEW m, ValueRead(m)
      PROVE  CacheRight(x)'
  <2>1. /\ Reads(m) /\ m \in Message /\ m.kind = "value" /\ m.node \in Nodes
        /\ UNCHANGED <<ui, stopping>> /\ (resync => resync')
    BY <1>7 DEF ValueRead, Reads
  <2>2. m \notin Deciding(x)
    BY <2>1, DecidingOf
  <2>3. /\ DOMAIN registry' = DOMAIN registry \cup {m.node}
        /\ \A y \in DOMAIN registry : DOMAIN registry'[y].values = DOMAIN registry[y].values
    <3>1. registry \in Caches
      BY DEF TypeInv, CacheType
    <3> QED
      BY <1>7, <3>1, ValuesOfType DEF ValueRead, UpsertedBy
  <2>4. ASSUME RightCache(x), Unsaid(channel', Deciding(x), 0)
        PROVE  RightCache(x)'
    <3>1. x = m.node => x \in DOMAIN ui
      <4>1. Unsaid(channel, Deciding(x), 1)
        <5>1. Len(channel') \in Nat
          BY <2>1 DEF Reads
        <5>2. 0 \in 0..Len(channel') /\ 0 + 1 = 1
          BY <5>1
        <5> QED
          BY <2>1, <2>4, <5>2 DEF Reads
      <4>2. m = channel[1] /\ 1 \in 1..Len(channel)
        BY <2>1 DEF Reads
      <4> QED
        BY <2>1, <4>1, <4>2 DEF AliveInv
    <3> QED
      BY <2>1, <2>3, <2>4, <3>1 DEF RightCache
  <2> QED
    BY <2>1, <2>2, <2>4, CacheReads
<1>8. ASSUME NEW m, RefreshRead(m)
      PROVE  CacheRight(x)'
  <2>1. /\ Reads(m) /\ m \in Message /\ m.kind = "refreshed" /\ m.node \in Nodes
        /\ UNCHANGED <<ui, stopping>> /\ (resync \/ m.data.values = Absent => resync')
        /\ UpsertedBy(registry', m.node, m.data)
    BY <1>8 DEF RefreshRead, Reads
  <2>2. m \in Deciding(x) <=> x = m.node
    BY <2>1, DecidingOf
  <2>3. x = m.node /\ RightMessage(x, m, ui) => RightCache(x)'
    BY <2>1 DEF RightMessage, RightCache, UpsertedBy
  <2>4. x # m.node /\ RightCache(x) => RightCache(x)'
    BY <2>1 DEF RightCache, UpsertedBy
  <2> QED
    BY <2>1, <2>2, <2>3, <2>4, CacheReads
<1>9. ASSUME NEW m, RemovalRead(m)
      PROVE  CacheRight(x)'
  <2>1. /\ Reads(m) /\ m \in Message /\ m.kind = "removed" /\ m.node \in Nodes
        /\ UNCHANGED <<ui, stopping, resync>>
    BY <1>9 DEF RemovalRead, Reads
  <2>2. m \in Deciding(x) <=> x = m.node
    BY <2>1, DecidingOf
  <2>3. x = m.node /\ RightMessage(x, m, ui) => RightCache(x)'
    BY <1>9, <2>1 DEF RightMessage, RightCache, RemovalRead
  <2>4. x # m.node /\ RightCache(x) => RightCache(x)'
    BY <1>9, <2>1 DEF RightCache, RemovalRead
  <2> QED
    BY <2>1, <2>2, <2>3, <2>4, CacheReads
<1>10. ASSUME NEW m, StatusRead(m)
       PROVE  CacheRight(x)'
  <2>1. /\ Reads(m) /\ m \in Message /\ m.kind = "status"
        /\ UNCHANGED <<ui, stopping, resync>>
    BY <1>10 DEF StatusRead, Reads
  <2>2. m \notin Deciding(x)
    BY <2>1, DecidingOf
  <2>3. RightCache(x) => RightCache(x)'
    BY <1>10, <2>1 DEF RightCache, StatusRead
  <2> QED
    BY <2>1, <2>2, <2>3, CacheReads
<1>11. CASE Closes
  BY <1>11 DEF Closes, Settled
<1>12. CASE Elsewhere
  <2>1. Settled /\ UNCHANGED <<ui, channel, registry>> /\ (resync \/ stopping => resync' \/ stopping')
    BY <1>12 DEF Elsewhere
  <2>2. CacheRight(x)
    BY <2>1 DEF CacheInv, CacheRight
  <2>3. RightCache(x) => RightCache(x)'
    BY <2>1 DEF RightCache
  <2> QED
    BY <2>1, <2>2, <2>3 DEF CacheRight, LastIn
<1>13. View
  BY Views
<1> QED
  BY <1>1, <1>2, <1>3, <1>4, <1>5, <1>6, <1>7, <1>8, <1>9, <1>10, <1>11, <1>12, <1>13 DEF View

LEMMA AliveKept ==
    ASSUME TypeInv, TypeInv', AliveInv, [Next]_vars
    PROVE  AliveInv'
<1> SUFFICES ASSUME NEW i \in 1..Len(channel'), channel'[i].kind \in {"value", "status"},
                    Unsaid(channel', Deciding(channel'[i].node), i)
             PROVE  channel'[i].node \in DOMAIN ui'
  BY DEF AliveInv
<1>1. i \in 0..Len(channel') /\ i # 0
  <2>1. Len(channel') \in Nat
    BY DEF TypeInv, WorldType
  <2> QED
    BY <2>1
\* What was on its way, when nothing more comes of the node.
<1>2. ASSUME i \in 1..Len(channel), channel'[i] = channel[i],
             Unsaid(channel, Deciding(channel[i].node), i)
      PROVE  channel[i].node \in DOMAIN ui
  BY <1>2 DEF AliveInv
<1>3. ASSUME NEW n, NEW m, Says(n, m), link => Longer(m),
             m.kind \in {"value", "status"} => n \in DOMAIN ui',
             n \notin DOMAIN ui' => m \in Deciding(n)
      PROVE  channel'[i].node \in DOMAIN ui'
  <2>1. link
    <3>1. channel' # <<>>
      <4>1. channel' = <<>> => Len(channel') = 0
        OBVIOUS
      <4>2. Len(channel') # 0
        BY <1>1
      <4> QED
        BY <4>1, <4>2
    <3>2. link'
      BY <3>1 DEF TypeInv, WorldType
    <3> QED
      BY <1>3, <3>2 DEF Says, Change
  <2>2. Longer(m) /\ m.node = n /\ Others(n)
    BY <1>3, <2>1 DEF Says
  <2>3. CASE i = Len(channel')
    <3>1. channel'[i] = m
      BY <2>2, <2>3 DEF Longer
    <3> QED
      BY <1>3, <2>2, <3>1
  <2>4. CASE i # Len(channel')
    <3>1. i \in 1..Len(channel) /\ channel'[i] = channel[i]
      BY <2>2, <2>4 DEF Longer
    <3>2. Unsaid(channel, Deciding(channel[i].node), i) /\ m \notin Deciding(channel[i].node)
      BY <1>1, <2>2, <2>4, <3>1 DEF Longer
    <3>3. channel[i].node \in DOMAIN ui
      BY <1>2, <3>1, <3>2
    <3>4. channel[i].node \in Nodes
      BY <3>3, IsCache DEF TypeInv, WorldType
    <3>5. CASE channel[i].node = n
      BY <1>3, <3>1, <3>2, <3>5
    <3>6. CASE channel[i].node # n
      BY <2>2, <3>1, <3>3, <3>4, <3>6 DEF Others
    <3> QED
      BY <3>5, <3>6
  <2> QED
    BY <2>3, <2>4
<1>4. ASSUME NEW n, NEW m, link => Longer(m), Tells(n, m) \/ Removes(n, m) \/ Reports(n, m)
      PROVE  channel'[i].node \in DOMAIN ui'
  <2>1. Says(n, m) /\ m \in Message /\ m.node = n
    BY <1>4 DEF Tells, Removes, Reports, Says
  <2>2. /\ m.kind \in {"value", "status"} => n \in DOMAIN ui'
        /\ n \notin DOMAIN ui' => m.kind = "removed"
    BY <1>4 DEF Tells, Removes, Reports
  <2>3. n \notin DOMAIN ui' => m \in Deciding(n)
    BY <2>1, <2>2, DecidingOf
  <2> QED
    BY <1>3, <1>4, <2>1, <2>2, <2>3
<1>5. ASSUME NEW n, Interviews(n)
      PROVE  channel'[i].node \in DOMAIN ui'
  <2>1. UNCHANGED channel /\ Others(n) /\ n \in DOMAIN ui'
    BY <1>5 DEF Interviews
  <2>2. channel[i].node \in DOMAIN ui
    BY <1>2, <2>1
  <2>3. channel[i].node \in Nodes
    BY <2>2, IsCache DEF TypeInv, WorldType
  <2> QED
    BY <2>1, <2>2, <2>3 DEF Others
<1>6. ASSUME NEW m, Answered, Longer(m), m \in Message, m = [kind |-> "nodes", nodes |-> ui]
      PROVE  channel'[i].node \in DOMAIN ui'
  <2>1. m.kind = "nodes" /\ UNCHANGED ui
    BY <1>6 DEF Answered
  <2>2. m \in Deciding(channel'[i].node)
    BY <1>6, <2>1, DecidingOf
  <2>3. i = Len(channel')
    BY <1>1, <1>6, <2>2 DEF Longer
  <2>4. channel'[i] = m
    BY <1>6, <2>3 DEF Longer
  <2> QED
    BY <2>1, <2>4
<1>7. ASSUME NEW m, Reads(m)
      PROVE  channel'[i].node \in DOMAIN ui'
  <2>1. /\ i + 1 \in 1..Len(channel) /\ channel'[i] = channel[i + 1] /\ UNCHANGED ui
        /\ Unsaid(channel, Deciding(channel'[i].node), i + 1)
    BY <1>1, <1>7 DEF Reads
  <2> QED
    BY <2>1 DEF AliveInv
<1>8. CASE Closes
  <2>1. Len(channel') = 0
    BY <1>8 DEF Closes
  <2> QED
    BY <1>1, <2>1
<1>9. CASE Elsewhere
  BY <1>2, <1>9 DEF Elsewhere
<1>10. View
  BY Views
<1> QED
  BY <1>4, <1>5, <1>6, <1>7, <1>8, <1>9, <1>10
  DEF View, NodesRead, ValueRead, RefreshRead, RemovalRead, StatusRead

-----------------------------------------------------------------------------
(* A node that is cached is interviewed when it is, and has its status. *)

LEMMA DescribingOf ==
    ASSUME NEW m \in Message, NEW n
    PROVE  /\ m.kind = "nodes" => m \in Describing(n)
           /\ m.kind \in {"refreshed", "value"} => (m \in Describing(n) <=> m.node = n)
           /\ m.kind \in {"removed", "status"} => m \notin Describing(n)
           /\ m.kind = "nodes" => m \in Rating(n)
           /\ m.kind \in {"refreshed", "value", "status"} => (m \in Rating(n) <=> m.node = n)
           /\ m.kind = "removed" => m \notin Rating(n)
BY DEF Describing, Rating

LEMMA ReadySays ==
    ASSUME ReadyInv, NEW n, NEW m, Says(n, m), (link => Longer(m)), Settled',
           NEW x \in DOMAIN ui',
           m \notin Describing(x) => x \in DOMAIN ui /\ ui'[x].ready = ui[x].ready,
           m \in Describing(x) => Node(x, m).ready = ui'[x].ready
    PROVE  ReadyRight(x)'
<1>1. Settled /\ Longer(m) /\ UNCHANGED registry /\ m \in Message
  BY DEF Says, Change, cache, Settled
<1> DEFINE H == {y \in Message : Node(x, y).ready = ui'[x].ready}
<1>2. CASE m \in Describing(x)
  <2>1. LastIn(channel, Describing(x), Message)
    BY DEF LastIn, Describing
  <2>2. m \in H
    BY <1>1, <1>2
  <2> HIDE DEF H
  <2>3. LastIn(channel', Describing(x), H) /\ ~Unsaid(channel', Describing(x), 0)
    BY <1>1, <1>2, <2>1, <2>2, LastSent
  <2> QED
    BY <2>3 DEF ReadyRight, H
<1>3. CASE m \notin Describing(x)
  <2>1. x \in DOMAIN ui /\ H = {y \in Message : Node(x, y).ready = ui[x].ready}
    BY <1>3
  <2>2. LastIn(channel, Describing(x), H)
    BY <1>1, <2>1 DEF ReadyInv, ReadyRight
  <2> HIDE DEF H
  <2>3. /\ LastIn(channel', Describing(x), H)
        /\ Unsaid(channel', Describing(x), 0) => Unsaid(channel, Describing(x), 0)
    BY <1>1, <1>3, <2>2, LastSent
  <2>4. Unsaid(channel', Describing(x), 0) /\ x \in DOMAIN registry' =>
          registry'[x].ready = ui'[x].ready
    BY <1>1, <1>3, <2>1, <2>3 DEF ReadyInv, ReadyRight
  <2> QED
    BY <2>3, <2>4 DEF ReadyRight, H
<1> QED
  BY <1>2, <1>3

LEMMA ReadyReads ==
    ASSUME ReadyInv, NEW m, Reads(m), Settled', NEW x \in DOMAIN ui',
           m \in Describing(x) /\ Node(x, m).ready = ui[x].ready /\ x \in DOMAIN registry' =>
               registry'[x].ready = ui[x].ready,
           m \notin Describing(x) /\ x \in DOMAIN registry' =>
               x \in DOMAIN registry /\ registry'[x].ready = registry[x].ready
    PROVE  ReadyRight(x)'
<1>1. Settled /\ UNCHANGED ui
  BY DEF Reads, Settled
<1> DEFINE G == {y \in Message : Node(x, y).ready = ui[x].ready}
<1>2. /\ LastIn(channel, Describing(x), G)
      /\ Unsaid(channel, Describing(x), 0) /\ x \in DOMAIN registry =>
           registry[x].ready = ui[x].ready
  BY <1>1 DEF ReadyInv, ReadyRight
<1>3. /\ m \in G => Node(x, m).ready = ui[x].ready
      /\ G = {y \in Message : Node(x, y).ready = ui'[x].ready}
  BY <1>1
<1> HIDE DEF G
<1>4. /\ LastIn(channel', Describing(x), G)
      /\ Unsaid(channel', Describing(x), 0) /\ m \in Describing(x) => m \in G
      /\ Unsaid(channel', Describing(x), 0) /\ m \notin Describing(x) =>
           Unsaid(channel, Describing(x), 0)
  BY <1>2, LastRead
<1>5. Unsaid(channel', Describing(x), 0) /\ x \in DOMAIN registry' =>
        registry'[x].ready = ui'[x].ready
  BY <1>1, <1>2, <1>3, <1>4
<1> QED
  BY <1>3, <1>4, <1>5 DEF ReadyRight

LEMMA ReadyKept ==
    ASSUME TypeInv, TypeInv', ReadyInv, [Next]_vars
    PROVE  ReadyInv'
<1> SUFFICES ASSUME Settled', NEW x \in DOMAIN ui'
             PROVE  ReadyRight(x)'
  BY DEF ReadyInv, ReadyRight
<1>1. x \in Nodes
  BY IsCache DEF TypeInv, WorldType
<1>2. ASSUME NEW n, NEW m, link => Longer(m), Tells(n, m) \/ Removes(n, m) \/ Reports(n, m)
      PROVE  ReadyRight(x)'
  <2>1. Says(n, m) /\ m \in Message /\ m.node = n /\ Others(n)
    BY <1>2 DEF Tells, Removes, Reports, Says
  <2>2. ASSUME m \notin Describing(x)
        PROVE  x \in DOMAIN ui /\ ui'[x].ready = ui[x].ready
    <3>1. CASE x # n
      BY <1>1, <2>1, <3>1 DEF Others
    <3>2. CASE x = n
      <4>1. Reports(n, m)
        BY <1>2, <2>1, <2>2, <3>2, DescribingOf DEF Tells, Removes
      <4> QED
        BY <3>2, <4>1 DEF Reports
    <3> QED
      BY <3>1, <3>2
  <2>3. ASSUME m \in Describing(x)
        PROVE  Node(x, m).ready = ui'[x].ready
    <3>1. m.kind \in {"refreshed", "value"} /\ x = n
      BY <1>2, <2>1, <2>3, DescribingOf DEF Tells, Removes, Reports
    <3>2. Node(x, m) = m.data
      BY <3>1 DEF Node
    <3> QED
      BY <1>2, <3>1, <3>2 DEF Tells, Removes, Reports
  <2> QED
    BY <1>2, <2>1, <2>2, <2>3, ReadySays
<1>3. ASSUME NEW n, Interviews(n)
      PROVE  ReadyRight(x)'
  <2>1. Settled /\ UNCHANGED <<registry, channel>>
    BY <1>3 DEF Interviews, Change, cache, Settled
  <2>2. x \in DOMAIN ui /\ ui'[x].ready = ui[x].ready
    BY <1>1, <1>3 DEF Interviews, Others
  <2> QED
    BY <2>1, <2>2 DEF ReadyInv, ReadyRight
<1>4. ASSUME NEW m, Answered, Longer(m), m \in Message, m = [kind |-> "nodes", nodes |-> ui]
      PROVE  ReadyRight(x)'
  <2>1. m.kind = "nodes" /\ m.nodes = ui /\ UNCHANGED ui
    BY <1>4 DEF Answered
  <2>2. m \in Describing(x)
    BY <1>4, <2>1, DescribingOf
  <2>3. Node(x, m) = ui'[x]
    BY <2>1 DEF Node
  <2>4. LastIn(channel, Describing(x), Message)
    BY DEF LastIn, Describing
  <2>5. /\ LastIn(channel', Describing(x), {y \in Message : Node(x, y).ready = ui'[x].ready})
        /\ ~Unsaid(channel', Describing(x), 0)
    BY <1>4, <2>2, <2>3, <2>4, LastSent
  <2> QED
    BY <2>5 DEF ReadyRight
<1>5. ASSUME NEW m, NodesRead(m)
      PROVE  ReadyRight(x)'
  <2>1. Reads(m) /\ m \in Message /\ m.kind = "nodes"
    BY <1>5 DEF NodesRead, Reads
  <2>2. m \in Describing(x) /\ Node(x, m) = m.nodes[x]
    BY <2>1, DescribingOf DEF Node
  <2> QED
    BY <1>5, <2>1, <2>2, ReadyReads DEF NodesRead
<1>6. ASSUME NEW m, ValueRead(m) \/ RefreshRead(m)
      PROVE  ReadyRight(x)'
  <2>1. /\ Reads(m) /\ m \in Message /\ m.kind \in {"value", "refreshed"}
        /\ UpsertedBy(registry', m.node, m.data)
    BY <1>6 DEF ValueRead, RefreshRead, Reads
  <2>2. (m \in Describing(x) <=> x = m.node) /\ Node(x, m) = m.data
    BY <2>1, DescribingOf DEF Node
  <2>3. x = m.node => registry'[x].ready = m.data.ready
    BY <2>1 DEF UpsertedBy
  <2>4. x # m.node /\ x \in DOMAIN registry' =>
          x \in DOMAIN registry /\ registry'[x].ready = registry[x].ready
    BY <2>1 DEF UpsertedBy
  <2> QED
    BY <2>1, <2>2, <2>3, <2>4, ReadyReads
<1>7. ASSUME NEW m, RemovalRead(m) \/ StatusRead(m)
      PROVE  ReadyRight(x)'
  <2>1. Reads(m) /\ m \in Message /\ m.kind \in {"removed", "status"}
    BY <1>7 DEF RemovalRead, StatusRead, Reads
  <2>2. m \notin Describing(x)
    BY <2>1, DescribingOf
  <2>3. x \in DOMAIN registry' => x \in DOMAIN registry /\ registry'[x].ready = registry[x].ready
    BY <1>7 DEF RemovalRead, StatusRead
  <2> QED
    BY <2>1, <2>2, <2>3, ReadyReads
<1>8. CASE Closes
  BY <1>8 DEF Closes, Settled
<1>9. CASE Elsewhere
  BY <1>9 DEF Elsewhere, ReadyInv, ReadyRight
<1>10. View
  BY Views
<1> QED
  BY <1>2, <1>3, <1>4, <1>5, <1>6, <1>7, <1>8, <1>9, <1>10 DEF View

LEMMA StatusSays ==
    ASSUME StatusInv, NEW n, NEW m, Says(n, m), (link => Longer(m)), Settled',
           NEW x \in DOMAIN ui',
           m \notin Rating(x) => x \in DOMAIN ui /\ ui'[x].status = ui[x].status,
           m \in Rating(x) => StatusIn(x, m) = ui'[x].status
    PROVE  StatusRight(x)'
<1>1. Settled /\ Longer(m) /\ UNCHANGED registry /\ m \in Message
  BY DEF Says, Change, cache, Settled
<1> DEFINE H == {y \in Message : StatusIn(x, y) = ui'[x].status}
<1>2. CASE m \in Rating(x)
  <2>1. LastIn(channel, Rating(x), Message)
    BY DEF LastIn, Rating
  <2>2. m \in H
    BY <1>1, <1>2
  <2> HIDE DEF H
  <2>3. LastIn(channel', Rating(x), H) /\ ~Unsaid(channel', Rating(x), 0)
    BY <1>1, <1>2, <2>1, <2>2, LastSent
  <2> QED
    BY <2>3 DEF StatusRight, H
<1>3. CASE m \notin Rating(x)
  <2>1. x \in DOMAIN ui /\ H = {y \in Message : StatusIn(x, y) = ui[x].status}
    BY <1>3
  <2>2. LastIn(channel, Rating(x), H)
    BY <1>1, <2>1 DEF StatusInv, StatusRight
  <2> HIDE DEF H
  <2>3. /\ LastIn(channel', Rating(x), H)
        /\ Unsaid(channel', Rating(x), 0) => Unsaid(channel, Rating(x), 0)
    BY <1>1, <1>3, <2>2, LastSent
  <2>4. Unsaid(channel', Rating(x), 0) /\ x \in DOMAIN registry' =>
          registry'[x].status = ui'[x].status
    BY <1>1, <1>3, <2>1, <2>3 DEF StatusInv, StatusRight
  <2> QED
    BY <2>3, <2>4 DEF StatusRight, H
<1> QED
  BY <1>2, <1>3

LEMMA StatusReads ==
    ASSUME StatusInv, NEW m, Reads(m), Settled', NEW x \in DOMAIN ui',
           m \in Rating(x) /\ StatusIn(x, m) = ui[x].status /\ x \in DOMAIN registry' =>
               registry'[x].status = ui[x].status,
           m \notin Rating(x) /\ x \in DOMAIN registry' =>
               x \in DOMAIN registry /\ registry'[x].status = registry[x].status
    PROVE  StatusRight(x)'
<1>1. Settled /\ UNCHANGED ui
  BY DEF Reads, Settled
<1> DEFINE G == {y \in Message : StatusIn(x, y) = ui[x].status}
<1>2. /\ LastIn(channel, Rating(x), G)
      /\ Unsaid(channel, Rating(x), 0) /\ x \in DOMAIN registry =>
           registry[x].status = ui[x].status
  BY <1>1 DEF StatusInv, StatusRight
<1>3. /\ m \in G => StatusIn(x, m) = ui[x].status
      /\ G = {y \in Message : StatusIn(x, y) = ui'[x].status}
  BY <1>1
<1> HIDE DEF G
<1>4. /\ LastIn(channel', Rating(x), G)
      /\ Unsaid(channel', Rating(x), 0) /\ m \in Rating(x) => m \in G
      /\ Unsaid(channel', Rating(x), 0) /\ m \notin Rating(x) => Unsaid(channel, Rating(x), 0)
  BY <1>2, LastRead
<1>5. Unsaid(channel', Rating(x), 0) /\ x \in DOMAIN registry' =>
        registry'[x].status = ui'[x].status
  BY <1>1, <1>2, <1>3, <1>4
<1> QED
  BY <1>3, <1>4, <1>5 DEF StatusRight

LEMMA StatusKept ==
    ASSUME TypeInv, TypeInv', StatusInv, [Next]_vars
    PROVE  StatusInv'
<1> SUFFICES ASSUME Settled', NEW x \in DOMAIN ui'
             PROVE  StatusRight(x)'
  BY DEF StatusInv, StatusRight
<1>1. x \in Nodes
  BY IsCache DEF TypeInv, WorldType
<1>2. ASSUME NEW n, NEW m, link => Longer(m), Tells(n, m) \/ Removes(n, m) \/ Reports(n, m)
      PROVE  StatusRight(x)'
  <2>1. Says(n, m) /\ m \in Message /\ m.node = n /\ Others(n)
    BY <1>2 DEF Tells, Removes, Reports, Says
  <2>2. ASSUME m \notin Rating(x)
        PROVE  x \in DOMAIN ui /\ ui'[x].status = ui[x].status
    <3>1. x # n
      BY <1>2, <2>1, <2>2, DescribingOf DEF Tells, Removes, Reports
    <3> QED
      BY <1>1, <2>1, <3>1 DEF Others
  <2>3. ASSUME m \in Rating(x)
        PROVE  StatusIn(x, m) = ui'[x].status
    <3>1. m.kind \in {"refreshed", "value", "status"} /\ x = n
      BY <1>2, <2>1, <2>3, DescribingOf DEF Tells, Removes, Reports
    <3>2. StatusIn(x, m) = IF m.kind = "status" THEN m.status ELSE m.data.status
      BY <3>1 DEF StatusIn, Node
    <3> QED
      BY <1>2, <3>1, <3>2 DEF Tells, Removes, Reports
  <2> QED
    BY <1>2, <2>1, <2>2, <2>3, StatusSays
<1>3. ASSUME NEW n, Interviews(n)
      PROVE  StatusRight(x)'
  <2>1. Settled /\ UNCHANGED <<registry, channel>>
    BY <1>3 DEF Interviews, Change, cache, Settled
  <2>2. x \in DOMAIN ui /\ ui'[x].status = ui[x].status
    BY <1>1, <1>3 DEF Interviews, Others
  <2> QED
    BY <2>1, <2>2 DEF StatusInv, StatusRight
<1>4. ASSUME NEW m, Answered, Longer(m), m \in Message, m = [kind |-> "nodes", nodes |-> ui]
      PROVE  StatusRight(x)'
  <2>1. m.kind = "nodes" /\ m.nodes = ui /\ UNCHANGED ui
    BY <1>4 DEF Answered
  <2>2. m \in Rating(x)
    BY <1>4, <2>1, DescribingOf
  <2>3. StatusIn(x, m) = ui'[x].status
    BY <2>1 DEF StatusIn, Node
  <2>4. LastIn(channel, Rating(x), Message)
    BY DEF LastIn, Rating
  <2>5. /\ LastIn(channel', Rating(x), {y \in Message : StatusIn(x, y) = ui'[x].status})
        /\ ~Unsaid(channel', Rating(x), 0)
    BY <1>4, <2>2, <2>3, <2>4, LastSent
  <2> QED
    BY <2>5 DEF StatusRight
<1>5. ASSUME NEW m, NodesRead(m)
      PROVE  StatusRight(x)'
  <2>1. Reads(m) /\ m \in Message /\ m.kind = "nodes"
    BY <1>5 DEF NodesRead, Reads
  <2>2. m \in Rating(x) /\ StatusIn(x, m) = m.nodes[x].status
    BY <2>1, DescribingOf DEF Node, StatusIn
  <2> QED
    BY <1>5, <2>1, <2>2, StatusReads DEF NodesRead
<1>6. ASSUME NEW m, ValueRead(m) \/ RefreshRead(m)
      PROVE  StatusRight(x)'
  <2>1. /\ Reads(m) /\ m \in Message /\ m.kind \in {"value", "refreshed"}
        /\ UpsertedBy(registry', m.node, m.data)
    BY <1>6 DEF ValueRead, RefreshRead, Reads
  <2>2. (m \in Rating(x) <=> x = m.node) /\ StatusIn(x, m) = m.data.status
    BY <2>1, DescribingOf DEF Node, StatusIn
  <2>3. x = m.node => registry'[x].status = m.data.status
    BY <2>1 DEF UpsertedBy
  <2>4. x # m.node /\ x \in DOMAIN registry' =>
          x \in DOMAIN registry /\ registry'[x].status = registry[x].status
    BY <2>1 DEF UpsertedBy
  <2> QED
    BY <2>1, <2>2, <2>3, <2>4, StatusReads
<1>7. ASSUME NEW m, RemovalRead(m)
      PROVE  StatusRight(x)'
  <2>1. Reads(m) /\ m \in Message /\ m.kind = "removed"
    BY <1>7 DEF RemovalRead, Reads
  <2>2. m \notin Rating(x)
    BY <2>1, DescribingOf
  <2>3. x \in DOMAIN registry' => x \in DOMAIN registry /\ registry'[x].status = registry[x].status
    BY <1>7 DEF RemovalRead
  <2> QED
    BY <2>1, <2>2, <2>3, StatusReads
<1>8. ASSUME NEW m, StatusRead(m)
      PROVE  StatusRight(x)'
  <2>1. Reads(m) /\ m \in Message /\ m.kind = "status"
    BY <1>8 DEF StatusRead, Reads
  <2>2. (m \in Rating(x) <=> x = m.node) /\ StatusIn(x, m) = m.status
    BY <2>1, DescribingOf DEF StatusIn
  <2>3. x \in DOMAIN registry' =>
          /\ x \in DOMAIN registry
          /\ registry'[x].status = IF x = m.node THEN m.status ELSE registry[x].status
    BY <1>8 DEF StatusRead
  <2> QED
    BY <2>1, <2>2, <2>3, StatusReads
<1>9. CASE Closes
  BY <1>9 DEF Closes, Settled
<1>10. CASE Elsewhere
  BY <1>10 DEF Elsewhere, StatusInv, StatusRight
<1>11. View
  BY Views
<1> QED
  BY <1>2, <1>3, <1>4, <1>5, <1>6, <1>7, <1>8, <1>9, <1>10, <1>11 DEF View

-----------------------------------------------------------------------------
\* What holds before anything is said.
LEMMA Silence == Init => CacheInv /\ AliveInv /\ ReadyInv /\ StatusInv
<1> SUFFICES ASSUME Init
             PROVE  CacheInv /\ AliveInv /\ ReadyInv /\ StatusInv
  OBVIOUS
<1>1. ~Settled /\ Len(channel) = 0
  BY DEF Init, Settled
<1>2. 1..Len(channel) = {}
  BY <1>1
<1> QED
  BY <1>1, <1>2 DEF CacheInv, CacheRight, AliveInv, ReadyInv, ReadyRight, StatusInv, StatusRight

KnownInv == TypeInv /\ CacheInv /\ AliveInv /\ ReadyInv /\ StatusInv

LEMMA KnownInvariant == Spec => []KnownInv
<1>1. Init => KnownInv
  BY TypeInit, Silence DEF KnownInv
<1>2. KnownInv /\ [Next]_vars => KnownInv'
  BY TypeKept, CacheKept, AliveKept, ReadyKept, StatusKept DEF KnownInv
<1> QED
  BY <1>1, <1>2, PTL DEF Spec

\* When nothing is on its way, nothing is left to be said.
LEMMA AllSaid ==
    ASSUME TypeInv, Quiescent, NEW D
    PROVE  Settled /\ Unsaid(channel, D, 0)
<1>1. Settled /\ Len(channel) = 0
  BY DEF Quiescent, Settled
<1>2. 1..Len(channel) = {}
  BY <1>1
<1> QED
  BY <1>1, <1>2 DEF Unsaid

(***************************************************************************)
(* Once nothing is on its way, neither a message nor a request nor a       *)
(* timer, the cache has exactly the nodes of the network, and of those     *)
(* that are interviewed exactly the values: what reconcile() and the       *)
(* resynchronization are for (NodeRegistry.ts:77, ZwaveIntegration.ts:513).*)
(***************************************************************************)
THEOREM CacheCorrect == Spec => []CacheCatchesUp
<1>1. KnownInv => CacheCatchesUp
  <2> SUFFICES ASSUME KnownInv, Quiescent
               PROVE  /\ DOMAIN registry = DOMAIN ui
                      /\ \A n \in DOMAIN ui :
                           ui[n].ready => DOMAIN registry[n].values = DOMAIN ui[n].values
    BY DEF CacheCatchesUp
  <2>1. DOMAIN registry \subseteq Nodes /\ DOMAIN ui \subseteq Nodes
    BY IsCache DEF KnownInv, TypeInv, WorldType, CacheType
  <2>2. \A n \in Nodes : RightCache(n)
    BY AllSaid DEF KnownInv, CacheInv, CacheRight
  <2>3. ~resync /\ ~stopping
    BY DEF Quiescent
  <2> QED
    BY <2>1, <2>2, <2>3 DEF RightCache
<1> QED
  BY <1>1, KnownInvariant, PTL

-----------------------------------------------------------------------------
(* The Discovery screen lists what is cached. *)

LEMMA SameListing ==
    ASSUME NEW r, NEW c, DOMAIN r = DOMAIN c,
           \A n \in DOMAIN c : DOMAIN r[n].values = DOMAIN c[n].values
    PROVE  Listing(r) = Listing(c)
BY DEF Listing

\* A request is answered before all is said.
LEMMA Requesting ==
    ASSUME TypeInv, ResyncFires \/ RequestScan
    PROVE  ~Settled'
<1>1. asked \in 0..MaxAsked /\ MaxAsked \in Nat \ {0}
  BY BoundsAssumption DEF TypeInv, WorldType
<1>2. link' = link
  BY DEF ResyncFires, RequestScan, Rest
<1>3. link => asked' # 0
  BY <1>1 DEF ResyncFires, RequestScan, RequestNodes
<1> QED
  BY <1>2, <1>3 DEF Settled

LEMMA DiscoveryKept ==
    ASSUME KnownInv, KnownInv', DiscoveryInv, [Next]_vars
    PROVE  DiscoveryInv'
<1> SUFFICES ASSUME Settled', ~stopping', ~discovery', ~again', Unsaid(channel', Structural, 0)
             PROVE  IF publishing' = "no" THEN ~stale' => listed' = Listing(registry')
                                          ELSE payload' = Listing(registry')
  BY DEF DiscoveryInv
<1> DEFINE Listed == IF publishing' = "no" THEN ~stale' => listed' = Listing(registry')
                                           ELSE payload' = Listing(registry')
<1> USE DEF KnownInv
\* Nothing that matters changes.
<1>1. ASSUME Settled, ~stopping, UNCHANGED <<discovery, publication>>,
             Listing(registry') = Listing(registry), Unsaid(channel, Structural, 0)
      PROVE  Listed
  BY <1>1 DEF DiscoveryInv, publication
<1>2. ASSUME NEW n, NEW m, Tells(n, m) \/ Removes(n, m) \/ Reports(n, m)
      PROVE  Listed
  <2>1. /\ m \in Message /\ channel \in Seq(Message) /\ (link => channel' = Append(channel, m))
        /\ UNCHANGED <<link, asked, stopping, registry>> /\ UNCHANGED <<discovery, publication>>
    BY <1>2 DEF Tells, Removes, Reports, Says, Change, Send, cache, TypeInv, WorldType
  <2>2. Settled /\ ~stopping /\ Longer(m)
    BY <2>1, LongerSent DEF Settled
  <2>3. Unsaid(channel, Structural, 0) /\ m \notin Structural
    <3>1. 0 \in 0..Len(channel') /\ 0 # Len(channel')
      BY <2>2 DEF Longer
    <3> QED
      BY <2>2, <3>1 DEF Longer
  <2> QED
    BY <1>1, <2>1, <2>2, <2>3
<1>3. ASSUME NEW n, Interviews(n)
      PROVE  Listed
  BY <1>1, <1>3 DEF Interviews, Change, cache, Settled
<1>4. CASE Answered
  <2> DEFINE m == [kind |-> "nodes", nodes |-> ui]
  <2>1. m \in Message /\ channel \in Seq(Message) /\ channel' = Append(channel, m)
    BY <1>4, AnsweredType
  <2>2. m \in Structural
    BY <2>1 DEF Structural
  <2> HIDE DEF m
  <2>3. Longer(m)
    BY <2>1, LongerSent
  <2>4. 0 \in 0..Len(channel') /\ 0 # Len(channel')
    BY <2>3 DEF Longer
  <2> QED
    BY <2>2, <2>3, <2>4 DEF Longer
<1>5. CASE OnNodes
  BY <1>5 DEF OnNodes, PublishDiscovered
<1>6. CASE DiscoveryFires
  BY <1>6 DEF DiscoveryFires, PublishDiscovered
<1>7. CASE OnNodeRefreshed \/ OnNodeRemoved
  BY <1>7 DEF OnNodeRefreshed, OnNodeRemoved
\* A message that changes nothing of what is listed is read.
<1>8. ASSUME NEW m, Reads(m), m.kind \in {"value", "status"}
      PROVE  Settled /\ ~stopping /\ Unsaid(channel, Structural, 0)
  <2>1. m \notin Structural
    BY <1>8 DEF Structural
  <2>2. 0 \in 0..Len(channel')
    BY <1>8 DEF Reads
  <2> QED
    BY <1>8, <2>1, <2>2 DEF Reads, Settled
<1>9. CASE OnValueUpdated
  <2>1. PICK m : m = Head(channel)
    OBVIOUS
  <2>2. Reads(m) /\ m.kind = "value"
    BY <1>9, <2>1, ReadsTaken DEF OnValueUpdated
  <2>3. m.node \in Nodes /\ m.data \in Data /\ m.data.values = Absent
    BY <2>2, Messages DEF Reads, BareData
  <2>4. registry \in Caches
    BY DEF TypeInv, CacheType
  <2>5. UpsertedBy(registry', m.node, m.data)
    BY <1>9, <2>1, <2>3, <2>4, Upserted DEF OnValueUpdated
  <2>6. Settled /\ ~stopping /\ Unsaid(channel, Structural, 0)
    BY <1>8, <2>2
  <2>7. m.node \in DOMAIN registry
    <3>1. Unsaid(channel, Deciding(m.node), 0)
      BY <2>6 DEF Unsaid, Deciding, Structural
    <3>2. Unsaid(channel, Deciding(m.node), 1)
      BY <3>1 DEF Unsaid
    <3>3. m = channel[1] /\ 1 \in 1..Len(channel)
      BY <2>2 DEF Reads
    <3>4. m.node \in DOMAIN ui
      BY <2>2, <3>2, <3>3 DEF AliveInv
    <3>5. RightCache(m.node)
      BY <2>3, <2>6, <3>1 DEF CacheInv, CacheRight
    <3> QED
      BY <3>4, <3>5 DEF RightCache
  <2>8. /\ DOMAIN registry' = DOMAIN registry
        /\ \A x \in DOMAIN registry : DOMAIN registry'[x].values = DOMAIN registry[x].values
    BY <2>3, <2>4, <2>5, <2>7, ValuesOfType DEF UpsertedBy
  <2>9. Listing(registry') = Listing(registry)
    BY <2>8, SameListing
  <2> QED
    BY <1>1, <1>9, <2>6, <2>9 DEF OnValueUpdated
<1>10. CASE OnNodeStatus
  <2>1. PICK m : m = Head(channel)
    OBVIOUS
  <2>2. Reads(m) /\ m.kind = "status"
    BY <1>10, <2>1, ReadsTaken DEF OnNodeStatus
  <2>3. Settled /\ ~stopping /\ Unsaid(channel, Structural, 0)
    BY <1>8, <2>2
  <2>4. Listing(registry') = Listing(registry)
    <3>1. CASE m.node \in DOMAIN registry
      <4>1. m.status \in Statuses
        BY <2>2, Messages DEF Reads
      <4>2. registry' = [registry EXCEPT ![m.node].status = m.status]
        BY <1>10, <2>1, <3>1 DEF OnNodeStatus
      <4>3. /\ DOMAIN registry' = DOMAIN registry
            /\ \A x \in DOMAIN registry : registry'[x].values = registry[x].values
        BY <3>1, <4>1, <4>2, Rated
      <4> QED
        BY <4>3, SameListing
    <3>2. CASE m.node \notin DOMAIN registry
      BY <1>10, <2>1, <3>2 DEF OnNodeStatus
    <3> QED
      BY <3>1, <3>2
  <2> QED
    BY <1>1, <1>10, <2>3, <2>4 DEF OnNodeStatus
<1>11. ASSUME NEW ok \in BOOLEAN, PublicationEnds(ok)
       PROVE  Listed
  <2>1. /\ publishing # "no" /\ stale' = ~ok /\ listed' = IF ok THEN payload ELSE listed
        /\ UNCHANGED registry
    BY <1>11 DEF PublicationEnds, cache
  <2>2. CASE again
    BY <1>11, <2>1, <2>2 DEF PublicationEnds, Asked
  <2>3. CASE ~again
    <3>1. publishing' = "no"
      BY <1>11, <2>3 DEF PublicationEnds, Asked
    <3>2. Settled /\ ~stopping /\ ~discovery /\ Unsaid(channel, Structural, 0)
      BY <1>11 DEF PublicationEnds, external, cache, Settled
    <3>3. payload = Listing(registry)
      BY <2>1, <2>3, <3>2 DEF DiscoveryInv
    <3> QED
      BY <2>1, <3>1, <3>3
  <2> QED
    BY <2>2, <2>3
<1>12. ASSUME NEW n, OnDeviceCreated(n) \/ OnDeviceUpdated(n) \/ OnDeviceDeleted(n)
       PROVE  Listed
  BY <1>1, <1>12 DEF OnDeviceCreated, OnDeviceUpdated, OnDeviceDeleted, external, cache, Settled
<1>13. CASE LinkUp \/ LinkDown \/ Stop \/ StopEnds
  BY <1>13 DEF LinkUp, LinkDown, Stop, StopEnds, Closed, Settled
<1>14. CASE ResyncFires \/ RequestScan
  BY <1>14, Requesting
<1>15. CASE Idle
  BY <1>1, <1>15 DEF Idle, publication, Settled
<1>16. Form
  BY Forms
<1> QED
  BY <1>2, <1>3, <1>4, <1>5, <1>6, <1>7, <1>9, <1>10, <1>11, <1>12, <1>13, <1>14, <1>15, <1>16
  DEF Form

(***************************************************************************)
(* What Gladys lists in the end is what is cached, however many handlers   *)
(* and timers asked for a publication while one was in flight (lines       *)
(* 493-494), unless the last publication failed.                           *)
(***************************************************************************)
THEOREM DiscoveryCorrect == Spec => []DiscoveryUpToDate
<1>1. Init => DiscoveryInv
  BY DEF Init, DiscoveryInv, Settled
<1>2. KnownInv /\ KnownInv' /\ DiscoveryInv /\ [Next]_vars => DiscoveryInv'
  BY DiscoveryKept
<1>3. KnownInv /\ DiscoveryInv => DiscoveryUpToDate
  <2> SUFFICES ASSUME KnownInv, DiscoveryInv, Quiescent, ~stale
               PROVE  listed = Listing(registry)
    BY DEF DiscoveryUpToDate
  <2>1. Settled /\ Unsaid(channel, Structural, 0)
    BY AllSaid DEF KnownInv
  <2>2. ~stopping /\ ~discovery /\ publishing = "no" /\ ~again
    BY DEF Quiescent, KnownInv, TypeInv, PublicationType
  <2> QED
    BY <2>1, <2>2 DEF DiscoveryInv
<1> QED
  BY <1>1, <1>2, <1>3, KnownInvariant, PTL DEF Spec

-----------------------------------------------------------------------------
(* The badges say of the nodes what is cached of them. *)

\* The badge of one node is pushed, after what is cached of it changed.
LEMMA BadgedOne ==
    ASSUME TypeInv, TypeInv', BadgeInv, UNCHANGED <<publishing, created>>, NEW m,
           m \in DOMAIN registry', badges' = WithBadges({m}, registry'),
           \A x \in DOMAIN registry' : x # m => x \in DOMAIN registry /\ registry'[x] = registry[x]
    PROVE  BadgeInv'
<1> SUFFICES ASSUME publishing # "answer", NEW n \in DOMAIN created \cap DOMAIN registry'
             PROVE  BadgeRight(n)'
  BY DEF BadgeInv, BadgeRight
<1>1. /\ DOMAIN badges \subseteq DOMAIN badges'
      /\ \A x \in {m} \cap DOMAIN created :
           registry'[x].status # Unknown => x \in DOMAIN badges' /\ badges'[x] = Badge(registry'[x])
      /\ \A x \in DOMAIN badges : x \notin {m} => badges'[x] = badges[x]
  <2>1. GladysType /\ registry' \in Caches /\ {m} \subseteq DOMAIN registry'
    BY DEF TypeInv, CacheType
  <2> QED
    BY <2>1, BadgingAll
<1>2. CASE n = m
  BY <1>1, <1>2 DEF BadgeRight
<1>3. CASE n # m
  <2>1. BadgeRight(n) /\ registry'[n] = registry[n]
    BY <1>3 DEF BadgeInv, BadgeRight
  <2> QED
    BY <1>1, <1>3, <2>1 DEF BadgeRight
<1> QED
  BY <1>2, <1>3

\* The badges of all the nodes are.
LEMMA BadgedAll ==
    ASSUME TypeInv, TypeInv', UNCHANGED created, badges' = Badged(registry')
    PROVE  BadgeInv'
<1>1. GladysType /\ registry' \in Caches /\ DOMAIN registry' \subseteq DOMAIN registry'
  BY DEF TypeInv, CacheType
<1>2. badges' = WithBadges(DOMAIN registry', registry')
  BY DEF Badged
<1>3. \A n \in DOMAIN registry' \cap DOMAIN created :
        registry'[n].status # Unknown => n \in DOMAIN badges' /\ badges'[n] = Badge(registry'[n])
  BY <1>1, <1>2, BadgingAll
<1> QED
  BY <1>3 DEF BadgeInv, BadgeRight

LEMMA BadgeKept ==
    ASSUME TypeInv, TypeInv', BadgeInv, [Next]_vars
    PROVE  BadgeInv'
<1>1. ASSUME UNCHANGED <<publishing, created, registry, badges>>
      PROVE  BadgeInv'
  BY <1>1 DEF BadgeInv, BadgeRight
<1>2. ASSUME NEW n, NEW m, Tells(n, m) \/ Removes(n, m) \/ Reports(n, m)
      PROVE  BadgeInv'
  BY <1>1, <1>2 DEF Tells, Removes, Reports, Says, Change, cache, publication, gladys
<1>3. ASSUME NEW n, Interviews(n)
      PROVE  BadgeInv'
  BY <1>1, <1>3 DEF Interviews, Change, cache, publication, gladys
<1>4. CASE Answered \/ LinkUp \/ LinkDown \/ Stop \/ StopEnds \/ ResyncFires \/ RequestScan
           \/ Idle
  BY <1>1, <1>4 DEF Answered, LinkUp, LinkDown, Stop, StopEnds, ResyncFires, RequestScan, Rest,
                    cache, publication, gladys, publisher, Idle
<1>5. CASE OnNodes
  <2>1. CASE publishing = "no"
    BY <1>5, <2>1 DEF OnNodes, PublishDiscovered, BadgeInv, BadgeRight
  <2>2. CASE publishing # "no"
    BY <1>5, <2>2, BadgedAll DEF OnNodes, Rest
  <2> QED
    BY <2>1, <2>2
<1>6. CASE OnValueUpdated \/ OnNodeRefreshed
  <2>1. PICK m : m = Head(channel)
    OBVIOUS
  <2>2. Reads(m) /\ m.kind \in {"value", "refreshed"}
    <3>1. CASE OnValueUpdated
      BY <2>1, <3>1, ReadsTaken DEF OnValueUpdated
    <3>2. CASE OnNodeRefreshed
      BY <2>1, <3>2, ReadsTaken DEF OnNodeRefreshed
    <3> QED
      BY <1>6, <3>1, <3>2
  <2>3. m.node \in Nodes /\ m.data \in Data
    BY <2>2, Messages DEF Reads
  <2>4. registry \in Caches
    BY DEF TypeInv, CacheType
  <2>5. registry' = Upsert(m.node, m.data) /\ badges' = WithBadges({m.node}, registry')
    BY <1>6, <2>1 DEF OnValueUpdated, OnNodeRefreshed
  <2>6. UpsertedBy(registry', m.node, m.data)
    BY <2>3, <2>4, <2>5, Upserted
  <2>7. UNCHANGED <<publishing, created>>
    BY <1>6 DEF OnValueUpdated, OnNodeRefreshed, Rest, publication
  <2>8. /\ m.node \in DOMAIN registry'
        /\ \A x \in DOMAIN registry' : x # m.node => x \in DOMAIN registry /\ registry'[x] = registry[x]
    BY <2>6 DEF UpsertedBy
  <2> QED
    BY <2>5, <2>7, <2>8, BadgedOne
<1>7. CASE OnNodeRemoved
  <2>1. PICK m : m = Head(channel).node
    OBVIOUS
  <2>2. /\ registry' = Without(registry, {m}) /\ badges' = Left(m)
        /\ UNCHANGED <<publishing, created>>
    BY <1>7, <2>1 DEF OnNodeRemoved, Rest, publication
  <2>3. /\ DOMAIN registry' = DOMAIN registry \ {m}
        /\ \A x \in DOMAIN registry' : registry'[x] = registry[x]
    BY <2>2 DEF Without
  <2>4. \A x \in DOMAIN badges : x # m => x \in DOMAIN badges' /\ badges'[x] = badges[x]
    BY <2>2 DEF Left, Put
  <2> QED
    BY <2>2, <2>3, <2>4 DEF BadgeInv, BadgeRight
<1>8. CASE OnNodeStatus
  <2>1. PICK m : m = Head(channel)
    OBVIOUS
  <2>2. Reads(m) /\ m.kind = "status"
    BY <1>8, <2>1, ReadsTaken DEF OnNodeStatus
  <2>3. UNCHANGED <<publishing, created>>
    BY <1>8 DEF OnNodeStatus, Rest, publication
  <2>4. CASE m.node \in DOMAIN registry
    <3>1. m.status \in Statuses
      BY <2>2, Messages DEF Reads
    <3>2. /\ registry' = [registry EXCEPT ![m.node].status = m.status]
          /\ badges' = WithBadges({m.node}, registry')
      BY <1>8, <2>1, <2>4 DEF OnNodeStatus
    <3>3. /\ DOMAIN registry' = DOMAIN registry
          /\ \A x \in DOMAIN registry : x # m.node => registry'[x] = registry[x]
      BY <2>4, <3>1, <3>2, Rated
    <3> QED
      BY <2>3, <2>4, <3>2, <3>3, BadgedOne
  <2>5. CASE m.node \notin DOMAIN registry
    BY <1>1, <1>8, <2>1, <2>3, <2>5 DEF OnNodeStatus
  <2> QED
    BY <2>4, <2>5
<1>9. CASE DiscoveryFires
  BY <1>9 DEF DiscoveryFires, PublishDiscovered, Rest, BadgeInv, BadgeRight
<1>10. ASSUME NEW ok \in BOOLEAN, PublicationEnds(ok)
       PROVE  BadgeInv'
  <2>1. UNCHANGED <<registry, created>>
    BY <1>10 DEF PublicationEnds, cache
  <2>2. CASE again
    BY <1>1, <1>10, <2>1, <2>2 DEF PublicationEnds, Asked
  <2>3. CASE ~again /\ publishing = "answer"
    BY <1>10, <2>1, <2>3, BadgedAll DEF PublicationEnds, Asked
  <2>4. CASE ~again /\ publishing # "answer"
    BY <1>10, <2>1, <2>4 DEF PublicationEnds, Asked, BadgeInv, BadgeRight
  <2> QED
    BY <2>2, <2>3, <2>4
<1>11. ASSUME NEW d, OnDeviceCreated(d)
       PROVE  BadgeInv'
  <2>1. PICK told : told = {m \in {d} \cap DOMAIN registry : registry[m].status # Unknown}
    OBVIOUS
  <2>2. /\ created' = Put(created, d, listed[d]) /\ badges' = PushedBadges(told, registry)
        /\ UNCHANGED <<publishing, registry>>
    BY <1>11, <2>1 DEF OnDeviceCreated, cache, publication
  <2>3. /\ told \subseteq DOMAIN registry /\ told \subseteq {d}
        /\ d \in DOMAIN registry /\ registry[d].status # Unknown => d \in told
    BY <2>1
  <2>4. /\ DOMAIN badges' = DOMAIN badges \cup told
        /\ \A n \in DOMAIN badges' : badges'[n] = IF n \in told THEN Badge(registry[n]) ELSE badges[n]
    <3>1. DOMAIN badges' = DOMAIN badges \cup told
      BY <2>2 DEF PushedBadges
    <3> QED
      BY <2>2, <3>1 DEF PushedBadges
  <2>5. DOMAIN created' = DOMAIN created \cup {d}
    BY <2>2 DEF Put
  <2> QED
    BY <2>2, <2>3, <2>4, <2>5 DEF BadgeInv, BadgeRight
<1>12. ASSUME NEW d, OnDeviceUpdated(d)
       PROVE  BadgeInv'
  <2>1. /\ DOMAIN created' = DOMAIN created
        /\ badges' = WithBadges({d} \cap DOMAIN registry, registry)
        /\ UNCHANGED <<publishing, registry>>
    BY <1>12 DEF OnDeviceUpdated, cache, publication
  <2>2. /\ DOMAIN badges \subseteq DOMAIN badges'
        /\ \A x \in ({d} \cap DOMAIN registry) \cap DOMAIN created :
             registry[x].status # Unknown => x \in DOMAIN badges' /\ badges'[x] = Badge(registry[x])
        /\ \A x \in DOMAIN badges : x \notin {d} \cap DOMAIN registry => badges'[x] = badges[x]
    <3>1. GladysType /\ registry \in Caches /\ {d} \cap DOMAIN registry \subseteq DOMAIN registry
      BY DEF TypeInv, CacheType
    <3> QED
      BY <2>1, <3>1, BadgingAll
  <2> QED
    BY <2>1, <2>2 DEF BadgeInv, BadgeRight
<1>13. ASSUME NEW d, OnDeviceDeleted(d)
       PROVE  BadgeInv'
  <2>1. /\ created' = Without(created, {d}) /\ badges' = Without(badges, {d})
        /\ UNCHANGED <<publishing, registry>>
    BY <1>13 DEF OnDeviceDeleted, cache, publication
  <2>2. /\ DOMAIN created' = DOMAIN created \ {d} /\ DOMAIN badges' = DOMAIN badges \ {d}
        /\ \A x \in DOMAIN badges' : badges'[x] = badges[x]
    BY <2>1 DEF Without
  <2> QED
    BY <2>1, <2>2 DEF BadgeInv, BadgeRight
<1>14. Form
  BY Forms
<1> QED
  BY <1>2, <1>3, <1>4, <1>5, <1>6, <1>7, <1>8, <1>9, <1>10, <1>11, <1>12, <1>13, <1>14 DEF Form

(***************************************************************************)
(* The badge of every created device whose node is there, and whose status *)
(* is known, says of it what zwave-js-ui last did, status and interview    *)
(* (ZwaveIntegration.ts:339-380): whatever was announced, answered, lost,  *)
(* created or deleted meanwhile.                                           *)
(***************************************************************************)
THEOREM BadgeCorrect == Spec => []BadgeCurrent
<1>1. Init => BadgeInv
  <2>1. DOMAIN <<>> = {}
    OBVIOUS
  <2> QED
    BY <2>1 DEF Init, BadgeInv, BadgeRight
<1>2. KnownInv /\ KnownInv' /\ BadgeInv /\ [Next]_vars => BadgeInv'
  BY BadgeKept DEF KnownInv
<1>3. KnownInv /\ BadgeInv => BadgeCurrent
  <2> SUFFICES ASSUME KnownInv, BadgeInv, Quiescent,
                      NEW n \in DOMAIN created \cap DOMAIN ui, ui[n].status # Unknown
               PROVE  n \in DOMAIN badges /\ badges[n] = Badge(ui[n])
    BY DEF BadgeCurrent
  <2>1. Settled /\ \A D : Unsaid(channel, D, 0)
    BY AllSaid DEF KnownInv
  <2>2. n \in DOMAIN registry
    <3>1. n \in Nodes
      BY IsCache DEF KnownInv, TypeInv, WorldType
    <3> QED
      BY <2>1, <3>1 DEF KnownInv, CacheInv, CacheRight, RightCache
  <2>3. registry[n].ready = ui[n].ready /\ registry[n].status = ui[n].status
    BY <2>1, <2>2 DEF KnownInv, ReadyInv, ReadyRight, StatusInv, StatusRight
  <2>4. publishing = "no"
    BY DEF Quiescent
  <2> QED
    BY <2>2, <2>3, <2>4 DEF BadgeInv, BadgeRight, Badge
<1> QED
  BY <1>1, <1>2, <1>3, KnownInvariant, PTL DEF Spec

-----------------------------------------------------------------------------
(* The badge of a node that left says so. *)

LEMMA AboutOf ==
    ASSUME NEW m \in Message, NEW n
    PROVE  /\ m.kind = "nodes" => (m \in About(n) <=> n \in DOMAIN m.nodes)
           /\ m.kind # "nodes" => (m \in About(n) <=> m.node = n)
BY DEF About

\* The badges of some cached nodes are pushed.
LEMMA BadgedCached ==
    ASSUME TypeInv, NEW reg \in Caches, NEW nodes, nodes \subseteq DOMAIN reg,
           badges' = WithBadges(nodes, reg)
    PROVE  \A n : n \notin nodes /\ n \in DOMAIN badges' =>
                      n \in DOMAIN badges /\ badges'[n] = badges[n]
<1>1. GladysType
  BY DEF TypeInv
<1>2. \A n \in DOMAIN badges' : n \notin nodes => n \in DOMAIN badges
  BY <1>1, BadgingAll
<1>3. \A n \in DOMAIN badges : n \notin nodes => badges'[n] = badges[n]
  BY <1>1, BadgingAll
<1> QED
  BY <1>2, <1>3

\* What a step must show, for the two sorts of steps.
LEMMA GoneReads ==
    ASSUME NEW n, GoneRight(n), NEW m, Reads(m),
           m \in About(n) /\ m.kind = "removed" => Forgotten(n)',
           m \notin About(n) /\ Forgotten(n) => Forgotten(n)'
    PROVE  GoneRight(n)'
<1>1. /\ LastIn(channel', About(n), Removals)
      /\ Unsaid(channel', About(n), 0) /\ m \in About(n) => m \in Removals
      /\ Unsaid(channel', About(n), 0) /\ m \notin About(n) => Unsaid(channel, About(n), 0)
  BY LastRead DEF GoneRight
<1>2. m \in Removals => m.kind = "removed"
  BY DEF Removals
<1> QED
  BY <1>1, <1>2 DEF GoneRight

LEMMA GoneSays ==
    ASSUME GoneInv, TypeInv, NEW x, NEW m, Says(x, m), link => Longer(m), drops = 0,
           NEW n \in Nodes \ DOMAIN ui', n # x \/ m.kind = "removed"
    PROVE  GoneRight(n)'
<1>1. /\ m \in Message /\ m.kind # "nodes" /\ m.node = x /\ Others(x)
      /\ UNCHANGED <<registry, badges>>
  BY DEF Says, Change, cache, gladys
<1>2. n # x => n \notin DOMAIN ui
  BY <1>1 DEF Others
<1>3. CASE ~link
  <2>1. channel' = channel /\ channel = <<>>
    BY <1>3 DEF Says, Send, TypeInv, WorldType
  <2>2. Len(channel') = 0
    BY <2>1
  <2>3. 1..Len(channel') = {}
    BY <2>2
  <2>4. Forgotten(n)'
    BY <1>1, <1>3 DEF GoneInv, Forgotten
  <2> QED
    BY <2>3, <2>4 DEF GoneRight, LastIn
<1>4. CASE link /\ n = x
  <2>1. m \in About(n) /\ m \in Removals /\ Longer(m)
    BY <1>1, <1>4, AboutOf DEF Removals
  <2>2. LastIn(channel, About(n), Message)
    BY DEF LastIn, About
  <2>3. LastIn(channel', About(n), Removals) /\ ~Unsaid(channel', About(n), 0)
    BY <2>1, <2>2, LastSent
  <2> QED
    BY <2>3 DEF GoneRight
<1>5. CASE link /\ n # x
  <2>1. m \notin About(n) /\ Longer(m) /\ GoneRight(n)
    BY <1>1, <1>2, <1>5, AboutOf DEF GoneInv
  <2>2. /\ LastIn(channel', About(n), Removals)
        /\ Unsaid(channel', About(n), 0) => Unsaid(channel, About(n), 0)
    BY <2>1, LastSent DEF GoneRight
  <2> QED
    BY <1>1, <2>1, <2>2 DEF GoneRight, Forgotten
<1> QED
  BY <1>3, <1>4, <1>5

LEMMA GoneKept ==
    ASSUME TypeInv, TypeInv', GoneInv, [Next]_vars
    PROVE  GoneInv'
<1> DEFINE Right == /\ ~stopping'
                    /\ ~link' => DOMAIN registry' = {} /\ DOMAIN badges' = {}
                    /\ \A n \in Nodes \ DOMAIN ui' : GoneRight(n)'
<1> SUFFICES ASSUME drops' = 0
             PROVE  Right
  BY DEF GoneInv
<1>1. ASSUME drops = 0
      PROVE  /\ stopping = FALSE
             /\ ~link => DOMAIN registry = {} /\ DOMAIN badges = {}
             /\ \A n \in Nodes \ DOMAIN ui : GoneRight(n)
  BY <1>1 DEF GoneInv, TypeInv, WorldType
\* Nothing that matters changes.
<1>2. ASSUME UNCHANGED <<ui, channel, registry, badges, stopping, drops>>, link => link'
      PROVE  Right
  <2>1. drops = 0
    BY <1>2
  <2>2. \A n \in Nodes \ DOMAIN ui' : GoneRight(n)'
    BY <1>1, <1>2, <2>1 DEF GoneRight, Forgotten
  <2> QED
    BY <1>1, <1>2, <2>1, <2>2
<1>3. ASSUME NEW x, NEW m, Tells(x, m) \/ Removes(x, m) \/ Reports(x, m)
      PROVE  Right
  <2>1. Says(x, m) /\ (x \in DOMAIN ui' \/ m.kind = "removed")
    BY <1>3 DEF Tells, Removes, Reports
  <2>2. m \in Message /\ channel \in Seq(Message) /\ (link => channel' = Append(channel, m))
    BY <2>1 DEF Says, Send, TypeInv, WorldType
  <2>3. link => Longer(m)
    BY <2>2, LongerSent
  <2>4. UNCHANGED <<link, stopping, registry, badges, drops>>
    BY <2>1 DEF Says, Change, cache, gladys
  <2>5. drops = 0
    BY <2>4
  <2>6. \A n \in Nodes \ DOMAIN ui' : GoneRight(n)'
    BY <2>1, <2>3, <2>5, GoneSays
  <2> QED
    BY <1>1, <2>4, <2>5, <2>6
<1>4. ASSUME NEW x, Interviews(x)
      PROVE  Right
  <2>1. UNCHANGED <<link, channel, stopping, registry, badges, drops>> /\ drops = 0
    BY <1>4 DEF Interviews, Change, cache, gladys
  <2>2. \A n \in Nodes \ DOMAIN ui' : n \notin DOMAIN ui
    BY <1>4 DEF Interviews, Others
  <2>3. \A n \in Nodes \ DOMAIN ui' : GoneRight(n)'
    BY <1>1, <2>1, <2>2 DEF GoneRight, Forgotten
  <2> QED
    BY <1>1, <2>1, <2>3
<1>5. CASE Answered
  <2>1. PICK m : m = [kind |-> "nodes", nodes |-> ui]
    OBVIOUS
  <2>2. m \in Message /\ Longer(m) /\ m.kind = "nodes" /\ m.nodes = ui
    <3>1. m \in Message /\ channel \in Seq(Message) /\ channel' = Append(channel, m)
      BY <1>5, <2>1, AnsweredType
    <3> QED
      BY <2>1, <3>1, LongerSent
  <2>3. UNCHANGED <<ui, link, stopping, registry, badges, drops>> /\ drops = 0
    BY <1>5 DEF Answered, cache, gladys
  <2>4. ASSUME NEW n \in Nodes \ DOMAIN ui'
        PROVE  GoneRight(n)'
    <3>1. m \notin About(n) /\ GoneRight(n)
      BY <1>1, <2>2, <2>3, AboutOf
    <3>2. /\ LastIn(channel', About(n), Removals)
          /\ Unsaid(channel', About(n), 0) => Unsaid(channel, About(n), 0)
      BY <2>2, <3>1, LastSent DEF GoneRight
    <3> QED
      BY <2>3, <3>1, <3>2 DEF GoneRight, Forgotten
  <2> QED
    BY <1>1, <2>3, <2>4
\* A message, m, is read.
<1>6. ASSUME NEW m, Reads(m),
             \A n \in Nodes \ DOMAIN ui :
                /\ m \in About(n) /\ m.kind = "removed" => Forgotten(n)'
                /\ m \notin About(n) /\ Forgotten(n) => Forgotten(n)'
      PROVE  Right
  <2>1. UNCHANGED <<ui, link, stopping, drops>> /\ drops = 0 /\ link
    BY <1>6 DEF Reads
  <2>2. \A n \in Nodes \ DOMAIN ui' : GoneRight(n)'
    BY <1>1, <1>6, <2>1, GoneReads
  <2> QED
    BY <1>1, <2>1, <2>2
<1>7. CASE OnNodes
  <2>1. PICK m : m = Head(channel)
    OBVIOUS
  <2>2. Reads(m) /\ m.kind = "nodes" /\ m \in Message
    BY <1>7, <2>1, ReadsTaken DEF OnNodes, Reads
  <2>3. m.nodes \in Caches /\ registry \in Caches /\ registry' = Replace(m.nodes)
    BY <1>7, <2>1, <2>2, Messages DEF OnNodes, TypeInv, CacheType
  <2>4. registry' \in Caches /\ DOMAIN registry' = DOMAIN m.nodes
    BY <2>3, Replaced
  <2>5. ASSUME NEW n \in Nodes \ DOMAIN ui, m \notin About(n), Forgotten(n)
        PROVE  Forgotten(n)'
    <3>1. n \notin DOMAIN registry'
      BY <2>2, <2>4, <2>5, AboutOf
    <3>2. n \in DOMAIN badges' => n \in DOMAIN badges /\ badges'[n] = badges[n]
      <4>1. CASE publishing = "no"
        BY <1>7, <4>1 DEF OnNodes
      <4>2. CASE publishing # "no"
        <5>1. badges' = WithBadges(DOMAIN registry', registry')
          BY <1>7, <4>2 DEF OnNodes, Badged
        <5> QED
          BY <2>4, <3>1, <5>1, BadgedCached
      <4> QED
        BY <4>1, <4>2
    <3> QED
      BY <2>5, <3>1, <3>2 DEF Forgotten
  <2> QED
    BY <1>6, <2>2, <2>5
<1>8. CASE OnValueUpdated \/ OnNodeRefreshed
  <2>1. PICK m : m = Head(channel)
    OBVIOUS
  <2>2. Reads(m) /\ m.kind \in {"value", "refreshed"} /\ m \in Message
    <3>1. CASE OnValueUpdated
      BY <2>1, <3>1, ReadsTaken DEF OnValueUpdated, Reads
    <3>2. CASE OnNodeRefreshed
      BY <2>1, <3>2, ReadsTaken DEF OnNodeRefreshed, Reads
    <3> QED
      BY <1>8, <3>1, <3>2
  <2>3. m.node \in Nodes /\ m.data \in Data
    BY <2>2, Messages
  <2>4. registry \in Caches
    BY DEF TypeInv, CacheType
  <2>5. registry' = Upsert(m.node, m.data) /\ badges' = WithBadges({m.node}, registry')
    BY <1>8, <2>1 DEF OnValueUpdated, OnNodeRefreshed
  <2>6. registry' \in Caches /\ DOMAIN registry' = DOMAIN registry \cup {m.node}
    <3>1. UpsertedBy(registry', m.node, m.data)
      BY <2>3, <2>4, <2>5, Upserted
    <3> QED
      BY <3>1 DEF UpsertedBy
  <2>7. ASSUME NEW n \in Nodes \ DOMAIN ui, m \notin About(n), Forgotten(n)
        PROVE  Forgotten(n)'
    <3>1. n # m.node
      BY <2>2, <2>7, AboutOf
    <3>2. n \in DOMAIN badges' => n \in DOMAIN badges /\ badges'[n] = badges[n]
      BY <2>5, <2>6, <3>1, BadgedCached
    <3> QED
      BY <2>6, <2>7, <3>1, <3>2 DEF Forgotten
  <2> QED
    BY <1>6, <2>2, <2>7
<1>9. CASE OnNodeRemoved
  <2>1. PICK m : m = Head(channel)
    OBVIOUS
  <2>2. Reads(m) /\ m.kind = "removed" /\ m \in Message
    BY <1>9, <2>1, ReadsTaken DEF OnNodeRemoved, Reads
  <2>3. registry' = Without(registry, {m.node}) /\ badges' = Left(m.node)
    BY <1>9, <2>1 DEF OnNodeRemoved
  <2>4. DOMAIN registry' = DOMAIN registry \ {m.node}
    BY <2>3 DEF Without
  <2>5. ASSUME NEW n \in Nodes \ DOMAIN ui
        PROVE  /\ m \in About(n) => Forgotten(n)'
               /\ m \notin About(n) /\ Forgotten(n) => Forgotten(n)'
    <3>1. CASE n = m.node
      <4>1. n \in DOMAIN badges' => badges'[n] = Gone
        BY <2>3, <3>1 DEF Left, Put, TypeInv, GladysType
      <4>2. m \in About(n)
        BY <2>2, <3>1, AboutOf
      <4> QED
        BY <2>4, <3>1, <4>1, <4>2 DEF Forgotten
    <3>2. CASE n # m.node
      <4>1. n \in DOMAIN badges' => n \in DOMAIN badges /\ badges'[n] = badges[n]
        BY <2>3, <3>2 DEF Left, Put
      <4>2. m \notin About(n)
        BY <2>2, <3>2, AboutOf
      <4> QED
        BY <2>4, <4>1, <4>2 DEF Forgotten
    <3> QED
      BY <3>1, <3>2
  <2> QED
    BY <1>6, <2>2, <2>5
<1>10. CASE OnNodeStatus
  <2>1. PICK m : m = Head(channel)
    OBVIOUS
  <2>2. Reads(m) /\ m.kind = "status" /\ m \in Message
    BY <1>10, <2>1, ReadsTaken DEF OnNodeStatus, Reads
  <2>3. ASSUME NEW n \in Nodes \ DOMAIN ui, m \notin About(n), Forgotten(n)
        PROVE  Forgotten(n)'
    <3>1. n # m.node
      BY <2>2, <2>3, AboutOf
    <3>2. CASE m.node \notin DOMAIN registry
      BY <1>10, <2>1, <2>3, <3>2 DEF OnNodeStatus, Forgotten
    <3>3. CASE m.node \in DOMAIN registry
      <4>1. /\ registry' = [registry EXCEPT ![m.node].status = m.status]
            /\ badges' = WithBadges({m.node}, registry')
        BY <1>10, <2>1, <3>3 DEF OnNodeStatus
      <4>2. DOMAIN registry' = DOMAIN registry /\ registry' \in Caches
        BY <4>1 DEF TypeInv, CacheType
      <4>3. n \in DOMAIN badges' => n \in DOMAIN badges /\ badges'[n] = badges[n]
        <5>1. badges' = WithBadges({m.node}, registry') /\ {m.node} \subseteq DOMAIN registry'
          BY <3>3, <4>1, <4>2
        <5>2. n \notin {m.node} /\ registry' \in Caches
          BY <3>1, <4>2
        <5> QED
          BY <5>1, <5>2, BadgedCached
      <4> QED
        BY <2>3, <4>2, <4>3 DEF Forgotten
    <3> QED
      BY <3>2, <3>3
  <2> QED
    BY <1>6, <2>2, <2>3
\* The badges of some cached nodes are pushed, and those of some devices forgotten.
<1>11. ASSUME UNCHANGED <<ui, channel, registry, link, stopping, drops>>, NEW nodes,
              nodes \subseteq DOMAIN registry,
              \A n : n \notin nodes /\ n \in DOMAIN badges' =>
                         n \in DOMAIN badges /\ badges'[n] = badges[n]
       PROVE  Right
  <2>1. drops = 0
    BY <1>11
  <2>2. ASSUME NEW n \in Nodes \ DOMAIN ui'
        PROVE  GoneRight(n)'
    <3>1. GoneRight(n) /\ (Forgotten(n) => Forgotten(n)')
      BY <1>1, <1>11, <2>1 DEF Forgotten
    <3> QED
      BY <1>11, <3>1 DEF GoneRight
  <2>3. ~link' => DOMAIN registry' = {} /\ DOMAIN badges' = {}
    BY <1>1, <1>11, <2>1
  <2> QED
    BY <1>1, <1>11, <2>1, <2>2, <2>3
<1>12. ASSUME NEW ok \in BOOLEAN, PublicationEnds(ok)
       PROVE  Right
  <2>1. UNCHANGED <<ui, channel, registry, link, stopping, drops>> /\ registry \in Caches
    BY <1>12 DEF PublicationEnds, external, cache, TypeInv, CacheType
  <2>2. badges' = badges \/ badges' = WithBadges(DOMAIN registry, registry)
    <3>1. CASE again
      BY <1>12, <3>1 DEF PublicationEnds, Asked
    <3>2. CASE ~again
      BY <1>12, <3>2 DEF PublicationEnds, Asked, Badged
    <3> QED
      BY <3>1, <3>2
  <2>3. CASE badges' = badges
    BY <1>2, <2>1, <2>3
  <2>4. CASE badges' = WithBadges(DOMAIN registry, registry)
    <3>1. \A n : n \notin DOMAIN registry /\ n \in DOMAIN badges' =>
                     n \in DOMAIN badges /\ badges'[n] = badges[n]
      BY <2>1, <2>4, BadgedCached
    <3> QED
      BY <1>11, <2>1, <3>1
  <2> QED
    BY <2>2, <2>3, <2>4
<1>13. ASSUME NEW d, OnDeviceCreated(d)
       PROVE  Right
  <2>1. UNCHANGED <<ui, channel, registry, link, stopping, drops>>
    BY <1>13 DEF OnDeviceCreated, external, cache
  <2>2. PICK told : told = {m \in {d} \cap DOMAIN registry : registry[m].status # Unknown}
    OBVIOUS
  <2>3. badges' = PushedBadges(told, registry) /\ told \subseteq DOMAIN registry
    BY <1>13, <2>2 DEF OnDeviceCreated
  <2>4. \A n : n \notin told /\ n \in DOMAIN badges' =>
                   n \in DOMAIN badges /\ badges'[n] = badges[n]
    BY <2>3 DEF PushedBadges
  <2> QED
    BY <1>11, <2>1, <2>3, <2>4
<1>14. ASSUME NEW d, OnDeviceUpdated(d)
       PROVE  Right
  <2>1. UNCHANGED <<ui, channel, registry, link, stopping, drops>> /\ registry \in Caches
    BY <1>14 DEF OnDeviceUpdated, external, cache, TypeInv, CacheType
  <2>2. /\ badges' = WithBadges({d} \cap DOMAIN registry, registry)
        /\ {d} \cap DOMAIN registry \subseteq DOMAIN registry
    BY <1>14 DEF OnDeviceUpdated
  <2>3. \A n : n \notin {d} \cap DOMAIN registry /\ n \in DOMAIN badges' =>
                   n \in DOMAIN badges /\ badges'[n] = badges[n]
    BY <2>1, <2>2, BadgedCached
  <2> QED
    BY <1>11, <2>1, <2>2, <2>3
<1>15. ASSUME NEW d, OnDeviceDeleted(d)
       PROVE  Right
  <2>1. UNCHANGED <<ui, channel, registry, link, stopping, drops>>
    BY <1>15 DEF OnDeviceDeleted, external, cache
  <2>2. badges' = Without(badges, {d})
    BY <1>15 DEF OnDeviceDeleted
  <2>3. {} \subseteq DOMAIN registry
    OBVIOUS
  <2>4. \A n : n \notin {} /\ n \in DOMAIN badges' =>
                   n \in DOMAIN badges /\ badges'[n] = badges[n]
    BY <2>2 DEF Without
  <2> QED
    BY <1>11, <2>1, <2>3, <2>4
<1>16. CASE LinkDown \/ Stop
  <2>1. drops \in Nat /\ drops' = drops + 1
    BY <1>16 DEF LinkDown, Stop, TypeInv, WorldType
  <2> QED
    BY <2>1
<1>17. CASE StopEnds
  <2>1. stopping /\ drops = 0
    BY <1>17 DEF StopEnds
  <2> QED
    BY <1>1, <2>1
<1>18. CASE LinkUp \/ ResyncFires \/ RequestScan \/ DiscoveryFires \/ Idle
  BY <1>2, <1>18 DEF LinkUp, ResyncFires, RequestScan, DiscoveryFires, Rest, cache, gladys, Idle
<1>19. Form
  BY Forms
<1> QED
  BY <1>3, <1>4, <1>5, <1>7, <1>8, <1>9, <1>10, <1>12, <1>13, <1>14, <1>15, <1>16, <1>17, <1>18, <1>19
  DEF Form

(***************************************************************************)
(* The device that outlives its node shows that it is gone                 *)
(* (ZwaveIntegration.ts:369-370), whatever is answered or announced around *)
(* the exclusion, as long as the link stayed up.                           *)
(***************************************************************************)
THEOREM RemovedCorrect == Spec => []RemovedShownGone
<1>1. Init => GoneInv
  <2> SUFFICES ASSUME Init
               PROVE  GoneInv
    OBVIOUS
  <2>1. DOMAIN registry = {} /\ DOMAIN badges = {} /\ Len(channel) = 0 /\ ~stopping
    <3>1. DOMAIN <<>> = {}
      OBVIOUS
    <3> QED
      BY <3>1 DEF Init
  <2>2. 1..Len(channel) = {}
    BY <2>1
  <2> QED
    BY <2>1, <2>2 DEF GoneInv, GoneRight, Forgotten, LastIn
<1>2. TypeInv /\ TypeInv' /\ GoneInv /\ [Next]_vars => GoneInv'
  BY GoneKept
<1>3. TypeInv /\ GoneInv => RemovedShownGone
  <2> SUFFICES ASSUME TypeInv, GoneInv, Quiescent, drops = 0, NEW n \in DOMAIN badges \ DOMAIN ui
               PROVE  badges[n] = Gone
    BY DEF RemovedShownGone
  <2>1. n \in Nodes
    BY IsListing DEF TypeInv, GladysType
  <2>2. Unsaid(channel, About(n), 0)
    BY AllSaid
  <2> QED
    BY <2>1, <2>2 DEF GoneInv, GoneRight, Forgotten
<1> QED
  BY <1>1, <1>2, <1>3, TypeInvariant, PTL DEF Spec

-----------------------------------------------------------------------------
(* The Discovery screen loses only what the network gave up. *)

LEMMA CompleteMore ==
    ASSUME NEW given, NEW more, given \subseteq more
    PROVE  /\ \A n : Given(n, given) => Given(n, more)
           /\ \A n, node : Complete(n, node, given) => Complete(n, node, more)
           /\ \A m : Honest(m, given) => Honest(m, more)
<1>1. \A n : Given(n, given) => Given(n, more)
  BY DEF Given
<1>2. \A n, node : Complete(n, node, given) => Complete(n, node, more)
  BY DEF Complete
<1>3. \A m : Honest(m, given) => Honest(m, more)
  BY <1>1, <1>2 DEF Honest
<1> QED
  BY <1>1, <1>2, <1>3

\* What was given up stays so.
LEMMA MoreGiven ==
    ASSUME View
    PROVE  shed \subseteq shed'
BY DEF View, Tells, Removes, Reports, Says, Interviews, Answered, NodesRead, ValueRead, RefreshRead,
       RemovalRead, StatusRead, Reads, Closes, Elsewhere

\* A message m is sent: what is on its way is honest when m is.
LEMMA HonestSays ==
    ASSUME TypeInv, CompleteInv, shed \subseteq shed', NEW n, NEW m, Says(n, m), link => Longer(m),
           Honest(m, shed'), n \in DOMAIN ui' => Complete(n, ui'[n], shed'), ui' \in Caches
    PROVE  CompleteInv'
<1>1. ASSUME NEW x \in DOMAIN ui'
      PROVE  Complete(x, ui'[x], shed')
  <2>1. x \in Nodes /\ Others(n)
    BY IsCache DEF Says
  <2>2. x # n => x \in DOMAIN ui /\ ui'[x] = ui[x]
    BY <2>1 DEF Others
  <2> QED
    BY <2>2, CompleteMore DEF CompleteInv
<1>2. ASSUME NEW i \in 1..Len(channel')
      PROVE  Honest(channel'[i], shed')
  <2>1. CASE link
    <3>1. i = Len(channel') => channel'[i] = m
      BY <2>1 DEF Longer
    <3>2. i # Len(channel') => i \in 1..Len(channel) /\ channel'[i] = channel[i]
      BY <2>1 DEF Longer
    <3> QED
      BY <3>1, <3>2, CompleteMore DEF CompleteInv
  <2>2. CASE ~link
    <3>1. channel' = channel
      BY <2>2 DEF Says, Send
    <3> QED
      BY <3>1, CompleteMore DEF CompleteInv
  <2> QED
    BY <2>1, <2>2
<1> QED
  BY <1>1, <1>2 DEF CompleteInv

LEMMA CompleteKept ==
    ASSUME TypeInv, TypeInv', CompleteInv, [Next]_vars
    PROVE  CompleteInv'
<1>1. View /\ shed \subseteq shed'
  BY Views, MoreGiven
<1>2. ui \in Caches /\ ui' \in Caches
  BY DEF TypeInv, WorldType
<1>3. ASSUME NEW n, NEW m, link => Longer(m), Tells(n, m)
      PROVE  CompleteInv'
  <2>1. Complete(n, ui'[n], shed')
    BY <1>3 DEF Tells, Complete
  <2>2. Honest(m, shed')
    <3>1. m.kind = "refreshed" /\ m.node = n
      BY <1>3 DEF Tells, Says
    <3>2. Complete(n, m.data, shed')
      BY <1>3 DEF Tells, Complete
    <3> QED
      BY <3>1, <3>2 DEF Honest
  <2> QED
    BY <1>1, <1>2, <1>3, <2>1, <2>2, HonestSays DEF Tells
<1>4. ASSUME NEW n, NEW m, link => Longer(m), Removes(n, m)
      PROVE  CompleteInv'
  <2>1. Honest(m, shed')
    BY <1>4 DEF Removes, Says, Honest, Given
  <2> QED
    BY <1>1, <1>2, <1>4, <2>1, HonestSays DEF Removes
<1>5. ASSUME NEW n, NEW m, link => Longer(m), Reports(n, m)
      PROVE  CompleteInv'
  <2>1. Honest(m, shed')
    BY <1>5 DEF Reports, Honest
  <2>2. Complete(n, ui'[n], shed')
    <3>1. n \in DOMAIN ui /\ ui[n].values # Absent
      BY <1>2, <1>5, NodesOf DEF Reports
    <3>2. Complete(n, ui[n], shed)
      BY <3>1 DEF CompleteInv
    <3> QED
      BY <1>5, <3>1, <3>2 DEF Reports, Complete
  <2> QED
    BY <1>1, <1>2, <1>5, <2>1, <2>2, HonestSays DEF Reports
<1>6. ASSUME NEW n, Interviews(n)
      PROVE  CompleteInv'
  <2>1. UNCHANGED <<channel, shed>> /\ Others(n)
    BY <1>6 DEF Interviews
  <2>2. ASSUME NEW x \in DOMAIN ui'
        PROVE  Complete(x, ui'[x], shed')
    <3>1. CASE x = n
      BY <1>6, <3>1 DEF Interviews, Complete
    <3>2. CASE x # n
      <4>1. x \in Nodes
        BY <1>2, IsCache
      <4> QED
        BY <2>1, <3>2, <4>1 DEF Others, CompleteInv
    <3> QED
      BY <3>1, <3>2
  <2> QED
    BY <2>1, <2>2 DEF CompleteInv
<1>7. ASSUME NEW m, Answered, Longer(m), m = [kind |-> "nodes", nodes |-> ui]
      PROVE  CompleteInv'
  <2>1. UNCHANGED <<ui, shed>> /\ m.kind = "nodes" /\ m.nodes = ui
    BY <1>7 DEF Answered
  <2>2. Honest(m, shed)
    BY <2>1 DEF Honest, CompleteInv
  <2>3. ASSUME NEW i \in 1..Len(channel')
        PROVE  Honest(channel'[i], shed')
    <3>1. i = Len(channel') => channel'[i] = m
      BY <1>7 DEF Longer
    <3>2. i # Len(channel') => i \in 1..Len(channel) /\ channel'[i] = channel[i]
      BY <1>7 DEF Longer
    <3> QED
      BY <2>1, <2>2, <3>1, <3>2 DEF CompleteInv
  <2> QED
    BY <2>1, <2>3 DEF CompleteInv
<1>8. ASSUME NEW m, Reads(m)
      PROVE  CompleteInv'
  <2>1. UNCHANGED <<ui, shed>>
    BY <1>8 DEF Reads
  <2>2. \A i \in 1..Len(channel') : i + 1 \in 1..Len(channel) /\ channel'[i] = channel[i + 1]
    BY <1>8 DEF Reads
  <2> QED
    BY <2>1, <2>2 DEF CompleteInv
<1>9. CASE Closes
  <2>1. Len(channel') = 0 /\ UNCHANGED <<ui, shed>>
    BY <1>9 DEF Closes
  <2>2. 1..Len(channel') = {}
    BY <2>1
  <2> QED
    BY <2>1, <2>2 DEF CompleteInv
<1>10. CASE Elsewhere
  BY <1>10 DEF Elsewhere, CompleteInv
<1> QED
  BY <1>1, <1>3, <1>4, <1>5, <1>6, <1>7, <1>8, <1>9, <1>10
  DEF View, NodesRead, ValueRead, RefreshRead, RemovalRead, StatusRead

LEMMA LackingOf ==
    ASSUME NEW m \in Message, NEW n
    PROVE  /\ m \in Lacking(n) <=> m.kind = "nodes" /\ n \notin DOMAIN m.nodes
           /\ Named(n, m) <=> \/ m.kind = "nodes" /\ n \in DOMAIN m.nodes
                              \/ m.kind \in {"refreshed", "value"} /\ m.node = n
BY Messages DEF Lacking, Named, About

\* Nothing is said after the last message.
LEMMA LastUnsaid ==
    ASSUME Len(channel) \in Nat, NEW D
    PROVE  Unsaid(channel, D, Len(channel))
BY DEF Unsaid

\* A message m is sent, that does not lack node x.
LEMMA PresentSays ==
    ASSUME NEW x, Present(x), NEW m, Longer(m), UNCHANGED registry,
           x \in DOMAIN ui => x \in DOMAIN ui' /\ m \notin Lacking(x),
           Named(x, m) => x \in DOMAIN ui'
    PROVE  Present(x)'
<1>1. /\ 0 \in 0..Len(channel') /\ 0 # Len(channel') /\ Len(channel') \in Nat
      /\ \A i \in 1..Len(channel') : i \in 0..Len(channel')
  BY DEF Longer
<1>2. x \in DOMAIN registry' => Stays(x, 0)'
  <2>1. Stays(x, 0) /\ m \notin Lacking(x) => Stays(x, 0)'
    BY <1>1 DEF Longer, Stays
  <2> QED
    BY <2>1 DEF Present, Stays
<1>3. ASSUME NEW i \in 1..Len(channel'), Named(x, channel'[i])
      PROVE  Stays(x, i)'
  <2>1. CASE i = Len(channel')
    <3>1. Unsaid(channel', Lacking(x), i)
      BY <1>1, <2>1 DEF Unsaid
    <3>2. channel'[i] = m
      BY <2>1 DEF Longer
    <3> QED
      BY <1>3, <3>1, <3>2 DEF Stays
  <2>2. CASE i # Len(channel')
    <3>1. i \in 1..Len(channel) /\ channel'[i] = channel[i]
      BY <2>2 DEF Longer
    <3>2. Stays(x, i)
      BY <1>3, <3>1 DEF Present
    <3>3. Unsaid(channel', Lacking(x), i)
      BY <1>1, <2>2, <3>2 DEF Longer, Stays
    <3> QED
      BY <3>2, <3>3 DEF Stays
  <2> QED
    BY <2>1, <2>2
<1> QED
  BY <1>2, <1>3 DEF Present

\* A message m is read.
LEMMA PresentReads ==
    ASSUME NEW x, Present(x), NEW m, Reads(m),
           x \in DOMAIN registry' => x \in DOMAIN registry \/ Named(x, m)
    PROVE  Present(x)'
<1>1. /\ 0 \in 0..Len(channel') /\ 0 + 1 = 1 /\ UNCHANGED ui
      /\ m = channel[1] /\ 1 \in 1..Len(channel)
      /\ \A i \in 1..Len(channel') : i \in 0..Len(channel')
  <2>1. Len(channel') \in Nat
    BY DEF Reads
  <2> QED
    BY <2>1 DEF Reads
<1>2. ASSUME x \in DOMAIN registry'
      PROVE  Stays(x, 0)'
  <2>1. Stays(x, 1)
    <3>1. Stays(x, 0) => Stays(x, 1)
      BY DEF Stays, Unsaid
    <3> QED
      BY <1>1, <1>2, <3>1 DEF Present
  <2>2. Unsaid(channel', Lacking(x), 0)
    BY <1>1, <2>1 DEF Reads, Stays
  <2> QED
    BY <1>1, <2>1, <2>2 DEF Stays
<1>3. ASSUME NEW i \in 1..Len(channel'), Named(x, channel'[i])
      PROVE  Stays(x, i)'
  <2>1. i + 1 \in 1..Len(channel) /\ channel'[i] = channel[i + 1]
    BY DEF Reads
  <2>2. Stays(x, i + 1)
    BY <1>3, <2>1 DEF Present
  <2>3. Unsaid(channel', Lacking(x), i)
    BY <1>1, <2>2 DEF Reads, Stays
  <2> QED
    BY <1>1, <2>2, <2>3 DEF Stays
<1> QED
  BY <1>2, <1>3 DEF Present

LEMMA PresenceKept ==
    ASSUME TypeInv, TypeInv', PresenceInv, [Next]_vars
    PROVE  PresenceInv'
<1> SUFFICES ASSUME NEW x \in Nodes, ~Given(x, shed')
             PROVE  Present(x)'
  BY DEF PresenceInv
<1>1. View /\ shed \subseteq shed'
  BY Views, MoreGiven
<1>2. Present(x)
  BY <1>1, CompleteMore DEF PresenceInv
<1>3. ASSUME NEW n, NEW m, link => Longer(m), Tells(n, m) \/ Removes(n, m) \/ Reports(n, m)
      PROVE  Present(x)'
  <2>1. Says(n, m) /\ m \in Message /\ m.kind # "nodes" /\ m.node = n /\ Others(n)
    BY <1>3 DEF Tells, Removes, Reports, Says
  <2>2. UNCHANGED registry /\ (~link => channel' = channel)
    BY <2>1 DEF Says, Change, Send, cache
  <2>3. x = n => x \in DOMAIN ui'
    <3>1. Removes(n, m) => Given(n, shed')
      BY DEF Removes, Given
    <3> QED
      BY <1>3, <3>1 DEF Tells, Reports
  <2>4. x # n => (x \in DOMAIN ui <=> x \in DOMAIN ui')
    BY <2>1 DEF Others
  <2>5. m \notin Lacking(x) /\ (Named(x, m) => x = n)
    BY <2>1, LackingOf
  <2>6. CASE link
    BY <1>2, <1>3, <2>2, <2>3, <2>4, <2>5, <2>6, PresentSays
  <2>7. CASE ~link
    BY <1>2, <2>2, <2>3, <2>4, <2>7 DEF Present, Stays
  <2> QED
    BY <2>6, <2>7
<1>4. ASSUME NEW n, Interviews(n)
      PROVE  Present(x)'
  <2>1. UNCHANGED <<channel, registry>> /\ (x \in DOMAIN ui => x \in DOMAIN ui')
    BY <1>4 DEF Interviews, Others, Change, cache
  <2> QED
    BY <1>2, <2>1 DEF Present, Stays
<1>5. ASSUME NEW m, Answered, Longer(m), m \in Message, m = [kind |-> "nodes", nodes |-> ui]
      PROVE  Present(x)'
  <2>1. UNCHANGED <<ui, registry>> /\ m.kind = "nodes" /\ m.nodes = ui
    BY <1>5 DEF Answered, cache
  <2>2. /\ m \in Lacking(x) <=> x \notin DOMAIN ui
        /\ Named(x, m) => x \in DOMAIN ui
    BY <1>5, <2>1, LackingOf
  <2> QED
    BY <1>2, <1>5, <2>1, <2>2, PresentSays
<1>6. ASSUME NEW m, NodesRead(m)
      PROVE  Present(x)'
  <2>1. Reads(m) /\ m \in Message
    BY <1>6 DEF NodesRead, Reads
  <2>2. x \in DOMAIN registry' => Named(x, m)
    BY <1>6, <2>1, LackingOf DEF NodesRead
  <2> QED
    BY <1>2, <2>1, <2>2, PresentReads
<1>7. ASSUME NEW m, ValueRead(m) \/ RefreshRead(m)
      PROVE  Present(x)'
  <2>1. /\ Reads(m) /\ m \in Message /\ m.kind \in {"value", "refreshed"}
        /\ UpsertedBy(registry', m.node, m.data)
    BY <1>7 DEF ValueRead, RefreshRead, Reads
  <2>2. x \in DOMAIN registry' => x \in DOMAIN registry \/ x = m.node
    BY <2>1 DEF UpsertedBy
  <2>3. x \in DOMAIN registry' => x \in DOMAIN registry \/ Named(x, m)
    BY <2>1, <2>2, LackingOf
  <2> QED
    BY <1>2, <2>1, <2>3, PresentReads
<1>8. ASSUME NEW m, RemovalRead(m) \/ StatusRead(m)
      PROVE  Present(x)'
  <2>1. Reads(m) /\ (x \in DOMAIN registry' => x \in DOMAIN registry)
    BY <1>8 DEF RemovalRead, StatusRead
  <2> QED
    BY <1>2, <2>1, PresentReads
<1>9. CASE Closes
  <2>1. Len(channel') = 0 /\ UNCHANGED <<ui, registry>>
    BY <1>9 DEF Closes
  <2>2. 1..Len(channel') = {}
    BY <2>1
  <2> QED
    BY <1>2, <2>1, <2>2 DEF Present, Stays, Unsaid
<1>10. CASE Elsewhere
  BY <1>2, <1>10 DEF Elsewhere, Present, Stays
<1> QED
  BY <1>1, <1>3, <1>4, <1>5, <1>6, <1>7, <1>8, <1>9, <1>10 DEF View

-----------------------------------------------------------------------------
LEMMA KeptSelf == \A map, given : Kept(map, map, given)
BY DEF Kept

LEMMA KeptMore ==
    ASSUME NEW given, NEW more, given \subseteq more
    PROVE  \A map, over : Kept(map, over, given) => Kept(map, over, more)
BY CompleteMore DEF Kept

LEMMA KeptThrough ==
    ASSUME NEW given, NEW a \in Listings, NEW b, NEW c, Kept(a, b, given), Kept(b, c, given)
    PROVE  Kept(a, c, given)
<1> SUFFICES ASSUME NEW n \in DOMAIN a
             PROVE  /\ Given(n, given) \/ n \in DOMAIN c
                    /\ \A k \in a[n] : <<n, k>> \in given \/ (n \in DOMAIN c /\ k \in c[n])
  BY DEF Kept
<1>1. a[n] \subseteq Keys
  BY IsListing
<1>2. CASE Given(n, given)
  BY <1>1, <1>2 DEF Given
<1>3. CASE ~Given(n, given)
  <2>1. n \in DOMAIN b /\ \A k \in a[n] : <<n, k>> \in given \/ k \in b[n]
    BY <1>3 DEF Kept
  <2>2. n \in DOMAIN c /\ \A k \in b[n] : <<n, k>> \in given \/ k \in c[n]
    BY <1>3, <2>1 DEF Kept
  <2> QED
    BY <2>1, <2>2
<1> QED
  BY <1>2, <1>3

\* What is cached of node n: some of it may be given up.
CachedStill(n) ==
    /\ Given(n, shed) \/ n \in DOMAIN registry'
    /\ n \in DOMAIN registry' =>
         \A k \in DOMAIN registry[n].values :
             <<n, k>> \in shed \/ k \in DOMAIN registry'[n].values

\* A node of a message that is read.
LEMMA ReconciledStill ==
    ASSUME TypeInv, NEW n \in DOMAIN registry, NEW node, Complete(n, node, shed),
           n \in DOMAIN registry',
           \/ node.values = Absent /\ registry'[n].values = ValuesOf(n)
           \/ node.values # Absent /\ node.ready /\ registry'[n].values = node.values
           \/ DOMAIN ValuesOf(n) \subseteq DOMAIN registry'[n].values
    PROVE  CachedStill(n)
<1>1. ValuesOf(n) = registry[n].values /\ n \in Nodes /\ DOMAIN registry[n].values \subseteq Keys
  BY NodesOf DEF ValuesOf, TypeInv, CacheType
<1>2. CASE DOMAIN registry[n].values \subseteq DOMAIN registry'[n].values
  BY <1>2 DEF CachedStill
<1>3. CASE node.values # Absent /\ node.ready /\ registry'[n].values = node.values
  BY <1>1, <1>3 DEF CachedStill, Complete
<1> QED
  BY <1>1, <1>2, <1>3

LEMMA StillKept ==
    ASSUME TypeInv, TypeInv', \A n \in DOMAIN registry : CachedStill(n)
    PROVE  Kept(Listing(registry), Listing(registry'), shed)
<1>1. /\ DOMAIN Listing(registry) = DOMAIN registry
      /\ \A n \in DOMAIN registry : Listing(registry)[n] = DOMAIN registry[n].values
      /\ DOMAIN Listing(registry') = DOMAIN registry'
      /\ \A n \in DOMAIN registry' : Listing(registry')[n] = DOMAIN registry'[n].values
  BY DEF Listing
<1>2. ASSUME NEW n \in DOMAIN registry, NEW k \in DOMAIN registry[n].values
      PROVE  <<n, k>> \in shed \/ (n \in DOMAIN registry' /\ k \in DOMAIN registry'[n].values)
  <2>1. k \in Keys
    BY NodesOf DEF TypeInv, CacheType
  <2> QED
    BY <1>2, <2>1 DEF CachedStill, Given
<1> QED
  BY <1>1, <1>2 DEF Kept, CachedStill

\* The cache loses only what the network gave up.
LEMMA CachedKept ==
    ASSUME TypeInv, TypeInv', CompleteInv, PresenceInv, [Next]_vars
    PROVE  Kept(Listing(registry), Listing(registry'), shed)
<1>1. ASSUME UNCHANGED registry
      PROVE  Kept(Listing(registry), Listing(registry'), shed)
  BY <1>1, KeptSelf
<1>2. \A n \in DOMAIN registry : n \in Nodes
  BY IsCache DEF TypeInv, CacheType
<1>3. ASSUME NEW m, Reads(m)
      PROVE  m \in Message /\ m = channel[1] /\ 1 \in 1..Len(channel) /\ Honest(m, shed)
  BY <1>3 DEF Reads, CompleteInv
<1>4. ASSUME NEW m, NodesRead(m)
      PROVE  \A n \in DOMAIN registry : CachedStill(n)
  <2> TAKE n \in DOMAIN registry
  <2>1. Reads(m) /\ m.kind = "nodes" /\ m.nodes \in Caches /\ DOMAIN registry' = DOMAIN m.nodes
    BY <1>4 DEF NodesRead
  <2>2. CASE n \in DOMAIN m.nodes
    <3>1. Complete(n, m.nodes[n], shed)
      BY <1>3, <2>1, <2>2 DEF Honest
    <3>2. m.nodes[n].values # Absent
      BY <2>1, <2>2, NodesOf
    <3>3. /\ m.nodes[n].ready => registry'[n].values = m.nodes[n].values
          /\ ~m.nodes[n].ready => DOMAIN ValuesOf(n) \subseteq DOMAIN registry'[n].values
      BY <1>4, <2>2 DEF NodesRead
    <3> QED
      BY <2>1, <2>2, <3>1, <3>2, <3>3, ReconciledStill
  <2>3. CASE n \notin DOMAIN m.nodes
    <3>1. m \in Lacking(n)
      BY <1>3, <2>1, <2>3, LackingOf
    <3>2. ~Unsaid(channel, Lacking(n), 0)
      BY <1>3, <2>1, <3>1 DEF Unsaid
    <3>3. Given(n, shed)
      BY <1>2, <3>2 DEF PresenceInv, Present, Stays
    <3> QED
      BY <2>1, <2>3, <3>3 DEF CachedStill
  <2> QED
    BY <2>2, <2>3
<1>5. ASSUME NEW m, ValueRead(m) \/ RefreshRead(m)
      PROVE  \A n \in DOMAIN registry : CachedStill(n)
  <2> TAKE n \in DOMAIN registry
  <2>1. Reads(m) /\ m.kind \in {"value", "refreshed"} /\ UpsertedBy(registry', m.node, m.data)
    BY <1>5 DEF ValueRead, RefreshRead
  <2>2. n \in DOMAIN registry'
    BY <2>1 DEF UpsertedBy
  <2>3. CASE n # m.node
    <3>1. registry'[n] = registry[n]
      BY <2>1, <2>3 DEF UpsertedBy
    <3> QED
      BY <2>2, <3>1 DEF CachedStill
  <2>4. CASE n = m.node
    <3>1. Complete(n, m.data, shed)
      <4>1. CASE RefreshRead(m)
        BY <1>3, <2>4, <4>1 DEF RefreshRead, Honest
      <4>2. CASE ValueRead(m)
        BY <4>2 DEF ValueRead, Complete
      <4> QED
        BY <1>5, <4>1, <4>2
    <3>2. \/ m.data.values = Absent /\ registry'[n].values = ValuesOf(n)
          \/ m.data.values # Absent /\ m.data.ready /\ registry'[n].values = m.data.values
          \/ DOMAIN ValuesOf(n) \subseteq DOMAIN registry'[n].values
      BY <2>1, <2>4 DEF UpsertedBy
    <3> QED
      BY <2>2, <3>1, <3>2, ReconciledStill
  <2> QED
    BY <2>3, <2>4
<1>6. ASSUME NEW m, RemovalRead(m)
      PROVE  \A n \in DOMAIN registry : CachedStill(n)
  <2>1. Given(m.node, shed)
    BY <1>3, <1>6 DEF RemovalRead, Honest
  <2> QED
    BY <1>6, <2>1 DEF RemovalRead, CachedStill
<1>7. ASSUME NEW m, StatusRead(m)
      PROVE  \A n \in DOMAIN registry : CachedStill(n)
  BY <1>7 DEF StatusRead, CachedStill
<1>8. View
  BY Views
<1>9. \/ \E m : NodesRead(m) \/ ValueRead(m) \/ RefreshRead(m) \/ RemovalRead(m) \/ StatusRead(m)
      \/ UNCHANGED registry
  BY <1>8 DEF View, Tells, Removes, Reports, Says, Interviews, Answered, Change, cache, Closes, Elsewhere
<1> QED
  BY <1>1, <1>4, <1>5, <1>6, <1>7, <1>9, StillKept

\* What the steps do to what is listed and to what is published.
Publishes ==
    \/ UNCHANGED <<listed, payload, publishing>>
    \/ publishing' # "no" /\ payload' = Listing(registry') /\ UNCHANGED listed
    \/ /\ publishing # "no" /\ UNCHANGED registry
       /\ listed' = payload \/ listed' = listed
       /\ publishing' # "no" => payload' = Listing(registry)

LEMMA Publishing ==
    ASSUME TypeInv, [Next]_vars
    PROVE  Publishes
<1>1. ASSUME NEW who \in {"timer", "answer"}, PublishDiscovered(who, registry'), UNCHANGED listed
      PROVE  Publishes
  BY <1>1 DEF PublishDiscovered, Publishes
<1>2. CASE OnNodes
  BY <1>1, <1>2 DEF OnNodes
<1>3. CASE DiscoveryFires
  <2>1. UNCHANGED <<registry, listed>>
    BY <1>3 DEF DiscoveryFires
  <2>2. PublishDiscovered("timer", registry')
    BY <1>3, <2>1 DEF DiscoveryFires, PublishDiscovered
  <2> QED
    BY <1>1, <2>1, <2>2
<1>4. ASSUME NEW ok \in BOOLEAN, PublicationEnds(ok)
      PROVE  Publishes
  <2>1. publishing # "no" /\ UNCHANGED registry /\ (listed' = payload \/ listed' = listed)
    BY <1>4 DEF PublicationEnds, cache
  <2>2. publishing' # "no" => payload' = Listing(registry)
    BY <1>4 DEF PublicationEnds
  <2> QED
    BY <2>1, <2>2 DEF Publishes
<1>5. ASSUME NEW n, NEW m, Tells(n, m) \/ Removes(n, m) \/ Reports(n, m)
      PROVE  Publishes
  BY <1>5 DEF Tells, Removes, Reports, Says, Change, publication, Publishes
<1>6. ASSUME NEW n, Interviews(n)
      PROVE  Publishes
  BY <1>6 DEF Interviews, Change, publication, Publishes
<1>7. CASE OnValueUpdated \/ OnNodeRefreshed \/ OnNodeRemoved \/ OnNodeStatus
  BY <1>7 DEF OnValueUpdated, OnNodeRefreshed, OnNodeRemoved, OnNodeStatus, publication, Publishes
<1>8. ASSUME NEW n, OnDeviceCreated(n) \/ OnDeviceUpdated(n) \/ OnDeviceDeleted(n)
      PROVE  Publishes
  BY <1>8 DEF OnDeviceCreated, OnDeviceUpdated, OnDeviceDeleted, publication, Publishes
<1>9. CASE Answered \/ LinkUp \/ LinkDown \/ Stop \/ StopEnds \/ ResyncFires \/ RequestScan
           \/ Idle
  BY <1>9 DEF Answered, LinkUp, LinkDown, Stop, StopEnds, ResyncFires, RequestScan, publication,
              Idle, Publishes
<1>10. Form
  BY Forms
<1> QED
  BY <1>2, <1>3, <1>4, <1>5, <1>6, <1>7, <1>8, <1>9, <1>10 DEF Form

LEMMA ListedKept ==
    ASSUME TypeInv, TypeInv', CompleteInv, PresenceInv, ListedInv, [Next]_vars
    PROVE  ListedInv'
<1>1. shed \subseteq shed'
  BY Views, MoreGiven
<1>2. /\ Kept(listed, Listing(registry), shed')
      /\ publishing # "no" =>
           Kept(listed, payload, shed') /\ Kept(payload, Listing(registry), shed')
      /\ Kept(Listing(registry), Listing(registry'), shed')
  BY <1>1, CachedKept, KeptMore DEF ListedInv
<1>3. listed \in Listings /\ payload \in Listings
  BY DEF TypeInv, PublicationType
<1>4. /\ Kept(listed, Listing(registry'), shed')
      /\ publishing # "no" => Kept(payload, Listing(registry'), shed')
  BY <1>2, <1>3, KeptThrough
<1>5. CASE UNCHANGED <<listed, payload, publishing>>
  BY <1>2, <1>4, <1>5 DEF ListedInv
<1>6. CASE publishing' # "no" /\ payload' = Listing(registry') /\ UNCHANGED listed
  BY <1>4, <1>6, KeptSelf DEF ListedInv
<1>7. CASE /\ publishing # "no" /\ UNCHANGED registry
           /\ listed' = payload \/ listed' = listed
           /\ publishing' # "no" => payload' = Listing(registry)
  <2>1. Kept(listed', Listing(registry'), shed')
    BY <1>4, <1>7
  <2>2. publishing' # "no" => payload' = Listing(registry')
    BY <1>7
  <2> QED
    BY <2>1, <2>2, KeptSelf DEF ListedInv
<1> QED
  BY <1>5, <1>6, <1>7, Publishing DEF Publishes

(***************************************************************************)
(* A publication takes a feature off the Discovery screen only when the    *)
(* network gave its value up: no half-interviewed node, partial answer,    *)
(* lost message or overlapping publication does (NodeRegistry.ts:77).      *)
(***************************************************************************)
THEOREM DiscoveryNeverLoses == Spec => DiscoveryWhole
<1> DEFINE Inv == TypeInv /\ CompleteInv /\ PresenceInv /\ ListedInv
<1>1. Init => Inv
  <2> SUFFICES ASSUME Init
               PROVE  Inv
    OBVIOUS
  <2>1. DOMAIN registry = {} /\ DOMAIN listed = {} /\ publishing = "no" /\ Len(channel) = 0
    <3>1. DOMAIN <<>> = {}
      OBVIOUS
    <3> QED
      BY <3>1 DEF Init
  <2>2. 1..Len(channel) = {}
    BY <2>1
  <2>3. \A n \in DOMAIN ui : DOMAIN ui[n].values = Keys
    BY DEF Init
  <2>4. CompleteInv
    BY <2>2, <2>3 DEF CompleteInv, Complete
  <2>5. PresenceInv
    BY <2>1, <2>2 DEF PresenceInv, Present
  <2>6. ListedInv
    BY <2>1 DEF ListedInv, Kept
  <2> QED
    BY <2>4, <2>5, <2>6, TypeInit
<1>2. Inv /\ [Next]_vars => Inv'
  BY TypeKept, CompleteKept, PresenceKept, ListedKept
<1>3. Inv /\ [Next]_vars =>
        [\A n \in DOMAIN listed :
            \A k \in IF n \in DOMAIN listed' THEN listed[n] \ listed'[n] ELSE Keys :
                <<n, k>> \in shed]_vars
  <2> SUFFICES ASSUME Inv, [Next]_vars, NEW n \in DOMAIN listed,
                      NEW k \in IF n \in DOMAIN listed' THEN listed[n] \ listed'[n] ELSE Keys
               PROVE  <<n, k>> \in shed
    OBVIOUS
  <2>1. listed' = listed \/ (publishing # "no" /\ listed' = payload)
    BY Publishing DEF Publishes
  <2>2. CASE publishing # "no" /\ listed' = payload
    <3>1. /\ Given(n, shed) \/ n \in DOMAIN payload
          /\ \A j \in listed[n] : <<n, j>> \in shed \/ (n \in DOMAIN payload /\ j \in payload[n])
      BY <2>2 DEF ListedInv, Kept
    <3>2. CASE n \in DOMAIN payload
      BY <2>2, <3>1, <3>2
    <3>3. CASE n \notin DOMAIN payload
      BY <2>2, <3>1, <3>3 DEF Given
    <3> QED
      BY <3>2, <3>3
  <2>3. CASE listed' = listed
    BY <2>3
  <2> QED
    BY <2>1, <2>2, <2>3
<1> QED
  BY <1>1, <1>2, <1>3, PTL DEF Spec, DiscoveryWhole

-----------------------------------------------------------------------------
(* No feature of a device is left blank. *)

LEMMA BareKept ==
    ASSUME TypeInv, TypeInv', BareInv, [Next]_vars, Bare = {TRUE}
    PROVE  BareInv'
<1>1. ASSUME NEW m, Longer(m), m.kind = "refreshed" => m.data.values = Absent
      PROVE  BareInv'
  <2> SUFFICES ASSUME NEW i \in 1..Len(channel'), channel'[i].kind = "refreshed"
               PROVE  channel'[i].data.values = Absent
    BY DEF BareInv
  <2>1. CASE i = Len(channel')
    <3>1. channel'[i] = m
      BY <1>1, <2>1 DEF Longer
    <3> QED
      BY <1>1, <3>1
  <2>2. CASE i # Len(channel')
    <3>1. i \in 1..Len(channel) /\ channel'[i] = channel[i]
      BY <1>1, <2>2 DEF Longer
    <3> QED
      BY <3>1 DEF BareInv
  <2> QED
    BY <2>1, <2>2
<1>2. ASSUME UNCHANGED channel
      PROVE  BareInv'
  BY <1>2 DEF BareInv
<1>3. ASSUME NEW n, NEW m, link => Longer(m), Tells(n, m) \/ Removes(n, m) \/ Reports(n, m)
      PROVE  BareInv'
  <2>1. m.kind = "refreshed" => m.data.values = Absent
    BY <1>3 DEF Tells, Removes, Reports
  <2>2. ~link => UNCHANGED channel
    BY <1>3 DEF Tells, Removes, Reports, Says, Send
  <2> QED
    BY <1>1, <1>2, <1>3, <2>1, <2>2
<1>4. ASSUME NEW m, Longer(m), m = [kind |-> "nodes", nodes |-> ui]
      PROVE  BareInv'
  <2>1. m.kind = "nodes"
    BY <1>4
  <2> QED
    BY <1>1, <1>4, <2>1
<1>5. ASSUME NEW m, Reads(m)
      PROVE  BareInv'
  <2>1. \A i \in 1..Len(channel') : i + 1 \in 1..Len(channel) /\ channel'[i] = channel[i + 1]
    BY <1>5 DEF Reads
  <2> QED
    BY <2>1 DEF BareInv
<1>6. CASE Closes
  <2>1. Len(channel') = 0
    BY <1>6 DEF Closes
  <2>2. 1..Len(channel') = {}
    BY <2>1
  <2> QED
    BY <2>2 DEF BareInv
<1>7. View
  BY Views
<1> QED
  BY <1>2, <1>3, <1>4, <1>5, <1>6, <1>7
  DEF View, Interviews, NodesRead, ValueRead, RefreshRead, RemovalRead, StatusRead, Elsewhere

\* What is cached of all the nodes is told.
LEMMA FilledAll ==
    ASSUME TypeInv, TypeInv', UNCHANGED created, Push(Told(registry'))
    PROVE  FilledInv'
<1> SUFFICES ASSUME NEW n \in DOMAIN created \cap DOMAIN registry',
                    NEW k \in created[n] \cap DOMAIN registry'[n].values
             PROVE  <<n, k>> \in Held'
  BY DEF FilledInv, Filled
<1>1. registry' \in Caches
  BY DEF TypeInv, CacheType
<1>2. Owned(registry') \subseteq Held'
  BY <1>1, TellingAll DEF TypeInv
<1>3. k \in Keys
  BY NodesOf DEF TypeInv, CacheType
<1>4. <<n, k>> \in (DOMAIN registry') \X Keys /\ Shown(n, k)
  BY <1>3 DEF Shown
<1>5. <<n, k>> \in Owned(registry')
  BY <1>4 DEF Owned
<1> QED
  BY <1>2, <1>5

\* No value is cached, but of a node that is told of or was not known.
LEMMA FilledStill ==
    ASSUME FilledInv, UNCHANGED <<publishing, created>>, Held \subseteq Held',
           \A n \in DOMAIN registry' :
               \/ DOMAIN registry'[n].values = {}
               \/ n \in DOMAIN registry /\ DOMAIN registry'[n].values = DOMAIN registry[n].values
    PROVE  FilledInv'
<1> SUFFICES ASSUME publishing # "answer", NEW n \in DOMAIN created \cap DOMAIN registry'
             PROVE  Filled(n)'
  BY DEF FilledInv
<1>1. CASE DOMAIN registry'[n].values = {}
  BY <1>1 DEF Filled
<1>2. CASE n \in DOMAIN registry /\ DOMAIN registry'[n].values = DOMAIN registry[n].values
  BY <1>2 DEF Filled, FilledInv
<1> QED
  BY <1>1, <1>2

LEMMA FilledKept ==
    ASSUME TypeInv, TypeInv', BareInv, FilledInv, [Next]_vars, Updatable = {}
    PROVE  FilledInv'
<1>1. ASSUME UNCHANGED <<publishing, created, registry, states, deleted>>
      PROVE  FilledInv'
  BY <1>1 DEF FilledInv, Filled, Held
<1>2. ASSUME NEW n, NEW m, Tells(n, m) \/ Removes(n, m) \/ Reports(n, m)
      PROVE  FilledInv'
  BY <1>1, <1>2 DEF Tells, Removes, Reports, Says, Change, cache, publication, gladys, publisher
<1>3. ASSUME NEW n, Interviews(n)
      PROVE  FilledInv'
  BY <1>1, <1>3 DEF Interviews, Change, cache, publication, gladys, publisher
<1>4. CASE Answered \/ LinkUp \/ LinkDown \/ Stop \/ StopEnds \/ ResyncFires \/ RequestScan
           \/ Idle
  BY <1>1, <1>4 DEF Answered, LinkUp, LinkDown, Stop, StopEnds, ResyncFires, RequestScan, Rest,
                    cache, publication, gladys, publisher, Idle
<1>5. CASE OnNodes
  <2>1. CASE publishing = "no"
    BY <1>5, <2>1 DEF OnNodes, PublishDiscovered, FilledInv
  <2>2. CASE publishing # "no"
    BY <1>5, <2>2, FilledAll DEF OnNodes, Rest
  <2> QED
    BY <2>1, <2>2
<1>6. CASE OnValueUpdated \/ OnNodeRefreshed
  <2>1. PICK m : m = Head(channel)
    OBVIOUS
  <2>2. Reads(m) /\ m \in Message /\ m.kind \in {"value", "refreshed"}
    <3>1. CASE OnValueUpdated
      BY <2>1, <3>1, ReadsTaken DEF OnValueUpdated, Reads
    <3>2. CASE OnNodeRefreshed
      BY <2>1, <3>2, ReadsTaken DEF OnNodeRefreshed, Reads
    <3> QED
      BY <1>6, <3>1, <3>2
  <2>3. m.node \in Nodes /\ m.data \in Data
    BY <2>2, Messages
  <2>4. m.data.values = Absent
    <3>1. m.kind = "value" => m.data.values = Absent
      BY <2>2, Messages DEF BareData
    <3>2. m.kind = "refreshed" => m.data.values = Absent
      BY <2>2 DEF Reads, BareInv
    <3> QED
      BY <2>2, <3>1, <3>2
  <2>5. registry \in Caches
    BY DEF TypeInv, CacheType
  <2>6. registry' = Upsert(m.node, m.data)
    BY <1>6, <2>1 DEF OnValueUpdated, OnNodeRefreshed
  <2>7. UpsertedBy(registry', m.node, m.data)
    BY <2>3, <2>5, <2>6, Upserted
  <2>8. ASSUME NEW n \in DOMAIN registry'
        PROVE  \/ DOMAIN registry'[n].values = {}
               \/ n \in DOMAIN registry /\ DOMAIN registry'[n].values = DOMAIN registry[n].values
    <3>1. n # m.node => n \in DOMAIN registry /\ registry'[n] = registry[n]
      BY <2>7 DEF UpsertedBy
    <3>2. n = m.node => registry'[n].values = ValuesOf(n)
      BY <2>4, <2>7 DEF UpsertedBy
    <3>3. /\ n \in DOMAIN registry => ValuesOf(n) = registry[n].values
          /\ n \notin DOMAIN registry => ValuesOf(n) = <<>>
      BY DEF ValuesOf
    <3>4. DOMAIN <<>> = {}
      OBVIOUS
    <3> QED
      BY <3>1, <3>2, <3>3, <3>4
  <2>9. Held \subseteq Held'
    <3>1. CASE OnNodeRefreshed
      BY <3>1 DEF OnNodeRefreshed, publisher, Held
    <3>2. CASE OnValueUpdated
      <4> DEFINE told == {q \in {<<m.node, m.key>>} : Shown(q[1], q[2])}
                 news == [p \in told |-> m.holds]
      <4>1. m.kind = "value"
        BY <2>1, <3>2 DEF OnValueUpdated, Receive
      <4>2. m.key \in Keys /\ m.holds \in Holds
        BY <2>2, <4>1, Messages
      <4>3. news \in [told -> Holds] /\ DOMAIN news = told /\ told \subseteq Nodes \X Keys
        BY <2>3, <4>2
      <4>4. Push(news)
        BY <2>1, <3>2 DEF OnValueUpdated
      <4> HIDE DEF told, news
      <4> QED
        BY <4>3, <4>4, Pushing DEF TypeInv, GladysType
    <3> QED
      BY <1>6, <3>1, <3>2
  <2>10. UNCHANGED <<publishing, created>>
    BY <1>6 DEF OnValueUpdated, OnNodeRefreshed, Rest, publication
  <2> QED
    BY <2>8, <2>9, <2>10, FilledStill
<1>7. CASE OnNodeRemoved
  <2>1. PICK m : m = Head(channel).node
    OBVIOUS
  <2>2. registry' = Without(registry, {m}) /\ UNCHANGED <<publishing, created>>
    BY <1>7, <2>1 DEF OnNodeRemoved, Rest, publication
  <2>3. \A n \in DOMAIN registry' : n \in DOMAIN registry /\ registry'[n] = registry[n]
    BY <2>2 DEF Without
  <2>4. UNCHANGED Held
    BY <1>7 DEF OnNodeRemoved, publisher, Held
  <2> QED
    BY <2>2, <2>3, <2>4, FilledStill
<1>8. CASE OnNodeStatus
  <2>1. PICK m : m = Head(channel)
    OBVIOUS
  <2>2. Reads(m) /\ m.kind = "status"
    BY <1>8, <2>1, ReadsTaken DEF OnNodeStatus
  <2>3. UNCHANGED <<publishing, created, states, deleted>> /\ UNCHANGED Held
    BY <1>8 DEF OnNodeStatus, Rest, publication, publisher, Held
  <2>4. CASE m.node \in DOMAIN registry
    <3>1. m.status \in Statuses
      BY <2>2, Messages DEF Reads
    <3>2. registry' = [registry EXCEPT ![m.node].status = m.status]
      BY <1>8, <2>1, <2>4 DEF OnNodeStatus
    <3>3. \A n \in DOMAIN registry' : n \in DOMAIN registry /\ registry'[n].values = registry[n].values
      BY <2>4, <3>1, <3>2, Rated
    <3> QED
      BY <2>3, <3>3, FilledStill
  <2>5. CASE m.node \notin DOMAIN registry
    BY <1>1, <1>8, <2>1, <2>3, <2>5 DEF OnNodeStatus
  <2> QED
    BY <2>4, <2>5
<1>9. CASE DiscoveryFires
  BY <1>9 DEF DiscoveryFires, PublishDiscovered, Rest, publisher, FilledInv, Filled, Held
<1>10. ASSUME NEW ok \in BOOLEAN, PublicationEnds(ok)
       PROVE  FilledInv'
  <2>1. UNCHANGED <<registry, created>>
    BY <1>10 DEF PublicationEnds, cache
  <2>2. CASE again
    BY <1>1, <1>10, <2>1, <2>2 DEF PublicationEnds, Asked, publisher
  <2>3. CASE ~again /\ publishing = "answer"
    BY <1>10, <2>1, <2>3, FilledAll DEF PublicationEnds, Asked
  <2>4. CASE ~again /\ publishing # "answer"
    BY <1>10, <2>1, <2>4 DEF PublicationEnds, Asked, publisher, FilledInv, Filled, Held
  <2> QED
    BY <2>2, <2>3, <2>4
<1>11. ASSUME NEW d, OnDeviceCreated(d)
       PROVE  FilledInv'
  <2> DEFINE cached == {d} \cap DOMAIN registry
             pairs == {p \in cached \X listed[d] : p[2] \in DOMAIN registry[p[1]].values}
  <2>1. /\ \A p \in pairs : p \in cached \X listed[d] /\ p[2] \in DOMAIN registry[p[1]].values
        /\ \A k \in listed[d] : (d \in DOMAIN registry /\ k \in DOMAIN registry[d].values)
                                   => <<d, k>> \in pairs
    OBVIOUS
  <2>2. /\ d \in DOMAIN listed /\ created' = Put(created, d, listed[d])
        /\ Push(Snapshot(pairs, registry)) /\ UNCHANGED <<publishing, registry>>
    BY <1>11 DEF OnDeviceCreated, cache, publication
  <2>3. Held \subseteq Held' /\ pairs \subseteq Held'
    <3>1. d \in Nodes /\ listed[d] \subseteq Keys
      BY <2>2, IsListing DEF TypeInv, PublicationType
    <3>2. registry \in Caches
      BY DEF TypeInv, CacheType
    <3>3. \A p \in pairs : p[1] \in DOMAIN registry /\ p[2] \in DOMAIN registry[p[1]].values
      BY <2>1
    <3>4. pairs \subseteq Nodes \X Keys
      BY <2>1, <3>1
    <3> HIDE DEF pairs
    <3> QED
      BY <2>2, <3>2, <3>3, <3>4, Telling DEF TypeInv, GladysType
  <2> HIDE DEF pairs
  <2>4. /\ DOMAIN created' = DOMAIN created \cup {d} /\ created'[d] = listed[d]
        /\ \A n \in DOMAIN created : n # d => created'[n] = created[n]
    BY <2>2 DEF Put
  <2> SUFFICES ASSUME publishing # "answer", NEW n \in DOMAIN created' \cap DOMAIN registry,
                      NEW k \in created'[n] \cap DOMAIN registry[n].values
               PROVE  <<n, k>> \in Held'
    BY <2>2 DEF FilledInv, Filled
  <2>5. CASE n = d
    BY <2>1, <2>3, <2>4, <2>5
  <2>6. CASE n # d
    <3>1. Filled(n) /\ created'[n] = created[n]
      BY <2>2, <2>4, <2>6 DEF FilledInv
    <3> QED
      BY <2>3, <3>1 DEF Filled
  <2> QED
    BY <2>5, <2>6
<1>12. ASSUME NEW d, OnDeviceDeleted(d)
       PROVE  FilledInv'
  <2>1. /\ d \in DOMAIN created /\ created' = Without(created, {d}) /\ Dropped({d} \X Keys)
        /\ UNCHANGED <<publishing, registry>>
    BY <1>12 DEF OnDeviceDeleted, cache, publication
  <2>2. /\ DOMAIN created' = DOMAIN created \ {d}
        /\ \A n \in DOMAIN created' : created'[n] = created[n]
    BY <2>1 DEF Without
  <2>3. {d} \X Keys \in SUBSET (Nodes \X Keys)
    BY <2>1, IsListing DEF TypeInv, GladysType
  <2>4. DOMAIN states' = DOMAIN states \ ({d} \X Keys) /\ deleted \subseteq deleted'
    BY <2>1, <2>3, Dropping DEF TypeInv, GladysType
  <2>5. \A n, k : n # d /\ <<n, k>> \in Held => <<n, k>> \in Held'
    BY <2>4 DEF Held
  <2> QED
    BY <2>1, <2>2, <2>5 DEF FilledInv, Filled
<1>13. Form
  BY Forms
<1> QED
  BY <1>2, <1>3, <1>4, <1>5, <1>6, <1>7, <1>8, <1>9, <1>10, <1>11, <1>12, <1>13 DEF Form

(***************************************************************************)
(* Of the features Gladys has and their ready node reports, only those     *)
(* deleted within DEDUP_TTL_MS of their last state may be blank (ZwaveInte-*)
(* gration.ts:401-405, 425-429, 558-572), whatever was created, answered,  *)
(* interviewed or lost.  As the code says of them, events carry no values; *)
(* and no device is updated: of an updated one only the badge is pushed.   *)
(***************************************************************************)
THEOREM NothingStaysBlank ==
    ASSUME Bare = {TRUE}, Updatable = {}
    PROVE  Spec => []OnlyDeletedBlank
<1>1. Init => BareInv /\ FilledInv
  <2> SUFFICES ASSUME Init
               PROVE  BareInv /\ FilledInv
    OBVIOUS
  <2>1. DOMAIN registry = {} /\ Len(channel) = 0
    <3>1. DOMAIN <<>> = {}
      OBVIOUS
    <3> QED
      BY <3>1 DEF Init
  <2>2. 1..Len(channel) = {}
    BY <2>1
  <2> QED
    BY <2>1, <2>2 DEF BareInv, FilledInv
<1>2. KnownInv /\ KnownInv' /\ BareInv /\ FilledInv /\ [Next]_vars => BareInv' /\ FilledInv'
  BY BareKept, FilledKept DEF KnownInv
<1>3. KnownInv /\ FilledInv => OnlyDeletedBlank
  <2> SUFFICES ASSUME KnownInv, FilledInv, Quiescent, NEW p \in Reporting
               PROVE  p \in Held
    BY DEF OnlyDeletedBlank, Held
  <2> DEFINE n == p[1]
             k == p[2]
  <2>a. /\ p = <<n, k>> /\ n \in DOMAIN created \cap DOMAIN ui /\ k \in created[n]
        /\ ui[n].ready /\ k \in DOMAIN ui[n].values
    BY DEF Reporting
  <2> HIDE DEF n, k
  <2>1. Settled /\ \A D : Unsaid(channel, D, 0)
    BY AllSaid DEF KnownInv
  <2>2. n \in Nodes
    BY <2>a, IsCache DEF KnownInv, TypeInv, WorldType
  <2>3. RightCache(n)
    BY <2>1, <2>2 DEF KnownInv, CacheInv, CacheRight
  <2>4. ~resync /\ ~stopping /\ publishing = "no"
    BY DEF Quiescent
  <2>5. n \in DOMAIN registry /\ DOMAIN registry[n].values = DOMAIN ui[n].values
    BY <2>3, <2>4, <2>a DEF RightCache
  <2> QED
    BY <2>4, <2>5, <2>a DEF FilledInv, Filled
<1> QED
  BY <1>1, <1>2, <1>3, KnownInvariant, PTL DEF Spec
=============================================================================
