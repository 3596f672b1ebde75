--------------------------- MODULE CommandsProofs ---------------------------
(***************************************************************************)
(* Theorems about Commands, for every catalogue of nodes and whatever      *)
(* their values may hold: what Gladys shows of a device agrees with what   *)
(* was last processed of it, a feature leads back to its value, and a      *)
(* command that is obeyed ends up shown as it was announced.               *)
(***************************************************************************)
EXTENDS Commands, MappingProofs

\* What is in a queue.
IsSeq(q) == \E S : q \in Seq(S)
Elements(q) == {q[i] : i \in 1..Len(q)}

\* The cache knows the values of the node; or it is still empty.
Warm == DOMAIN cache = node.values

\* Moreover what it knows was pushed: no handler of an answer awaits.
Steady == Warm /\ ~publishing

\* A value that always holds something.
Sure(v) == Null \notin May[v]

\* What a node may hold.
Held(raws) ==
    /\ DOMAIN raws = node.values
    /\ \A v \in node.values : Sure(v) => raws[v] # Null

NodeInv ==
    /\ node \in Catalogue /\ features = Discover(node)
    /\ created \in BOOLEAN /\ link \in BOOLEAN /\ asked \in BOOLEAN
    /\ events \in 0..MaxEvents
    /\ Held(raw)
    /\ cache = <<>> \/ Held(cache)
    /\ publishing \in BOOLEAN /\ (publishing => Warm)
    /\ overtaken \subseteq node.values

\* What a device may make of a command on its way.
WireInv ==
    /\ IsSeq(wire)
    /\ \A c \in Elements(wire) : \A o \in Outcomes(c) :
         o[1] \in node.values /\ (o[2] = Null => ~Sure(o[1]))

ChannelInv ==
    /\ IsSeq(channel)
    /\ \A m \in Elements(channel) :
         \/ m.kind = "report" /\ m.value \in node.values
         \/ m.kind = "nodes" /\ Held(m.raws)

\* Once the link is up, an answer is asked, on its way, or read.
WarmInv == link => asked \/ Warm \/ \E m \in Elements(channel) : m.kind = "nodes"

\* What Gladys will show of a feature once what is on its way has arrived.
Due == DOMAIN way \cup DOMAIN shown
Current(f) == IF f \in DOMAIN way THEN way[f] ELSE shown[f]

\* The publisher knows what it shows, but of the features of `behind'.
PublishInv ==
    /\ Due \cup DOMAIN lastPublished \cup behind \subseteq Features
    /\ \A f \in DOMAIN way \cap DOMAIN lastPublished : way[f] = lastPublished[f]
    /\ created => \A f \in DOMAIN lastPublished \ behind :
                     f \in Due /\ Current(f) = lastPublished[f]
    /\ ~created => DOMAIN lastPublished \subseteq behind /\ DOMAIN told = {}

\* The features of `behind' that nothing on its way will correct.
Shaky == behind \ DOMAIN way

\* ShownAgrees, before all is delivered.  Reports may be converted as if the
\* node had no flag of its battery as long as the cache is empty, which only
\* concerns the flag, and that until the first answer is pushed, since it
\* always holds something.
AgreeInv ==
    /\ DOMAIN told \subseteq node.values
    /\ \A v \in DOMAIN told : Steady \/ ~Sure(v) =>
         \A s \in Convert(node, v, told[v]) : s.feature \in Features \ Shaky =>
             s.feature \in Due /\ Current(s.feature) = s.state

-----------------------------------------------------------------------------
(* Queues and maps. *)

LEMMA EmptyQueue == IsSeq(<<>>) /\ Elements(<<>>) = {}
<1>1. <<>> \in Seq({}) /\ Len(<<>>) = 0
  OBVIOUS
<1>2. 1..0 = {}
  OBVIOUS
<1> QED
  BY <1>1, <1>2 DEF IsSeq, Elements

LEMMA Appended ==
    ASSUME NEW q, IsSeq(q), NEW m
    PROVE  IsSeq(Append(q, m)) /\ Elements(Append(q, m)) = Elements(q) \cup {m}
<1>1. PICK S : q \in Seq(S)
  BY DEF IsSeq
<1> DEFINE T == S \cup {m}
<1>2. q \in Seq(T) /\ m \in T
  <2>1. Len(q) \in Nat /\ \A i \in 1..Len(q) : q[i] \in T
    BY <1>1
  <2> QED
    BY <1>1, <2>1
<1> HIDE DEF T
<1>3. PICK r : r = Append(q, m)
  OBVIOUS
<1>4. r \in Seq(T)
  BY <1>2, <1>3
<1>5. /\ Len(r) = Len(q) + 1 /\ Len(q) \in Nat /\ r[Len(q) + 1] = m
      /\ \A i \in 1..Len(q) : r[i] = q[i]
  BY <1>2, <1>3
<1>6. 1..Len(r) = 1..Len(q) \cup {Len(q) + 1}
  BY <1>5
<1>7. Elements(r) = Elements(q) \cup {m}
  BY <1>5, <1>6 DEF Elements
<1> QED
  BY <1>3, <1>4, <1>7 DEF IsSeq

LEMMA Taken ==
    ASSUME NEW q, IsSeq(q), q # <<>>
    PROVE  /\ IsSeq(Tail(q)) /\ Head(q) \in Elements(q)
           /\ Elements(q) = Elements(Tail(q)) \cup {Head(q)}
<1>1. PICK S : q \in Seq(S)
  BY DEF IsSeq
<1>2. PICK r : r = Tail(q)
  OBVIOUS
<1>3. r \in Seq(S) /\ Len(r) = Len(q) - 1 /\ Len(q) \in Nat /\ Len(q) >= 1 /\ Head(q) = q[1]
  BY <1>1, <1>2
<1>4. \A i \in 1..Len(r) : r[i] = q[i + 1]
  BY <1>1, <1>2, <1>3
<1>5. /\ \A i \in 1..Len(r) : i + 1 \in 1..Len(q)
      /\ \A i \in 1..Len(q) : i = 1 \/ (i - 1 \in 1..Len(r) /\ (i - 1) + 1 = i)
      /\ 1 \in 1..Len(q)
  BY <1>3
<1>6. \A i \in 1..Len(q) : i = 1 \/ r[i - 1] = q[i]
  BY <1>4, <1>5
<1>7. Elements(r) \subseteq Elements(q)
  BY <1>4, <1>5 DEF Elements
<1>8. Head(q) \in Elements(q)
  BY <1>3, <1>5 DEF Elements
<1>9. Elements(q) \subseteq Elements(r) \cup {Head(q)}
  BY <1>3, <1>5, <1>6 DEF Elements
<1> QED
  BY <1>2, <1>3, <1>7, <1>8, <1>9 DEF IsSeq

LEMMA PutIs ==
    ASSUME NEW map, NEW key, NEW value
    PROVE  /\ DOMAIN Put(map, key, value) = DOMAIN map \cup {key}
           /\ Put(map, key, value)[key] = value
           /\ \A x \in DOMAIN map : x # key => Put(map, key, value)[x] = map[x]
BY DEF Put

LEMMA MergeIs ==
    ASSUME NEW over, NEW map
    PROVE  /\ DOMAIN Merge(over, map) = DOMAIN over \cup DOMAIN map
           /\ \A x \in DOMAIN over : Merge(over, map)[x] = over[x]
           /\ \A x \in DOMAIN map : x \notin DOMAIN over => Merge(over, map)[x] = map[x]
BY DEF Merge

LEMMA WithoutIs ==
    ASSUME NEW map, NEW keys
    PROVE  /\ DOMAIN Without(map, keys) = DOMAIN map \ keys
           /\ \A x \in DOMAIN map \ keys : Without(map, keys)[x] = map[x]
BY DEF Without

\* A state of the feature is found.
LEMMA FeatureFound ==
    ASSUME NEW states
    PROVE  /\ DOMAIN ByFeature(states) = {s.feature : s \in states}
           /\ \A f \in DOMAIN ByFeature(states) :
                \E s \in states : s.feature = f /\ ByFeature(states)[f] = s.state
<1>1. DOMAIN ByFeature(states) = {s.feature : s \in states}
  BY DEF ByFeature
<1>2. ASSUME NEW f \in DOMAIN ByFeature(states)
      PROVE  \E s \in states : s.feature = f /\ ByFeature(states)[f] = s.state
  <2>1. \E s \in states : s.feature = f
    BY <1>1
  <2>2. PICK s : s = CHOOSE x \in states : x.feature = f
    OBVIOUS
  <2>3. s \in states /\ s.feature = f
    BY <2>1, <2>2
  <2>4. ByFeature(states)[f] = s.state
    BY <1>1, <2>2 DEF ByFeature
  <2> QED
    BY <2>3, <2>4
<1> QED
  BY <1>1, <1>2

-----------------------------------------------------------------------------
(* Conversion. *)

\* The node as it is cached: whole, or without values.
Blank(n) == [n EXCEPT !.values = {}]

LEMMA CachedVariant ==
    ASSUME NEW n \in Catalogue, NEW S
    PROVE  /\ [n EXCEPT !.values = S].values = S
           /\ \A v : Variant([n EXCEPT !.values = S], v) = Variant(n, v)
<1>1. n = [product |-> n.product, class |-> n.class, values |-> n.values]
  BY CatalogueAssumption DEF IsNode
<1>2. PICK m : m = [n EXCEPT !.values = S]
  OBVIOUS
<1>3. m = [product |-> n.product, class |-> n.class, values |-> S]
  BY <1>1, <1>2
<1>4. m.product = n.product /\ m.class = n.class /\ m.values = S
  BY <1>3
<1> QED
  BY <1>2, <1>4 DEF Variant

\* m is node n as the cache knows it.
KnownAs(n, m) == m = n \/ m = Blank(n)

LEMMA KnownVariant ==
    ASSUME NEW n \in Catalogue, NEW m, KnownAs(n, m)
    PROVE  /\ \A v : Variant(m, v) = Variant(n, v)
           /\ ReportsIsLow(m) \in BOOLEAN /\ (ReportsIsLow(m) => ReportsIsLow(n))
           /\ m = n \/ ~ReportsIsLow(m)
<1>1. \A v : Variant(m, v) = Variant(n, v)
  BY CachedVariant DEF KnownAs, Blank
<1>2. m = n \/ m.values = {}
  BY CachedVariant DEF KnownAs, Blank
<1>3. m.values = {} => ~ReportsIsLow(m)
  BY DEF ReportsIsLow
<1>4. ReportsIsLow(m) \in BOOLEAN
  BY DEF ReportsIsLow
<1> QED
  BY <1>1, <1>2, <1>3, <1>4

\* A feature is fed by one state of one value; but by the flag and the level
\* of a battery whose flag is not known yet.
LEMMA OneSource ==
    ASSUME NEW n \in Catalogue, NEW m, KnownAs(n, m), NEW v \in n.values, NEW w \in n.values,
           NEW held, NEW also,
           NEW s \in Convert(m, v, held), NEW t \in Convert(n, w, also), s.feature = t.feature
    PROVE  v = w \/ (m # n /\ Sure(w))
<1>1. PICK r \in Reports(Variant(n, v), ReportsIsLow(m), held) : s.feature = Target(v, Pair(r))
  BY Converted, KnownVariant
<1>2. PICK q \in Reports(Variant(n, w), ReportsIsLow(n), also) : t.feature = Target(w, Pair(q))
  BY Converted
<1>3. ReportsIsLow(n) \in BOOLEAN /\ ReportsIsLow(m) \in BOOLEAN
  BY DEF ReportsIsLow
<1>4. Pair(r) \in Fed(Variant(n, v)) /\ Pair(q) \in Fed(Variant(n, w))
  BY <1>3, OneReport DEF OneEach
<1>5. SUFFICES ASSUME v # w PROVE m # n /\ Sure(w)
  OBVIOUS
<1>6. Derives(n, v, Pair(r), w) \/ Derives(n, w, Pair(q), v)
  BY <1>1, <1>2, <1>4, <1>5, CatalogueAssumption, TwoTargets
<1>7. \A x \in n.values : IsFlag(x) => ReportsIsLow(n) /\ Sure(x)
  BY FlagAssumption DEF IsFlag, ReportsIsLow, Sure
<1>8. CASE Derives(n, v, Pair(r), w)
  <2>1. ReportsIsLow(n) /\ Sure(w) /\ Variant(n, v) = "level" /\ Pair(r) = <<"islow", Empty>>
    BY <1>7, <1>8 DEF Derives
  <2>2. ~ReportsIsLow(m)
    BY <1>3, <2>1, LevelReported
  <2> QED
    BY <2>1, <2>2
<1>9. CASE Derives(n, w, Pair(q), v)
  <2>1. ReportsIsLow(n) /\ Variant(n, w) = "level" /\ Pair(q) = <<"islow", Empty>>
    BY <1>7, <1>9 DEF Derives
  <2> QED
    BY <1>3, <2>1, LevelReported
<1> QED
  BY <1>6, <1>8, <1>9

\* Of a feature a value feeds one state, which is the same however the node is
\* known.
LEMMA OneConversion ==
    ASSUME NEW n \in Catalogue, NEW m, KnownAs(n, m), NEW v \in n.values, NEW held,
           NEW s \in Convert(m, v, held)
    PROVE  /\ \A t \in Convert(m, v, held) : s.feature = t.feature => s.state = t.state
           /\ \A t \in Convert(n, v, held) : s.feature = t.feature => s.state = t.state
<1>1. PICK r \in Reports(Variant(n, v), ReportsIsLow(m), held) :
        s.feature = Target(v, Pair(r)) /\ s.state = r.state
  BY Converted, KnownVariant
<1>2. r \in Reports(Variant(n, v), FALSE, held)
  BY KnownVariant, LevelReported, OtherReported
<1>3. ASSUME NEW k, KnownAs(n, k), NEW t \in Convert(k, v, held), s.feature = t.feature
      PROVE  s.state = t.state
  <2>1. PICK q \in Reports(Variant(n, v), ReportsIsLow(k), held) :
          t.feature = Target(v, Pair(q)) /\ t.state = q.state
    BY <1>3, Converted, KnownVariant
  <2>2. q \in Reports(Variant(n, v), FALSE, held)
    BY <1>3, KnownVariant, LevelReported, OtherReported
  <2>3. Pair(r) \in Fed(Variant(n, v)) /\ Pair(q) \in Fed(Variant(n, v))
    BY <1>2, <2>2, OneReport DEF OneEach
  <2>4. Pair(r) = Pair(q)
    BY <1>1, <1>3, <2>1, <2>3, CatalogueAssumption, OneTarget
  <2>5. r = q
    BY <1>2, <2>2, <2>4, OneReport DEF OneEach
  <2> QED
    BY <1>1, <2>1, <2>5
<1> QED
  BY <1>3 DEF KnownAs

\* What the whole node makes of a value, it also makes as it is cached.
LEMMA ConvertedCached ==
    ASSUME NEW n \in Catalogue, NEW m, KnownAs(n, m), NEW v, NEW held
    PROVE  Convert(n, v, held) \subseteq Convert(m, v, held)
<1>1. CASE m = n
  BY <1>1
<1>2. CASE m # n
  <2>1. ReportsIsLow(m) = FALSE /\ ReportsIsLow(n) \in BOOLEAN
    BY <1>2, KnownVariant DEF ReportsIsLow
  <2>2. Reports(Variant(n, v), ReportsIsLow(n), held) \subseteq Reports(Variant(n, v), FALSE, held)
    BY <2>1, LevelReported, OtherReported
  <2>3. Variant(m, v) = Variant(n, v)
    BY KnownVariant
  <2>4. ASSUME NEW s \in Convert(n, v, held) PROVE s \in Convert(m, v, held)
    <3>1. PICK r \in Reports(Variant(n, v), ReportsIsLow(n), held) :
            s = [feature |-> IF r.property = Empty
                               THEN FeatureId(v.endpoint, v.cc, v.property, v.key, r.name)
                               ELSE FeatureId(v.endpoint, v.cc, r.property, Empty, r.name),
                 state |-> r.state,
                 event |-> r.property = Empty /\ IsEvent(Variant(n, v))]
      BY DEF Convert
    <3>2. r \in Reports(Variant(m, v), ReportsIsLow(m), held)
      BY <2>1, <2>2, <2>3
    <3> QED
      BY <2>3, <3>1, <3>2 DEF Convert
  <2> QED
    BY <2>4
<1> QED
  BY <1>1, <1>2

-----------------------------------------------------------------------------
(* What a command announces is what comes of it. *)

\* A value that holds this feeds a feature with that state.
Feeds(n, w, held, id, state) ==
    held # Null /\ \E s \in Convert(n, w, held) : s.feature = id /\ s.state = state

LEMMA FeedsReported ==
    ASSUME NEW n, NEW w, NEW held, held # Null,
           NEW r \in Reports(Variant(n, w), ReportsIsLow(n), held)
    PROVE  Feeds(n, w, held, Target(w, Pair(r)), r.state)
<1>1. PICK s : s = [feature |-> IF r.property = Empty
                                  THEN FeatureId(w.endpoint, w.cc, w.property, w.key, r.name)
                                  ELSE FeatureId(w.endpoint, w.cc, r.property, Empty, r.name),
                    state |-> r.state,
                    event |-> r.property = Empty /\ IsEvent(Variant(n, w))]
  OBVIOUS
<1>2. s \in Convert(n, w, held)
  BY <1>1 DEF Convert
<1>3. s.feature = Target(w, Pair(r)) /\ s.state = r.state
  <2>1. Pair(r)[1] = r.property /\ Pair(r)[2] = r.name
    BY DEF Pair
  <2> QED
    BY <1>1, <2>1 DEF Target
<1> QED
  BY <1>2, <1>3 DEF Feeds

\* A level, or a switch, or a thermostat, is alone to feed its features.
LEMMA AloneMultilevel ==
    ASSUME NEW n, IsNode(n), NEW endpoint, NEW property, NEW key, NEW name,
           NEW x \in n.values,
           FeatureId(endpoint, "multilevel_switch", property, key, name) \in Targets(n, x)
    PROVE  x = Value(endpoint, "multilevel_switch", "currentvalue", Empty)
<1>1. PICK fed \in Fed(Variant(n, x)) :
        FeatureId(endpoint, "multilevel_switch", property, key, name) = Target(x, fed)
  BY DEF Targets
<1>2. PICK p, k, m : Target(x, fed) = FeatureId(x.endpoint, x.cc, p, k, m)
  BY DEF Target
<1>3. x.endpoint = endpoint /\ x.cc = "multilevel_switch"
  BY <1>1, <1>2, SameId
<1>4. x.property = "currentvalue"
  <2>1. Fed(Variant(n, x)) # {}
    BY <1>1
  <2> QED
    BY <1>3, <2>1, VariantAt, FedIs
<1>5. x.key = Empty /\ x = Value(x.endpoint, x.cc, x.property, x.key)
  BY <1>3, NodeValues DEF Unkeyed
<1> QED
  BY <1>3, <1>4, <1>5

LEMMA AloneOther ==
    ASSUME NEW n, IsNode(n), NEW v \in n.values, v.cc # "battery",
           NEW fed \in Fed(Variant(n, v)), NEW x \in n.values,
           Target(v, fed) \in Targets(n, x)
    PROVE  x = v
<1>1. PICK also \in Fed(Variant(n, x)) : Target(v, fed) = Target(x, also)
  BY DEF Targets
<1>2. SUFFICES ASSUME x # v PROVE FALSE
  OBVIOUS
<1>3. Derives(n, v, fed, x) \/ Derives(n, x, also, v)
  BY <1>1, <1>2, TwoTargets
<1>4. Variant(n, v) # "level"
  <2>1. "level" \notin Sensors \cup {"switch", "mode", NoVariant} \cup Setpoints
    BY DEF Sensors, NoVariant, Setpoints
  <2> QED
    BY <2>1, VariantAt DEF NoVariant
<1> QED
  BY <1>3, <1>4 DEF Derives, IsFlag

\* Feature id of value v, commanded to value, is obeyed when w holds this.
Meets(n, v, id, value, updates, w, held) ==
    /\ w \in n.values /\ (held = Null => Null \in May[w])
    /\ \A x \in n.values \ {w} : id \notin Targets(n, x)
    /\ id \notin Targets(n, w) \/ Feeds(n, w, held, id, value)
    /\ \A u \in updates : Feeds(n, w, held, Target(v, Pair(u)), u.state)

\* The states a command announces are those that any outcome of it feeds.
Predicts(n, v, id, value, command) ==
    /\ \A c : /\ c.endpoint = v.endpoint /\ c.cc = v.cc /\ c.name = command.name
              /\ c.raw = command.raw /\ c.type = command.type
              => /\ \A o \in Outcomes(c) :
                      Meets(n, v, id, value, command.updates, o[1], o[2])
                 /\ command.updates = {} \/ Outcomes(c) # {}
    /\ \A u \in command.updates : Target(v, Pair(u)) # id

LEMMA OutcomesIs ==
    ASSUME NEW c
    PROVE  /\ c.name = "set" =>
                Outcomes(c) = {<<Value(c.endpoint, c.cc, "currentvalue", Empty), c.raw>>}
           /\ c.name = "stopLevelChange" =>
                \A o \in Outcomes(c) :
                   /\ o[1] = Value(c.endpoint, c.cc, "currentvalue", Empty)
                   /\ o[2] \in May[o[1]]
           /\ c.name = "restorePrevious" =>
                \A o \in Outcomes(c) :
                   /\ o[1] = Value(c.endpoint, c.cc, "currentvalue", Empty)
                   /\ o[2] \in May[o[1]] /\ OnOff(o[2]) = ON
           /\ c.name = "mode" =>
                Outcomes(c) = {<<Value(c.endpoint, c.cc, "mode", Empty), c.raw>>}
           /\ c.name = "setpoint" =>
                Outcomes(c) = {<<Value(c.endpoint, c.cc, "setpoint", SetpointKey[c.type]), c.raw>>}
<1>1. PICK level : level = Value(c.endpoint, c.cc, "currentvalue", Empty)
  OBVIOUS
<1>2. c.name = "set" => Outcomes(c) = {<<level, c.raw>>}
  BY <1>1 DEF Outcomes
<1>3. c.name = "stopLevelChange" => Outcomes(c) = {level} \X May[level]
  BY <1>1 DEF Outcomes
<1>4. c.name = "restorePrevious" => Outcomes(c) = {level} \X {r \in May[level] : OnOff(r) = ON}
  BY <1>1 DEF Outcomes
<1>5. c.name = "mode" => Outcomes(c) = {<<Value(c.endpoint, c.cc, "mode", Empty), c.raw>>}
  BY DEF Outcomes
<1>6. c.name = "setpoint" =>
        Outcomes(c) = {<<Value(c.endpoint, c.cc, "setpoint", SetpointKey[c.type]), c.raw>>}
  BY DEF Outcomes
<1> QED
  BY <1>1, <1>2, <1>3, <1>4, <1>5, <1>6

LEMMA DimmerPredicts ==
    ASSUME NEW n, IsNode(n), NEW v \in n.values,
           v.cc = "multilevel_switch", v.property = "currentvalue", Variant(n, v) = "dimmer",
           NEW name \in {"position", "state"}, NEW value \in Offered("dimmer", name)
    PROVE  Predicts(n, v, Target(v, <<Empty, name>>), value, Build("dimmer", name, value))
<1>1. PICK id : id = Target(v, <<Empty, name>>)
  OBVIOUS
<1>2. PICK x \in 0..99 :
        /\ name = "state" => x = (IF value = ON THEN 99 ELSE 0) /\ value = Lit(x)
        /\ name = "position" => x = value
  BY DEF Offered, PositionRange, OnOffRange, Lit, ON, OFF, Setpoints
<1>3. PICK command : command = Build("dimmer", name, value)
  OBVIOUS
<1>4. /\ command.name = "set" /\ command.raw = Number(x)
      /\ \A u \in command.updates :
           /\ u \in {Own("position", x), Own("state", Lit(x)),
                     Sibling("restoreprevious", Empty, Lit(x))}
           /\ Pair(u) # <<Empty, name>>
  <2>1. /\ Pair(Own("position", x)) = <<Empty, "position">>
        /\ Pair(Own("state", Lit(x))) = <<Empty, "state">>
        /\ Pair(Sibling("restoreprevious", Empty, Lit(x))) = <<"restoreprevious", Empty>>
    BY DEF Pair, Own, Sibling
  <2>2. Empty \notin {"position", "state", "restoreprevious"}
    BY FedIs
  <2>3. CASE name = "state"
    <3>1. command = SetLevel(x, {Own("position", x), Sibling("restoreprevious", Empty, Lit(x))})
      BY <1>2, <1>3, <2>3, BuildIs
    <3>2. \A updates : /\ SetLevel(x, updates).name = "set" /\ SetLevel(x, updates).raw = Number(x)
                       /\ SetLevel(x, updates).updates = updates
      BY DEF SetLevel, SendCommand
    <3> QED
      BY <2>1, <2>2, <2>3, <3>1, <3>2
  <2>4. CASE name = "position"
    <3>1. command = SetLevel(x, {Own("state", Lit(x)), Sibling("restoreprevious", Empty, Lit(x))})
      BY <1>2, <1>3, <2>4, BuildIs DEF Switched
    <3>2. \A updates : /\ SetLevel(x, updates).name = "set" /\ SetLevel(x, updates).raw = Number(x)
                       /\ SetLevel(x, updates).updates = updates
      BY DEF SetLevel, SendCommand
    <3> QED
      BY <2>1, <2>2, <2>4, <3>1, <3>2
  <2> QED
    BY <2>3, <2>4
<1>5. PICK held : held = Number(x)
  OBVIOUS
<1>6. held # Null
  BY <1>5 DEF Number, Null
<1>7. /\ v.key = Empty /\ v = Value(v.endpoint, v.cc, "currentvalue", Empty)
      /\ id = FeatureId(v.endpoint, "multilevel_switch", "currentvalue", Empty, name)
  <2>1. v.key = Empty /\ v = Value(v.endpoint, v.cc, v.property, v.key)
    BY NodeValues DEF Unkeyed
  <2> QED
    BY <1>1, <2>1, TargetIs
<1>8. \A y \in n.values \ {v} : id \notin Targets(n, y)
  BY <1>7, AloneMultilevel
<1>9. \A r \in {Own("position", x), Own("state", Lit(x)),
                Sibling("restoreprevious", Empty, Lit(x))} :
         Feeds(n, v, held, Target(v, Pair(r)), r.state)
  <2>1. Reports("dimmer", ReportsIsLow(n), held) =
          {Own("position", x), Own("state", Lit(x)), Sibling("restoreprevious", Empty, Lit(x))}
    BY <1>5, ReportsIs
  <2> QED
    BY <1>6, <2>1, FeedsReported
<1>10. Feeds(n, v, held, id, value)
  <2>1. PICK r : r = Own(name, value)
    OBVIOUS
  <2>2. r \in {Own("position", x), Own("state", Lit(x))}
    BY <1>2, <2>1
  <2>3. Pair(r) = <<Empty, name>> /\ r.state = value
    BY <2>1 DEF Own, Pair
  <2> QED
    BY <1>1, <1>9, <2>2, <2>3
<1>11. Meets(n, v, id, value, command.updates, v, held)
  BY <1>4, <1>6, <1>8, <1>9, <1>10 DEF Meets
<1>12. \A u \in command.updates : Target(v, Pair(u)) # id
  <2> SUFFICES ASSUME NEW u \in command.updates PROVE Target(v, Pair(u)) # id
    OBVIOUS
  <2>1. Pair(u) \in Fed("dimmer")
    <3>1. /\ Pair(Own("position", x)) = <<Empty, "position">>
          /\ Pair(Own("state", Lit(x))) = <<Empty, "state">>
          /\ Pair(Sibling("restoreprevious", Empty, Lit(x))) = <<"restoreprevious", Empty>>
      BY DEF Pair, Own, Sibling
    <3> QED
      BY <1>4, <3>1, FedIs
  <2>2. <<Empty, name>> \in Fed("dimmer") /\ Pair(u) # <<Empty, name>>
    BY <1>4, FedIs
  <2> QED
    BY <1>1, <2>1, <2>2, OneTarget
<1>13. ASSUME NEW c, c.endpoint = v.endpoint, c.cc = v.cc, c.name = command.name,
              c.raw = command.raw
       PROVE  /\ \A o \in Outcomes(c) : Meets(n, v, id, value, command.updates, o[1], o[2])
              /\ Outcomes(c) # {}
  <2>1. Outcomes(c) = {<<v, held>>}
    BY <1>4, <1>5, <1>7, <1>13, OutcomesIs
  <2>2. \A o \in Outcomes(c) : o[1] = v /\ o[2] = held
    BY <2>1
  <2> QED
    BY <1>11, <2>1, <2>2
<1> QED
  BY <1>1, <1>3, <1>12, <1>13 DEF Predicts

LEMMA ShutterPredicts ==
    ASSUME NEW n, IsNode(n), NEW v \in n.values,
           v.cc = "multilevel_switch", v.property = "currentvalue", Variant(n, v) = "shutter",
           NEW name \in {"position", "state"}, NEW value \in Offered("shutter", name)
    PROVE  Predicts(n, v, Target(v, <<Empty, name>>), value, Build("shutter", name, value))
<1>1. PICK id : id = Target(v, <<Empty, name>>)
  OBVIOUS
<1>2. PICK command : command = Build("shutter", name, value)
  OBVIOUS
<1>3. /\ v.key = Empty /\ v = Value(v.endpoint, v.cc, "currentvalue", Empty)
      /\ id = FeatureId(v.endpoint, "multilevel_switch", "currentvalue", Empty, name)
  <2>1. v.key = Empty /\ v = Value(v.endpoint, v.cc, v.property, v.key)
    BY NodeValues DEF Unkeyed
  <2> QED
    BY <1>1, <2>1, TargetIs
<1>4. \A y \in n.values \ {v} : id \notin Targets(n, y)
  BY <1>3, AloneMultilevel
<1>5. Targets(n, v) = {Target(v, <<Empty, "position">>)}
  BY FedIs DEF Targets
<1>6. name = "state" => id \notin Targets(n, v)
  <2>1. ASSUME name = "state", id = Target(v, <<Empty, "position">>) PROVE FALSE
    <3>1. Target(v, <<Empty, "position">>) =
            FeatureId(v.endpoint, "multilevel_switch", "currentvalue", Empty, "position")
      BY <1>3, TargetIs
    <3>2. FeatureId(v.endpoint, "multilevel_switch", "currentvalue", Empty, "position") =
            FeatureId(v.endpoint, "multilevel_switch", "currentvalue", Empty, "state")
      BY <1>3, <2>1, <3>1
    <3>3. Empty # "position" /\ Empty # "state"
      BY FedIs
    <3> QED
      BY <3>2, <3>3, SameId
  <2> QED
    BY <1>5, <2>1
<1>7. ASSUME NEW x \in 0..99
      PROVE  Number(x) # Null /\ Feeds(n, v, Number(x), Target(v, <<Empty, "position">>), x)
  <2>1. PICK r : r = Own("position", x)
    OBVIOUS
  <2>2. r \in Reports("shutter", ReportsIsLow(n), Number(x))
    BY <2>1, ReportsIs
  <2>3. Number(x) # Null
    BY DEF Number, Null
  <2>4. Pair(r) = <<Empty, "position">> /\ r.state = x
    BY <2>1 DEF Own, Pair
  <2> QED
    BY <2>2, <2>3, <2>4, FeedsReported
<1>8. CASE name = "state" /\ value = STOP
  <2>1. command = SendCommand("stopLevelChange", Null, {})
    <3>1. \E level : level = (IF value = OPEN THEN 99 ELSE 0)
      OBVIOUS
    <3> QED
      BY <1>2, <1>8, <3>1, BuildIs
  <2>2. command.name = "stopLevelChange" /\ command.updates = {}
    BY <2>1 DEF SendCommand
  <2>3. ASSUME NEW c, c.endpoint = v.endpoint, c.cc = v.cc, c.name = command.name
        PROVE  \A o \in Outcomes(c) : Meets(n, v, id, value, command.updates, o[1], o[2])
    <3>1. \A o \in Outcomes(c) : o[1] = v /\ o[2] \in May[v]
      BY <1>3, <2>2, <2>3, OutcomesIs
    <3> QED
      BY <1>4, <1>6, <1>8, <2>2, <3>1 DEF Meets
  <2> QED
    BY <1>1, <1>2, <2>2, <2>3 DEF Predicts
<1>9. CASE ~(name = "state" /\ value = STOP)
  <2>1. PICK x \in 0..99 : /\ name = "state" => x = (IF value = OPEN THEN 99 ELSE 0)
                           /\ name = "position" => x = value
    BY DEF Offered, PositionRange, CoverRange, Setpoints
  <2>2. PICK updates : updates = IF name = "state" THEN {Own("position", x)} ELSE {}
    OBVIOUS
  <2>3. command = SetLevel(x, updates)
    <3>1. CASE name = "state"
      <4>1. \A level : level = (IF value = OPEN THEN 99 ELSE 0) =>
              Build("shutter", "state", value) =
                IF value = STOP THEN SendCommand("stopLevelChange", Null, {})
                ELSE SetLevel(level, {Own("position", level)})
        BY BuildIs
      <4> QED
        BY <1>2, <1>9, <2>1, <2>2, <3>1, <4>1
    <3>2. CASE name = "position"
      <4>1. Build("shutter", "position", value) = SetLevel(value, {})
        BY BuildIs
      <4> QED
        BY <1>2, <2>1, <2>2, <3>2, <4>1
    <3> QED
      BY <3>1, <3>2
  <2>4. command.name = "set" /\ command.raw = Number(x) /\ command.updates = updates
    BY <2>3 DEF SetLevel, SendCommand
  <2>5. Pair(Own("position", x)) = <<Empty, "position">> /\ Own("position", x).state = x
    BY DEF Own, Pair
  <2>6. \A u \in updates : /\ Feeds(n, v, Number(x), Target(v, Pair(u)), u.state)
                           /\ Target(v, Pair(u)) # id
    BY <1>5, <1>6, <1>7, <2>2, <2>5
  <2>7. Meets(n, v, id, value, updates, v, Number(x))
    BY <1>1, <1>4, <1>6, <1>7, <2>1, <2>6 DEF Meets
  <2>8. ASSUME NEW c, c.endpoint = v.endpoint, c.cc = v.cc, c.name = command.name,
               c.raw = command.raw
        PROVE  /\ \A o \in Outcomes(c) : Meets(n, v, id, value, command.updates, o[1], o[2])
               /\ Outcomes(c) # {}
    <3>1. Outcomes(c) = {<<v, Number(x)>>}
      BY <1>3, <2>4, <2>8, OutcomesIs
    <3>2. \A o \in Outcomes(c) : o[1] = v /\ o[2] = Number(x)
      BY <3>1
    <3> QED
      BY <2>4, <2>7, <3>1, <3>2
  <2> QED
    BY <1>1, <1>2, <2>4, <2>6, <2>8 DEF Predicts
<1> QED
  BY <1>8, <1>9

LEMMA RestorePredicts ==
    ASSUME NEW n \in Catalogue, NEW v \in n.values,
           v.cc = "multilevel_switch", v.property = "restoreprevious", v.key = Empty,
           n.class = "17-1", n.product \notin QubinoFlushPilot,
           NEW name, name = Empty, NEW value \in Offered("exposedRestore", name)
    PROVE  Predicts(n, v, Target(v, <<Empty, name>>), value, Build("exposedRestore", name, value))
<1>1. PICK id : id = Target(v, <<Empty, name>>)
  OBVIOUS
<1>2. PICK command : command = Build("exposedRestore", name, value)
  OBVIOUS
<1>3. PICK w \in n.values : w = Value(v.endpoint, v.cc, "currentvalue", Empty)
  BY RestoreAssumption
<1>4. /\ w.endpoint = v.endpoint /\ w.cc = "multilevel_switch" /\ w.property = "currentvalue"
      /\ w.key = Empty
  BY <1>3 DEF Value
<1>5. Variant(n, w) = "dimmer"
  <2>1. n.class \notin Motors
    BY DEF Motors
  <2> QED
    BY <1>4, <2>1, CatalogueAssumption, VariantAt
<1>6. /\ id = FeatureId(v.endpoint, "multilevel_switch", "restoreprevious", Empty, Empty)
      /\ id = Target(w, <<"restoreprevious", Empty>>)
      /\ Target(v, <<"currentvalue", "state">>) = Target(w, <<Empty, "state">>)
      /\ Target(v, <<"currentvalue", "position">>) = Target(w, <<Empty, "position">>)
  <2>1. Empty # "restoreprevious" /\ Empty # "currentvalue"
    BY DEF Empty
  <2> QED
    BY <1>1, <1>4, <2>1, TargetIs
<1>7. \A y \in n.values \ {w} : id \notin Targets(n, y)
  BY <1>3, <1>6, CatalogueAssumption, AloneMultilevel
<1>8. value \in 0..1
  BY OfferedIs
<1>9. CASE value = ON
  <2>1. command = WriteValue("restorePrevious", Boolean(TRUE), 0)
    BY <1>2, <1>9, BuildIs
  <2>2. command.name = "restorePrevious" /\ command.updates = {}
    BY <2>1 DEF WriteValue
  <2>3. ASSUME NEW held, held \in May[w], OnOff(held) = ON
        PROVE  Meets(n, v, id, value, command.updates, w, held)
    <3>1. PICK r : r = Sibling("restoreprevious", Empty, OnOff(held))
      OBVIOUS
    <3>2. r \in Reports("dimmer", ReportsIsLow(n), held)
      <4>1. "dimmer" \notin Coded \cup Direct
        BY DEF Coded, Direct, Setpoints
      <4>2. DOMAIN Codes("dimmer") = {} /\ ~AsItIs("dimmer", held)
        BY <4>1, Silent
      <4> QED
        BY <3>1, <4>2 DEF Reports, DimmerStates, PositionStates
    <3>3. held # Null
      <4>1. ~IsNumber(Null)
        BY DEF IsNumber, Null
      <4>2. OnOff(Null) = OFF /\ ON # OFF
        BY <4>1 DEF OnOff, ON, OFF
      <4> QED
        BY <2>3, <4>2
    <3>4. Pair(r) = <<"restoreprevious", Empty>> /\ r.state = value
      BY <1>9, <2>3, <3>1 DEF Sibling, Pair
    <3>5. Feeds(n, w, held, id, value)
      BY <1>5, <1>6, <3>2, <3>3, <3>4, FeedsReported
    <3> QED
      BY <1>7, <2>2, <2>3, <3>5 DEF Meets
  <2>4. ASSUME NEW c, c.endpoint = v.endpoint, c.cc = v.cc, c.name = command.name
        PROVE  \A o \in Outcomes(c) : Meets(n, v, id, value, command.updates, o[1], o[2])
    <3>1. \A o \in Outcomes(c) : o[1] = w /\ o[2] \in May[w] /\ OnOff(o[2]) = ON
      BY <1>3, <2>2, <2>4, OutcomesIs
    <3> QED
      BY <2>3, <3>1
  <2> QED
    BY <1>1, <1>2, <2>2, <2>4 DEF Predicts
<1>10. CASE value # ON
  <2>1. value = OFF
    BY <1>8, <1>10 DEF ON, OFF
  <2>2. command = SetLevel(0, {Sibling("currentvalue", "state", OFF),
                               Sibling("currentvalue", "position", 0)})
    <3>1. \A k : Build("exposedRestore", k, value) =
            IF value = ON THEN WriteValue("restorePrevious", Boolean(TRUE), 0)
            ELSE SetLevel(0, {Sibling("currentvalue", "state", OFF),
                              Sibling("currentvalue", "position", 0)})
      BY BuildIs
    <3> QED
      BY <1>2, <1>10, <3>1
  <2>3. /\ command.name = "set" /\ command.raw = Number(0)
        /\ command.updates = {Sibling("currentvalue", "state", OFF),
                              Sibling("currentvalue", "position", 0)}
    BY <2>2 DEF SetLevel, SendCommand
  <2>4. PICK held : held = Number(0)
    OBVIOUS
  <2>5. held # Null
    BY <2>4 DEF Number, Null
  <2>6. Reports("dimmer", ReportsIsLow(n), held) =
          {Own("position", 0), Own("state", OFF), Sibling("restoreprevious", Empty, OFF)}
    <3>1. Lit(0) = OFF
      BY DEF Lit
    <3> QED
      BY <2>4, <3>1, ReportsIs
  <2>7. /\ Feeds(n, w, held, Target(w, <<Empty, "position">>), 0)
        /\ Feeds(n, w, held, Target(w, <<Empty, "state">>), OFF)
        /\ Feeds(n, w, held, Target(w, <<"restoreprevious", Empty>>), OFF)
    <3>1. /\ Pair(Own("position", 0)) = <<Empty, "position">> /\ Own("position", 0).state = 0
          /\ Pair(Own("state", OFF)) = <<Empty, "state">> /\ Own("state", OFF).state = OFF
          /\ Pair(Sibling("restoreprevious", Empty, OFF)) = <<"restoreprevious", Empty>>
          /\ Sibling("restoreprevious", Empty, OFF).state = OFF
      BY DEF Pair, Own, Sibling
    <3>2. \A r \in Reports("dimmer", ReportsIsLow(n), held) :
             Feeds(n, w, held, Target(w, Pair(r)), r.state)
      BY <1>5, <2>5, FeedsReported
    <3>3. \A r \in {Own("position", 0), Own("state", OFF), Sibling("restoreprevious", Empty, OFF)} :
             Feeds(n, w, held, Target(w, Pair(r)), r.state)
      BY <2>6, <3>2
    <3>4. Feeds(n, w, held, Target(w, Pair(Own("position", 0))), Own("position", 0).state)
      BY <3>3
    <3>5. Feeds(n, w, held, Target(w, Pair(Own("state", OFF))), Own("state", OFF).state)
      BY <3>3
    <3>6. Feeds(n, w, held, Target(w, Pair(Sibling("restoreprevious", Empty, OFF))),
                Sibling("restoreprevious", Empty, OFF).state)
      BY <3>3
    <3> QED
      BY <3>1, <3>4, <3>5, <3>6
  <2>8. \A u \in command.updates : /\ Feeds(n, w, held, Target(v, Pair(u)), u.state)
                                   /\ Target(v, Pair(u)) # id
    <3>1. /\ Pair(Sibling("currentvalue", "state", OFF)) = <<"currentvalue", "state">>
          /\ Sibling("currentvalue", "state", OFF).state = OFF
          /\ Pair(Sibling("currentvalue", "position", 0)) = <<"currentvalue", "position">>
          /\ Sibling("currentvalue", "position", 0).state = 0
      BY DEF Pair, Sibling
    <3>2. /\ Target(w, <<Empty, "state">>) # Target(w, <<"restoreprevious", Empty>>)
          /\ Target(w, <<Empty, "position">>) # Target(w, <<"restoreprevious", Empty>>)
      BY <1>5, CatalogueAssumption, FedIs, OneTarget
    <3> QED
      BY <1>6, <2>3, <2>7, <3>1, <3>2
  <2>9. Meets(n, v, id, value, command.updates, w, held)
    BY <1>6, <1>7, <2>1, <2>5, <2>7, <2>8 DEF Meets
  <2>10. ASSUME NEW c, c.endpoint = v.endpoint, c.cc = v.cc, c.name = command.name,
                c.raw = command.raw
         PROVE  /\ \A o \in Outcomes(c) : Meets(n, v, id, value, command.updates, o[1], o[2])
                /\ Outcomes(c) # {}
    <3>1. Outcomes(c) = {<<w, held>>}
      BY <1>3, <2>3, <2>4, <2>10, OutcomesIs
    <3>2. \A o \in Outcomes(c) : o[1] = w /\ o[2] = held
      BY <3>1
    <3> QED
      BY <2>9, <3>1, <3>2
  <2> QED
    BY <1>1, <1>2, <2>8, <2>10 DEF Predicts
<1> QED
  BY <1>9, <1>10

\* A command without siblings, about the value it comes from.
LEMMA PlainPredicts ==
    ASSUME NEW n, IsNode(n), NEW v \in n.values, v.cc # "battery",
           <<Empty, Empty>> \in Fed(Variant(n, v)),
           NEW command, command.updates = {}, command.raw # Null,
           NEW value, Own(Empty, value) \in Reports(Variant(n, v), ReportsIsLow(n), command.raw),
           \A c : /\ c.endpoint = v.endpoint /\ c.cc = v.cc /\ c.name = command.name
                  /\ c.raw = command.raw /\ c.type = command.type
                  => Outcomes(c) = {<<v, c.raw>>}
    PROVE  Predicts(n, v, Target(v, <<Empty, Empty>>), value, command)
<1>1. PICK id : id = Target(v, <<Empty, Empty>>)
  OBVIOUS
<1>2. \A y \in n.values \ {v} : id \notin Targets(n, y)
  BY <1>1, AloneOther
<1>3. Feeds(n, v, command.raw, id, value)
  <2>1. Pair(Own(Empty, value)) = <<Empty, Empty>> /\ Own(Empty, value).state = value
    BY DEF Pair, Own
  <2>2. Feeds(n, v, command.raw, Target(v, Pair(Own(Empty, value))), Own(Empty, value).state)
    BY FeedsReported
  <2> QED
    BY <1>1, <2>1, <2>2
<1>4. Meets(n, v, id, value, command.updates, v, command.raw)
  BY <1>2, <1>3 DEF Meets
<1>5. ASSUME NEW c, c.endpoint = v.endpoint, c.cc = v.cc, c.name = command.name,
             c.raw = command.raw, c.type = command.type
      PROVE  \A o \in Outcomes(c) : Meets(n, v, id, value, command.updates, o[1], o[2])
  <2>1. Outcomes(c) = {<<v, command.raw>>}
    BY <1>5
  <2>2. \A o \in Outcomes(c) : o[1] = v /\ o[2] = command.raw
    BY <2>1
  <2> QED
    BY <1>4, <2>2
<1> QED
  BY <1>1, <1>5 DEF Predicts

LEMMA PilotPredicts ==
    ASSUME NEW n, IsNode(n), NEW v \in n.values,
           v.cc = "multilevel_switch", v.property = "currentvalue", Variant(n, v) = "pilot",
           NEW value \in Offered("pilot", Empty)
    PROVE  Predicts(n, v, Target(v, <<Empty, Empty>>), value, Build("pilot", Empty, value))
<1>1. PICK command : command = Build("pilot", Empty, value)
  OBVIOUS
<1>2. value \in 0..5
  BY OfferedIs
<1>3. PICK x \in 0..99 : x = PilotLevel[value] /\ PilotMode(x) = value
  <2>1. PICK levels : levels = <<0, 20, 30, 50, 40, 99>>
    OBVIOUS
  <2>2. \A order \in 0..5 : PilotLevel[order] = levels[order + 1]
    BY <2>1 DEF PilotLevel
  <2>3. /\ PilotLevel[0] = 0 /\ PilotLevel[1] = 20 /\ PilotLevel[2] = 30
        /\ PilotLevel[3] = 50 /\ PilotLevel[4] = 40 /\ PilotLevel[5] = 99
    BY <2>1, <2>2
  <2>4. /\ PilotMode(0) = 0 /\ PilotMode(20) = 1 /\ PilotMode(30) = 2
        /\ PilotMode(50) = 3 /\ PilotMode(40) = 4 /\ PilotMode(99) = 5
    BY DEF PilotMode
  <2>5. value \in {0, 1, 2, 3, 4, 5}
    BY <1>2
  <2> QED
    BY <2>4, <2>3, <2>5
<1>4. command = SetLevel(x, {})
  BY <1>1, <1>3, BuildIs
<1>5. command.name = "set" /\ command.raw = Number(x) /\ command.updates = {}
  BY <1>4 DEF SetLevel, SendCommand
<1>6. Own(Empty, value) \in Reports(Variant(n, v), ReportsIsLow(n), command.raw)
  BY <1>3, <1>5, ReportsIs
<1>7. command.raw # Null
  BY <1>5 DEF Number, Null
<1>8. v = Value(v.endpoint, v.cc, "currentvalue", Empty)
  BY NodeValues DEF Unkeyed
<1>9. \A c : c.endpoint = v.endpoint /\ c.cc = v.cc /\ c.name = command.name
               => Outcomes(c) = {<<v, c.raw>>}
  BY <1>5, <1>8, OutcomesIs
<1>10. <<Empty, Empty>> \in Fed(Variant(n, v))
  BY FedIs
<1> QED
  BY <1>1, <1>5, <1>6, <1>7, <1>9, <1>10, PlainPredicts

LEMMA SwitchPredicts ==
    ASSUME NEW n, IsNode(n), NEW v \in n.values,
           v.cc = "binary_switch", v.property = "currentvalue", Variant(n, v) = "switch",
           NEW value \in Offered("switch", Empty)
    PROVE  Predicts(n, v, Target(v, <<Empty, Empty>>), value, Build("switch", Empty, value))
<1>1. PICK command : command = Build("switch", Empty, value)
  OBVIOUS
<1>2. value \in 0..1
  BY OfferedIs
<1>3. \E b \in BOOLEAN : b = (value = ON) /\ value = IF b THEN ON ELSE OFF
  <2>1. CASE value = ON
    <3> WITNESS TRUE \in BOOLEAN
    <3> QED
      BY <2>1
  <2>2. CASE value = OFF
    <3> WITNESS FALSE \in BOOLEAN
    <3>1. value # ON
      BY <2>2 DEF ON, OFF
    <3>2. FALSE = (value = ON)
      BY <3>1
    <3> QED
      BY <2>2, <3>2
  <2> QED
    BY <1>2, <2>1, <2>2 DEF ON, OFF
<1>4. PICK b \in BOOLEAN : b = (value = ON) /\ value = IF b THEN ON ELSE OFF
  BY <1>3
<1>5. command = SendCommand("set", Boolean(b), {})
  BY <1>1, <1>4, BuildIs
<1>6. command.name = "set" /\ command.raw = Boolean(b) /\ command.updates = {}
  BY <1>5 DEF SendCommand
<1>7. Own(Empty, value) \in Reports(Variant(n, v), ReportsIsLow(n), command.raw)
  <2>1. Reports("switch", ReportsIsLow(n), Boolean(b)) = {Own(Empty, IF b THEN ON ELSE OFF)}
    <3>1. 0 \in Int
      OBVIOUS
    <3> QED
      BY <3>1, ReportsIs
  <2> QED
    BY <1>4, <1>6, <2>1
<1>8. command.raw # Null
  BY <1>6 DEF Boolean, Null
<1>9. v = Value(v.endpoint, v.cc, "currentvalue", Empty)
  BY NodeValues DEF Unkeyed
<1>10. \A c : c.endpoint = v.endpoint /\ c.cc = v.cc /\ c.name = command.name
               => Outcomes(c) = {<<v, c.raw>>}
  BY <1>6, <1>9, OutcomesIs
<1>11. <<Empty, Empty>> \in Fed(Variant(n, v))
  BY DEF Fed, NoVariant
<1> QED
  BY <1>1, <1>6, <1>7, <1>8, <1>10, <1>11, PlainPredicts

LEMMA ModePredicts ==
    ASSUME NEW n, IsNode(n), NEW v \in n.values,
           v.cc = "thermostat_mode", v.property = "mode", Variant(n, v) = "mode",
           NEW value \in Offered("mode", Empty)
    PROVE  Predicts(n, v, Target(v, <<Empty, Empty>>), value, Build("mode", Empty, value))
<1>1. PICK command : command = Build("mode", Empty, value)
  OBVIOUS
<1>2. value \in 0..3
  BY OfferedIs
<1>3. command = WriteValue("mode", Number(value), 0)
  <2>1. (IF value \in {0, 2, 3} THEN value ELSE 1) = value
    BY <1>2
  <2>2. Build("mode", Empty, value) =
          WriteValue("mode", Number(IF value \in {0, 2, 3} THEN value ELSE 1), 0)
    BY BuildIs
  <2> QED
    BY <1>1, <2>1, <2>2
<1>4. command.name = "mode" /\ command.raw = Number(value) /\ command.updates = {}
  BY <1>3 DEF WriteValue
<1>5. Own(Empty, value) \in Reports(Variant(n, v), ReportsIsLow(n), command.raw)
  BY <1>2, <1>4, ReportsIs
<1>6. command.raw # Null
  BY <1>4 DEF Number, Null
<1>7. v = Value(v.endpoint, v.cc, "mode", Empty)
  BY NodeValues DEF Unkeyed
<1>8. \A c : c.endpoint = v.endpoint /\ c.cc = v.cc /\ c.name = command.name
               => Outcomes(c) = {<<v, c.raw>>}
  BY <1>4, <1>7, OutcomesIs
<1>9. <<Empty, Empty>> \in Fed(Variant(n, v))
  BY DEF Fed, NoVariant
<1> QED
  BY <1>1, <1>4, <1>5, <1>6, <1>8, <1>9, PlainPredicts

LEMMA SetpointPredicts ==
    ASSUME NEW n, IsNode(n), NEW v \in n.values,
           v.cc = "thermostat_setpoint", v.property = "setpoint", Variant(n, v) = v.key,
           v.key \in Setpoints, NEW value \in Offered(v.key, Empty)
    PROVE  Predicts(n, v, Target(v, <<Empty, Empty>>), value, Build(v.key, Empty, value))
<1>1. PICK command : command = Build(v.key, Empty, value)
  OBVIOUS
<1>2. value \in Int
  <2>1. Offered(v.key, Empty) = 5..40
    BY OfferedIs
  <2> QED
    BY <2>1
<1>3. command = WriteValue("setpoint", Number(value), SetpointType(v.key))
  <2>1. \A name : \A variant \in Setpoints : Build(variant, name, value) =
          WriteValue("setpoint", Number(value), SetpointType(variant))
    BY BuildIs
  <2> QED
    BY <1>1, <2>1
<1>4. /\ command.name = "setpoint" /\ command.raw = Number(value) /\ command.updates = {}
      /\ command.type = SetpointType(v.key)
  BY <1>3 DEF WriteValue
<1>5. Own(Empty, value) \in Reports(Variant(n, v), ReportsIsLow(n), command.raw)
  <2>1. Reports(v.key, ReportsIsLow(n), Number(value)) = {Own(Empty, value)}
    BY <1>2, SetpointReported
  <2> QED
    BY <1>4, <2>1
<1>6. command.raw # Null
  BY <1>4 DEF Number, Null
<1>7. v = Value(v.endpoint, v.cc, "setpoint", v.key)
  BY NodeValues
<1>8. SetpointKey[SetpointType(v.key)] = v.key
  BY DEF SetpointKey, SetpointType, Setpoints
<1>9. \A c : c.endpoint = v.endpoint /\ c.cc = v.cc /\ c.name = command.name
                /\ c.type = command.type => Outcomes(c) = {<<v, c.raw>>}
  BY <1>4, <1>7, <1>8, OutcomesIs
<1>10. <<Empty, Empty>> \in Fed(Variant(n, v))
  BY DEF Fed, NoVariant, Setpoints
<1> QED
  BY <1>1, <1>4, <1>5, <1>6, <1>9, <1>10, PlainPredicts

\* A command of f.id to value, on its way as c, does to other features what its
\* sibling states say.
Foretells(n, id, value, siblings, c) ==
    /\ \A o \in Outcomes(c) :
         /\ o[1] \in n.values /\ (o[2] = Null => Null \in May[o[1]])
         /\ \A x \in n.values \ {o[1]} : id \notin Targets(n, x)
         /\ id \notin Targets(n, o[1]) \/ Feeds(n, o[1], o[2], id, value)
         /\ \A s \in siblings : Feeds(n, o[1], o[2], s.feature, s.state)
    /\ siblings = {} \/ Outcomes(c) # {}
    /\ \A s \in siblings : s.feature # id

LEMMA ControlPredicts ==
    ASSUME NEW n \in Catalogue, NEW v \in n.values \cup DerivedValues(n), NEW name,
           Expose(Variant(n, v)) # {}, name \in Commandable(Variant(n, v)),
           NEW value \in Offered(Variant(n, v), name)
    PROVE  /\ v \in n.values
           /\ Predicts(n, v, Target(v, <<Empty, name>>), value, Build(Variant(n, v), name, value))
<1>1. IsNode(n)
  BY CatalogueAssumption
<1>2. v \in n.values
  BY <1>1, ControlHeld
<1>3. \/ /\ v.cc = "multilevel_switch" /\ v.key = Empty /\ v.property = "currentvalue"
         /\ Variant(n, v) \in {"dimmer", "shutter", "pilot"}
      \/ /\ v.cc = "multilevel_switch" /\ v.key = Empty /\ v.property = "restoreprevious"
         /\ Variant(n, v) = "exposedRestore"
         /\ n.class = "17-1" /\ n.product \notin QubinoFlushPilot
      \/ /\ v.cc = "binary_switch" /\ v.key = Empty /\ v.property = "currentvalue"
         /\ Variant(n, v) = "switch"
      \/ /\ v.cc = "thermostat_mode" /\ v.key = Empty /\ v.property = "mode"
         /\ Variant(n, v) = "mode"
      \/ /\ v.cc = "thermostat_setpoint" /\ v.property = "setpoint"
         /\ Variant(n, v) = v.key /\ v.key \in Setpoints
  BY <1>1, ControlAt
<1>4. CASE Variant(n, v) \in {"dimmer", "shutter"}
  <2>1. name \in {"position", "state"}
    BY <1>4, ControlNames
  <2>2. v.cc = "multilevel_switch" /\ v.property = "currentvalue"
    BY <1>3, <1>4 DEF Setpoints
  <2>3. CASE Variant(n, v) = "dimmer"
    BY <1>1, <1>2, <2>1, <2>2, <2>3, DimmerPredicts
  <2>4. CASE Variant(n, v) = "shutter"
    BY <1>1, <1>2, <2>1, <2>2, <2>4, ShutterPredicts
  <2> QED
    BY <1>4, <2>3, <2>4
<1>5. CASE Variant(n, v) \notin {"dimmer", "shutter"}
  <2>1. name = Empty
    BY <1>5 DEF Commandable
  <2>2. CASE Variant(n, v) = "pilot"
    <3>1. v.cc = "multilevel_switch" /\ v.property = "currentvalue"
      BY <1>3, <2>2 DEF Setpoints
    <3> QED
      BY <1>1, <1>2, <2>1, <2>2, <3>1, PilotPredicts
  <2>3. CASE Variant(n, v) = "exposedRestore"
    <3>1. /\ v.cc = "multilevel_switch" /\ v.property = "restoreprevious" /\ v.key = Empty
          /\ n.class = "17-1" /\ n.product \notin QubinoFlushPilot
      BY <1>3, <2>3 DEF Setpoints
    <3> QED
      BY <1>2, <2>1, <2>3, <3>1, RestorePredicts
  <2>4. CASE Variant(n, v) = "switch"
    <3>1. v.cc = "binary_switch" /\ v.property = "currentvalue"
      BY <1>3, <2>4 DEF Setpoints
    <3> QED
      BY <1>1, <1>2, <2>1, <2>4, <3>1, SwitchPredicts
  <2>5. CASE Variant(n, v) = "mode"
    <3>1. v.cc = "thermostat_mode" /\ v.property = "mode"
      BY <1>3, <2>5 DEF Setpoints
    <3> QED
      BY <1>1, <1>2, <2>1, <2>5, <3>1, ModePredicts
  <2>6. CASE Variant(n, v) = v.key
    <3>1. v.cc = "thermostat_setpoint" => v.property = "setpoint" /\ v.key \in Setpoints
      BY <1>3
    <3>2. v.cc # "thermostat_setpoint" =>
            Variant(n, v) \in {"pilot", "exposedRestore", "switch", "mode"}
      BY <1>3, <1>5
    <3>3. CASE v.cc = "thermostat_setpoint"
      BY <1>1, <1>2, <2>1, <2>6, <3>1, <3>3, SetpointPredicts
    <3> QED
      BY <2>2, <2>3, <2>4, <2>5, <3>2, <3>3
  <2> QED
    BY <1>3, <1>5, <2>2, <2>3, <2>4, <2>5, <2>6
<1> QED
  BY <1>2, <1>4, <1>5

\* resolveCommand() and applySiblingStates(), of a feature of the device.
LEMMA CommandForetells ==
    ASSUME NEW n \in Catalogue, NEW f \in Discover(n), NEW value, Asks(n, f, value),
           NEW siblings,
           siblings = SiblingStates(Parse(f.id), Resolved(f).key,
                                    Build(Resolved(f).variant, Resolved(f).name, value).updates),
           NEW c, c = Sent(f, value)
    PROVE  Foretells(n, f.id, value, siblings, c)
<1>1. IsNode(n) /\ f \in Mapped(n)
  BY CatalogueAssumption, DiscoverMapped
<1>2. PICK v \in n.values \cup DerivedValues(n) : \E e \in Expose(Variant(n, v)) :
        /\ f.value = v /\ f.name = e.name
        /\ f.id = FeatureId(v.endpoint, v.cc, v.property, v.key, e.name)
  BY <1>1, MappedFrom
<1>3. Expose(Variant(n, v)) # {} /\ f.id = FeatureId(v.endpoint, v.cc, v.property, v.key, f.name)
  BY <1>2
<1>4. /\ Parse(f.id) = [endpoint |-> v.endpoint, cc |-> v.cc, property |-> v.property,
                        trailing |-> Trailing(v.key, f.name)]
      /\ ResolveCommand(Parse(f.id).cc, Parse(f.id).property, Parse(f.id).trailing, f.category) =
           IF f.name \in Commandable(Variant(n, v))
             THEN [variant |-> Variant(n, v), key |-> v.key, name |-> f.name]
             ELSE NoCommand
  BY <1>1, <1>2, Inverts
<1>5. PICK p : p = Parse(f.id)
  OBVIOUS
<1>6. p.endpoint = v.endpoint /\ p.cc = v.cc /\ p.property = v.property
  BY <1>4, <1>5
<1>7. Resolved(f) = ResolveCommand(p.cc, p.property, p.trailing, f.category)
  BY <1>5 DEF Resolved
<1>8. /\ Resolved(f) = [variant |-> Variant(n, v), key |-> v.key, name |-> f.name]
      /\ f.name \in Commandable(Variant(n, v))
  BY <1>4, <1>5, <1>7 DEF Asks
<1>9. Resolved(f).variant = Variant(n, v) /\ Resolved(f).key = v.key /\ Resolved(f).name = f.name
  BY <1>8
<1>10. value \in Offered(Variant(n, v), f.name)
  BY <1>2 DEF Asks
<1>11. PICK command : command = Build(Variant(n, v), f.name, value)
  OBVIOUS
<1>12. PICK id : id = f.id
  OBVIOUS
<1>13. id = Target(v, <<Empty, f.name>>)
  BY <1>3, <1>12, TargetIs
<1>14. Predicts(n, v, id, value, command)
  BY <1>3, <1>8, <1>10, <1>11, <1>13, ControlPredicts
<1>15. c = [endpoint |-> p.endpoint, cc |-> p.cc, name |-> command.name, raw |-> command.raw,
            type |-> command.type]
  BY <1>5, <1>9, <1>11 DEF Sent
<1>16. /\ c.endpoint = v.endpoint /\ c.cc = v.cc /\ c.name = command.name
       /\ c.raw = command.raw /\ c.type = command.type
  BY <1>6, <1>15
<1>17. siblings = {[feature |-> SiblingId(p, v.key, u), state |-> u.state, event |-> FALSE] :
                     u \in command.updates}
  BY <1>5, <1>9, <1>11 DEF SiblingStates
<1>18. ASSUME NEW u PROVE SiblingId(p, v.key, u) = Target(v, Pair(u))
  <2>1. Pair(u)[1] = u.property /\ Pair(u)[2] = u.name
    BY DEF Pair
  <2> QED
    BY <1>6, <2>1 DEF SiblingId, Target
<1>19. \A s \in siblings : \E u \in command.updates :
         s.feature = Target(v, Pair(u)) /\ s.state = u.state
  BY <1>17, <1>18
<1>20. /\ \A o \in Outcomes(c) : Meets(n, v, id, value, command.updates, o[1], o[2])
       /\ command.updates = {} \/ Outcomes(c) # {}
       /\ \A u \in command.updates : Target(v, Pair(u)) # id
  BY <1>14, <1>16 DEF Predicts
<1>21. siblings = {} \/ Outcomes(c) # {}
  BY <1>17, <1>20
<1>22. \A s \in siblings : s.feature # id
  BY <1>19, <1>20
<1>23. ASSUME NEW o \in Outcomes(c)
       PROVE  /\ o[1] \in n.values /\ (o[2] = Null => Null \in May[o[1]])
              /\ \A x \in n.values \ {o[1]} : id \notin Targets(n, x)
              /\ id \notin Targets(n, o[1]) \/ Feeds(n, o[1], o[2], id, value)
              /\ \A s \in siblings : Feeds(n, o[1], o[2], s.feature, s.state)
  BY <1>19, <1>20 DEF Meets
<1> QED
  BY <1>12, <1>21, <1>22, <1>23 DEF Foretells

-----------------------------------------------------------------------------
(* The publisher. *)

Unmoved(f) ==
    /\ f \in DOMAIN way' <=> f \in DOMAIN way
    /\ f \in DOMAIN way => way'[f] = way[f]

Reserved(f) == f \in DOMAIN lastPublished' /\ f \in DOMAIN way' /\ way'[f] = lastPublished'[f]

\* What push() does to each feature: its state is reserved, or nothing changes.
LEMMA Pushed ==
    ASSUME NEW states, NEW known, Push(states, known)
    PROVE  /\ DOMAIN lastPublished' \subseteq DOMAIN lastPublished \cup known
           /\ DOMAIN way' \subseteq DOMAIN way \cup known
           /\ DOMAIN lastPublished \subseteq DOMAIN lastPublished'
           /\ \A f : \/ /\ Reserved(f)
                        /\ \E s \in states : s.feature = f /\ f \in known /\ way'[f] = s.state
                     \/ /\ Unmoved(f)
                        /\ f \in DOMAIN lastPublished' <=> f \in DOMAIN lastPublished
                        /\ f \in DOMAIN lastPublished => lastPublished'[f] = lastPublished[f]
                        /\ \A s \in states : s.feature = f /\ f \in known =>
                             f \in DOMAIN lastPublished /\ lastPublished[f] = s.state
<1> DEFINE kept == {s \in states : s.feature \in known /\ (s.event \/ ~Repeated(s))}
           some == ByFeature(kept)
<1>1. lastPublished' = Merge(some, lastPublished) /\ way' = Merge(some, way)
  BY DEF Push
<1>2. PICK over : over = some
  OBVIOUS
<1>3. /\ DOMAIN lastPublished' = DOMAIN over \cup DOMAIN lastPublished
      /\ DOMAIN way' = DOMAIN over \cup DOMAIN way
      /\ \A f \in DOMAIN over : lastPublished'[f] = over[f] /\ way'[f] = over[f]
      /\ \A f \in DOMAIN way : f \notin DOMAIN over => way'[f] = way[f]
      /\ \A f \in DOMAIN lastPublished : f \notin DOMAIN over => lastPublished'[f] = lastPublished[f]
  <2> HIDE DEF some
  <2>1. lastPublished' = Merge(over, lastPublished) /\ way' = Merge(over, way)
    BY <1>1, <1>2
  <2> QED
    BY <2>1 DEF Merge
<1>4. /\ DOMAIN over = {s.feature : s \in kept}
      /\ \A f \in DOMAIN over : \E s \in kept : s.feature = f /\ over[f] = s.state
  <2> HIDE DEF kept
  <2>1. over = ByFeature(kept)
    BY <1>2
  <2> QED
    BY <2>1, FeatureFound
<1>5. \A s \in kept : s \in states /\ s.feature \in known
  OBVIOUS
<1>6. \A s \in states : s.feature \in known /\ s \notin kept =>
        s.feature \in DOMAIN lastPublished /\ lastPublished[s.feature] = s.state
  BY DEF Repeated
<1> HIDE DEF kept, some
<1>7. DOMAIN over \subseteq known
  BY <1>4, <1>5
<1>8. ASSUME NEW f \in DOMAIN over
      PROVE  Reserved(f) /\ \E s \in states : s.feature = f /\ f \in known /\ way'[f] = s.state
  <2>1. PICK s \in kept : s.feature = f /\ over[f] = s.state
    BY <1>4
  <2> QED
    BY <1>3, <1>5, <2>1 DEF Reserved
<1>9. ASSUME NEW f, f \notin DOMAIN over
      PROVE  /\ Unmoved(f)
             /\ f \in DOMAIN lastPublished' <=> f \in DOMAIN lastPublished
             /\ f \in DOMAIN lastPublished => lastPublished'[f] = lastPublished[f]
             /\ \A s \in states : s.feature = f /\ f \in known =>
                  f \in DOMAIN lastPublished /\ lastPublished[f] = s.state
  <2>1. \A s \in states : s.feature = f => s \notin kept
    BY <1>4, <1>9
  <2> QED
    BY <1>3, <1>6, <1>9, <2>1 DEF Unmoved
<1> QED
  BY <1>3, <1>7, <1>8, <1>9

\* PublishInv is kept by a push of what Gladys has, as are its own features.
LEMMA PublishPushed ==
    ASSUME NEW states, Push(states, KnownFeatures), PublishInv,
           UNCHANGED <<node, features, created, shown, behind>>,
           ~created => DOMAIN told' = {}
    PROVE  PublishInv'
<1>1. /\ DOMAIN lastPublished' \subseteq DOMAIN lastPublished \cup KnownFeatures
      /\ DOMAIN way' \subseteq DOMAIN way \cup KnownFeatures
      /\ DOMAIN lastPublished \subseteq DOMAIN lastPublished'
      /\ \A f : Reserved(f) \/ ( /\ Unmoved(f)
                                 /\ f \in DOMAIN lastPublished' <=> f \in DOMAIN lastPublished
                                 /\ f \in DOMAIN lastPublished => lastPublished'[f] = lastPublished[f])
  BY Pushed
<1>2. Features' = Features /\ KnownFeatures \subseteq Features /\ (~created => KnownFeatures = {})
  BY DEF Features, KnownFeatures
<1>3. (Due \cup DOMAIN lastPublished \cup behind \subseteq Features)'
  BY <1>1, <1>2 DEF PublishInv, Due
<1>4. (\A f \in DOMAIN way \cap DOMAIN lastPublished : way[f] = lastPublished[f])'
  BY <1>1 DEF PublishInv, Reserved, Unmoved
<1>5. ASSUME created, NEW f \in DOMAIN lastPublished' \ behind
      PROVE  f \in Due' /\ Current(f)' = lastPublished'[f]
  BY <1>1, <1>5 DEF PublishInv, Reserved, Unmoved, Due, Current
<1>6. ~created => DOMAIN lastPublished' \subseteq behind
  BY <1>1, <1>2 DEF PublishInv
<1> QED
  BY <1>3, <1>4, <1>5, <1>6 DEF PublishInv

\* What Gladys will show of the features pushed, each with one state.
LEMMA PushedCurrent ==
    ASSUME NEW states, NEW known, Push(states, known), PublishInv, created \in BOOLEAN,
           \A s, t \in states : s.feature = t.feature => s.state = t.state,
           shown' = shown,
           NEW s \in states, s.feature \in known, s.feature \notin behind \ DOMAIN way'
    PROVE  s.feature \in Due' /\ Current(s.feature)' = s.state
<1> DEFINE f == s.feature
<1>1. \/ Reserved(f) /\ \E t \in states : t.feature = f /\ way'[f] = t.state
      \/ Unmoved(f) /\ f \in DOMAIN lastPublished /\ lastPublished[f] = s.state
  BY Pushed
<1>2. CASE Reserved(f) /\ \E t \in states : t.feature = f /\ way'[f] = t.state
  <2>1. f \in DOMAIN way' /\ way'[f] = s.state
    BY <1>2 DEF Reserved
  <2> QED
    BY <2>1 DEF Due, Current
<1>3. CASE Unmoved(f) /\ f \in DOMAIN lastPublished /\ lastPublished[f] = s.state
  <2>1. f \in Due /\ Current(f) = s.state
    <3>1. CASE f \in DOMAIN way
      BY <1>3, <3>1 DEF PublishInv, Due, Current
    <3>2. CASE f \notin DOMAIN way
      <4>1. f \notin behind
        BY <1>3, <3>2 DEF Unmoved
      <4> QED
        BY <1>3, <4>1 DEF PublishInv
    <3> QED
      BY <3>1, <3>2
  <2> QED
    BY <1>3, <2>1 DEF Due, Current, Unmoved
<1> QED
  BY <1>1, <1>2, <1>3

\* What is not pushed stays.
LEMMA OthersCurrent ==
    ASSUME NEW states, NEW known, Push(states, known), shown' = shown,
           NEW f, \A s \in states : s.feature # f
    PROVE  /\ f \in Due' <=> f \in Due
           /\ f \in Due => Current(f)' = Current(f)
           /\ f \in DOMAIN way' <=> f \in DOMAIN way
<1>1. Unmoved(f)
  BY Pushed
<1> QED
  BY <1>1 DEF Unmoved, Due, Current

-----------------------------------------------------------------------------
(* The node, the device and the messages. *)

WorldInv == NodeInv /\ WireInv /\ ChannelInv /\ WarmInv

LEMMA WorldInit == Init => WorldInv /\ PublishInv /\ AgreeInv
<1> SUFFICES ASSUME Init PROVE WorldInv /\ PublishInv /\ AgreeInv
  OBVIOUS
<1>1. \A v \in node.values : May[v] # {}
  BY CatalogueAssumption DEF Init
<1>2. Held(raw)
  <2>1. \A v \in node.values : raw[v] \in May[v]
    BY <1>1 DEF Init
  <2> QED
    BY <2>1 DEF Init, Held, Sure
<1>3. DOMAIN <<>> = {}
  OBVIOUS
<1>4. NodeInv
  <2>1. events \in 0..MaxEvents
    BY BoundAssumption DEF Init
  <2>2. /\ created \in BOOLEAN /\ link \in BOOLEAN /\ asked \in BOOLEAN /\ cache = <<>>
        /\ publishing = FALSE /\ overtaken = {}
    BY DEF Init
  <2>3. node \in Catalogue /\ features = Discover(node)
    BY DEF Init
  <2> QED
    BY <1>2, <2>1, <2>2, <2>3 DEF NodeInv
<1>5. WireInv /\ ChannelInv /\ WarmInv
  BY EmptyQueue DEF Init, WireInv, ChannelInv, WarmInv
<1>6. PublishInv /\ AgreeInv
  BY <1>3 DEF Init, PublishInv, AgreeInv, Due, Features
<1> QED
  BY <1>4, <1>5, <1>6 DEF WorldInv

LEMMA Fixed == [Next]_vars => UNCHANGED <<node, features>>
BY DEF Next, vars, SetValue, Flush, Expire, Obeys, Ignores, LocalChange, Answered, LinkDown, LinkUp,
       OnValueUpdated, OnNodes, Published, OnDeviceCreated, OnDeviceDeleted

\* What holds of the node, of its values and of the messages stays.
LEMMA HeldKept ==
    ASSUME NEW raws, UNCHANGED <<node, features>>
    PROVE  Held(raws)' <=> Held(raws')
BY DEF Held, Sure

LEMMA EventKept == Event /\ events \in 0..MaxEvents => events' \in 0..MaxEvents
BY BoundAssumption DEF Event

\* A value becomes what it may hold, and is reported.
LEMMA BecomesKept ==
    ASSUME NodeInv, ChannelInv, WarmInv, UNCHANGED <<node, features, cache, link, asked>>,
           NEW v \in node.values, NEW r, r = Null => ~Sure(v), Becomes(v, r)
    PROVE  Held(raw)' /\ ChannelInv' /\ WarmInv'
<1>1. /\ DOMAIN raw' = DOMAIN raw
      /\ \A w \in DOMAIN raw : raw'[w] = IF w = v THEN r ELSE raw[w]
  BY DEF Becomes
<1>2. Held(raw)'
  BY <1>1 DEF NodeInv, Held, Sure
<1> DEFINE m == [kind |-> "report", value |-> v, raw |-> r]
<1>3. channel' = channel \/ channel' = Append(channel, m)
  BY DEF Becomes, Report
<1>4. IsSeq(channel') /\ Elements(channel) \subseteq Elements(channel')
      /\ Elements(channel') \subseteq Elements(channel) \cup {m}
  <2>1. IsSeq(channel)
    BY DEF ChannelInv
  <2> QED
    BY <1>3, <2>1, Appended
<1>5. Elements(channel)' = Elements(channel') /\ IsSeq(channel)' = IsSeq(channel')
  BY DEF Elements, IsSeq
<1>6. ChannelInv'
  <2>1. m.kind = "report" /\ m.value \in node.values
    OBVIOUS
  <2>2. \A k \in Elements(channel) :
          \/ k.kind = "report" /\ k.value \in node.values
          \/ k.kind = "nodes" /\ Held(k.raws)
    BY DEF ChannelInv
  <2> HIDE DEF m
  <2>3. \A k \in Elements(channel') :
          \/ k.kind = "report" /\ k.value \in node.values
          \/ k.kind = "nodes" /\ Held(k.raws)
    BY <1>4, <2>1, <2>2
  <2> QED
    BY <1>4, <1>5, <2>3 DEF ChannelInv, Held, Sure
<1>7. WarmInv'
  BY <1>4, <1>5 DEF WarmInv, Warm
<1> QED
  BY <1>2, <1>6, <1>7

\* A message is read: of an answer the node keeps what it says.
LEMMA ReadKept ==
    ASSUME NodeInv, ChannelInv, WarmInv, UNCHANGED <<node, features, link, asked>>,
           channel # <<>>, channel' = Tail(channel),
           \/ Head(channel).kind = "report" /\ cache' = cache
           \/ Head(channel).kind = "nodes" /\ cache' = Head(channel).raws
    PROVE  ChannelInv' /\ WarmInv' /\ (cache' = <<>> \/ Held(cache)')
<1>1. /\ IsSeq(channel') /\ Head(channel) \in Elements(channel)
      /\ Elements(channel) = Elements(channel') \cup {Head(channel)}
  BY Taken DEF ChannelInv
<1>2. Elements(channel)' = Elements(channel') /\ IsSeq(channel)' = IsSeq(channel')
  BY DEF Elements, IsSeq
<1>3. ChannelInv'
  BY <1>1, <1>2 DEF ChannelInv, Held, Sure
<1>4. PICK m : m = Head(channel)
  OBVIOUS
<1>5. m.kind = "nodes" => Warm' /\ Held(cache)'
  BY <1>1, <1>4 DEF ChannelInv, Held, Warm, Sure
<1>6. m.kind = "report" => cache' = cache /\ (cache = <<>> \/ Held(cache))
  BY <1>4 DEF NodeInv
<1>7. m.kind = "nodes" \/ (m.kind = "report" /\ m.kind # "nodes")
  BY <1>4
<1>8. cache' = cache => (Warm' <=> Warm) /\ (Held(cache)' <=> Held(cache))
  BY DEF Warm, Held, Sure
<1>9. WarmInv'
  <2>1. CASE m.kind = "nodes"
    BY <1>5, <2>1 DEF WarmInv
  <2>2. CASE m.kind = "report"
    BY <1>1, <1>2, <1>4, <1>6, <1>8, <2>2 DEF WarmInv
  <2> QED
    BY <1>7, <2>1, <2>2
<1> QED
  BY <1>3, <1>5, <1>6, <1>7, <1>8, <1>9

\* No message is read or sent.
LEMMA StillKept ==
    ASSUME ChannelInv, WarmInv, UNCHANGED <<node, channel, cache, link, asked>>
    PROVE  ChannelInv' /\ WarmInv'
BY DEF ChannelInv, WarmInv, Held, Sure, Warm, IsSeq, Elements

LEMMA WireKept ==
    ASSUME WireInv, UNCHANGED <<node, wire>>
    PROVE  WireInv'
BY DEF WireInv, IsSeq, Elements, Sure

LEMMA WireTaken ==
    ASSUME WireInv, node' = node, wire # <<>>, wire' = Tail(wire)
    PROVE  WireInv'
<1>1. IsSeq(wire') /\ Elements(wire') \subseteq Elements(wire)
  BY Taken DEF WireInv
<1>2. Elements(wire)' = Elements(wire') /\ IsSeq(wire)' = IsSeq(wire')
  BY DEF Elements, IsSeq
<1> QED
  BY <1>1, <1>2 DEF WireInv, Sure

LEMMA NodeKept ==
    ASSUME NodeInv, UNCHANGED <<node, features, raw, cache, link, asked>>,
           publishing' = publishing \/ publishing' = FALSE, overtaken' \subseteq node.values,
           created' \in BOOLEAN, events' = events \/ Event
    PROVE  NodeInv'
<1>1. events' \in 0..MaxEvents
  BY EventKept DEF NodeInv
<1>2. (Held(raw)' <=> Held(raw)) /\ (Held(cache)' <=> Held(cache)) /\ (Warm' <=> Warm)
  BY DEF Held, Sure, Warm
<1>3. publishing' \in BOOLEAN /\ (publishing' => Warm')
  <2>1. CASE publishing' = publishing
    BY <1>2, <2>1 DEF NodeInv
  <2>2. CASE publishing' = FALSE
    BY <2>2
  <2> QED
    BY <2>1, <2>2
<1> QED
  BY <1>1, <1>2, <1>3 DEF NodeInv

\* A user commands, the publisher flushes or forgets.
LEMMA UserKept ==
    ASSUME WorldInv, UNCHANGED <<node, features>>,
           \/ \E f \in features, value \in Amounts : SetValue(f, value)
           \/ Flush \/ \E f \in DOMAIN lastPublished : Expire(f)
    PROVE  WorldInv'
<1> USE DEF WorldInv
<1>1. ASSUME NEW f \in features, NEW value \in Amounts, SetValue(f, value)
      PROVE  WorldInv'
  <2>1. NodeInv' /\ ChannelInv' /\ WarmInv'
    BY <1>1, NodeKept, StillKept DEF SetValue, refresh, NodeInv
  <2>2. wire' = wire \/ wire' = Append(wire, Sent(f, value))
    BY <1>1 DEF SetValue
  <2>3. Asks(node, f, value)
    BY <1>1 DEF SetValue
  <2>4. f \in Discover(node) /\ node \in Catalogue
    BY DEF NodeInv
  <2>5. PICK c : c = Sent(f, value)
    OBVIOUS
  <2>6. \A o \in Outcomes(c) : o[1] \in node.values /\ (o[2] = Null => ~Sure(o[1]))
    BY <2>3, <2>4, <2>5, CommandForetells DEF Foretells, Sure
  <2>7. IsSeq(wire') /\ Elements(wire') \subseteq Elements(wire) \cup {c}
    BY <2>2, <2>5, Appended DEF WireInv
  <2>8. Elements(wire)' = Elements(wire') /\ IsSeq(wire)' = IsSeq(wire')
    BY DEF Elements, IsSeq
  <2>9. WireInv'
    BY <2>6, <2>7, <2>8 DEF WireInv, Sure
  <2> QED
    BY <2>1, <2>9
<1>2. CASE Flush
  BY <1>2, NodeKept, StillKept, WireKept DEF Flush, device, refresh, NodeInv
<1>3. ASSUME NEW f, Expire(f)
      PROVE  WorldInv'
  BY <1>3, NodeKept, StillKept, WireKept DEF Expire, device, refresh, NodeInv
<1> QED
  BY <1>1, <1>2, <1>3

LEMMA DeviceKept ==
    ASSUME WorldInv, UNCHANGED <<node, features>>,
           Obeys \/ Ignores \/ \E v \in DOMAIN raw : \E r \in May[v] : LocalChange(v, r)
    PROVE  WorldInv'
<1> USE DEF WorldInv
<1>1. CASE Obeys
  <2>1. PICK c : c = Head(wire)
    OBVIOUS
  <2>2. PICK o \in Outcomes(c) : Becomes(o[1], o[2])
    BY <1>1, <2>1 DEF Obeys
  <2>3. c \in Elements(wire)
    BY <1>1, <2>1, Taken DEF Obeys, WireInv
  <2>4. o[1] \in node.values /\ (o[2] = Null => ~Sure(o[1]))
    BY <2>3 DEF WireInv
  <2>5. UNCHANGED <<refresh, cache, publishing, overtaken, link, asked, created, events>>
    BY <1>1 DEF Obeys, integration, refresh
  <2>6. Held(raw)' /\ ChannelInv' /\ WarmInv'
    BY <2>2, <2>4, <2>5, BecomesKept
  <2>7. NodeInv'
    BY <2>5, <2>6 DEF NodeInv, Held, Sure, Warm
  <2>8. WireInv'
    BY <1>1, WireTaken DEF Obeys
  <2> QED
    BY <2>6, <2>7, <2>8
<1>2. CASE Ignores
  <2>1. NodeInv' /\ ChannelInv' /\ WarmInv'
    BY <1>2, NodeKept, StillKept DEF Ignores, integration, refresh, NodeInv
  <2>2. WireInv'
    BY <1>2, WireTaken DEF Ignores
  <2> QED
    BY <2>1, <2>2
<1>3. ASSUME NEW v \in DOMAIN raw, NEW r \in May[v], LocalChange(v, r)
      PROVE  WorldInv'
  <2>1. v \in node.values /\ Becomes(v, r) /\ (r = Null => ~Sure(v))
    BY <1>3 DEF LocalChange, Sure
  <2>2. UNCHANGED <<cache, publishing, overtaken, link, asked, created, wire>> /\ Event
    BY <1>3 DEF LocalChange, integration, refresh
  <2>3. Held(raw)' /\ ChannelInv' /\ WarmInv'
    BY <2>1, <2>2, BecomesKept
  <2>4. events' \in 0..MaxEvents
    BY <2>2, EventKept DEF NodeInv
  <2>5. NodeInv'
    BY <2>2, <2>3, <2>4 DEF NodeInv, Held, Sure, Warm
  <2>6. WireInv'
    BY <2>2, WireKept
  <2> QED
    BY <2>3, <2>5, <2>6
<1> QED
  BY <1>1, <1>2, <1>3

LEMMA LinkKept ==
    ASSUME WorldInv, UNCHANGED <<node, features>>,
           Answered \/ LinkDown \/ LinkUp
    PROVE  WorldInv'
<1> USE DEF WorldInv
<1>1. CASE Answered
  <2> DEFINE m == [kind |-> "nodes", raws |-> raw]
  <2>1. channel' = Append(channel, m) /\ asked' = FALSE
        /\ UNCHANGED <<raw, wire, cache, publishing, overtaken, link, created, events>>
    BY <1>1 DEF Answered, integration, refresh
  <2>2. m.kind = "nodes" /\ Held(m.raws)
    BY DEF NodeInv
  <2> HIDE DEF m
  <2>3. IsSeq(channel') /\ Elements(channel') = Elements(channel) \cup {m}
    BY <2>1, Appended DEF ChannelInv
  <2>4. Elements(channel)' = Elements(channel') /\ IsSeq(channel)' = IsSeq(channel')
    BY DEF Elements, IsSeq
  <2>5. ChannelInv'
    BY <2>2, <2>3, <2>4 DEF ChannelInv, Held, Sure
  <2>6. WarmInv'
    BY <2>2, <2>3, <2>4 DEF WarmInv
  <2>7. NodeInv'
    BY <2>1 DEF NodeInv, Held, Sure, Warm
  <2>8. WireInv'
    BY <2>1, WireKept
  <2> QED
    BY <2>5, <2>6, <2>7, <2>8
<1>2. CASE LinkDown
  <2>1. channel' = <<>> /\ link' = FALSE /\ asked' = FALSE /\ Event
        /\ UNCHANGED <<raw, cache, publishing, overtaken, created>>
        /\ (wire' = wire \/ wire' = <<>>)
    BY <1>2 DEF LinkDown, integration, refresh
  <2>2. Elements(channel)' = Elements(channel') /\ IsSeq(channel)' = IsSeq(channel')
        /\ Elements(wire)' = Elements(wire') /\ IsSeq(wire)' = IsSeq(wire')
    BY DEF Elements, IsSeq
  <2>3. ChannelInv' /\ WarmInv'
    BY <2>1, <2>2, EmptyQueue DEF ChannelInv, WarmInv
  <2>4. WireInv'
    <3>1. CASE wire' = wire
      BY <3>1, WireKept
    <3>2. CASE wire' = <<>>
      BY <3>2, <2>2, EmptyQueue DEF WireInv
    <3> QED
      BY <2>1, <3>1, <3>2
  <2>5. events' \in 0..MaxEvents
    BY <2>1, EventKept DEF NodeInv
  <2>6. NodeInv'
    BY <2>1, <2>5 DEF NodeInv, Held, Sure, Warm
  <2> QED
    BY <2>3, <2>4, <2>6
<1>3. CASE LinkUp
  <2>1. link' = TRUE /\ asked' = TRUE
        /\ UNCHANGED <<raw, channel, wire, cache, publishing, overtaken, created, events>>
    BY <1>3 DEF LinkUp, device, integration, refresh
  <2>2. ChannelInv' /\ WarmInv'
    BY <2>1 DEF ChannelInv, WarmInv, Held, Sure, IsSeq, Elements
  <2>3. NodeInv' /\ WireInv'
    BY <2>1, WireKept DEF NodeInv, Held, Sure, Warm
  <2> QED
    BY <2>2, <2>3
<1> QED
  BY <1>1, <1>2, <1>3

LEMMA HandlerKept ==
    ASSUME WorldInv, UNCHANGED <<node, features>>,
           OnValueUpdated \/ OnNodes \/ Published \/ OnDeviceCreated \/ OnDeviceDeleted
    PROVE  WorldInv'
<1> USE DEF WorldInv
<1>1. CASE OnValueUpdated
  <2>1. ChannelInv' /\ WarmInv'
    BY <1>1, ReadKept DEF OnValueUpdated
  <2>2. PICK m : m = Head(channel)
    OBVIOUS
  <2>3. m \in Elements(channel) /\ m.kind = "report"
    BY <1>1, <2>2, Taken DEF OnValueUpdated, ChannelInv
  <2>4. m.value \in node.values
    BY <2>3 DEF ChannelInv
  <2>5. overtaken' \in {overtaken \cup {m.value}, overtaken \ {m.value}}
    BY <1>1, <2>2 DEF OnValueUpdated
  <2>6. overtaken' \subseteq node.values
    BY <2>4, <2>5 DEF NodeInv
  <2>7. NodeInv' /\ WireInv'
    BY <1>1, <2>6, NodeKept, WireKept DEF OnValueUpdated, NodeInv
  <2> QED
    BY <2>1, <2>7
<1>2. CASE OnNodes
  <2>1. ChannelInv' /\ WarmInv' /\ Held(cache)'
    <3>1. PICK m : m = Head(channel)
      OBVIOUS
    <3>2. m \in Elements(channel) /\ m.kind = "nodes" /\ cache' = m.raws
      BY <1>2, <3>1, Taken DEF OnNodes, ChannelInv
    <3>3. Held(cache)'
      BY <3>2 DEF ChannelInv, Held, Sure
    <3> QED
      BY <1>2, <3>3, ReadKept DEF OnNodes
  <2>2. publishing' \in BOOLEAN /\ overtaken' = {}
    BY <1>2 DEF OnNodes, NodeInv
  <2>3. NodeInv'
    BY <1>2, <2>1, <2>2 DEF OnNodes, NodeInv, Held, Sure, Warm
  <2>4. WireInv'
    BY <1>2, WireKept DEF OnNodes
  <2> QED
    BY <2>1, <2>3, <2>4
<1>3. CASE Published
  BY <1>3, NodeKept, StillKept, WireKept DEF Published, device, NodeInv
<1>4. CASE OnDeviceCreated
  BY <1>4, NodeKept, StillKept, WireKept DEF OnDeviceCreated, device, refresh, NodeInv
<1>5. CASE OnDeviceDeleted
  BY <1>5, NodeKept, StillKept, WireKept DEF OnDeviceDeleted, device, integration, refresh, NodeInv
<1> QED
  BY <1>1, <1>2, <1>3, <1>4, <1>5

LEMMA WorldKept == WorldInv /\ [Next]_vars => WorldInv'
<1> SUFFICES ASSUME WorldInv, [Next]_vars PROVE WorldInv'
  OBVIOUS
<1>1. UNCHANGED <<node, features>>
  BY Fixed
<1>2. CASE UNCHANGED vars
  <2>1. NodeInv' /\ ChannelInv' /\ WarmInv' /\ WireInv'
    BY <1>2, NodeKept, StillKept, WireKept DEF vars, WorldInv, NodeInv
  <2> QED
    BY <2>1 DEF WorldInv
<1>3. CASE Next
  BY <1>1, <1>3, UserKept, DeviceKept, LinkKept, HandlerKept DEF Next
<1> QED
  BY <1>2, <1>3

-----------------------------------------------------------------------------
(* What Gladys shows. *)

LEMMA SnapshotIs ==
    ASSUME NEW n \in Catalogue, NEW raws, DOMAIN raws = n.values
    PROVE  /\ \A s \in Snapshot(n, raws) :
                \E v \in n.values : raws[v] # Null /\ s \in Convert(n, v, raws[v])
           /\ \A v \in n.values : raws[v] # Null =>
                Convert(n, v, raws[v]) \subseteq Snapshot(n, raws)
           /\ \A s, t \in Snapshot(n, raws) : s.feature = t.feature => s.state = t.state
<1>1. \A s \in Snapshot(n, raws) :
        \E v \in n.values : raws[v] # Null /\ s \in Convert(n, v, raws[v])
  BY DEF Snapshot
<1>2. \A v \in n.values : raws[v] # Null => Convert(n, v, raws[v]) \subseteq Snapshot(n, raws)
  BY DEF Snapshot
<1>3. ASSUME NEW s \in Snapshot(n, raws), NEW t \in Snapshot(n, raws), s.feature = t.feature
      PROVE  s.state = t.state
  <2>1. PICK v \in n.values : s \in Convert(n, v, raws[v])
    BY <1>1
  <2>2. PICK w \in n.values : t \in Convert(n, w, raws[w])
    BY <1>1
  <2>3. v = w
    BY <1>3, <2>1, <2>2, OneSource DEF KnownAs
  <2> QED
    BY <1>3, <2>1, <2>2, <2>3, OneConversion DEF KnownAs
<1> QED
  BY <1>1, <1>2, <1>3

\* What the value v is told to hold is shown, or will be, in the next state.
AgreesNext(v, held) ==
    \A s \in Convert(node, v, held) : s.feature \in Features \ (behind' \ DOMAIN way') =>
        s.feature \in Due' /\ Current(s.feature)' = s.state

\* A value that none of the states pushed is about.
LEMMA OthersAgree ==
    ASSUME AgreeInv, NEW states, NEW known, Push(states, known), UNCHANGED <<shown, behind>>,
           NEW w \in DOMAIN told, Steady \/ ~Sure(w),
           \A s \in states : \A t \in Convert(node, w, told[w]) : s.feature # t.feature
    PROVE  AgreesNext(w, told[w])
<1> SUFFICES ASSUME NEW t \in Convert(node, w, told[w]),
                    t.feature \in Features \ (behind' \ DOMAIN way')
             PROVE  t.feature \in Due' /\ Current(t.feature)' = t.state
  BY DEF AgreesNext
<1>1. /\ t.feature \in Due' <=> t.feature \in Due
      /\ t.feature \in Due => Current(t.feature)' = Current(t.feature)
      /\ t.feature \in DOMAIN way' <=> t.feature \in DOMAIN way
  BY OthersCurrent
<1> QED
  BY <1>1 DEF AgreeInv, Shaky

LEMMA AgreeNext ==
    ASSUME UNCHANGED <<node, features>>, DOMAIN told' \subseteq node.values,
           \A v \in DOMAIN told' : Steady' \/ ~Sure(v) => AgreesNext(v, told'[v])
    PROVE  AgreeInv'
BY DEF AgreeInv, AgreesNext, Sure, Shaky, Features

\* The node as it is cached.
LEMMA CachedIs ==
    ASSUME NodeInv
    PROVE  KnownAs(node, Cached) /\ (Warm => Cached = node)
<1>1. node = [product |-> node.product, class |-> node.class, values |-> node.values]
  BY CatalogueAssumption DEF NodeInv, IsNode
<1>2. Warm => Cached = node
  BY <1>1 DEF Cached, Warm
<1>3. DOMAIN <<>> = {}
  OBVIOUS
<1>4. cache = <<>> => Cached = Blank(node)
  BY <1>3 DEF Cached, Blank
<1> QED
  BY <1>2, <1>4 DEF KnownAs, NodeInv, Held, Warm

LEMMA ReportAgrees ==
    ASSUME WorldInv, PublishInv, AgreeInv, UNCHANGED <<node, features>>, OnValueUpdated
    PROVE  PublishInv' /\ AgreeInv'
<1> USE DEF WorldInv
<1>1. PICK m : m = Head(channel)
  OBVIOUS
<1>2. m \in Elements(channel) /\ m.kind = "report"
  BY <1>1, Taken DEF OnValueUpdated, ChannelInv
<1>3. m.value \in node.values
  BY <1>2 DEF ChannelInv
<1>4. PICK v, r : v = m.value /\ r = m.raw
  OBVIOUS
<1>5. PICK states : states = Convert(Cached, v, r)
  OBVIOUS
<1>6. /\ Push(states, KnownFeatures)
      /\ told' = IF created THEN Put(told, v, r) ELSE told
      /\ UNCHANGED <<created, shown, behind, cache, publishing>>
  BY <1>1, <1>4, <1>5 DEF OnValueUpdated
<1>7. KnownAs(node, Cached) /\ (Warm => Cached = node) /\ node \in Catalogue /\ v \in node.values
  BY <1>3, <1>4, CachedIs DEF NodeInv
<1>8. PublishInv'
  <2>1. ~created => DOMAIN told' = {}
    BY <1>6 DEF PublishInv
  <2> QED
    BY <1>6, <2>1, PublishPushed
<1>9. Steady' <=> Steady
  BY <1>6 DEF Steady, Warm
<1>10. CASE ~created
  <2>1. DOMAIN told' = {}
    BY <1>6, <1>10 DEF PublishInv
  <2> QED
    BY <1>8, <2>1, AgreeNext
<1>11. CASE created
  <2>1. KnownFeatures = Features
    BY <1>11 DEF KnownFeatures
  <2>2. /\ DOMAIN told' = DOMAIN told \cup {v} /\ told'[v] = r
        /\ \A w \in DOMAIN told : w # v => told'[w] = told[w]
    BY <1>6, <1>11 DEF Put
  <2>3. AgreesNext(v, r)
    <3> SUFFICES ASSUME NEW s \in Convert(node, v, r),
                        s.feature \in Features \ (behind' \ DOMAIN way')
                 PROVE  s.feature \in Due' /\ Current(s.feature)' = s.state
      BY DEF AgreesNext
    <3>1. s \in states
      BY <1>5, <1>7, ConvertedCached
    <3>2. \A t, k \in states : t.feature = k.feature => t.state = k.state
      BY <1>5, <1>7, OneConversion
    <3> QED
      BY <1>6, <2>1, <3>1, <3>2, PushedCurrent DEF NodeInv
  <2>4. ASSUME NEW w \in DOMAIN told, w # v, Steady \/ ~Sure(w)
        PROVE  AgreesNext(w, told[w])
    <3>1. w \in node.values
      BY DEF AgreeInv
    <3>2. \A s \in states : \A t \in Convert(node, w, told[w]) : s.feature # t.feature
      BY <1>5, <1>7, <2>4, <3>1, OneSource DEF Steady
    <3> QED
      BY <1>6, <2>4, <3>2, OthersAgree
  <2>5. DOMAIN told' \subseteq node.values
    BY <1>7, <2>2 DEF AgreeInv
  <2>6. \A w \in DOMAIN told' : Steady' \/ ~Sure(w) => AgreesNext(w, told'[w])
    BY <1>9, <2>2, <2>3, <2>4
  <2> QED
    BY <1>8, <2>5, <2>6, AgreeNext
<1> QED
  BY <1>8, <1>10, <1>11 DEF NodeInv

\* publishKnownStates(): all that a node may hold is pushed.
LEMMA TellingAgrees ==
    ASSUME WorldInv, PublishInv, AgreeInv,
           UNCHANGED <<node, features, created, shown, behind>>,
           NEW raws, Held(raws), PublishKnownStates(raws)
    PROVE  PublishInv' /\ AgreeInv'
<1> USE DEF WorldInv
<1>1. PICK states : states = Snapshot(node, raws)
  OBVIOUS
<1>2. /\ Push(states, KnownFeatures)
      /\ told' = IF created THEN Merge([v \in Holding(raws) |-> raws[v]], told) ELSE told
      /\ UNCHANGED <<created, shown, behind>>
  BY <1>1 DEF PublishKnownStates, Tell
<1>3. node \in Catalogue /\ DOMAIN raws = node.values
  BY DEF NodeInv, Held
<1>4. PublishInv'
  <2>1. ~created => DOMAIN told' = {}
    BY <1>2 DEF PublishInv
  <2> QED
    BY <1>2, <2>1, PublishPushed
<1>5. CASE ~created
  <2>1. DOMAIN told' = {}
    BY <1>2, <1>5 DEF PublishInv
  <2> QED
    BY <1>4, <2>1, AgreeNext
<1>6. CASE created
  <2>1. KnownFeatures = Features
    BY <1>6 DEF KnownFeatures
  <2>2. Holding(raws) = {v \in node.values : raws[v] # Null}
    BY <1>3 DEF Holding
  <2>3. /\ DOMAIN told' = Holding(raws) \cup DOMAIN told
        /\ \A v \in Holding(raws) : told'[v] = raws[v]
        /\ \A v \in DOMAIN told : v \notin Holding(raws) => told'[v] = told[v]
    BY <1>2, <1>6 DEF Merge
  <2>4. /\ \A s \in states : \E v \in node.values : raws[v] # Null /\ s \in Convert(node, v, raws[v])
        /\ \A v \in node.values : raws[v] # Null => Convert(node, v, raws[v]) \subseteq states
        /\ \A s, t \in states : s.feature = t.feature => s.state = t.state
    BY <1>1, <1>3, SnapshotIs
  <2>5. ASSUME NEW v \in Holding(raws)
        PROVE  AgreesNext(v, raws[v])
    <3> SUFFICES ASSUME NEW s \in Convert(node, v, raws[v]),
                        s.feature \in Features \ (behind' \ DOMAIN way')
                 PROVE  s.feature \in Due' /\ Current(s.feature)' = s.state
      BY DEF AgreesNext
    <3>1. s \in states
      BY <2>2, <2>4
    <3> QED
      BY <1>2, <2>1, <2>4, <3>1, PushedCurrent DEF NodeInv
  <2>6. ASSUME NEW w \in DOMAIN told, w \notin Holding(raws)
        PROVE  AgreesNext(w, told[w])
    <3>1. w \in node.values
      BY DEF AgreeInv
    <3>2. ~Sure(w)
      BY <2>2, <2>6, <3>1 DEF Held
    <3>3. \A s \in states : \A t \in Convert(node, w, told[w]) : s.feature # t.feature
      <4> SUFFICES ASSUME NEW s \in states, NEW t \in Convert(node, w, told[w]),
                          s.feature = t.feature
                   PROVE  FALSE
        OBVIOUS
      <4>1. PICK v \in node.values : raws[v] # Null /\ s \in Convert(node, v, raws[v])
        BY <2>4
      <4>2. v = w
        BY <1>3, <3>1, <4>1, OneSource DEF KnownAs
      <4> QED
        BY <2>2, <2>6, <4>1, <4>2
    <3> QED
      BY <1>2, <3>2, <3>3, OthersAgree
  <2>7. DOMAIN told' \subseteq node.values
    BY <2>2, <2>3 DEF AgreeInv
  <2>8. \A w \in DOMAIN told' : AgreesNext(w, told'[w])
    BY <2>3, <2>5, <2>6
  <2> QED
    BY <1>4, <2>7, <2>8, AgreeNext
<1> QED
  BY <1>5, <1>6 DEF NodeInv

LEMMA CreationAgrees ==
    ASSUME WorldInv, PublishInv, AgreeInv, UNCHANGED <<node, features>>, OnDeviceCreated
    PROVE  PublishInv' /\ AgreeInv'
<1> USE DEF WorldInv
<1>1. /\ ~created /\ created' = TRUE /\ Push(Snapshot(node, cache), Features)
      /\ told' = [v \in Holding(cache) |-> cache[v]] /\ UNCHANGED <<shown, behind>>
  BY DEF OnDeviceCreated
<1>2. node \in Catalogue /\ DOMAIN cache = node.values
  BY DEF OnDeviceCreated, NodeInv, Held
<1>3. PICK states : states = Snapshot(node, cache)
  OBVIOUS
<1>4. Features' = Features
  BY DEF Features
<1>5. PublishInv'
  <2>1. /\ DOMAIN lastPublished' \subseteq DOMAIN lastPublished \cup Features
        /\ DOMAIN way' \subseteq DOMAIN way \cup Features
        /\ \A f : Reserved(f) \/ ( /\ Unmoved(f)
                                   /\ f \in DOMAIN lastPublished' <=> f \in DOMAIN lastPublished
                                   /\ f \in DOMAIN lastPublished =>
                                        lastPublished'[f] = lastPublished[f])
    BY <1>1, Pushed
  <2>2. (Due \cup DOMAIN lastPublished \cup behind \subseteq Features)'
    BY <1>1, <1>4, <2>1 DEF PublishInv, Due
  <2>3. (\A f \in DOMAIN way \cap DOMAIN lastPublished : way[f] = lastPublished[f])'
    BY <2>1 DEF PublishInv, Reserved, Unmoved
  <2>4. ASSUME NEW f \in DOMAIN lastPublished' \ behind'
        PROVE  f \in Due' /\ Current(f)' = lastPublished'[f]
    <3>1. f \notin DOMAIN lastPublished
      BY <1>1, <2>4 DEF PublishInv
    <3>2. Reserved(f)
      BY <2>1, <2>4, <3>1
    <3> QED
      BY <3>2 DEF Reserved, Due, Current
  <2> QED
    BY <1>1, <2>2, <2>3, <2>4 DEF PublishInv
<1>6. Holding(cache) = {v \in node.values : cache[v] # Null}
  BY <1>2 DEF Holding
<1>7. ASSUME NEW v \in Holding(cache)
      PROVE  AgreesNext(v, cache[v])
  <2> SUFFICES ASSUME NEW s \in Convert(node, v, cache[v]),
                      s.feature \in Features \ (behind' \ DOMAIN way')
               PROVE  s.feature \in Due' /\ Current(s.feature)' = s.state
    BY DEF AgreesNext
  <2>1. s \in states /\ \A t, k \in states : t.feature = k.feature => t.state = k.state
    BY <1>2, <1>3, <1>6, SnapshotIs
  <2> QED
    BY <1>1, <1>3, <2>1, PushedCurrent DEF NodeInv
<1>8. DOMAIN told' \subseteq node.values /\ \A v \in DOMAIN told' : AgreesNext(v, told'[v])
  BY <1>1, <1>6, <1>7
<1> QED
  BY <1>5, <1>8, AgreeNext

\* A command changes what Gladys shows of its feature and of the siblings, of
\* which nothing is told any more.
LEMMA CommandAgrees ==
    ASSUME WorldInv, PublishInv, AgreeInv, UNCHANGED <<node, features>>,
           NEW f \in features, NEW value \in Amounts, SetValue(f, value)
    PROVE  PublishInv' /\ AgreeInv'
<1> USE DEF WorldInv
<1> DEFINE command == Build(Resolved(f).variant, Resolved(f).name, value)
           sent == SiblingStates(Parse(f.id), Resolved(f).key, command.updates)
<1>1. PICK id, siblings, announced :
        /\ id = f.id /\ siblings = sent
        /\ announced = Put(ByFeature({s \in siblings : s.feature \in Features}), id, value)
  OBVIOUS
<1>2. /\ created /\ Push(siblings, KnownFeatures) /\ shown' = Put(shown, id, value)
      /\ behind' = IF id \in DOMAIN lastPublished /\ lastPublished[id] # value
                     THEN behind \cup {id} ELSE behind \ {id}
      /\ told' = Without(told, Feeding(DOMAIN announced))
      /\ UNCHANGED <<created, cache, publishing>>
  BY <1>1 DEF SetValue, refresh
<1> HIDE DEF sent, command
<1>3. KnownFeatures = Features /\ Features' = Features /\ id \in Features
  BY <1>1, <1>2 DEF KnownFeatures, Features
<1>4. /\ DOMAIN shown' = DOMAIN shown \cup {id} /\ shown'[id] = value
      /\ \A x \in DOMAIN shown : x # id => shown'[x] = shown[x]
  BY <1>2 DEF Put
<1>5. /\ DOMAIN lastPublished' \subseteq DOMAIN lastPublished \cup Features
      /\ DOMAIN way' \subseteq DOMAIN way \cup Features
      /\ \A x : \/ Reserved(x) /\ \E s \in siblings : s.feature = x /\ x \in Features
                \/ /\ Unmoved(x)
                   /\ x \in DOMAIN lastPublished' <=> x \in DOMAIN lastPublished
                   /\ x \in DOMAIN lastPublished => lastPublished'[x] = lastPublished[x]
  BY <1>2, <1>3, Pushed
<1>6. PublishInv'
  <2>1. (Due \cup DOMAIN lastPublished \cup behind \subseteq Features)'
    BY <1>2, <1>3, <1>4, <1>5 DEF PublishInv, Due
  <2>2. (\A x \in DOMAIN way \cap DOMAIN lastPublished : way[x] = lastPublished[x])'
    BY <1>5 DEF PublishInv, Reserved, Unmoved
  <2>3. ASSUME NEW x \in DOMAIN lastPublished' \ behind'
        PROVE  x \in Due' /\ Current(x)' = lastPublished'[x]
    <3>1. CASE Reserved(x)
      BY <3>1 DEF Reserved, Due, Current
    <3>2. CASE ~Reserved(x) /\ x # id
      <4>1. x \in DOMAIN lastPublished \ behind /\ lastPublished'[x] = lastPublished[x] /\ Unmoved(x)
        BY <1>2, <1>5, <2>3, <3>2
      <4>2. x \in Due /\ Current(x) = lastPublished[x]
        BY <1>2, <4>1 DEF PublishInv
      <4> QED
        BY <1>4, <3>2, <4>1, <4>2 DEF Unmoved, Due, Current
    <3>3. CASE ~Reserved(x) /\ x = id
      <4>1. x \in DOMAIN lastPublished /\ lastPublished'[x] = lastPublished[x] /\ Unmoved(x)
        BY <1>5, <2>3, <3>3
      <4>2. lastPublished[x] = value
        BY <1>2, <2>3, <3>3, <4>1
      <4>3. x \in DOMAIN way => way[x] = value
        BY <4>1, <4>2 DEF PublishInv
      <4> QED
        BY <1>4, <3>3, <4>1, <4>2, <4>3 DEF Unmoved, Due, Current
    <3> QED
      BY <3>1, <3>2, <3>3
  <2> QED
    BY <1>2, <2>1, <2>2, <2>3 DEF PublishInv
<1>7. /\ id \in DOMAIN announced
      /\ \A s \in siblings : s.feature \in Features => s.feature \in DOMAIN announced
  <2>1. PICK known : known = {s \in siblings : s.feature \in Features}
    OBVIOUS
  <2>2. DOMAIN ByFeature(known) = {s.feature : s \in known}
    BY FeatureFound
  <2>3. DOMAIN announced = DOMAIN ByFeature(known) \cup {id}
    BY <1>1, <2>1 DEF Put
  <2> QED
    BY <2>1, <2>2, <2>3
<1>8. /\ DOMAIN told' \subseteq DOMAIN told \ Feeding(DOMAIN announced)
      /\ \A w \in DOMAIN told' : told'[w] = told[w]
  BY <1>2 DEF Without
<1>9. ASSUME NEW w \in DOMAIN told', Steady' \/ ~Sure(w)
      PROVE  AgreesNext(w, told'[w])
  <2> SUFFICES ASSUME NEW s \in Convert(node, w, told[w]),
                      s.feature \in Features \ (behind' \ DOMAIN way')
               PROVE  s.feature \in Due' /\ Current(s.feature)' = s.state
    BY <1>8 DEF AgreesNext
  <2>1. w \in DOMAIN told /\ w \in node.values /\ w \notin Feeding(DOMAIN announced)
    BY <1>8 DEF AgreeInv
  <2>2. s.feature \in Targets(node, w)
    BY ConvertTargets
  <2>3. s.feature \notin DOMAIN announced
    BY <2>1, <2>2 DEF Feeding
  <2>4. s.feature # id /\ ~\E t \in siblings : t.feature = s.feature /\ s.feature \in Features
    BY <1>7, <2>3
  <2>5. Unmoved(s.feature)
    BY <1>5, <2>4
  <2>6. s.feature \notin Shaky
    BY <1>2, <2>4, <2>5 DEF Shaky, Unmoved
  <2>7. Steady \/ ~Sure(w)
    BY <1>2, <1>9 DEF Steady, Warm
  <2>8. s.feature \in Due /\ Current(s.feature) = s.state
    BY <2>1, <2>6, <2>7 DEF AgreeInv
  <2> QED
    BY <1>4, <2>4, <2>5, <2>8 DEF Unmoved, Due, Current
<1>10. DOMAIN told' \subseteq node.values
  BY <1>8 DEF AgreeInv
<1> QED
  BY <1>6, <1>9, <1>10, AgreeNext

LEMMA FlushAgrees ==
    ASSUME WorldInv, PublishInv, AgreeInv, UNCHANGED <<node, features>>, Flush
    PROVE  PublishInv' /\ AgreeInv'
<1> USE DEF WorldInv
<1>1. /\ way' = <<>> /\ DOMAIN way' = {}
      /\ UNCHANGED <<lastPublished, told, created, cache, publishing>>
      /\ shown' = IF created THEN Merge(way, shown) ELSE shown
      /\ behind' = IF created THEN behind \ DOMAIN way ELSE behind
  <2>1. DOMAIN <<>> = {}
    OBVIOUS
  <2> QED
    BY <2>1 DEF Flush, refresh
<1>2. Features' = Features /\ Due' = DOMAIN shown'
  BY <1>1 DEF Features, Due
<1>3. \A f : Current(f)' = shown'[f]
  BY <1>1 DEF Current
<1>4. CASE created
  <2>1. Due' = Due /\ \A f \in Due : Current(f)' = Current(f)
    BY <1>1, <1>2, <1>3, <1>4 DEF Due, Current, Merge
  <2>2. behind' = Shaky
    BY <1>1, <1>4 DEF Shaky
  <2>3. PublishInv'
    <3>1. (Due \cup DOMAIN lastPublished \cup behind \subseteq Features)'
      BY <1>1, <1>2, <2>1, <2>2 DEF PublishInv, Shaky
    <3>2. \A f \in DOMAIN lastPublished \ Shaky : f \in Due /\ Current(f) = lastPublished[f]
      BY <1>4 DEF PublishInv, Shaky, Due, Current
    <3> QED
      BY <1>1, <1>4, <2>1, <2>2, <3>1, <3>2 DEF PublishInv
  <2>4. ASSUME NEW w \in DOMAIN told, Steady' \/ ~Sure(w)
        PROVE  AgreesNext(w, told[w])
    <3>1. Steady \/ ~Sure(w)
      BY <1>1, <2>4 DEF Steady, Warm
    <3> QED
      BY <1>1, <2>1, <2>2, <3>1 DEF AgreeInv, AgreesNext
  <2> QED
    BY <1>1, <2>3, <2>4, AgreeNext DEF AgreeInv
<1>5. CASE ~created
  <2>1. DOMAIN told' = {}
    BY <1>1, <1>5 DEF PublishInv
  <2>2. AgreeInv'
    BY <2>1, AgreeNext
  <2>3. PublishInv'
    BY <1>1, <1>2, <1>5, <2>1 DEF PublishInv, Due
  <2> QED
    BY <2>2, <2>3
<1> QED
  BY <1>4, <1>5 DEF NodeInv

\* Less is known of what is shown; or nothing of it changes.
LEMMA StillAgrees ==
    ASSUME PublishInv, AgreeInv,
           UNCHANGED <<node, features, created, way, shown, told, behind>>, Steady' => Steady,
           \/ lastPublished' = lastPublished
           \/ \E f : lastPublished' = Without(lastPublished, {f})
    PROVE  PublishInv' /\ AgreeInv'
<1>1. /\ DOMAIN lastPublished' \subseteq DOMAIN lastPublished
      /\ \A f \in DOMAIN lastPublished' : lastPublished'[f] = lastPublished[f]
  BY DEF Without
<1>2. /\ Features' = Features /\ Due' = Due /\ Shaky' = Shaky
      /\ \A f : Current(f)' = Current(f)
  BY DEF Features, Due, Shaky, Current
<1>3. PublishInv'
  BY <1>1, <1>2 DEF PublishInv
<1>4. AgreeInv'
  BY <1>2 DEF AgreeInv, Sure
<1> QED
  BY <1>3, <1>4

\* An answer is pushed at once, or later.
LEMMA AnswerAgrees ==
    ASSUME WorldInv, PublishInv, AgreeInv, UNCHANGED <<node, features>>, OnNodes
    PROVE  PublishInv' /\ AgreeInv'
<1>1. PICK m : m = Head(channel)
  OBVIOUS
<1>2. m \in Elements(channel) /\ m.kind = "nodes" /\ cache' = m.raws
  BY <1>1, Taken DEF OnNodes, WorldInv, ChannelInv
<1>3. Held(m.raws)
  BY <1>2 DEF WorldInv, ChannelInv
<1>4. UNCHANGED <<created, shown, behind>>
  BY DEF OnNodes
<1>5. CASE publishing' = TRUE /\ UNCHANGED <<lastPublished, way, told>>
  <2>1. ~Steady'
    BY <1>5 DEF Steady
  <2> QED
    BY <1>4, <1>5, <2>1, StillAgrees
<1>6. CASE PublishKnownStates(m.raws)
  BY <1>3, <1>4, <1>6, TellingAgrees
<1> QED
  BY <1>2, <1>5, <1>6 DEF OnNodes

\* The handler that awaited pushes what is cached then.
LEMMA PublishedAgrees ==
    ASSUME WorldInv, PublishInv, AgreeInv, UNCHANGED <<node, features>>, Published
    PROVE  PublishInv' /\ AgreeInv'
<1>1. PICK raws : raws = cache
  OBVIOUS
<1>2. Held(raws)
  <2>1. DOMAIN <<>> = {}
    OBVIOUS
  <2> QED
    BY <1>1, <2>1 DEF Published, WorldInv, NodeInv, Held, Warm
<1>3. PublishKnownStates(raws) /\ UNCHANGED <<created, shown, behind>>
  BY <1>1 DEF Published
<1> QED
  BY <1>2, <1>3, TellingAgrees

LEMMA DeletionAgrees ==
    ASSUME WorldInv, PublishInv, AgreeInv, UNCHANGED <<node, features>>, OnDeviceDeleted
    PROVE  PublishInv' /\ AgreeInv'
<1>1. /\ created' = FALSE /\ DOMAIN shown' = {} /\ DOMAIN told' = {}
      /\ behind' = DOMAIN lastPublished /\ UNCHANGED <<way, lastPublished>>
  <2>1. DOMAIN <<>> = {}
    OBVIOUS
  <2> QED
    BY <2>1 DEF OnDeviceDeleted, integration
<1>2. PublishInv'
  BY <1>1 DEF PublishInv, Due, Features
<1>3. AgreeInv'
  BY <1>1, AgreeNext
<1> QED
  BY <1>2, <1>3

ShownInv == WorldInv /\ PublishInv /\ AgreeInv

LEMMA ShownKept == ShownInv /\ [Next]_vars => ShownInv'
<1> SUFFICES ASSUME WorldInv, PublishInv, AgreeInv, [Next]_vars
             PROVE  PublishInv' /\ AgreeInv'
  BY WorldKept DEF ShownInv
<1>1. UNCHANGED <<node, features>>
  BY Fixed
<1>2. CASE UNCHANGED vars
  BY <1>2, StillAgrees DEF vars, Steady, Warm
<1>3. ASSUME NEW f \in features, NEW value \in Amounts, SetValue(f, value)
      PROVE  PublishInv' /\ AgreeInv'
  BY <1>1, <1>3, CommandAgrees
<1>4. CASE Flush
  BY <1>1, <1>4, FlushAgrees
<1>5. ASSUME NEW f, Expire(f)
      PROVE  PublishInv' /\ AgreeInv'
  BY <1>5, StillAgrees DEF Expire, refresh, Steady, Warm
<1>6. CASE Obeys \/ Ignores \/ Answered
  BY <1>6, StillAgrees DEF Obeys, Ignores, Answered, integration, refresh, Steady, Warm
<1>7. ASSUME NEW v, NEW r, LocalChange(v, r)
      PROVE  PublishInv' /\ AgreeInv'
  BY <1>7, StillAgrees DEF LocalChange, integration, refresh, Steady, Warm
<1>8. CASE LinkDown \/ LinkUp
  BY <1>8, StillAgrees DEF LinkDown, LinkUp, integration, refresh, Steady, Warm
<1>9. CASE OnValueUpdated
  BY <1>1, <1>9, ReportAgrees
<1>10. CASE OnNodes
  BY <1>1, <1>10, AnswerAgrees
<1>11. CASE OnDeviceCreated
  BY <1>1, <1>11, CreationAgrees
<1>12. CASE OnDeviceDeleted
  BY <1>1, <1>12, DeletionAgrees
<1>13. CASE Published
  BY <1>1, <1>13, PublishedAgrees
<1> QED
  BY <1>2, <1>3, <1>4, <1>5, <1>6, <1>7, <1>8, <1>9, <1>10, <1>11, <1>12, <1>13 DEF Next

LEMMA ShownInvariant == Spec => []ShownInv
<1>1. Init => ShownInv
  BY WorldInit DEF ShownInv
<1> QED
  BY <1>1, ShownKept, PTL DEF Spec

(***************************************************************************)
(* The cache holds all the values of the node or none; nothing is pushed,  *)
(* reserved or shown but for features of the device                        *)
(* (StatePublisher.ts:102-136); what is told is of values of the node.     *)
(***************************************************************************)
THEOREM TypeCorrect == Spec => []TypeOK
<1>1. ShownInv => TypeOK
  <2> SUFFICES ASSUME NodeInv, ChannelInv, PublishInv, AgreeInv
               PROVE  TypeOK
    BY DEF ShownInv, WorldInv
  <2>1. DOMAIN <<>> = {}
    OBVIOUS
  <2>2. DOMAIN cache \in {{}, node.values}
    BY <2>1 DEF NodeInv, Held
  <2>3. DOMAIN channel = 1..Len(channel)
    BY DEF ChannelInv, IsSeq
  <2>4. \A i \in DOMAIN channel : channel[i].kind \in {"report", "nodes"}
    BY <2>3 DEF ChannelInv, Elements
  <2>5. {created, link, asked, publishing} \subseteq BOOLEAN
    BY DEF NodeInv
  <2> QED
    BY <2>2, <2>4, <2>5 DEF TypeOK, NodeInv, Held, PublishInv, Due, AgreeInv
<1> QED
  BY <1>1, ShownInvariant, PTL

LEMMA ShownFollows == ShownInv => ShownAgrees
<1> SUFFICES ASSUME WorldInv, AgreeInv, Quiet, NEW v \in DOMAIN told,
                    NEW s \in Convert(node, v, told[v]), s.feature \in Features \ behind
             PROVE  s.feature \in DOMAIN shown /\ shown[s.feature] = s.state
  BY DEF ShownInv, ShownAgrees
<1>1. DOMAIN way = {} /\ Elements(channel) = {}
  <2>1. DOMAIN <<>> = {}
    OBVIOUS
  <2> QED
    BY <2>1, EmptyQueue DEF Quiet
<1>2. Steady
  BY <1>1 DEF Quiet, WorldInv, WarmInv, Steady
<1> QED
  BY <1>1, <1>2 DEF AgreeInv, Shaky, Due, Current

(***************************************************************************)
(* Once all is delivered, Gladys shows of every value what was last        *)
(* processed of it, live or from an answer, as the whole node would have   *)
(* it (DeviceMapper.ts:115-177), whatever commands were dropped, values    *)
(* lost, caches cold, states repeated, devices deleted and created again;  *)
(* but for what Gladys shows behind the back of the publisher.             *)
(***************************************************************************)
THEOREM ShownCorrect == Spec => []ShownAgrees
BY ShownFollows, ShownInvariant, PTL

-----------------------------------------------------------------------------
(* What is hidden. *)

\* A relay that is hidden has a dimmer in its place, which is shown.
LEMMA RelayReplaced ==
    ASSUME NEW n \in Catalogue, NEW f \in Duplicates(Mapped(n))
    PROVE  \E g \in Discover(n) :
             /\ f.value.cc = "binary_switch" /\ g.value.cc = "multilevel_switch"
             /\ f.value.endpoint \in {g.value.endpoint, 0}
<1> DEFINE Dimmers == Endpoints(Mapped(n), "multilevel_switch")
<1>1. /\ f \in Mapped(n) /\ f.value.cc = "binary_switch"
      /\ \/ f.value.endpoint \in Dimmers
         \/ f.value.endpoint = 0 /\ Dimmers # {}
  BY DEF Duplicates
<1>2. PICK at \in Dimmers : f.value.endpoint \in {at, 0}
  <2>1. CASE f.value.endpoint \in Dimmers
    BY <2>1
  <2>2. CASE f.value.endpoint = 0 /\ Dimmers # {}
    BY <2>2
  <2> QED
    BY <1>1, <2>1, <2>2
<1>3. PICK g \in Mapped(n) : g.value.cc = "multilevel_switch" /\ g.value.endpoint = at
  BY <1>2 DEF Endpoints
<1>4. g \notin Duplicates(Mapped(n))
  BY <1>3 DEF Duplicates
<1>5. g \in Discover(n)
  BY <1>3, <1>4 DEF Discover, Redundant
<1> QED
  BY <1>1, <1>2, <1>3, <1>5

\* What a Fibaro motion sensor hides, another binary sensor that is shown tells.
LEMMA MotionTold ==
    ASSUME NEW n \in Catalogue,
           NEW f \in Redundant(Mapped(n) \ Duplicates(Mapped(n)), n.product)
    PROVE  \E g \in Discover(n) :
             /\ f.category = "motion-sensor" /\ g.category = "motion-sensor"
             /\ f.value.endpoint = 0
<1> DEFINE Kept == Mapped(n) \ Duplicates(Mapped(n))
           General(g) == g.value.cc = "binary_sensor" /\ g.value.property = "general_purpose"
<1>1. /\ f \in Mapped(n) /\ n.product = Fgms001
      /\ f.value.cc \in {"binary_sensor", "alarm_sensor"}
  BY DEF Redundant
<1>2. \A g \in Mapped(n) : g.value.cc = "binary_sensor" =>
        g \in Kept /\ g.category = "motion-sensor"
  BY <1>1, MotionAssumption DEF Duplicates
<1>3. \E g \in Mapped(n) : g.value.cc = "binary_sensor"
                           /\ (General(g) \/ ~\E h \in Kept : General(h))
  <2>1. CASE \E h \in Kept : General(h)
    BY <2>1
  <2>2. CASE ~\E h \in Kept : General(h)
    BY <1>1, <2>2, MotionAssumption
  <2> QED
    BY <2>1, <2>2
<1>4. PICK g \in Mapped(n) : g.value.cc = "binary_sensor"
                             /\ (General(g) \/ ~\E h \in Kept : General(h))
  BY <1>3
<1>5. g \notin Redundant(Kept, n.product)
  BY <1>4 DEF Redundant
<1>6. g \in Discover(n)
  BY <1>2, <1>4, <1>5 DEF Discover
<1> QED
  BY <1>1, <1>2, <1>4, <1>6, MotionAssumption

(***************************************************************************)
(* What applyQuirks() hides (quirks.ts:32-84) leaves no half of a device   *)
(* without its control, and no motion sensor without one that tells the    *)
(* motion, on whatever endpoints dimmers and relays are, and whatever the  *)
(* battery derives.                                                        *)
(***************************************************************************)
THEOREM HalvesControlled == Spec => []EveryHalfControlled
<1>1. NodeInv => EveryHalfControlled
  <2> SUFFICES ASSUME NodeInv, NEW f \in Mapped(node) \ features
               PROVE  \E g \in features :
                        /\ \/ f.value.cc = "binary_switch" /\ g.value.cc = "multilevel_switch"
                           \/ f.category = "motion-sensor" /\ g.category = "motion-sensor"
                        /\ \/ f.value.endpoint \in {g.value.endpoint, 0}
    BY DEF EveryHalfControlled
  <2>1. node \in Catalogue /\ features = Discover(node)
    BY DEF NodeInv
  <2>2. CASE f \in Duplicates(Mapped(node))
    BY <2>1, <2>2, RelayReplaced
  <2>3. CASE f \in Redundant(Mapped(node) \ Duplicates(Mapped(node)), node.product)
    BY <2>1, <2>3, MotionTold
  <2> QED
    BY <2>1, <2>2, <2>3 DEF Discover
<1>2. ShownInv => NodeInv
  BY DEF ShownInv, WorldInv
<1> QED
  BY <1>1, <1>2, ShownInvariant, PTL

-----------------------------------------------------------------------------
(* Commands. *)

(***************************************************************************)
(* resolveCommand() (commandClasses/index.ts:138-185) finds, by the id and *)
(* the category of a feature alone, the variant that exposes it: whatever  *)
(* maps other products and device classes have, and however the segments   *)
(* that trail the id may be read.  Read-only features lead nowhere, and no *)
(* two features of a device share an id.                                   *)
(***************************************************************************)
THEOREM CommandInverts == Spec => []CommandInvertsDiscovery
<1>1. NodeInv => CommandInvertsDiscovery
  <2> SUFFICES ASSUME NodeInv, NEW f \in features
               PROVE  /\ Resolved(f) =
                           IF f.name \in Commandable(Variant(node, f.value))
                             THEN [variant |-> Variant(node, f.value), key |-> f.value.key,
                                   name |-> f.name]
                             ELSE NoCommand
                      /\ \A g \in features : f.id = g.id => f = g
    BY DEF CommandInvertsDiscovery
  <2>1. IsNode(node) /\ features \subseteq Mapped(node)
    BY CatalogueAssumption, DiscoverMapped DEF NodeInv
  <2>2. Resolved(f) = ResolveCommand(Parse(f.id).cc, Parse(f.id).property,
                                     Parse(f.id).trailing, f.category)
    BY DEF Resolved
  <2> QED
    BY <2>1, <2>2, Inverts, Unambiguous
<1>2. ShownInv => NodeInv
  BY DEF ShownInv, WorldInv
<1> QED
  BY <1>1, <1>2, ShownInvariant, PTL

-----------------------------------------------------------------------------
(* What the last command announced. *)

Targeted == UNION {Targets(node, v) : v \in node.values}

\* What Gladys will show of a feature.
Shows(f, state) == f \in Due /\ Current(f) = state

\* A value that holds this feeds all the features of a promise as announced,
\* but for the one commanded when no value feeds it.
Fulfils(n, p, v, held) ==
    /\ v \in n.values
    /\ \A w \in n.values \ {v} : p.of \notin Targets(n, w)
    /\ \A f \in DOMAIN p.states :
         \/ f = p.of /\ f \notin Targets(n, v)
         \/ Feeds(n, v, held, f, p.states[f])

\* Messages about a value, and what they say of it.
About(m, v) == m.kind = "nodes" \/ m.value = v
Says(m, v) == IF m.kind = "nodes" THEN m.raws[v] ELSE m.raw
AllTell(q, v, held) == \A m \in Elements(q) : About(m, v) => Says(m, v) = held
LastTells(q, v, held) ==
    \E i \in 1..Len(q) :
        /\ About(q[i], v)
        /\ \A j \in i..Len(q) : About(q[j], v) => Says(q[j], v) = held

\* What a value holds was processed.
Done(v) ==
    /\ promise.of \in Targets(node, v) => Shows(promise.of, promise.states[promise.of])
    /\ raw[v] # Null => v \in DOMAIN told /\ told[v] = raw[v]

\* Commands travel on a link; what is pushed is of features that values feed.
SentInv ==
    /\ promise = [of |-> promise.of, states |-> promise.states, kept |-> promise.kept]
    /\ wire # <<>> => link
    /\ DOMAIN way \cup DOMAIN lastPublished \subseteq Targeted

Promised == DOMAIN promise.states # {}

OfDevice ==
    created /\ promise.of \in DOMAIN promise.states /\ DOMAIN promise.states \subseteq Features

\* The last command on its way will do as announced.
Coming == wire # <<>> => \A o \in Outcomes(wire[Len(wire)]) : Fulfils(node, promise, o[1], o[2])

\* A report that would repeat what is announced finds it shown; and it is shown
\* when no report comes.
Believed ==
    /\ promise.of \in DOMAIN lastPublished
       /\ lastPublished[promise.of] = promise.states[promise.of] =>
         Shows(promise.of, promise.states[promise.of])
    /\ promise.of \notin Targeted => Shows(promise.of, promise.states[promise.of])

\* So it is, or will be once the handler that awaits pushes what is cached.
Processed(v) ==
    IF publishing THEN cache[v] = raw[v] \/ (cache[v] = Null /\ Done(v)) ELSE Done(v)

\* The device did as told, and its report is on its way or was processed, maybe
\* during an await; else an answer is asked.
Followed(v) ==
    /\ Fulfils(node, promise, v, raw[v])
    /\ link /\ ~asked =>
         \/ LastTells(channel, v, raw[v])
         \/ AllTell(channel, v, raw[v]) /\ (v \in overtaken \/ Processed(v))

PromiseInv ==
    Promised =>
        /\ OfDevice /\ Coming /\ Believed
        /\ promise.kept => \E v \in node.values : Followed(v)

LEMMA TellsAppended ==
    ASSUME NEW q, IsSeq(q), NEW m, NEW v, About(m, v)
    PROVE  LastTells(Append(q, m), v, Says(m, v))
<1>1. PICK S : q \in Seq(S)
  BY DEF IsSeq
<1> DEFINE T == S \cup {m}
<1>2. q \in Seq(T) /\ m \in T
  <2>1. Len(q) \in Nat /\ \A i \in 1..Len(q) : q[i] \in T
    BY <1>1
  <2> QED
    BY <1>1, <2>1
<1> HIDE DEF T
<1>3. PICK r : r = Append(q, m)
  OBVIOUS
<1>4. /\ Len(r) = Len(q) + 1 /\ Len(q) \in Nat /\ r[Len(q) + 1] = m
  BY <1>2, <1>3
<1>5. PICK last \in 1..Len(r) : last = Len(r) /\ r[last] = m
  BY <1>4
<1>6. \A j \in last..Len(r) : r[j] = m
  BY <1>4, <1>5
<1> QED
  BY <1>3, <1>5, <1>6 DEF LastTells

LEMMA TellsTaken ==
    ASSUME NEW q, IsSeq(q), q # <<>>, NEW v, NEW held, LastTells(q, v, held)
    PROVE  \/ LastTells(Tail(q), v, held)
           \/ About(Head(q), v) /\ Says(Head(q), v) = held /\ AllTell(Tail(q), v, held)
<1>1. PICK S : q \in Seq(S)
  BY DEF IsSeq
<1>2. PICK r : r = Tail(q)
  OBVIOUS
<1>3. r \in Seq(S) /\ Len(r) = Len(q) - 1 /\ Len(q) \in Nat /\ Len(q) >= 1 /\ Head(q) = q[1]
  BY <1>1, <1>2
<1>4. \A i \in 1..Len(r) : r[i] = q[i + 1]
  BY <1>1, <1>2, <1>3
<1>5. PICK i \in 1..Len(q) : /\ About(q[i], v)
                             /\ \A j \in i..Len(q) : About(q[j], v) => Says(q[j], v) = held
  BY DEF LastTells
<1>6. CASE i = 1
  <2>1. About(Head(q), v) /\ Says(Head(q), v) = held
    BY <1>3, <1>5, <1>6
  <2>2. \A j \in 1..Len(r) : About(r[j], v) => Says(r[j], v) = held
    <3> SUFFICES ASSUME NEW j \in 1..Len(r), About(r[j], v) PROVE Says(r[j], v) = held
      OBVIOUS
    <3>1. j + 1 \in i..Len(q) /\ r[j] = q[j + 1]
      BY <1>3, <1>4, <1>6
    <3> QED
      BY <1>5, <3>1
  <2> QED
    BY <1>2, <2>1, <2>2 DEF AllTell, Elements
<1>7. CASE i # 1
  <2>1. PICK k \in 1..Len(r) : k + 1 = i
    <3>1. i - 1 \in 1..Len(r) /\ (i - 1) + 1 = i
      BY <1>3, <1>7
    <3> QED
      BY <3>1
  <2>2. About(r[k], v)
    BY <1>4, <1>5, <2>1
  <2>3. ASSUME NEW j \in k..Len(r), About(r[j], v) PROVE Says(r[j], v) = held
    <3>1. j \in 1..Len(r) /\ j + 1 \in i..Len(q)
      BY <1>3, <2>1
    <3> QED
      BY <1>4, <1>5, <2>3, <3>1
  <2> QED
    BY <1>2, <2>1, <2>2, <2>3 DEF LastTells
<1> QED
  BY <1>6, <1>7

\* Pushing what values feed.
LEMMA PushBelieved ==
    ASSUME NEW states, NEW known, Push(states, known), UNCHANGED <<node, shown, promise>>,
           \A s \in states : s.feature \in Targeted,
           DOMAIN way \cup DOMAIN lastPublished \subseteq Targeted
    PROVE  /\ (DOMAIN way \cup DOMAIN lastPublished \subseteq Targeted)'
           /\ Believed => Believed'
<1>1. /\ DOMAIN lastPublished' \subseteq DOMAIN lastPublished \cup {s.feature : s \in states}
      /\ DOMAIN way' \subseteq DOMAIN way \cup {s.feature : s \in states}
  BY Pushed DEF Reserved, Unmoved
<1>2. Targeted' = Targeted
  BY DEF Targeted
<1>3. (DOMAIN way \cup DOMAIN lastPublished \subseteq Targeted)'
  BY <1>1, <1>2
<1>4. ASSUME Believed PROVE Believed'
  <2>1. PICK of, said : of = promise.of /\ said = promise.states[promise.of]
    OBVIOUS
  <2>2. \/ Reserved(of) /\ \E s \in states : s.feature = of
        \/ /\ Unmoved(of)
           /\ of \in DOMAIN lastPublished' <=> of \in DOMAIN lastPublished
           /\ of \in DOMAIN lastPublished => lastPublished'[of] = lastPublished[of]
    BY Pushed
  <2>3. ASSUME of \in DOMAIN lastPublished', lastPublished'[of] = said
        PROVE  of \in Due' /\ Current(of)' = said
    BY <1>4, <2>1, <2>2, <2>3 DEF Believed, Shows, Reserved, Unmoved, Due, Current
  <2>4. ASSUME of \notin Targeted
        PROVE  of \in Due' /\ Current(of)' = said
    <3>1. Unmoved(of)
      BY <2>2, <2>4
    <3>2. of \in Due /\ Current(of) = said
      BY <1>4, <2>1, <2>4 DEF Believed, Shows
    <3> QED
      BY <3>1, <3>2 DEF Unmoved, Due, Current
  <2> QED
    BY <1>2, <2>1, <2>3, <2>4 DEF Believed, Shows, Current
<1> QED
  BY <1>3, <1>4

\* What a value is found to hold fulfils the promise.
LEMMA PushDone ==
    ASSUME NEW states, Push(states, KnownFeatures), UNCHANGED <<node, shown, promise>>,
           \A s, t \in states : s.feature = t.feature => s.state = t.state,
           OfDevice, Believed, NEW v, NEW held, Fulfils(node, promise, v, held),
           held # Null => Convert(node, v, held) \subseteq states,
           promise.of \in Targets(node, v)
    PROVE  Shows(promise.of, promise.states[promise.of])'
<1>1. PICK of, said : of = promise.of /\ said = promise.states[promise.of]
  OBVIOUS
<1>2. Feeds(node, v, held, of, said) /\ of \in Features /\ KnownFeatures = Features
  BY <1>1 DEF Fulfils, OfDevice, KnownFeatures
<1>3. PICK s \in states : s.feature = of /\ s.state = said
  BY <1>2 DEF Feeds
<1>4. \/ Reserved(of) /\ \E t \in states : t.feature = of /\ way'[of] = t.state
      \/ Unmoved(of) /\ of \in DOMAIN lastPublished /\ lastPublished[of] = said
  BY <1>2, <1>3, Pushed
<1>5. of \in Due' /\ Current(of)' = said
  <2>1. CASE Reserved(of) /\ \E t \in states : t.feature = of /\ way'[of] = t.state
    <3>1. of \in DOMAIN way' /\ way'[of] = said
      BY <1>3, <2>1 DEF Reserved
    <3> QED
      BY <3>1 DEF Due, Current
  <2>2. CASE Unmoved(of) /\ of \in DOMAIN lastPublished /\ lastPublished[of] = said
    <3>1. of \in Due /\ Current(of) = said
      BY <1>1, <2>2 DEF Believed, Shows
    <3> QED
      BY <2>2, <3>1 DEF Unmoved, Due, Current
  <2> QED
    BY <1>4, <2>1, <2>2
<1> QED
  BY <1>1, <1>5 DEF Shows, Current

\* What a value holds is pushed.
LEMMA PushedDone ==
    ASSUME NEW states, Push(states, KnownFeatures), UNCHANGED <<node, raw, shown, promise>>,
           \A s, t \in states : s.feature = t.feature => s.state = t.state,
           OfDevice, Believed, NEW v, Fulfils(node, promise, v, raw[v]),
           raw[v] # Null => /\ Convert(node, v, raw[v]) \subseteq states
                            /\ v \in DOMAIN told' /\ told'[v] = raw[v]
    PROVE  Done(v)'
<1>1. promise.of \in Targets(node, v) => Shows(promise.of, promise.states[promise.of])'
  <2> SUFFICES ASSUME promise.of \in Targets(node, v)
               PROVE  Shows(promise.of, promise.states[promise.of])'
    OBVIOUS
  <2>1. PICK held : held = raw[v]
    OBVIOUS
  <2>2. Fulfils(node, promise, v, held) /\ (held # Null => Convert(node, v, held) \subseteq states)
    BY <2>1
  <2> QED
    BY <2>2, PushDone
<1> QED
  BY <1>1 DEF Done

\* States of other values are pushed.
LEMMA OthersDone ==
    ASSUME NEW states, NEW known, Push(states, known), UNCHANGED <<node, raw, shown, promise>>,
           NEW v, Fulfils(node, promise, v, raw[v]), Done(v),
           v \in DOMAIN told => v \in DOMAIN told' /\ told'[v] = told[v],
           \A s \in states : \E w \in node.values \ {v} : s.feature \in Targets(node, w)
    PROVE  Done(v)'
<1>1. promise.of \in Targets(node, v) => Shows(promise.of, promise.states[promise.of])'
  <2> SUFFICES ASSUME promise.of \in Targets(node, v)
               PROVE  Shows(promise.of, promise.states[promise.of])'
    OBVIOUS
  <2>1. PICK of, said : of = promise.of /\ said = promise.states[promise.of]
    OBVIOUS
  <2>2. \A s \in states : s.feature # of
    BY <2>1 DEF Fulfils
  <2>3. /\ of \in Due' <=> of \in Due
        /\ of \in Due => Current(of)' = Current(of)
    BY <2>2, OthersCurrent
  <2>4. of \in Due /\ Current(of) = said
    BY <2>1 DEF Done, Shows
  <2> QED
    BY <2>1, <2>3, <2>4 DEF Shows, Current
<1>2. raw[v] # Null => v \in DOMAIN told' /\ told'[v] = raw[v]
  BY DEF Done
<1> QED
  BY <1>1, <1>2 DEF Done

\* The promise stands when what the device did is still followed.
LEMMA PromiseNext ==
    ASSUME SentInv, PromiseInv, UNCHANGED <<node, features, created, wire, promise>>,
           wire # <<>> => link',
           (DOMAIN way \cup DOMAIN lastPublished \subseteq Targeted)',
           OfDevice /\ Believed => Believed',
           \A v \in node.values : OfDevice /\ Believed /\ Followed(v) => Followed(v)'
    PROVE  SentInv' /\ PromiseInv'
<1>1. SentInv'
  BY DEF SentInv
<1>2. ASSUME Promised' PROVE OfDevice' /\ Coming' /\ Believed'
  <2>1. Promised /\ OfDevice /\ Coming /\ Believed
    BY <1>2 DEF PromiseInv, Promised
  <2> QED
    BY <2>1 DEF OfDevice, Coming, Features
<1>3. ASSUME Promised', promise'.kept PROVE \E v \in node'.values : Followed(v)'
  BY <1>3 DEF PromiseInv, Promised
<1> QED
  BY <1>1, <1>2, <1>3 DEF PromiseInv

\* Nothing that counts changes; but less may be believed to be shown.
LEMMA PromiseStill ==
    ASSUME SentInv, PromiseInv,
           UNCHANGED <<node, features, raw, created, link, asked, channel, wire, promise, told>>,
           UNCHANGED <<cache, publishing, overtaken>>,
           DOMAIN way' \subseteq DOMAIN way,
           DOMAIN lastPublished' \subseteq DOMAIN lastPublished,
           \A f \in DOMAIN lastPublished' : lastPublished'[f] = lastPublished[f],
           created => Due' = Due /\ \A f \in Due : Current(f)' = Current(f)
    PROVE  SentInv' /\ PromiseInv'
<1>1. Targeted' = Targeted
  BY DEF Targeted
<1>2. (DOMAIN way \cup DOMAIN lastPublished \subseteq Targeted)'
  BY <1>1 DEF SentInv
<1>3. OfDevice /\ Believed => Believed'
  BY <1>1 DEF Believed, Shows, Current, OfDevice
<1>4. ASSUME NEW v \in node.values, OfDevice, Followed(v) PROVE Followed(v)'
  <2>1. Done(v) => Done(v)'
    BY <1>4 DEF Done, Shows, Current, OfDevice
  <2> QED
    BY <1>4, <2>1 DEF Followed, Processed
<1> QED
  BY <1>2, <1>3, <1>4, PromiseNext DEF SentInv

\* The last of a queue.
LEMMA LastAppended ==
    ASSUME NEW q, IsSeq(q), NEW m, NEW r, r = Append(q, m)
    PROVE  r[Len(r)] = m
<1>1. PICK S : q \in Seq(S)
  BY DEF IsSeq
<1> DEFINE T == S \cup {m}
<1>2. q \in Seq(T) /\ m \in T
  <2>1. Len(q) \in Nat /\ \A i \in 1..Len(q) : q[i] \in T
    BY <1>1
  <2> QED
    BY <1>1, <2>1
<1> HIDE DEF T
<1> QED
  BY <1>2

LEMMA LastTaken ==
    ASSUME NEW q, IsSeq(q), q # <<>>, NEW r, r = Tail(q)
    PROVE  q[Len(q)] = IF r = <<>> THEN Head(q) ELSE r[Len(r)]
<1>1. PICK S : q \in Seq(S)
  BY DEF IsSeq
<1>2. r \in Seq(S) /\ Len(r) = Len(q) - 1 /\ Len(q) \in Nat /\ Len(q) >= 1 /\ Head(q) = q[1]
  BY <1>1
<1>3. \A i \in 1..Len(r) : r[i] = q[i + 1]
  BY <1>1, <1>2
<1>4. CASE r = <<>>
  <2>1. Len(q) = 1
    BY <1>2, <1>4
  <2> QED
    BY <1>2, <1>4, <2>1
<1>5. CASE r # <<>>
  <2>1. Len(r) \in 1..Len(r) /\ Len(r) + 1 = Len(q)
    BY <1>2, <1>5
  <2> QED
    BY <1>3, <1>5, <2>1
<1> QED
  BY <1>4, <1>5

\* A command: its feature and siblings are announced.
LEMMA CommandPromises ==
    ASSUME WorldInv, PublishInv, SentInv, UNCHANGED <<node, features>>,
           NEW f \in features, NEW value \in Amounts, SetValue(f, value)
    PROVE  SentInv' /\ PromiseInv'
<1> USE DEF WorldInv
<1>1. PICK id, siblings, announced, c :
        /\ id = f.id
        /\ siblings = SiblingStates(Parse(f.id), Resolved(f).key,
                                    Build(Resolved(f).variant, Resolved(f).name, value).updates)
        /\ announced = Put(ByFeature({s \in siblings : s.feature \in Features}), id, value)
        /\ c = Sent(f, value)
  OBVIOUS
<1>2. /\ created /\ Asks(node, f, value)
      /\ wire' = IF link THEN Append(wire, c) ELSE wire
      /\ Push(siblings, KnownFeatures) /\ shown' = Put(shown, id, value)
      /\ promise' = [of |-> id, states |-> announced, kept |-> FALSE]
      /\ UNCHANGED <<created, link>>
  BY <1>1 DEF SetValue
<1>3. Foretells(node, id, value, siblings, c)
  <2>1. node \in Catalogue /\ f \in Discover(node)
    BY DEF NodeInv
  <2> QED
    BY <1>1, <1>2, <2>1, CommandForetells
<1>4. KnownFeatures = Features /\ Features' = Features /\ id \in Features
  BY <1>1, <1>2 DEF KnownFeatures, Features
<1>5. /\ DOMAIN announced \subseteq Features /\ id \in DOMAIN announced /\ announced[id] = value
      /\ \A g \in DOMAIN announced \ {id} :
           \E s \in siblings : s.feature = g /\ announced[g] = s.state
  <2>1. PICK known : known = {s \in siblings : s.feature \in Features}
    OBVIOUS
  <2>2. PICK states : states = ByFeature(known)
    OBVIOUS
  <2>3. /\ DOMAIN states = {s.feature : s \in known}
        /\ \A g \in DOMAIN states : \E s \in known : s.feature = g /\ states[g] = s.state
    BY <2>2, FeatureFound
  <2>4. /\ DOMAIN announced = DOMAIN states \cup {id} /\ announced[id] = value
        /\ \A g \in DOMAIN states : g # id => announced[g] = states[g]
    <3>1. announced = Put(states, id, value)
      BY <1>1, <2>1, <2>2
    <3> QED
      BY <3>1 DEF Put
  <2> QED
    BY <1>4, <2>1, <2>3, <2>4
<1>6. \A s \in siblings : s.feature \in Targeted
  <2> SUFFICES ASSUME NEW s \in siblings PROVE s.feature \in Targeted
    OBVIOUS
  <2>1. \E o : o \in Outcomes(c)
    BY <1>3 DEF Foretells
  <2>2. PICK o \in Outcomes(c) : o[1] \in node.values /\ Feeds(node, o[1], o[2], s.feature, s.state)
    BY <1>3, <2>1 DEF Foretells
  <2>3. s.feature \in Targets(node, o[1])
    BY <2>2, ConvertTargets DEF Feeds
  <2> QED
    BY <2>2, <2>3 DEF Targeted
<1>7. /\ promise'.of = id /\ promise'.states = announced /\ promise'.kept = FALSE
      /\ promise' = [of |-> promise'.of, states |-> promise'.states, kept |-> promise'.kept]
  BY <1>2
<1>8. Targeted' = Targeted
  BY DEF Targeted
<1>9. /\ DOMAIN lastPublished' \subseteq DOMAIN lastPublished \cup {s.feature : s \in siblings}
      /\ DOMAIN way' \subseteq DOMAIN way \cup {s.feature : s \in siblings}
  BY <1>2, Pushed DEF Reserved, Unmoved
<1>10. SentInv'
  <2>1. (DOMAIN way \cup DOMAIN lastPublished \subseteq Targeted)'
    BY <1>6, <1>8, <1>9 DEF SentInv
  <2>2. wire' # <<>> => link'
    BY <1>2 DEF SentInv
  <2> QED
    BY <1>7, <2>1, <2>2 DEF SentInv
<1>11. OfDevice'
  BY <1>2, <1>4, <1>5, <1>7 DEF OfDevice
<1>12. ASSUME NEW o \in Outcomes(c) PROVE Fulfils(node, promise', o[1], o[2])
  <2>1. ASSUME NEW g \in DOMAIN announced \ {id}
        PROVE  Feeds(node, o[1], o[2], g, announced[g])
    <3>1. PICK s \in siblings : s.feature = g /\ announced[g] = s.state
      BY <1>5
    <3> QED
      BY <1>3, <3>1 DEF Foretells
  <2>2. /\ o[1] \in node.values /\ \A w \in node.values \ {o[1]} : id \notin Targets(node, w)
        /\ id \notin Targets(node, o[1]) \/ Feeds(node, o[1], o[2], id, announced[id])
    BY <1>3, <1>5 DEF Foretells
  <2> QED
    BY <1>7, <2>1, <2>2 DEF Fulfils
<1>13. Coming'
  <2>1. CASE link
    <3>1. wire'[Len(wire')] = c
      BY <1>2, <2>1, LastAppended DEF WireInv
    <3> QED
      BY <1>12, <3>1 DEF Coming
  <2>2. CASE ~link
    <3>1. wire' = <<>>
      BY <1>2, <2>2 DEF SentInv
    <3> QED
      BY <3>1 DEF Coming
  <2> QED
    BY <2>1, <2>2
<1>14. Believed'
  <2>1. /\ Unmoved(id)
        /\ id \in DOMAIN lastPublished' <=> id \in DOMAIN lastPublished
        /\ id \in DOMAIN lastPublished => lastPublished'[id] = lastPublished[id]
    <3>1. \A s \in siblings : s.feature # id
      BY <1>3 DEF Foretells
    <3> QED
      BY <1>2, <3>1, Pushed
  <2>2. id \in DOMAIN shown' /\ shown'[id] = value
    BY <1>2 DEF Put
  <2>3. (id \in DOMAIN way => way[id] = value) => Current(id)' = value
    BY <2>1, <2>2 DEF Unmoved, Current
  <2>4. id \in Due'
    BY <2>2 DEF Due
  <2>5. id \in DOMAIN lastPublished' /\ lastPublished'[id] = value => Current(id)' = value
    BY <2>1, <2>3 DEF PublishInv
  <2>6. id \notin Targeted' => Current(id)' = value
    BY <1>8, <2>3 DEF SentInv
  <2> QED
    BY <1>5, <1>7, <2>4, <2>5, <2>6 DEF Believed, Shows, Current
<1> QED
  BY <1>7, <1>10, <1>11, <1>13, <1>14 DEF PromiseInv

\* The device does as told.
LEMMA ObeyedKept ==
    ASSUME WorldInv, SentInv, PromiseInv, UNCHANGED <<node, features>>, Obeys
    PROVE  SentInv' /\ PromiseInv'
<1> USE DEF WorldInv
<1>1. PICK c : c = Head(wire)
  OBVIOUS
<1>2. PICK o \in Outcomes(c) : Becomes(o[1], o[2])
  BY <1>1 DEF Obeys
<1>3. /\ wire # <<>> /\ wire' = Tail(wire)
      /\ promise' = [promise EXCEPT !.kept = (wire' = <<>>)]
      /\ UNCHANGED <<lastPublished, way, created, link, shown, told>>
  BY DEF Obeys, integration
<1>4. /\ promise'.of = promise.of /\ promise'.states = promise.states
      /\ promise'.kept <=> wire' = <<>>
      /\ promise' = [of |-> promise'.of, states |-> promise'.states, kept |-> promise'.kept]
  BY <1>3 DEF SentInv
<1>5. link /\ Targeted' = Targeted
  BY <1>3 DEF SentInv, Targeted
<1>6. SentInv'
  BY <1>3, <1>4, <1>5 DEF SentInv
<1>7. SUFFICES ASSUME Promised' PROVE PromiseInv'
  BY <1>6 DEF PromiseInv
<1>8. Promised /\ OfDevice /\ Coming /\ Believed
  BY <1>4, <1>7 DEF Promised, PromiseInv
<1>9. OfDevice' /\ Believed'
  BY <1>3, <1>4, <1>5, <1>8 DEF OfDevice, Believed, Shows, Due, Current, Features
<1>10. wire[Len(wire)] = IF wire' = <<>> THEN c ELSE wire'[Len(wire')]
  BY <1>1, <1>3, LastTaken DEF WireInv
<1>11. \A v, held : Fulfils(node, promise, v, held) => Fulfils(node, promise', v, held)
  BY <1>4 DEF Fulfils
<1>12. Coming'
  BY <1>3, <1>8, <1>10, <1>11 DEF Coming
<1>13. ASSUME wire' = <<>> PROVE \E v \in node'.values : Followed(v)'
  <2>1. PICK v, held : v = o[1] /\ held = o[2]
    OBVIOUS
  <2>2. Fulfils(node, promise, v, held)
    BY <1>2, <1>3, <1>8, <1>10, <1>13, <2>1 DEF Coming
  <2>3. v \in node.values
    BY <2>2 DEF Fulfils
  <2>4. raw'[v] = held
    BY <1>2, <2>1, <2>3 DEF Becomes, NodeInv, Held
  <2>5. PICK m : m = [kind |-> "report", value |-> v, raw |-> held]
    OBVIOUS
  <2>6. channel' = Append(channel, m)
    BY <1>2, <1>5, <2>1, <2>5 DEF Becomes, Report
  <2>7. About(m, v) /\ Says(m, v) = held
    BY <2>5 DEF About, Says
  <2>8. LastTells(channel', v, held)
    <3>1. LastTells(Append(channel, m), v, Says(m, v))
      BY <2>7, TellsAppended DEF ChannelInv
    <3> QED
      BY <2>6, <2>7, <3>1
  <2>9. Followed(v)'
    BY <1>11, <2>2, <2>4, <2>8 DEF Followed
  <2> QED
    BY <2>3, <2>9
<1> QED
  BY <1>4, <1>9, <1>12, <1>13 DEF PromiseInv

\* The promise is given up.
LEMMA PromiseForgotten ==
    ASSUME SentInv, promise' = NoPromise, UNCHANGED <<node, way, lastPublished>>,
           wire' # <<>> => link'
    PROVE  SentInv' /\ PromiseInv'
<1>1. DOMAIN promise'.states = {}
  <2>1. DOMAIN <<>> = {}
    OBVIOUS
  <2> QED
    BY <2>1 DEF NoPromise
<1>2. Targeted' = Targeted
  BY DEF Targeted
<1>3. promise' = [of |-> promise'.of, states |-> promise'.states, kept |-> promise'.kept]
  BY DEF NoPromise
<1> QED
  BY <1>1, <1>2, <1>3 DEF SentInv, PromiseInv, Promised

\* The link goes and comes, an answer leaves: the answer says what is held.
LEMMA LinkPromise ==
    ASSUME WorldInv, SentInv, PromiseInv,
           UNCHANGED <<node, features, raw, lastPublished, way, created, shown, told, promise, wire>>,
           \/ wire = <<>> /\ link' = FALSE
           \/ link' = TRUE /\ asked' = TRUE
           \/ link' = link /\ channel' = Append(channel, [kind |-> "nodes", raws |-> raw])
    PROVE  SentInv' /\ PromiseInv'
<1>1. Targeted' = Targeted
  BY DEF Targeted
<1>2. (DOMAIN way \cup DOMAIN lastPublished \subseteq Targeted)'
  BY <1>1 DEF SentInv
<1>3. OfDevice /\ Believed => Believed'
  BY <1>1 DEF Believed, Shows, Due, Current
<1>4. ASSUME NEW v \in node.values, Followed(v) PROVE Followed(v)'
  <2>1. Fulfils(node, promise, v, raw[v])'
    BY <1>4 DEF Followed
  <2>2. ASSUME link' = link, channel' = Append(channel, [kind |-> "nodes", raws |-> raw])
        PROVE  LastTells(channel', v, raw'[v])
    <3>1. PICK m : m = [kind |-> "nodes", raws |-> raw]
      OBVIOUS
    <3>2. About(m, v) /\ Says(m, v) = raw[v]
      BY <3>1 DEF About, Says
    <3>3. LastTells(Append(channel, m), v, Says(m, v))
      BY <3>2, TellsAppended DEF WorldInv, ChannelInv
    <3> QED
      BY <2>2, <3>1, <3>2, <3>3
  <2> QED
    BY <2>1, <2>2 DEF Followed
<1>5. wire # <<>> => link'
  BY DEF SentInv
<1> QED
  BY <1>2, <1>3, <1>4, <1>5, PromiseNext

\* A message is read: it says what the value holds, or something else that more
\* messages will correct, or nothing of it.
LEMMA MessageFollowed ==
    ASSUME ChannelInv, channel # <<>>, channel' = Tail(channel), NEW m, m = Head(channel),
           UNCHANGED <<node, raw, link, asked, promise>>, NEW v, Followed(v),
           About(m, v) /\ Says(m, v) = raw[v] => v \in overtaken' \/ Processed(v)',
           ~About(m, v) /\ (v \in overtaken \/ Processed(v)) => v \in overtaken' \/ Processed(v)'
    PROVE  Followed(v)'
<1>1. PICK held : held = raw[v]
  OBVIOUS
<1>2. IsSeq(channel) /\ Elements(channel) = Elements(channel') \cup {m}
  BY Taken DEF ChannelInv
<1>3. ASSUME link, ~asked
      PROVE  \/ LastTells(channel', v, held)
             \/ AllTell(channel', v, held) /\ (v \in overtaken' \/ Processed(v)')
  <2>1. CASE LastTells(channel, v, held)
    <3>1. \/ LastTells(channel', v, held)
          \/ About(m, v) /\ Says(m, v) = held /\ AllTell(channel', v, held)
      BY <1>2, <2>1, TellsTaken
    <3> QED
      BY <1>1, <3>1
  <2>2. CASE AllTell(channel, v, held) /\ (v \in overtaken \/ Processed(v))
    <3>1. AllTell(channel', v, held) /\ (About(m, v) => Says(m, v) = held)
      BY <1>2, <2>2 DEF AllTell
    <3> QED
      BY <1>1, <2>2, <3>1
  <2> QED
    BY <1>1, <1>3, <2>1, <2>2 DEF Followed
<1> QED
  BY <1>1, <1>3 DEF Followed

LEMMA CachedTargets ==
    ASSUME NodeInv, NEW v, NEW held
    PROVE  \A s \in Convert(Cached, v, held) : s.feature \in Targets(node, v)
<1>1. node \in Catalogue /\ KnownAs(node, Cached)
  BY CachedIs DEF NodeInv
<1>2. Targets(Cached, v) = Targets(node, v)
  BY <1>1, KnownVariant DEF Targets
<1> QED
  BY <1>2, ConvertTargets

LEMMA ReportPromise ==
    ASSUME WorldInv, SentInv, PromiseInv, UNCHANGED <<node, features>>, OnValueUpdated
    PROVE  SentInv' /\ PromiseInv'
<1> USE DEF WorldInv
<1>1. PICK m : m = Head(channel)
  OBVIOUS
<1>2. m \in Elements(channel) /\ m.kind = "report"
  BY <1>1, Taken DEF OnValueUpdated, ChannelInv
<1>3. m.value \in node.values
  BY <1>2 DEF ChannelInv
<1>4. PICK states : states = Convert(Cached, m.value, m.raw)
  OBVIOUS
<1>5. /\ channel # <<>> /\ channel' = Tail(channel) /\ Push(states, KnownFeatures)
      /\ told' = IF created THEN Put(told, m.value, m.raw) ELSE told
      /\ overtaken' = IF publishing /\ cache[m.value] \notin {m.raw, Null}
                        THEN overtaken \cup {m.value} ELSE overtaken \ {m.value}
      /\ UNCHANGED <<raw, created, link, asked, wire, shown, promise, cache, publishing>>
  BY <1>1, <1>4 DEF OnValueUpdated
<1>6. node \in Catalogue /\ KnownAs(node, Cached)
  BY CachedIs DEF NodeInv
<1>7. \A s \in states : s.feature \in Targets(node, m.value)
  BY <1>4, CachedTargets
<1>8. \A s, t \in states : s.feature = t.feature => s.state = t.state
  BY <1>3, <1>4, <1>6, OneConversion
<1>9. Convert(node, m.value, m.raw) \subseteq states
  BY <1>4, <1>6, ConvertedCached
<1>10. created => /\ m.value \in DOMAIN told' /\ told'[m.value] = m.raw
                  /\ \A v \in DOMAIN told : v # m.value => v \in DOMAIN told' /\ told'[v] = told[v]
  BY <1>5 DEF Put
<1>11. \A s \in states : s.feature \in Targeted
  BY <1>3, <1>7 DEF Targeted
<1>12. /\ (DOMAIN way \cup DOMAIN lastPublished \subseteq Targeted)'
       /\ Believed => Believed'
  BY <1>5, <1>11, PushBelieved DEF SentInv
<1>13. ASSUME NEW v \in node.values, OfDevice, Believed, Followed(v)
       PROVE  Followed(v)'
  <2>1. Fulfils(node, promise, v, raw[v]) /\ created
    BY <1>13 DEF Followed, OfDevice
  <2>2. /\ About(m, v) <=> m.value = v
        /\ Says(m, v) = m.raw
    BY <1>2 DEF About, Says
  <2>3. ASSUME m.value = v, m.raw = raw[v] PROVE v \in overtaken' \/ Processed(v)'
    <3>1. Done(v)'
      BY <1>5, <1>8, <1>9, <1>10, <1>13, <2>1, <2>3, PushedDone
    <3> QED
      BY <1>5, <2>3, <3>1 DEF Processed
  <2>4. ASSUME m.value # v, v \in overtaken \/ Processed(v)
        PROVE  v \in overtaken' \/ Processed(v)'
    <3>1. Done(v) => Done(v)'
      BY <1>3, <1>5, <1>7, <1>10, <2>1, <2>4, OthersDone
    <3> QED
      BY <1>5, <2>4, <3>1 DEF Processed
  <2> QED
    BY <1>1, <1>5, <1>13, <2>2, <2>3, <2>4, MessageFollowed
<1> QED
  BY <1>5, <1>12, <1>13, PromiseNext DEF SentInv

\* publishKnownStates(): a value that holds something is pushed, what was
\* processed of another stays so.
LEMMA TellingPromise ==
    ASSUME WorldInv, SentInv, NEW raws, Held(raws), PublishKnownStates(raws),
           UNCHANGED <<node, features, created, raw, shown, promise>>
    PROVE  /\ (DOMAIN way \cup DOMAIN lastPublished \subseteq Targeted)'
           /\ Believed => Believed'
           /\ \A v \in node.values :
                 /\ OfDevice /\ Believed /\ Fulfils(node, promise, v, raw[v])
                 /\ raws[v] = raw[v] \/ (raws[v] = Null /\ Done(v))
                 => Done(v)'
<1>1. DOMAIN raws = node.values /\ node \in Catalogue
  BY DEF WorldInv, Held, NodeInv
<1>2. PICK states : states = Snapshot(node, raws)
  OBVIOUS
<1>3. /\ Push(states, KnownFeatures)
      /\ told' = IF created THEN Merge([v \in Holding(raws) |-> raws[v]], told) ELSE told
  BY <1>2 DEF PublishKnownStates, Tell
<1>4. /\ \A s \in states : \E v \in node.values : raws[v] # Null /\ s \in Convert(node, v, raws[v])
      /\ \A v \in node.values : raws[v] # Null => Convert(node, v, raws[v]) \subseteq states
      /\ \A s, t \in states : s.feature = t.feature => s.state = t.state
  BY <1>1, <1>2, SnapshotIs
<1>5. \A s \in states : s.feature \in Targeted
  BY <1>4, ConvertTargets DEF Targeted
<1>6. /\ (DOMAIN way \cup DOMAIN lastPublished \subseteq Targeted)'
      /\ Believed => Believed'
  BY <1>3, <1>5, PushBelieved DEF SentInv
<1>7. ASSUME NEW v \in node.values, OfDevice, Believed, Fulfils(node, promise, v, raw[v]),
             raws[v] = raw[v] \/ (raws[v] = Null /\ Done(v))
      PROVE  Done(v)'
  <2>1. CASE raws[v] = raw[v]
    <3>1. raw[v] # Null => v \in DOMAIN told' /\ told'[v] = raw[v]
      BY <1>1, <1>3, <1>7, <2>1 DEF OfDevice, Holding, Merge
    <3>2. raw[v] # Null => Convert(node, v, raw[v]) \subseteq states
      BY <1>4, <2>1
    <3> QED
      BY <1>3, <1>4, <1>7, <3>1, <3>2, PushedDone
  <2>2. CASE raws[v] = Null /\ Done(v)
    <3>1. v \in DOMAIN told => v \in DOMAIN told' /\ told'[v] = told[v]
      BY <1>3, <2>2 DEF Holding, Merge
    <3>2. \A s \in states : \E w \in node.values \ {v} : s.feature \in Targets(node, w)
      BY <1>4, <2>2, ConvertTargets
    <3> QED
      BY <1>3, <1>7, <2>2, <3>1, <3>2, OthersDone
  <2> QED
    BY <1>7, <2>1, <2>2
<1> QED
  BY <1>6, <1>7

LEMMA AnswerPromise ==
    ASSUME WorldInv, SentInv, PromiseInv, UNCHANGED <<node, features>>, OnNodes
    PROVE  SentInv' /\ PromiseInv'
<1> USE DEF WorldInv
<1>1. PICK m : m = Head(channel)
  OBVIOUS
<1>2. m \in Elements(channel) /\ m.kind = "nodes" /\ cache' = m.raws
  BY <1>1, Taken DEF OnNodes, ChannelInv
<1>3. Held(m.raws)
  BY <1>2 DEF ChannelInv
<1>4. /\ channel # <<>> /\ channel' = Tail(channel)
      /\ UNCHANGED <<raw, created, link, asked, wire, shown, promise>>
  BY DEF OnNodes
<1>5. \A v : About(m, v) /\ Says(m, v) = m.raws[v]
  BY <1>2 DEF About, Says
<1>6. CASE publishing' = TRUE /\ UNCHANGED <<lastPublished, way, told>>
  <2>1. Targeted' = Targeted
    BY DEF Targeted
  <2>2. (DOMAIN way \cup DOMAIN lastPublished \subseteq Targeted)'
    BY <1>6, <2>1 DEF SentInv
  <2>3. Believed => Believed'
    BY <1>4, <1>6, <2>1 DEF Believed, Shows, Due, Current
  <2>4. ASSUME NEW v \in node.values, Followed(v) PROVE Followed(v)'
    <3>1. m.raws[v] = raw[v] => Processed(v)'
      BY <1>2, <1>4, <1>6 DEF Processed
    <3> QED
      BY <1>1, <1>4, <1>5, <2>4, <3>1, MessageFollowed
  <2> QED
    BY <1>4, <2>2, <2>3, <2>4, PromiseNext DEF SentInv
<1>7. CASE PublishKnownStates(m.raws) /\ UNCHANGED publishing
  <2>1. /\ (DOMAIN way \cup DOMAIN lastPublished \subseteq Targeted)'
        /\ Believed => Believed'
        /\ \A v \in node.values :
              OfDevice /\ Believed /\ Fulfils(node, promise, v, raw[v]) /\ m.raws[v] = raw[v]
              => Done(v)'
    BY <1>3, <1>4, <1>7, TellingPromise
  <2>2. ASSUME NEW v \in node.values, OfDevice, Believed, Followed(v) PROVE Followed(v)'
    <3>1. m.raws[v] = raw[v] => Processed(v)'
      BY <1>2, <1>4, <2>1, <2>2 DEF Processed, Followed
    <3> QED
      BY <1>1, <1>4, <1>5, <2>2, <3>1, MessageFollowed
  <2> QED
    BY <1>4, <2>1, <2>2, PromiseNext DEF SentInv
<1> QED
  BY <1>2, <1>6, <1>7 DEF OnNodes

\* The await ends: what was overtaken is lost, the rest is as cached.
LEMMA PublishedPromise ==
    ASSUME WorldInv, SentInv, PromiseInv, UNCHANGED <<node, features>>, Published
    PROVE  SentInv' /\ PromiseInv'
<1>1. PICK raws : raws = cache
  OBVIOUS
<1>2. Held(raws)
  <2>1. DOMAIN <<>> = {}
    OBVIOUS
  <2> QED
    BY <1>1, <2>1 DEF Published, WorldInv, NodeInv, Held, Warm
<1>3. /\ publishing /\ publishing' = FALSE /\ PublishKnownStates(raws)
      /\ UNCHANGED <<raw, channel, wire, cache, created, link, asked, shown, promise, overtaken>>
  BY <1>1 DEF Published, device
<1>4. /\ (DOMAIN way \cup DOMAIN lastPublished \subseteq Targeted)'
      /\ Believed => Believed'
      /\ \A v \in node.values :
            /\ OfDevice /\ Believed /\ Fulfils(node, promise, v, raw[v])
            /\ raws[v] = raw[v] \/ (raws[v] = Null /\ Done(v))
            => Done(v)'
  BY <1>2, <1>3, TellingPromise
<1>5. ASSUME NEW v \in node.values, OfDevice, Believed, Followed(v) PROVE Followed(v)'
  <2>1. Fulfils(node, promise, v, raw[v])
    BY <1>5 DEF Followed
  <2>2. Processed(v) => Processed(v)'
    BY <1>1, <1>3, <1>4, <1>5, <2>1 DEF Processed
  <2> QED
    BY <1>3, <1>5, <2>2 DEF Followed
<1> QED
  BY <1>3, <1>4, <1>5, PromiseNext DEF SentInv

LEMMA CreationPromise ==
    ASSUME WorldInv, SentInv, PromiseInv, UNCHANGED <<node, features>>, OnDeviceCreated
    PROVE  SentInv' /\ PromiseInv'
<1> USE DEF WorldInv
<1>1. /\ ~created /\ Push(Snapshot(node, cache), Features)
      /\ UNCHANGED <<shown, promise, wire, link>>
  BY DEF OnDeviceCreated, device
<1>2. node \in Catalogue /\ DOMAIN cache = node.values
  BY DEF OnDeviceCreated, NodeInv, Held
<1>3. PICK states : states = Snapshot(node, cache)
  OBVIOUS
<1>4. \A s \in states : s.feature \in Targeted
  BY <1>2, <1>3, SnapshotIs, ConvertTargets DEF Targeted
<1>5. (DOMAIN way \cup DOMAIN lastPublished \subseteq Targeted)'
  BY <1>1, <1>3, <1>4, PushBelieved DEF SentInv
<1>6. SentInv'
  BY <1>1, <1>5 DEF SentInv
<1>7. ~Promised'
  BY <1>1 DEF PromiseInv, OfDevice, Promised
<1> QED
  BY <1>6, <1>7 DEF PromiseInv

ObeyInv == ShownInv /\ SentInv /\ PromiseInv

LEMMA ObeyInit == Init => SentInv /\ PromiseInv
<1>1. DOMAIN <<>> = {}
  OBVIOUS
<1> QED
  BY <1>1 DEF Init, SentInv, PromiseInv, Promised, NoPromise

LEMMA ObeyKept == ObeyInv /\ [Next]_vars => ObeyInv'
<1> SUFFICES ASSUME ObeyInv, [Next]_vars
             PROVE  SentInv' /\ PromiseInv'
  BY ShownKept DEF ObeyInv
<1>1. WorldInv /\ PublishInv /\ SentInv /\ PromiseInv /\ UNCHANGED <<node, features>>
  BY Fixed DEF ObeyInv, ShownInv
<1>2. CASE UNCHANGED vars
  BY <1>1, <1>2, PromiseStill DEF vars, refresh, Due, Current
<1>3. ASSUME NEW f \in features, NEW value \in Amounts, SetValue(f, value)
      PROVE  SentInv' /\ PromiseInv'
  BY <1>1, <1>3, CommandPromises
<1>4. CASE Flush
  <2>1. /\ way' = <<>> /\ (created => shown' = Merge(way, shown))
        /\ UNCHANGED <<node, features, raw, created, link, asked, channel, wire, promise, told,
                       lastPublished, cache, publishing, overtaken>>
    BY <1>4 DEF Flush, device, refresh
  <2>2. DOMAIN way' = {}
    <3>1. DOMAIN <<>> = {}
      OBVIOUS
    <3> QED
      BY <2>1, <3>1
  <2>3. created => Due' = Due /\ \A f \in Due : Current(f)' = Current(f)
    BY <2>1, <2>2 DEF Due, Current, Merge
  <2> QED
    BY <1>1, <2>1, <2>2, <2>3, PromiseStill
<1>5. ASSUME NEW f, Expire(f)
      PROVE  SentInv' /\ PromiseInv'
  <2>1. /\ lastPublished' = Without(lastPublished, {f})
        /\ UNCHANGED <<node, features, raw, created, link, asked, channel, wire, promise, told,
                       way, shown, cache, publishing, overtaken>>
    BY <1>5 DEF Expire, device, refresh
  <2>2. /\ DOMAIN lastPublished' \subseteq DOMAIN lastPublished
        /\ \A g \in DOMAIN lastPublished' : lastPublished'[g] = lastPublished[g]
    BY <2>1 DEF Without
  <2>3. Due' = Due /\ \A g \in Due : Current(g)' = Current(g)
    BY <2>1 DEF Due, Current
  <2> QED
    BY <1>1, <2>1, <2>2, <2>3, PromiseStill
<1>6. CASE Obeys
  BY <1>1, <1>6, ObeyedKept
<1>7. CASE Ignores
  BY <1>1, <1>7, PromiseForgotten DEF Ignores, integration, SentInv
<1>8. ASSUME NEW v, NEW r, LocalChange(v, r)
      PROVE  SentInv' /\ PromiseInv'
  BY <1>1, <1>8, PromiseForgotten DEF LocalChange, integration, SentInv
<1>9. CASE Answered
  BY <1>1, <1>9, LinkPromise DEF Answered, integration
<1>10. CASE LinkDown
  <2>1. /\ link' = FALSE /\ UNCHANGED <<raw, lastPublished, way, created, shown, told>>
        /\ \/ wire = <<>> /\ UNCHANGED <<wire, promise>>
           \/ wire' = <<>> /\ promise' = NoPromise
    BY <1>10 DEF LinkDown, integration
  <2>2. CASE wire = <<>> /\ UNCHANGED <<wire, promise>>
    BY <1>1, <2>1, <2>2, LinkPromise
  <2>3. CASE wire' = <<>> /\ promise' = NoPromise
    BY <1>1, <2>1, <2>3, PromiseForgotten
  <2> QED
    BY <2>1, <2>2, <2>3
<1>11. CASE LinkUp
  BY <1>1, <1>11, LinkPromise DEF LinkUp, device, integration
<1>12. CASE OnValueUpdated
  BY <1>1, <1>12, ReportPromise
<1>13. CASE OnNodes
  BY <1>1, <1>13, AnswerPromise
<1>14. CASE OnDeviceCreated
  BY <1>1, <1>14, CreationPromise
<1>15. CASE OnDeviceDeleted
  BY <1>1, <1>15, PromiseForgotten DEF OnDeviceDeleted, device, integration, SentInv
<1>16. CASE Published
  BY <1>1, <1>16, PublishedPromise
<1> QED
  BY <1>2, <1>3, <1>4, <1>5, <1>6, <1>7, <1>8, <1>9, <1>10, <1>11, <1>12, <1>13, <1>14, <1>15,
     <1>16
     DEF Next

(***************************************************************************)
(* When the device does as the last command says, and its reports are in,  *)
(* Gladys shows what the command announced: of the feature itself, which   *)
(* Gladys saved, and of the siblings that applySiblingStates()             *)
(* (CommandDispatcher.ts) published before the device moved; whatever      *)
(* reports were still on their way, answers lost, states repeated, and     *)
(* however the node was cached.  Not so of a value reported while          *)
(* onNodes() (ZwaveIntegration.ts:256-275) awaits: it then pushes what it  *)
(* was before.                                                             *)
(***************************************************************************)
THEOREM ObeyedCorrect == Spec => []ObeyedAsPredicted
<1>1. ObeyInv => ObeyedAsPredicted
  <2> SUFFICES ASSUME ObeyInv, Quiet, promise.kept, NEW f \in DOMAIN promise.states,
                      f = promise.of \/ f \notin behind,
                      \A v \in overtaken : f \notin Targets(node, v)
               PROVE  f \in DOMAIN shown /\ shown[f] = promise.states[f]
    BY DEF ObeyedAsPredicted
  <2>1. OfDevice /\ Believed /\ \E v \in node.values : Followed(v)
    BY DEF ObeyInv, PromiseInv, Promised
  <2>2. PICK v \in node.values : Followed(v)
    BY <2>1
  <2>3. PICK of, said : of = promise.of /\ said = promise.states[promise.of]
    OBVIOUS
  <2>4. v \in overtaken \/ Done(v)
    <3>1. ~LastTells(channel, v, raw[v])
      <4>1. channel = <<>> /\ 1..Len(<<>>) = {}
        BY DEF Quiet
      <4> QED
        BY <4>1 DEF LastTells
    <3> QED
      BY <2>2, <3>1 DEF Followed, Processed, Quiet
  <2>5. Fulfils(node, promise, v, raw[v])
    BY <2>2 DEF Followed
  <2>6. \A g, state : Shows(g, state) => g \in DOMAIN shown /\ shown[g] = state
    <3>1. DOMAIN way = {}
      <4>1. DOMAIN <<>> = {}
        OBVIOUS
      <4> QED
        BY <4>1 DEF Quiet
    <3> QED
      BY <3>1 DEF Shows, Due, Current
  <2>7. CASE f \notin Targets(node, v)
    <3>1. f = of
      <4>1. Feeds(node, v, raw[v], f, promise.states[f]) => f \in Targets(node, v)
        BY ConvertTargets DEF Feeds
      <4> QED
        BY <2>3, <2>5, <2>7, <4>1 DEF Fulfils
    <3>2. of \notin Targeted
      BY <2>3, <2>5, <2>7, <3>1 DEF Fulfils, Targeted
    <3> QED
      BY <2>1, <2>3, <2>6, <3>1, <3>2 DEF Believed
  <2>8. CASE f \in Targets(node, v)
    <3>1. Done(v)
      BY <2>4, <2>8
    <3>2. CASE f = of
      BY <2>3, <2>6, <2>8, <3>1, <3>2 DEF Done
    <3>3. CASE f # of
      <4>1. Feeds(node, v, raw[v], f, promise.states[f])
        BY <2>3, <2>5, <3>3 DEF Fulfils
      <4>2. PICK s \in Convert(node, v, raw[v]) : s.feature = f /\ s.state = promise.states[f]
        BY <4>1 DEF Feeds
      <4>3. v \in DOMAIN told /\ told[v] = raw[v]
        BY <3>1, <4>1 DEF Done, Feeds
      <4>4. f \in Features \ behind
        BY <2>1, <2>3, <3>3 DEF OfDevice
      <4>5. ShownAgrees
        BY ShownFollows DEF ObeyInv
      <4> QED
        BY <4>2, <4>3, <4>4, <4>5 DEF ShownAgrees
    <3> QED
      BY <3>2, <3>3
  <2> QED
    BY <2>7, <2>8
<1>2. Init => ObeyInv
  BY WorldInit, ObeyInit DEF ObeyInv, ShownInv
<1> QED
  BY <1>1, <1>2, ObeyKept, PTL DEF Spec

=============================================================================
