--------------------------- MODULE DeliveryProofs ---------------------------
(***************************************************************************)
(* What StatePublisher delivers, for every value of its constants: the     *)
(* last value reported of a feature, and every event.                      *)
(***************************************************************************)
EXTENDS OutboxProofs

-----------------------------------------------------------------------------
(* The last entry of a feature. *)

\* The last entry of f in q says v.
LastIs(q, f, v) ==
    \E i \in DOMAIN q : /\ q[i].feature = f /\ q[i].state = v
                        /\ \A j \in DOMAIN q : q[j].feature = f => j <= i

\* LastOf() finds it.
LEMMA LastFound ==
    ASSUME NEW q \in Seq(Entry), NEW f, NEW v, LastIs(q, f, v)
    PROVE  f \in FeaturesIn(q) /\ q[LastOf(q, f)].state = v
<1>1. PICK i \in DOMAIN q : /\ q[i].feature = f /\ q[i].state = v
                            /\ \A j \in DOMAIN q : q[j].feature = f => j <= i
  BY DEF LastIs
<1>2. f \in FeaturesIn(q)
  BY <1>1 DEF FeaturesIn
<1>3. /\ LastOf(q, f) \in DOMAIN q /\ q[LastOf(q, f)].feature = f
      /\ \A j \in DOMAIN q : q[j].feature = f => j <= LastOf(q, f)
  BY <1>2, LastOfProperties
<1>4. DOMAIN q \subseteq Int
  BY LenProperties
<1>5. LastOf(q, f) = i
  BY <1>1, <1>3, <1>4
<1> QED
  BY <1>1, <1>2, <1>5

\* A feature of a queue has a last entry.
LEMMA LastExists ==
    ASSUME NEW q \in Seq(Entry), NEW f \in FeaturesIn(q)
    PROVE  LastIs(q, f, q[LastOf(q, f)].state)
BY LastOfProperties DEF LastIs

\* Dropping other entries than the last leaves the last.
LEMMA KeepLast ==
    ASSUME NEW q \in Seq(Entry), NEW I \in SUBSET (DOMAIN q), NEW f, NEW v, LastIs(q, f, v),
           \A i \in DOMAIN q :
             (q[i].feature = f /\ \A j \in DOMAIN q : q[j].feature = f => j <= i) => i \in I
    PROVE  LastIs(Keep(q, I), f, v)
<1> DEFINE kept == Keep(q, I)
<1>1. /\ DOMAIN kept \subseteq Int
      /\ \A j \in DOMAIN kept : Nth(I, j) \in I /\ kept[j] = q[Nth(I, j)]
  <2>1. DOMAIN kept = 1..Cardinality(I)
    BY KeepProperties
  <2> QED
    BY <2>1, KeepProperties
<1>2. /\ \A j, k \in DOMAIN kept : j < k => Nth(I, j) < Nth(I, k)
      /\ \A i \in I : \E j \in DOMAIN kept : Nth(I, j) = i
  BY KeepMonotonic
<1>3. DOMAIN q \subseteq Int
  BY LenProperties
<1> HIDE DEF kept
<1>4. PICK i \in I : /\ q[i].feature = f /\ q[i].state = v
                     /\ \A j \in DOMAIN q : q[j].feature = f => j <= i
  BY DEF LastIs
<1>5. PICK j \in DOMAIN kept : Nth(I, j) = i
  BY <1>2
<1>6. kept[j].feature = f /\ kept[j].state = v
  BY <1>1, <1>4, <1>5
<1>7. ASSUME NEW k \in DOMAIN kept, kept[k].feature = f PROVE k <= j
  <2>1. Nth(I, k) <= Nth(I, j)
    BY <1>1, <1>4, <1>5, <1>7
  <2>2. Nth(I, k) \in Int /\ Nth(I, j) \in Int
    BY <1>1, <1>3
  <2> QED
    BY <1>1, <1>2, <2>1, <2>2
<1>8. LastIs(kept, f, v)
  BY <1>6, <1>7 DEF LastIs
<1> QED
  BY <1>8 DEF kept

\* What is kept of a queue has no feature the queue had not.
LEMMA KeepFeatures ==
    ASSUME NEW q \in Seq(Entry), NEW I \in SUBSET (DOMAIN q)
    PROVE  FeaturesIn(Keep(q, I)) \subseteq FeaturesIn(q)
BY KeepProperties DEF FeaturesIn

\* Where the entries of two queues are once one is put behind the other.
LEMMA Concatenated ==
    ASSUME NEW a \in Seq(Entry), NEW b \in Seq(Entry)
    PROVE  /\ a \o b \in Seq(Entry) /\ Len(a) \in Nat
           /\ DOMAIN a = 1..Len(a) /\ DOMAIN b \subseteq Nat \ {0}
           /\ \A i \in DOMAIN a : i \in DOMAIN (a \o b) /\ (a \o b)[i] = a[i]
           /\ \A i \in DOMAIN b : Len(a) + i \in DOMAIN (a \o b) /\ (a \o b)[Len(a) + i] = b[i]
           /\ \A i \in DOMAIN (a \o b) :
                \/ i \in DOMAIN a
                \/ i - Len(a) \in DOMAIN b /\ i = Len(a) + (i - Len(a))
<1> DEFINE c == a \o b
<1>1. /\ c \in Seq(Entry) /\ Len(c) = Len(a) + Len(b)
      /\ \A i \in 1..(Len(a) + Len(b)) : c[i] = IF i <= Len(a) THEN a[i] ELSE b[i - Len(a)]
  BY ConcatProperties
<1>2. /\ Len(a) \in Nat /\ Len(b) \in Nat /\ DOMAIN a = 1..Len(a) /\ DOMAIN b = 1..Len(b)
      /\ DOMAIN c = 1..(Len(a) + Len(b))
  BY <1>1, LenProperties
<1> HIDE DEF c
<1>3. \A i \in DOMAIN a : i \in DOMAIN c /\ c[i] = a[i]
  BY <1>1, <1>2
<1>4. ASSUME NEW i \in DOMAIN b PROVE Len(a) + i \in DOMAIN c /\ c[Len(a) + i] = b[i]
  <2>1. Len(a) + i \in 1..(Len(a) + Len(b)) /\ ~(Len(a) + i <= Len(a)) /\ (Len(a) + i) - Len(a) = i
    BY <1>2
  <2> QED
    BY <1>1, <1>2, <2>1
<1>5. \A i \in DOMAIN c : i \in DOMAIN a \/ (i - Len(a) \in DOMAIN b /\ i = Len(a) + (i - Len(a)))
  BY <1>2
<1> QED
  BY <1>1, <1>2, <1>3, <1>4, <1>5 DEF c

\* The last entry is that of the second queue, or of the first if the second
\* has none.
LEMMA ConcatLast ==
    ASSUME NEW a \in Seq(Entry), NEW b \in Seq(Entry), NEW f, NEW v
    PROVE  /\ FeaturesIn(a \o b) = FeaturesIn(a) \cup FeaturesIn(b)
           /\ LastIs(b, f, v) => LastIs(a \o b, f, v)
           /\ LastIs(a, f, v) /\ f \notin FeaturesIn(b) => LastIs(a \o b, f, v)
<1> DEFINE c == a \o b
<1>1. /\ c \in Seq(Entry) /\ Len(a) \in Nat
      /\ DOMAIN a = 1..Len(a) /\ DOMAIN b \subseteq Nat \ {0}
      /\ \A i \in DOMAIN a : i \in DOMAIN c /\ c[i] = a[i]
      /\ \A i \in DOMAIN b : Len(a) + i \in DOMAIN c /\ c[Len(a) + i] = b[i]
      /\ \A i \in DOMAIN c :
           i \in DOMAIN a \/ (i - Len(a) \in DOMAIN b /\ i = Len(a) + (i - Len(a)))
  BY Concatenated
<1> HIDE DEF c
<1>2. FeaturesIn(c) = FeaturesIn(a) \cup FeaturesIn(b)
  <2>1. ASSUME NEW i \in DOMAIN c PROVE c[i].feature \in FeaturesIn(a) \cup FeaturesIn(b)
    <3>1. CASE i \in DOMAIN a
      BY <1>1, <3>1 DEF FeaturesIn
    <3>2. CASE i - Len(a) \in DOMAIN b /\ i = Len(a) + (i - Len(a))
      <4>1. c[i] = b[i - Len(a)]
        BY <1>1, <3>2
      <4> QED
        BY <3>2, <4>1 DEF FeaturesIn
    <3> QED
      BY <1>1, <3>1, <3>2
  <2>2. FeaturesIn(a) \subseteq FeaturesIn(c) /\ FeaturesIn(b) \subseteq FeaturesIn(c)
    BY <1>1 DEF FeaturesIn
  <2> QED
    BY <2>1, <2>2 DEF FeaturesIn
<1>3. ASSUME LastIs(b, f, v) PROVE LastIs(c, f, v)
  <2>1. PICK i \in DOMAIN b : /\ b[i].feature = f /\ b[i].state = v
                              /\ \A j \in DOMAIN b : b[j].feature = f => j <= i
    BY <1>3 DEF LastIs
  <2>2. Len(a) + i \in DOMAIN c /\ c[Len(a) + i].feature = f /\ c[Len(a) + i].state = v
    BY <1>1, <2>1
  <2>3. ASSUME NEW j \in DOMAIN c, c[j].feature = f PROVE j <= Len(a) + i
    <3>1. i \in Nat
      BY <1>1
    <3>2. CASE j \in DOMAIN a
      BY <1>1, <3>1, <3>2
    <3>3. CASE j - Len(a) \in DOMAIN b /\ j = Len(a) + (j - Len(a))
      <4>1. c[j] = b[j - Len(a)]
        BY <1>1, <3>3
      <4>2. j - Len(a) <= i /\ j - Len(a) \in Nat
        BY <1>1, <2>1, <2>3, <3>3, <4>1
      <4> DEFINE d == j - Len(a)
      <4>3. d \in Nat /\ d <= i /\ j = Len(a) + d
        BY <3>3, <4>2
      <4> HIDE DEF d
      <4> QED
        BY <1>1, <3>1, <4>3
    <3> QED
      BY <1>1, <3>2, <3>3
  <2> QED
    BY <2>2, <2>3 DEF LastIs
<1>4. ASSUME LastIs(a, f, v), f \notin FeaturesIn(b) PROVE LastIs(c, f, v)
  <2>1. PICK i \in DOMAIN a : /\ a[i].feature = f /\ a[i].state = v
                              /\ \A j \in DOMAIN a : a[j].feature = f => j <= i
    BY <1>4 DEF LastIs
  <2>2. ASSUME NEW j \in DOMAIN c, c[j].feature = f PROVE j <= i
    <3>1. CASE j \in DOMAIN a
      BY <1>1, <2>1, <2>2, <3>1
    <3>2. CASE j - Len(a) \in DOMAIN b /\ j = Len(a) + (j - Len(a))
      <4>1. c[j] = b[j - Len(a)]
        BY <1>1, <3>2
      <4> QED
        BY <1>4, <2>2, <3>2, <4>1 DEF FeaturesIn
    <3> QED
      BY <1>1, <3>1, <3>2
  <2> QED
    BY <1>1, <2>1, <2>2 DEF LastIs
<1> QED
  BY <1>2, <1>3, <1>4 DEF c

\* A queue is the concatenation of its two parts.
LEMMA Split ==
    ASSUME NEW q \in Seq(Entry), NEW n \in Int, 0 <= n, n <= Len(q)
    PROVE  /\ SubSeq(q, 1, n) \in Seq(Entry) /\ SubSeq(q, n + 1, Len(q)) \in Seq(Entry)
           /\ q = SubSeq(q, 1, n) \o SubSeq(q, n + 1, Len(q))
<1>1. Len(q) \in Nat
  BY LenProperties
<1>2. 1 <= 1 /\ n <= Len(q) /\ n + 1 \in Int /\ 1 <= n + 1 /\ Len(q) \in Int /\ Len(q) <= Len(q)
  BY <1>1
<1>3. SubSeq(q, 1, n) \in Seq(Entry) /\ SubSeq(q, n + 1, Len(q)) \in Seq(Entry)
  BY <1>2, SubSeqType
<1>4. 1 \in 1 .. Len(q) + 1 /\ n \in 1 - 1 .. Len(q) /\ Len(q) \in n .. Len(q)
  BY <1>1
<1>5. SubSeq(q, 1, n) \o SubSeq(q, n + 1, Len(q)) = SubSeq(q, 1, Len(q))
  BY <1>4, ConcatAdjacentSubSeq
<1> QED
  BY <1>3, <1>5, SubSeqFull

-----------------------------------------------------------------------------
(* The final state of a feature. *)

\* The newest state of f on its way, or else at the host, is v.
NewestIs(f, v) ==
    \/ LastIs(queue, f, v)
    \/ f \notin FeaturesIn(queue) /\ LastIs(inFlight, f, v)
    \/ /\ f \notin FeaturesIn(queue) \cup FeaturesIn(inFlight)
       /\ f \in DOMAIN told \ blank /\ told[f].state = v

\* FinalStateKept, in these terms.
AllKept ==
    \A f \in DOMAIN reported \ (Events \cup cut \cup deleted) : NewestIs(f, reported[f])

\* What suppresses a repetition is the last value reported, or one from before a
\* deletion.
Remembered ==
    \A f \in DOMAIN lastPublished \ deleted :
        f \in DOMAIN reported /\ lastPublished[f].state = reported[f]

\* What is reported or on its way has a device, or had one that was deleted.
Owned ==
    DOMAIN reported \cup FeaturesIn(queue) \cup FeaturesIn(inFlight) \subseteq known \cup deleted

\* The host shows the end of a batch it stored, of a device it still has.
Landed ==
    arrived => \A f \in FeaturesIn(inFlight) :
                 /\ f \in DOMAIN told /\ LastIs(inFlight, f, told[f].state)
                 /\ f \notin blank \/ f \in deleted \cup FeaturesIn(queue)

FinalInv == AllKept /\ Remembered /\ Owned /\ Landed

\* push() puts the state last of its feature, and leaves the others alone.
LEMMA EnqueueLast ==
    ASSUME TypeOK, IndexConsistent, NEW f \in Features, NEW v \in Values, NEW no \in 1..MaxPush,
           Enqueue(f, v, no)
    PROVE  /\ LastIs(queue', f, v)
           /\ \A g : g # f => (g \in FeaturesIn(queue') <=> g \in FeaturesIn(queue))
           /\ \A g, u : g # f /\ LastIs(queue, g, u) => LastIs(queue', g, u)
<1>1. queue \in Seq(Entry) /\ Len(queue) \in Nat /\ DOMAIN queue = 1..Len(queue)
  BY LenProperties DEF TypeOK
<1>2. CASE HasSlot(f)
  <2> DEFINE p == sampledIndex[f]
             e == [feature |-> queue[p].feature, state |-> v, no |-> no]
  <2>1. f \in Sampled /\ p \in DOMAIN queue /\ queue[p].feature = f
    BY <1>2 DEF HasSlot, IndexConsistent
  <2>2. queue' = [queue EXCEPT ![p] = e]
    BY <1>2 DEF Enqueue
  <2>3. e.feature = f /\ e.state = v
    BY <2>1
  <2> HIDE DEF e
  <2>4. /\ DOMAIN queue' = DOMAIN queue /\ queue'[p] = e
        /\ \A i \in DOMAIN queue : i # p => queue'[i] = queue[i]
    BY <1>1, <2>1, <2>2
  <2>5. \A i \in DOMAIN queue : queue'[i].feature = queue[i].feature
    BY <2>1, <2>3, <2>4
  <2>6. \A i \in DOMAIN queue : queue[i].feature = f => i = p
    BY <2>1 DEF IndexConsistent, AtMostOneSampled
  <2>7. LastIs(queue', f, v)
    <3>1. \A j \in DOMAIN queue' : queue'[j].feature = f => j <= p
      BY <1>1, <2>1, <2>4, <2>5, <2>6
    <3> QED
      BY <2>1, <2>3, <2>4, <3>1 DEF LastIs
  <2>8. \A g : g \in FeaturesIn(queue') <=> g \in FeaturesIn(queue)
    BY <2>4, <2>5 DEF FeaturesIn
  <2>9. ASSUME NEW g, NEW u, g # f, LastIs(queue, g, u) PROVE LastIs(queue', g, u)
    <3>1. PICK i \in DOMAIN queue : /\ queue[i].feature = g /\ queue[i].state = u
                                    /\ \A j \in DOMAIN queue : queue[j].feature = g => j <= i
      BY <2>9 DEF LastIs
    <3>2. queue'[i] = queue[i]
      BY <2>1, <2>4, <2>9, <3>1
    <3> QED
      BY <2>4, <2>5, <3>1, <3>2 DEF LastIs
  <2> QED
    BY <2>7, <2>8, <2>9
<1>3. CASE ~HasSlot(f)
  <2> DEFINE e == [feature |-> f, state |-> v, no |-> no]
  <2>1. queue' = Append(queue, e) /\ e \in Entry /\ e.feature = f /\ e.state = v
    BY <1>3 DEF Enqueue, Entry
  <2> HIDE DEF e
  <2>2. /\ DOMAIN queue' = 1..(Len(queue) + 1) /\ queue'[Len(queue) + 1] = e
        /\ \A i \in 1..Len(queue) : queue'[i] = queue[i]
    <3>1. queue' \in Seq(Entry) /\ Len(queue') = Len(queue) + 1
      BY <1>1, <2>1, AppendProperties
    <3>2. DOMAIN queue' = 1..(Len(queue) + 1)
      BY <3>1, LenProperties
    <3> QED
      BY <1>1, <2>1, <3>2, AppendProperties
  <2>3. \A i \in DOMAIN queue' : i = Len(queue) + 1 \/ i \in DOMAIN queue
    BY <1>1, <2>2
  <2>4. \A i \in DOMAIN queue : i \in DOMAIN queue' /\ i <= Len(queue) + 1
    BY <1>1, <2>2
  <2>5. Len(queue) + 1 \in DOMAIN queue' /\ Len(queue) + 1 <= Len(queue) + 1
    BY <1>1, <2>2
  <2>6. LastIs(queue', f, v)
    BY <2>1, <2>2, <2>3, <2>4, <2>5 DEF LastIs
  <2>7. ASSUME NEW g, g # f PROVE g \in FeaturesIn(queue') <=> g \in FeaturesIn(queue)
    BY <1>1, <2>1, <2>2, <2>3, <2>4, <2>7 DEF FeaturesIn
  <2>8. ASSUME NEW g, NEW u, g # f, LastIs(queue, g, u) PROVE LastIs(queue', g, u)
    <3>1. PICK i \in DOMAIN queue : /\ queue[i].feature = g /\ queue[i].state = u
                                    /\ \A j \in DOMAIN queue : queue[j].feature = g => j <= i
      BY <2>8 DEF LastIs
    <3>2. i \in DOMAIN queue' /\ queue'[i] = queue[i]
      BY <1>1, <2>2, <2>4
    <3>3. \A j \in DOMAIN queue' : queue'[j].feature = g => j <= i
      BY <1>1, <2>1, <2>2, <2>3, <2>8, <3>1
    <3> QED
      BY <3>1, <3>2, <3>3 DEF LastIs
  <2> QED
    BY <2>6, <2>7, <2>8
<1> QED
  BY <1>2, <1>3

\* degrade() drops no last entry but by the hard limit, which CutFrom records.
LEMMA DegradeLast ==
    ASSUME NEW q \in Seq(Entry), NEW f \in Features, NEW v, LastIs(q, f, v),
           f \in FeaturesIn(Degrade(q)) \/ Len(q) <= HighWater
    PROVE  LastIs(Degrade(q), f, v)
<1>1. CASE Len(q) <= HighWater
  BY <1>1 DEF Degrade
<1>2. CASE ~(Len(q) <= HighWater)
  <2>1. LastIs(Thin(q), f, v)
    <3> DEFINE I == {i \in DOMAIN q :
                       \/ q[i].feature \in Events
                       \/ \A j \in DOMAIN q : q[j].feature = q[i].feature => i <= j
                       \/ \A j \in DOMAIN q : q[j].feature = q[i].feature => j <= i}
    <3>1. I \in SUBSET (DOMAIN q) /\ Thin(q) = Keep(q, I)
      BY DEF Thin
    <3>2. \A i \in DOMAIN q :
            (q[i].feature = f /\ \A j \in DOMAIN q : q[j].feature = f => j <= i) => i \in I
      OBVIOUS
    <3> HIDE DEF I
    <3> QED
      BY <3>1, <3>2, KeepLast
  <2> DEFINE t == Thin(q)
  <2>2. t \in Seq(Entry) /\ Len(t) \in Nat
    BY ThinType, LenProperties
  <2>3. Degrade(q) = EnforceHardLimit(t)
    BY <1>2 DEF Degrade
  <2> HIDE DEF t
  <2>4. CASE Len(t) <= HardLimit
    BY <2>1, <2>3, <2>4 DEF EnforceHardLimit, t
  <2>5. CASE ~(Len(t) <= HardLimit)
    <3> DEFINE n == Len(t) - HardLimit
               a == SubSeq(t, 1, n)
               b == SubSeq(t, n + 1, Len(t))
    <3>1. n \in Int /\ 0 <= n /\ n <= Len(t)
      BY <2>2, <2>5, HardLimitType
    <3>2. Degrade(q) = b
      BY <2>3, <2>5 DEF EnforceHardLimit
    <3> HIDE DEF n
    <3>3. a \in Seq(Entry) /\ b \in Seq(Entry) /\ t = a \o b
      BY <2>2, <3>1, Split
    <3>4. f \in FeaturesIn(b)
      <4>1. f \in FeaturesIn(Degrade(q))
        BY <1>2
      <4> QED
        BY <3>2, <4>1
    <3> HIDE DEF a, b
    <3>5. LastIs(b, f, b[LastOf(b, f)].state)
      BY <3>3, <3>4, LastExists
    <3>6. LastIs(t, f, b[LastOf(b, f)].state)
      BY <3>3, <3>5, ConcatLast
    <3>7. v = t[LastOf(t, f)].state /\ b[LastOf(b, f)].state = t[LastOf(t, f)].state
      BY <2>1, <2>2, <3>6, LastFound DEF t
    <3> QED
      BY <3>2, <3>5, <3>7
  <2> QED
    BY <2>4, <2>5
<1> QED
  BY <1>1, <1>2

\* A feature degrade() drops altogether is one the hard limit cut.
LEMMA DegradeCuts ==
    ASSUME NEW q \in Seq(Entry), ~(Len(q) <= HighWater), CutFrom(Thin(q), Degrade(q)),
           NEW f, NEW v, LastIs(q, f, v), f \notin Events \cup cut'
    PROVE  f \in FeaturesIn(Degrade(q))
<1> DEFINE I == {i \in DOMAIN q :
                   \/ q[i].feature \in Events
                   \/ \A j \in DOMAIN q : q[j].feature = q[i].feature => i <= j
                   \/ \A j \in DOMAIN q : q[j].feature = q[i].feature => j <= i}
<1>1. I \in SUBSET (DOMAIN q) /\ Thin(q) = Keep(q, I)
  BY DEF Thin
<1>2. \A i \in DOMAIN q :
        (q[i].feature = f /\ \A j \in DOMAIN q : q[j].feature = f => j <= i) => i \in I
  OBVIOUS
<1> HIDE DEF I
<1>3. LastIs(Thin(q), f, v)
  BY <1>1, <1>2, KeepLast
<1>4. f \in FeaturesIn(Thin(q))
  BY <1>3, ThinType, LastFound
<1> QED
  BY <1>4 DEF CutFrom

\* degrade() adds no feature.
LEMMA DegradeFeatures ==
    ASSUME NEW q \in Seq(Entry)
    PROVE  FeaturesIn(Degrade(q)) \subseteq FeaturesIn(q)
<1> DEFINE t == Thin(q)
<1>1. t \in Seq(Entry) /\ Len(t) \in Nat /\ FeaturesIn(t) \subseteq FeaturesIn(q)
  BY ThinType, LenProperties, KeepFeatures DEF Thin
<1>2. Degrade(q) \in {q, EnforceHardLimit(t)}
  BY DEF Degrade
<1> HIDE DEF t
<1>3. FeaturesIn(EnforceHardLimit(t)) \subseteq FeaturesIn(t)
  <2>1. CASE Len(t) <= HardLimit
    BY <2>1 DEF EnforceHardLimit
  <2>2. CASE ~(Len(t) <= HardLimit)
    <3> DEFINE n == Len(t) - HardLimit
    <3>1. n \in Int /\ 0 <= n /\ n <= Len(t)
      BY <1>1, <2>2, HardLimitType
    <3> DEFINE a == SubSeq(t, 1, n)
               b == SubSeq(t, n + 1, Len(t))
    <3>2. EnforceHardLimit(t) = b
      BY <2>2 DEF EnforceHardLimit
    <3> HIDE DEF n
    <3>3. a \in Seq(Entry) /\ b \in Seq(Entry) /\ t = a \o b
      BY <1>1, <3>1, Split
    <3> HIDE DEF a, b
    <3>4. FeaturesIn(t) = FeaturesIn(a) \cup FeaturesIn(b)
      BY <3>3, ConcatLast
    <3> QED
      BY <3>2, <3>4
  <2> QED
    BY <2>1, <2>2
<1> QED
  BY <1>1, <1>2, <1>3

\* A turn of the loop of drain() puts no feature on its way.
LEMMA DrainFeatures ==
    ASSUME queue \in Seq(Entry), NEW sent, SentType(sent), NEW ended \in BOOLEAN,
           Drain(sent, ended)
    PROVE  FeaturesIn(queue') \cup FeaturesIn(inFlight') \subseteq FeaturesIn(queue)
<1>1. FeaturesIn(<<>>) = {}
  BY EmptySeq DEF FeaturesIn
<1>2. CASE DrainedAll(sent)
  BY <1>1, <1>2 DEF DrainedAll
<1>3. CASE OverBudget(sent, ended)
  BY <1>1, <1>3, DegradeFeatures DEF OverBudget
<1>4. CASE SendBatch(sent)
  <2> DEFINE size == BatchSize(sent, queue)
  <2>1. Budget(sent) \in Int /\ Len(queue) \in Nat
    BY FreshFinite, LenProperties
  <2>2. size \in Int /\ size <= Len(queue) /\ 0 <= size
    BY <1>4, <2>1, LimitsAssumption DEF BatchSize, Smaller, SendBatch
  <2>3. inFlight' = SubSeq(queue, 1, size) /\ queue' = SubSeq(queue, size + 1, Len(queue))
    BY <1>4 DEF SendBatch
  <2> HIDE DEF size
  <2>4. inFlight' \in Seq(Entry) /\ queue' \in Seq(Entry) /\ queue = inFlight' \o queue'
    BY <2>2, <2>3, Split
  <2> QED
    BY <2>4, ConcatLast
<1> QED
  BY <1>2, <1>3, <1>4 DEF Drain

\* A turn of the loop of drain(), when the batch before it has landed.
LEMMA DrainKeeps ==
    ASSUME TypeOK, FinalInv, NEW sent, SentType(sent), NEW ended \in BOOLEAN,
           Drain(sent, ended), arrived \/ inFlight = <<>>,
           UNCHANGED <<known, told, blank, deleted, reported>>
    PROVE  AllKept' /\ Owned'
<1>1. queue \in Seq(Entry) /\ inFlight \in Seq(Entry) /\ Len(queue) \in Nat
  BY LenProperties DEF TypeOK
<1>0. Owned'
  <2>1. FeaturesIn(queue') \cup FeaturesIn(inFlight') \subseteq FeaturesIn(queue)
    BY <1>1, DrainFeatures
  <2> QED
    BY <2>1 DEF FinalInv, Owned
<1> SUFFICES ASSUME NEW f \in DOMAIN reported \ (Events \cup cut' \cup deleted)
             PROVE  NewestIs(f, reported[f])'
  BY <1>0 DEF AllKept
<1> DEFINE v == reported[f]
<1>2. cut \subseteq cut' /\ f \in Features
  BY DEF Drain, DrainedAll, OverBudget, SendBatch, CutFrom, TypeOK
<1>3. NewestIs(f, v)
  BY <1>2 DEF FinalInv, AllKept
<1>4. \/ LastIs(queue, f, v)
      \/ f \notin FeaturesIn(queue) /\ f \in DOMAIN told \ blank /\ told[f].state = v
  <2>1. CASE f \notin FeaturesIn(queue) /\ LastIs(inFlight, f, v)
    <3>1. f \in FeaturesIn(inFlight) /\ inFlight[LastOf(inFlight, f)].state = v
      BY <1>1, <2>1, LastFound
    <3>2. inFlight # <<>>
      BY <2>1, EmptySeq DEF LastIs
    <3>3. f \in DOMAIN told \ blank /\ LastIs(inFlight, f, told[f].state)
      BY <2>1, <3>1, <3>2 DEF FinalInv, Landed
    <3>4. inFlight[LastOf(inFlight, f)].state = told[f].state
      BY <1>1, <3>3, LastFound
    <3> QED
      BY <2>1, <3>1, <3>3, <3>4
  <2> QED
    BY <1>3, <2>1 DEF NewestIs
<1> HIDE DEF v
<1>5. SUFFICES \/ LastIs(queue', f, v)
               \/ f \notin FeaturesIn(queue') /\ LastIs(inFlight', f, v)
               \/ /\ f \notin FeaturesIn(queue') \cup FeaturesIn(inFlight')
                  /\ f \in DOMAIN told \ blank /\ told[f].state = v
  BY DEF NewestIs, v, LastIs, FeaturesIn
<1>6. FeaturesIn(<<>>) = {}
  BY EmptySeq DEF FeaturesIn
<1>7. CASE DrainedAll(sent)
  BY <1>4, <1>6, <1>7 DEF DrainedAll
<1>8. CASE OverBudget(sent, ended)
  <2>1. queue' = Degrade(queue) /\ inFlight' = <<>>
    BY <1>8 DEF OverBudget
  <2>2. CASE LastIs(queue, f, v)
    <3>1. f \in FeaturesIn(Degrade(queue)) \/ Len(queue) <= HighWater
      <4>1. CASE ~(Len(queue) <= HighWater)
        <5>1. CutFrom(Thin(queue), Degrade(queue))
          BY <1>8, <2>1, <4>1 DEF OverBudget
        <5>2. f \notin Events \cup cut'
          OBVIOUS
        <5> QED
          BY <1>1, <2>2, <4>1, <5>1, <5>2, DegradeCuts
      <4> QED
        BY <4>1
    <3> QED
      BY <1>1, <1>2, <2>1, <2>2, <3>1, DegradeLast
  <2>3. CASE f \notin FeaturesIn(queue) /\ f \in DOMAIN told \ blank /\ told[f].state = v
    <3>1. f \notin FeaturesIn(Degrade(queue))
      BY <1>1, <2>3, DegradeFeatures
    <3> QED
      BY <1>6, <2>1, <2>3, <3>1
  <2> QED
    BY <1>4, <2>2, <2>3
<1>9. CASE SendBatch(sent)
  <2> DEFINE size == BatchSize(sent, queue)
  <2>1. Budget(sent) \in Int
    BY FreshFinite
  <2>2. size \in Int /\ size <= Len(queue) /\ 0 <= size
    BY <1>1, <1>9, <2>1, LimitsAssumption DEF BatchSize, Smaller, SendBatch
  <2>3. inFlight' = SubSeq(queue, 1, size) /\ queue' = SubSeq(queue, size + 1, Len(queue))
    BY <1>9 DEF SendBatch
  <2> HIDE DEF size
  <2>4. inFlight' \in Seq(Entry) /\ queue' \in Seq(Entry) /\ queue = inFlight' \o queue'
    BY <1>1, <2>2, <2>3, Split
  <2>5. FeaturesIn(queue) = FeaturesIn(inFlight') \cup FeaturesIn(queue')
    BY <2>4, ConcatLast
  <2>6. CASE f \in FeaturesIn(queue')
    <3> DEFINE u == queue'[LastOf(queue', f)].state
    <3>1. LastIs(queue', f, u)
      BY <2>4, <2>6, LastExists
    <3> HIDE DEF u
    <3>2. LastIs(queue, f, u)
      BY <2>4, <3>1, ConcatLast
    <3>3. LastIs(queue, f, v)
      BY <1>4, <2>5, <2>6
    <3>4. u = v
      BY <1>1, <3>2, <3>3, LastFound
    <3> QED
      BY <3>1, <3>4
  <2>7. CASE f \notin FeaturesIn(queue') /\ f \in FeaturesIn(inFlight')
    <3> DEFINE u == inFlight'[LastOf(inFlight', f)].state
    <3>1. LastIs(inFlight', f, u)
      BY <2>4, <2>7, LastExists
    <3> HIDE DEF u
    <3>2. LastIs(queue, f, u)
      BY <2>4, <2>7, <3>1, ConcatLast
    <3>3. LastIs(queue, f, v)
      BY <1>4, <2>5, <2>7
    <3>4. u = v
      BY <1>1, <3>2, <3>3, LastFound
    <3> QED
      BY <2>7, <3>1, <3>4
  <2>8. CASE f \notin FeaturesIn(queue') \cup FeaturesIn(inFlight')
    <3>1. ~LastIs(queue, f, v)
      BY <1>1, <2>5, <2>8, LastFound
    <3> QED
      BY <1>4, <2>8, <3>1
  <2> QED
    BY <2>6, <2>7, <2>8
<1> QED
  BY <1>7, <1>8, <1>9 DEF Drain

\* A refused batch brings back no feature but its own.
LEMMA RequeueFeatures ==
    ASSUME NEW batch \in Seq(Entry), NEW q \in Seq(Entry)
    PROVE  FeaturesIn(Requeue(batch, q)) \subseteq FeaturesIn(batch) \cup FeaturesIn(q)
<1> DEFINE I == {i \in DOMAIN batch : batch[i].feature \notin FeaturesIn(q) \ Events}
           kept == Keep(batch, I)
<1>1. I \in SUBSET (DOMAIN batch) /\ Requeue(batch, q) = kept \o q
  BY DEF Requeue
<1> HIDE DEF I
<1>2. kept \in Seq(Entry) /\ FeaturesIn(kept) \subseteq FeaturesIn(batch)
  BY <1>1, KeepProperties, KeepFeatures
<1> HIDE DEF kept
<1> QED
  BY <1>1, <1>2, ConcatLast

\* A refused batch comes back without what fresher entries replace.
LEMMA RequeueLast ==
    ASSUME NEW batch \in Seq(Entry), NEW q \in Seq(Entry), NEW f, f \notin Events, NEW v
    PROVE  /\ LastIs(q, f, v) => LastIs(Requeue(batch, q), f, v)
           /\ LastIs(batch, f, v) /\ f \notin FeaturesIn(q) => LastIs(Requeue(batch, q), f, v)
<1> DEFINE I == {i \in DOMAIN batch : batch[i].feature \notin FeaturesIn(q) \ Events}
           kept == Keep(batch, I)
<1>1. I \in SUBSET (DOMAIN batch)
  OBVIOUS
<1>2. f \notin FeaturesIn(q) => \A i \in DOMAIN batch : batch[i].feature = f => i \in I
  OBVIOUS
<1>3. Requeue(batch, q) = kept \o q
  BY DEF Requeue
<1> HIDE DEF I
<1>4. kept \in Seq(Entry) /\ FeaturesIn(kept) \subseteq FeaturesIn(batch)
  BY <1>1, KeepProperties, KeepFeatures
<1>5. LastIs(batch, f, v) /\ f \notin FeaturesIn(q) => LastIs(kept, f, v)
  BY <1>1, <1>2, KeepLast
<1> HIDE DEF kept
<1> QED
  BY <1>3, <1>4, <1>5, ConcatLast

\* The strengthened invariant.
LEMMA FinalInvariant == Spec => []FinalInv
<1>1. Init => FinalInv
  BY EmptySeq DEF Init, FinalInv, AllKept, Remembered, Owned, Landed, FeaturesIn
<1>2. TypeOK /\ IndexConsistent /\ FinalInv /\ [Next]_vars => FinalInv'
  <2> SUFFICES ASSUME TypeOK, IndexConsistent, FinalInv, [Next]_vars PROVE FinalInv'
    OBVIOUS
  <2>1. queue \in Seq(Entry) /\ inFlight \in Seq(Entry) /\ DOMAIN reported \subseteq Features
    BY DEF TypeOK
  <2>2. ASSUME NEW f \in Features, NEW v \in Values, Push(f, v)
        PROVE  FinalInv'
    <3>1. /\ Enqueue(f, v, pushes + 1) /\ pushes + 1 \in 1..MaxPush
          /\ reported' = Put(reported, f, v)
          /\ lastPublished' = Put(lastPublished, f, [state |-> v, age |-> 0])
          /\ cut' = cut \ {f} /\ deleted' = deleted \ {f} /\ f \in known
          /\ UNCHANGED <<known, inFlight, arrived, told, blank>>
      BY <2>2, BoundsAssumption DEF Push, TypeOK
    <3>2. /\ LastIs(queue', f, v)
          /\ \A g : g # f => (g \in FeaturesIn(queue') <=> g \in FeaturesIn(queue))
          /\ \A g, u : g # f /\ LastIs(queue, g, u) => LastIs(queue', g, u)
      BY <3>1, EnqueueLast
    <3>3. AllKept'
      <4> SUFFICES ASSUME NEW g \in DOMAIN reported' \ (Events \cup cut' \cup deleted')
                   PROVE  NewestIs(g, reported[g])'
        BY DEF AllKept
      <4>1. CASE g = f
        BY <3>1, <3>2, <4>1 DEF NewestIs, LastIs, Put
      <4>2. CASE g # f
        <5>1. g \in DOMAIN reported \ (Events \cup cut \cup deleted) /\ reported'[g] = reported[g]
          BY <3>1, <4>2 DEF Put
        <5> DEFINE u == reported[g]
        <5>2. NewestIs(g, u)
          BY <5>1 DEF FinalInv, AllKept
        <5> HIDE DEF u
        <5>3. \/ LastIs(queue', g, u)
              \/ g \notin FeaturesIn(queue') /\ LastIs(inFlight, g, u)
              \/ /\ g \notin FeaturesIn(queue') \cup FeaturesIn(inFlight)
                 /\ g \in DOMAIN told \ blank /\ told[g].state = u
          BY <3>2, <4>2, <5>2 DEF NewestIs
        <5> QED
          BY <3>1, <5>1, <5>3 DEF NewestIs, LastIs, FeaturesIn, u
      <4> QED
        BY <4>1, <4>2
    <3>4. Remembered'
      BY <3>1 DEF FinalInv, Remembered, Put
    <3>5. Owned'
      BY <3>1, <3>2 DEF FinalInv, Owned, Put, FeaturesIn
    <3>6. Landed'
      <4>1. f \in FeaturesIn(queue')
        BY <3>2 DEF LastIs, FeaturesIn
      <4>2. \A g : g \in deleted \cup FeaturesIn(queue) => g \in deleted' \cup FeaturesIn(queue')
        BY <3>1, <3>2, <4>1
      <4>3. FeaturesIn(inFlight)' = FeaturesIn(inFlight)
        BY <3>1 DEF FeaturesIn
      <4>4. \A g, u : LastIs(inFlight, g, u)' <=> LastIs(inFlight, g, u)
        BY <3>1 DEF LastIs
      <4> QED
        BY <3>1, <4>2, <4>3, <4>4 DEF FinalInv, Landed
    <3> QED
      BY <3>3, <3>4, <3>5, <3>6 DEF FinalInv
  <2>3. ASSUME NEW f \in Features, NEW v \in Values, PushSuppressed(f, v)
        PROVE  FinalInv'
    <3>1. /\ reported' = Put(reported, f, v) /\ f \in known
          /\ f \in deleted \/ (f \in DOMAIN reported /\ reported[f] = v)
          /\ UNCHANGED <<known, queue, inFlight, arrived, told, blank, deleted,
                         lastPublished, cut>>
      BY <2>3 DEF PushSuppressed, Repeated, FinalInv, Remembered, code
    <3>2. /\ DOMAIN reported' = DOMAIN reported \cup {f}
          /\ DOMAIN reported' \ deleted = DOMAIN reported \ deleted
          /\ \A g \in DOMAIN reported \ deleted : reported'[g] = reported[g]
      BY <3>1 DEF Put
    <3>3. AllKept' /\ Remembered' /\ Landed'
      BY <3>1, <3>2
         DEF FinalInv, AllKept, NewestIs, Remembered, Landed, LastIs, FeaturesIn
    <3>4. Owned'
      BY <3>1, <3>2 DEF FinalInv, Owned, FeaturesIn
    <3> QED
      BY <3>3, <3>4 DEF FinalInv
  <2>4. CASE TimerFires
    <3>1. /\ Drain(sentAt, stopped) /\ inFlight = <<>> /\ arrived = FALSE /\ arrived' = FALSE
          /\ UNCHANGED <<known, told, blank, deleted, reported, lastPublished>>
      BY <2>4 DEF TimerFires, Flushing, TypeOK
    <3>2. AllKept' /\ Owned'
      BY <3>1, DrainKeeps DEF TypeOK, SentType
    <3> QED
      BY <3>1, <3>2 DEF FinalInv, Remembered, Landed
  <2>5. CASE HostStores
    <3>1. /\ UNCHANGED <<known, queue, inFlight, deleted, reported, lastPublished, cut>>
          /\ blank' = blank \ (FeaturesIn(inFlight) \cap known)
          /\ DOMAIN told' = DOMAIN told \cup FeaturesIn(inFlight)
          /\ \A f \in FeaturesIn(inFlight) :
               told'[f].state = inFlight[LastOf(inFlight, f)].state
          /\ \A f \in DOMAIN told \ FeaturesIn(inFlight) : told'[f] = told[f]
      BY <2>5 DEF HostStores, code
    <3>2. Landed'
      <4>1. FeaturesIn(inFlight) \subseteq known \cup deleted
        BY DEF FinalInv, Owned
      <4> QED
        BY <2>1, <3>1, <4>1, LastExists DEF Landed, LastIs, FeaturesIn
    <3>3. AllKept'
      BY <3>1 DEF FinalInv, AllKept, NewestIs, LastIs, FeaturesIn
    <3>4. Owned'
      BY <3>1 DEF FinalInv, Owned, FeaturesIn
    <3> QED
      BY <3>1, <3>2, <3>3, <3>4 DEF FinalInv, Remembered
  <2>6. CASE PublishOk
    <3>1. /\ Drain(Accepted, stopped) /\ arrived /\ arrived' = FALSE /\ stopped \in BOOLEAN
          /\ UNCHANGED <<known, told, blank, deleted, reported, lastPublished>>
      BY <2>6 DEF PublishOk, TypeOK
    <3>2. NumbersIn(inFlight) \subseteq 1..MaxPush
      BY <2>1, FeaturesInQueue
    <3>3. SentType(Accepted)
      BY <3>2, TimeAssumption DEF SentType, Accepted, TypeOK
    <3>4. AllKept' /\ Owned'
      BY <3>1, <3>3, DrainKeeps
    <3> QED
      BY <3>1, <3>4 DEF FinalInv, Remembered, Landed
  <2>7. CASE PublishFails
    <3>1. /\ queue' = Requeue(inFlight, queue) /\ inFlight' = <<>> /\ arrived' = FALSE
          /\ UNCHANGED <<known, told, blank, deleted, reported, lastPublished, cut>>
      BY <2>7 DEF PublishFails
    <3>2. ASSUME NEW f \in DOMAIN reported \ (Events \cup cut \cup deleted)
          PROVE  NewestIs(f, reported[f])'
      <4> DEFINE v == reported[f]
      <4>1. NewestIs(f, v)
        BY DEF FinalInv, AllKept
      <4> HIDE DEF v
      <4>2. \/ LastIs(queue', f, v)
            \/ f \notin FeaturesIn(queue') /\ f \in DOMAIN told \ blank /\ told[f].state = v
        BY <2>1, <3>1, <4>1, RequeueLast, RequeueFeatures DEF NewestIs
      <4>3. FeaturesIn(<<>>) = {}
        BY EmptySeq DEF FeaturesIn
      <4> QED
        BY <3>1, <4>2, <4>3 DEF NewestIs, LastIs, FeaturesIn, v
    <3>3. Owned'
      <4>1. FeaturesIn(queue') \subseteq FeaturesIn(inFlight) \cup FeaturesIn(queue)
        BY <2>1, <3>1, RequeueFeatures
      <4>2. FeaturesIn(<<>>) = {}
        BY EmptySeq DEF FeaturesIn
      <4> QED
        BY <3>1, <4>1, <4>2 DEF FinalInv, Owned
    <3> QED
      BY <3>1, <3>2, <3>3 DEF FinalInv, AllKept, Remembered, Landed
  <2>8. CASE Stop
    <3>1. CASE Flushing
      BY <2>8, <3>1
         DEF Stop, FinalInv, AllKept, NewestIs, Remembered, Owned, Landed, LastIs, FeaturesIn
    <3>2. CASE ~Flushing
      <4>1. /\ Drain(sentAt, TRUE) /\ inFlight = <<>> /\ arrived = FALSE /\ arrived' = FALSE
            /\ UNCHANGED <<known, told, blank, deleted, reported, lastPublished>>
        BY <2>8, <3>2 DEF Stop, Flushing, TypeOK
      <4>2. AllKept' /\ Owned'
        BY <4>1, DrainKeeps DEF TypeOK, SentType
      <4> QED
        BY <4>1, <4>2 DEF FinalInv, Remembered, Landed
    <3> QED
      BY <3>1, <3>2
  <2>9. ASSUME (\E f \in Creatable : DeviceCreated(f)) \/ Reset \/ Tick \/ UNCHANGED vars
        PROVE  FinalInv'
    <3>1. /\ UNCHANGED <<queue, inFlight, arrived, told, blank, deleted, reported, cut>>
          /\ known \subseteq known'
      BY <2>9 DEF DeviceCreated, Reset, Tick, vars, ghosts
    <3>2. \A f \in DOMAIN lastPublished' :
            f \in DOMAIN lastPublished /\ lastPublished'[f].state = lastPublished[f].state
      BY <2>9, EmptySeq DEF DeviceCreated, Reset, Tick, vars, ghosts
    <3>3. AllKept' /\ Remembered' /\ Landed'
      BY <3>1, <3>2
         DEF FinalInv, AllKept, NewestIs, Remembered, Landed, LastIs, FeaturesIn
    <3>4. Owned'
      BY <3>1 DEF FinalInv, Owned, FeaturesIn
    <3> QED
      BY <3>3, <3>4 DEF FinalInv
  <2>10. ASSUME NEW f \in Creatable, DeviceDeleted(f)
         PROVE  FinalInv'
    <3>1. /\ UNCHANGED <<queue, inFlight, arrived, told, lastPublished, cut>>
          /\ known' = known \ {f} /\ blank' = blank \cup {f} /\ deleted' = deleted \cup {f}
          /\ DOMAIN reported' = DOMAIN reported \ {f}
          /\ \A g \in DOMAIN reported \ {f} : reported'[g] = reported[g]
      BY <2>10 DEF DeviceDeleted, Without
    <3>2. AllKept' /\ Landed'
      BY <3>1 DEF FinalInv, AllKept, NewestIs, Landed, LastIs, FeaturesIn
    <3>3. Remembered'
      BY <3>1 DEF FinalInv, Remembered
    <3>4. Owned'
      BY <3>1 DEF FinalInv, Owned, FeaturesIn
    <3> QED
      BY <3>2, <3>3, <3>4 DEF FinalInv
  <2> QED
    BY <2>2, <2>3, <2>4, <2>5, <2>6, <2>7, <2>8, <2>9, <2>10 DEF Next
<1> QED
  BY <1>1, <1>2, TypeCorrect, IndexCorrect, PTL DEF Spec

\* "Never the final state": what the network reported last of a feature is on
\* its way, or Gladys shows it, unless the hard limit cut it or its device was
\* deleted since the last state that push() accepted.
THEOREM FinalStateCorrect == Spec => []FinalStateKept
<1>1. TypeOK /\ FinalInv => FinalStateKept
  <2> SUFFICES ASSUME TypeOK, FinalInv, NEW f \in DOMAIN reported \ (Events \cup cut \cup deleted)
               PROVE  HasNewest(f) /\ NewestState(f) = reported[f]
    BY DEF FinalStateKept
  <2> DEFINE v == reported[f]
             way == inFlight \o queue
  <2>1. queue \in Seq(Entry) /\ inFlight \in Seq(Entry)
    BY DEF TypeOK
  <2>2. NewestIs(f, v)
    BY DEF FinalInv, AllKept
  <2>3. way \in Seq(Entry) /\ FeaturesIn(way) = FeaturesIn(inFlight) \cup FeaturesIn(queue)
    BY <2>1, ConcatLast, Concatenated
  <2>4. CASE LastIs(queue, f, v) \/ (f \notin FeaturesIn(queue) /\ LastIs(inFlight, f, v))
    <3>1. LastIs(way, f, v)
      BY <2>1, <2>4, ConcatLast
    <3>2. f \in FeaturesIn(way) /\ way[LastOf(way, f)].state = v
      BY <2>3, <3>1, LastFound
    <3> QED
      BY <3>2 DEF HasNewest, NewestState, Gladys
  <2>5. CASE /\ f \notin FeaturesIn(queue) \cup FeaturesIn(inFlight)
             /\ f \in DOMAIN told \ blank /\ told[f].state = v
    BY <2>3, <2>5 DEF HasNewest, NewestState, Gladys
  <2> QED
    BY <2>2, <2>4, <2>5 DEF NewestIs
<1> QED
  BY <1>1, TypeCorrect, FinalInvariant, PTL

-----------------------------------------------------------------------------
(* Events are counted. *)

\* How many entries of a queue are events.
Count(q) == Cardinality(EventsIn(q))

\* The entries of two queues that match one to one are as many.
LEMMA OneToOne ==
    ASSUME NEW S, NEW T, IsFiniteSet(S), NEW m \in [S -> T],
           \A x, y \in S : m[x] = m[y] => x = y, \A z \in T : \E x \in S : m[x] = z
    PROVE  Cardinality(T) = Cardinality(S)
<1>1. m \in Injection(S, T)
  BY DEF Injection, IsInjective
<1>2. m \in Surjection(S, T)
  BY DEF Surjection
<1>3. m \in Bijection(S, T)
  BY <1>1, <1>2 DEF Bijection
<1>4. ExistsBijection(S, T)
  BY <1>3, Zenon DEF ExistsBijection
<1> QED
  BY <1>4, FS_Bijection, Zenon

\* Nothing is in the empty queue.
LEMMA CountEmpty == Count(<<>>) = 0
<1>1. EventsIn(<<>>) = {}
  BY EmptySeq DEF EventsIn
<1> QED
  BY <1>1, FS_EmptySet DEF Count

\* One queue behind the other has the events of both.
LEMMA CountConcat ==
    ASSUME NEW a \in Seq(Entry), NEW b \in Seq(Entry)
    PROVE  Count(a \o b) = Count(a) + Count(b)
<1> DEFINE c == a \o b
           moved == [i \in EventsIn(b) |-> Len(a) + i]
           T == {i \in EventsIn(c) : i \notin DOMAIN a}
<1>1. /\ c \in Seq(Entry) /\ Len(a) \in Nat
      /\ DOMAIN a = 1..Len(a) /\ DOMAIN b \subseteq Nat \ {0}
      /\ \A i \in DOMAIN a : i \in DOMAIN c /\ c[i] = a[i]
      /\ \A i \in DOMAIN b : Len(a) + i \in DOMAIN c /\ c[Len(a) + i] = b[i]
      /\ \A i \in DOMAIN c :
           i \in DOMAIN a \/ (i - Len(a) \in DOMAIN b /\ i = Len(a) + (i - Len(a)))
  BY Concatenated
<1>2. /\ IsFiniteSet(EventsIn(a)) /\ Cardinality(EventsIn(a)) \in Nat
      /\ IsFiniteSet(EventsIn(b)) /\ Cardinality(EventsIn(b)) \in Nat
      /\ IsFiniteSet(EventsIn(c)) /\ Cardinality(EventsIn(c)) \in Nat
  BY <1>1, FeaturesInQueue
<1> HIDE DEF c
<1>3. EventsIn(c) = EventsIn(a) \cup T /\ EventsIn(a) \cap T = {}
  BY <1>1 DEF EventsIn
<1>4. IsFiniteSet(T)
  BY <1>2, FS_Subset
<1>5. moved \in [EventsIn(b) -> T]
  <2> SUFFICES ASSUME NEW i \in EventsIn(b) PROVE Len(a) + i \in T
    OBVIOUS
  <2>1. i \in DOMAIN b /\ b[i].feature \in Events
    BY DEF EventsIn
  <2>2. Len(a) + i \in DOMAIN c /\ c[Len(a) + i] = b[i]
    BY <1>1, <2>1
  <2>3. i \in Nat \ {0}
    BY <1>1, <2>1
  <2>4. Len(a) + i \notin DOMAIN a
    BY <1>1, <2>3
  <2> QED
    BY <2>1, <2>2, <2>4 DEF EventsIn
<1>6. \A i, j \in EventsIn(b) : moved[i] = moved[j] => i = j
  <2>1. EventsIn(b) \subseteq Nat
    BY <1>1 DEF EventsIn
  <2> QED
    BY <1>1, <2>1
<1>7. ASSUME NEW k \in T PROVE \E i \in EventsIn(b) : moved[i] = k
  <2>1. k \in DOMAIN c /\ c[k].feature \in Events /\ k \notin DOMAIN a
    BY DEF EventsIn
  <2>2. k - Len(a) \in DOMAIN b /\ k = Len(a) + (k - Len(a))
    BY <1>1, <2>1
  <2>3. c[k] = b[k - Len(a)]
    BY <1>1, <2>2
  <2>4. k - Len(a) \in EventsIn(b)
    BY <2>1, <2>2, <2>3 DEF EventsIn
  <2> QED
    BY <2>2, <2>4
<1> HIDE DEF moved, T
<1>8. Cardinality(T) = Cardinality(EventsIn(b))
  BY <1>2, <1>5, <1>6, <1>7, OneToOne
<1>9. Cardinality(EventsIn(a) \cup T)
        = Cardinality(EventsIn(a)) + Cardinality(T) - Cardinality(EventsIn(a) \cap T)
  BY <1>2, <1>4, FS_Union
<1>10. Cardinality(EventsIn(a) \cap T) = 0
  BY <1>3, FS_EmptySet
<1>11. Count(c) = Count(a) + Count(b)
  BY <1>2, <1>3, <1>8, <1>9, <1>10 DEF Count
<1> QED
  BY <1>11 DEF c

\* Keeping all events keeps their number.
LEMMA CountKeep ==
    ASSUME NEW q \in Seq(Entry), NEW I \in SUBSET (DOMAIN q), EventsIn(q) \subseteq I
    PROVE  Count(Keep(q, I)) = Count(q)
<1> DEFINE kept == Keep(q, I)
           at == [j \in EventsIn(kept) |-> Nth(I, j)]
<1>1. /\ kept \in Seq(Entry)
      /\ \A j \in DOMAIN kept : Nth(I, j) \in I /\ kept[j] = q[Nth(I, j)]
      /\ \A j, k \in DOMAIN kept : Nth(I, j) = Nth(I, k) => j = k
  BY KeepProperties
<1>2. \A i \in I : \E j \in DOMAIN kept : Nth(I, j) = i
  BY KeepMonotonic
<1> HIDE DEF kept
<1>3. IsFiniteSet(EventsIn(kept))
  BY <1>1, FeaturesInQueue
<1>4. at \in [EventsIn(kept) -> EventsIn(q)]
  BY <1>1 DEF EventsIn
<1>5. \A j, k \in EventsIn(kept) : at[j] = at[k] => j = k
  BY <1>1 DEF EventsIn
<1>6. \A i \in EventsIn(q) : \E j \in EventsIn(kept) : at[j] = i
  <2> SUFFICES ASSUME NEW i \in EventsIn(q) PROVE \E j \in EventsIn(kept) : Nth(I, j) = i
    OBVIOUS
  <2>1. i \in I /\ q[i].feature \in Events
    BY DEF EventsIn
  <2>2. PICK j \in DOMAIN kept : Nth(I, j) = i
    BY <1>2, <2>1
  <2>3. j \in EventsIn(kept)
    BY <1>1, <2>1, <2>2 DEF EventsIn
  <2> QED
    BY <2>2, <2>3
<1> HIDE DEF at
<1>7. Cardinality(EventsIn(q)) = Cardinality(EventsIn(kept))
  BY <1>3, <1>4, <1>5, <1>6, OneToOne
<1> QED
  BY <1>7 DEF Count, kept

\* Thinning keeps every event.
LEMMA CountThin == ASSUME NEW q \in Seq(Entry) PROVE Count(Thin(q)) = Count(q)
<1> DEFINE I == {i \in DOMAIN q :
                   \/ q[i].feature \in Events
                   \/ \A j \in DOMAIN q : q[j].feature = q[i].feature => i <= j
                   \/ \A j \in DOMAIN q : q[j].feature = q[i].feature => j <= i}
<1>1. I \in SUBSET (DOMAIN q) /\ Thin(q) = Keep(q, I)
  BY DEF Thin
<1>2. EventsIn(q) \subseteq I
  BY DEF EventsIn
<1> HIDE DEF I
<1> QED
  BY <1>1, <1>2, CountKeep

\* A batch comes back with all its events.
LEMMA CountRequeue ==
    ASSUME NEW batch \in Seq(Entry), NEW q \in Seq(Entry)
    PROVE  Count(Requeue(batch, q)) = Count(batch) + Count(q)
<1> DEFINE I == {i \in DOMAIN batch : batch[i].feature \notin FeaturesIn(q) \ Events}
           kept == Keep(batch, I)
<1>1. I \in SUBSET (DOMAIN batch) /\ EventsIn(batch) \subseteq I
  BY DEF EventsIn
<1>2. Requeue(batch, q) = kept \o q
  BY DEF Requeue
<1> HIDE DEF I
<1>3. kept \in Seq(Entry) /\ Count(kept) = Count(batch)
  BY <1>1, KeepProperties, CountKeep
<1> HIDE DEF kept
<1> QED
  BY <1>2, <1>3, CountConcat

\* A push adds an event, or none.
LEMMA CountPush ==
    ASSUME TypeOK, IndexConsistent, NEW f \in Features, NEW v \in Values, NEW no \in 1..MaxPush,
           Enqueue(f, v, no)
    PROVE  Count(queue') = Count(queue) + (IF f \in Events THEN 1 ELSE 0)
<1>1. queue \in Seq(Entry) /\ Len(queue) \in Nat /\ DOMAIN queue = 1..Len(queue)
  BY LenProperties DEF TypeOK
<1>2. IsFiniteSet(EventsIn(queue)) /\ Count(queue) \in Nat
  BY <1>1, FeaturesInQueue DEF Count
<1>3. CASE HasSlot(f)
  <2>1. f \notin Events
    BY <1>3, FeaturesAssumption DEF HasSlot
  <2>2. /\ DOMAIN queue' = DOMAIN queue
        /\ \A i \in DOMAIN queue : queue'[i].feature = queue[i].feature
    <3> DEFINE p == sampledIndex[f]
               e == [feature |-> queue[p].feature, state |-> v, no |-> no]
    <3>1. queue' = [queue EXCEPT ![p] = e] /\ e.feature = queue[p].feature
      BY <1>3 DEF Enqueue
    <3> HIDE DEF e
    <3> QED
      BY <1>1, <3>1
  <2>3. EventsIn(queue') = EventsIn(queue)
    BY <2>2 DEF EventsIn
  <2> QED
    BY <1>2, <2>1, <2>3 DEF Count
<1>4. CASE ~HasSlot(f)
  <2> DEFINE e == [feature |-> f, state |-> v, no |-> no]
             n == Len(queue) + 1
  <2>1. queue' = Append(queue, e) /\ e \in Entry /\ e.feature = f
    BY <1>4 DEF Enqueue, Entry
  <2> HIDE DEF e
  <2>2. queue' \in Seq(Entry) /\ Len(queue') = n
    BY <1>1, <2>1, AppendProperties
  <2>3. DOMAIN queue' = 1..n
    BY <2>2, LenProperties
  <2>4. queue'[n] = e /\ \A i \in 1..Len(queue) : queue'[i] = queue[i]
    BY <1>1, <2>1, AppendProperties
  <2>5. DOMAIN queue' = DOMAIN queue \cup {n} /\ n \notin DOMAIN queue
    BY <1>1, <2>3
  <2> HIDE DEF n
  <2>6. EventsIn(queue') = IF f \in Events THEN EventsIn(queue) \cup {n} ELSE EventsIn(queue)
    BY <1>1, <2>1, <2>4, <2>5 DEF EventsIn
  <2>7. n \notin EventsIn(queue)
    BY <2>5 DEF EventsIn
  <2>8. Cardinality(EventsIn(queue) \cup {n}) = Cardinality(EventsIn(queue)) + 1
    BY <1>2, <2>7, FS_AddElement
  <2> QED
    BY <1>2, <2>6, <2>8 DEF Count
<1> QED
  BY <1>3, <1>4

\* A turn of the loop of drain() loses no event but by the hard limit.
LEMMA CountDrain ==
    ASSUME TypeOK, NEW sent, SentType(sent), NEW ended \in BOOLEAN, Drain(sent, ended)
    PROVE  cutEvents' + Count(queue') + Count(inFlight') = cutEvents + Count(queue)
<1>1. queue \in Seq(Entry) /\ Len(queue) \in Nat /\ Count(queue) \in Nat /\ cutEvents \in Int
  BY LenProperties, FeaturesInQueue DEF TypeOK, Count
<1>2. CASE DrainedAll(sent)
  BY <1>1, <1>2, CountEmpty DEF DrainedAll
<1>3. CASE OverBudget(sent, ended)
  <2>1. queue' = Degrade(queue) /\ inFlight' = <<>>
    BY <1>3 DEF OverBudget
  <2>2. CASE Len(queue) <= HighWater
    BY <1>1, <1>3, <2>1, <2>2, CountEmpty DEF OverBudget, Degrade
  <2>3. CASE ~(Len(queue) <= HighWater)
    <3>1. cutEvents' = cutEvents + Count(Thin(queue)) - Count(queue')
      BY <1>3, <2>3 DEF OverBudget, CutFrom, Count
    <3>2. Count(queue') \in Nat
      BY <1>1, <2>1, DegradeType, FeaturesInQueue DEF Count
    <3> QED
      BY <1>1, <2>1, <3>1, <3>2, CountThin, CountEmpty
  <2> QED
    BY <2>2, <2>3
<1>4. CASE SendBatch(sent)
  <2> DEFINE size == BatchSize(sent, queue)
  <2>1. Budget(sent) \in Int
    BY FreshFinite
  <2>2. size \in Int /\ size <= Len(queue) /\ 0 <= size
    BY <1>1, <1>4, <2>1, LimitsAssumption DEF BatchSize, Smaller, SendBatch
  <2>3. /\ inFlight' = SubSeq(queue, 1, size) /\ queue' = SubSeq(queue, size + 1, Len(queue))
        /\ cutEvents' = cutEvents
    BY <1>4 DEF SendBatch
  <2> HIDE DEF size
  <2>4. inFlight' \in Seq(Entry) /\ queue' \in Seq(Entry) /\ queue = inFlight' \o queue'
    BY <1>1, <2>2, <2>3, Split
  <2>5. Count(queue) = Count(inFlight') + Count(queue')
    BY <2>4, CountConcat
  <2>6. Count(inFlight') \in Nat /\ Count(queue') \in Nat
    BY <2>4, FeaturesInQueue DEF Count
  <2> QED
    BY <1>1, <2>3, <2>5, <2>6
<1> QED
  BY <1>2, <1>3, <1>4 DEF Drain

\* Every event accepted is acknowledged, cut by the hard limit, queued, or in
\* flight: none is coalesced, superseded, thinned or lost on the way.
THEOREM EventsCounted == Spec => []EventsConserved
<1>1. Init => EventsConserved
  <2> SUFFICES ASSUME Init PROVE EventsConserved
    OBVIOUS
  <2> QED
    BY CountEmpty DEF Init, EventsConserved, Count
<1>2. TypeOK /\ IndexConsistent /\ EventsConserved /\ [Next]_vars => EventsConserved'
  <2> SUFFICES ASSUME TypeOK, IndexConsistent, EventsConserved, [Next]_vars
               PROVE  EventsConserved'
    OBVIOUS
  <2>1. /\ queue \in Seq(Entry) /\ inFlight \in Seq(Entry)
        /\ Count(queue) \in Nat /\ Count(inFlight) \in Nat
        /\ owed \in Int /\ cutEvents \in Int
    BY FeaturesInQueue DEF TypeOK, Count
  <2>2. owed = cutEvents + Count(queue) + Count(inFlight)
    BY DEF EventsConserved, Count
  <2>3. SUFFICES owed' = cutEvents' + Count(queue') + Count(inFlight')
    BY DEF EventsConserved, Count
  <2>4. ASSUME NEW f \in Features, NEW v \in Values, Push(f, v)
        PROVE  owed' = cutEvents' + Count(queue') + Count(inFlight')
    <3>1. /\ Enqueue(f, v, pushes + 1) /\ pushes + 1 \in 1..MaxPush
          /\ owed' = IF f \in Events THEN owed + 1 ELSE owed
          /\ UNCHANGED <<inFlight, cutEvents>>
      BY <2>4, BoundsAssumption DEF Push, TypeOK
    <3>2. Count(queue') = Count(queue) + (IF f \in Events THEN 1 ELSE 0)
      BY <3>1, CountPush
    <3> QED
      BY <2>1, <2>2, <3>1, <3>2
  <2>5. ASSUME inFlight = <<>>, owed' = owed, NEW ended \in BOOLEAN, Drain(sentAt, ended)
        PROVE  owed' = cutEvents' + Count(queue') + Count(inFlight')
    <3>1. cutEvents' + Count(queue') + Count(inFlight') = cutEvents + Count(queue)
      BY <2>5, CountDrain DEF TypeOK, SentType
    <3>2. Count(inFlight) = 0
      BY <2>5, CountEmpty
    <3> QED
      BY <2>1, <2>2, <2>5, <3>1, <3>2
  <2>6. CASE TimerFires
    BY <2>5, <2>6 DEF TimerFires, Flushing, TypeOK
  <2>7. CASE PublishOk
    <3>1. NumbersIn(inFlight) \subseteq 1..MaxPush
      BY <2>1, FeaturesInQueue
    <3>2. SentType(Accepted)
      BY <3>1, TimeAssumption DEF SentType, Accepted, TypeOK
    <3>3. cutEvents' + Count(queue') + Count(inFlight') = cutEvents + Count(queue)
      BY <2>7, <3>2, CountDrain DEF PublishOk, TypeOK
    <3>4. owed' = owed - Count(inFlight)
      BY <2>7 DEF PublishOk, Count
    <3> QED
      BY <2>1, <2>2, <3>3, <3>4
  <2>8. CASE PublishFails
    <3>1. queue' = Requeue(inFlight, queue) /\ inFlight' = <<>> /\ UNCHANGED <<owed, cutEvents>>
      BY <2>8 DEF PublishFails
    <3> QED
      BY <2>1, <2>2, <3>1, CountRequeue, CountEmpty
  <2>9. CASE Stop
    <3>1. CASE Flushing
      BY <2>2, <2>9, <3>1 DEF Stop
    <3>2. CASE ~Flushing
      BY <2>5, <2>9, <3>2 DEF Stop, Flushing
    <3> QED
      BY <3>1, <3>2
  <2>10. ASSUME \/ \E f \in Features, v \in Values : PushSuppressed(f, v)
                \/ \E f \in Creatable : DeviceCreated(f) \/ DeviceDeleted(f)
                \/ HostStores \/ Reset \/ Tick \/ UNCHANGED vars
         PROVE  owed' = cutEvents' + Count(queue') + Count(inFlight')
    BY <2>2, <2>10 DEF PushSuppressed, DeviceCreated, DeviceDeleted, HostStores, Reset,
                       Tick, vars, code, ghosts
  <2> QED
    BY <2>4, <2>6, <2>7, <2>8, <2>9, <2>10 DEF Next
<1> QED
  BY <1>1, <1>2, TypeCorrect, IndexCorrect, PTL DEF Spec
=============================================================================
