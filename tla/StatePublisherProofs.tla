------------------------ MODULE StatePublisherProofs ------------------------
(***************************************************************************)
(* Theorems about StatePublisher, for every value of its constants.        *)
(***************************************************************************)
EXTENDS StatePublisher, TLAPS, FiniteSetTheorems, SequenceTheorems

-----------------------------------------------------------------------------
(* Keep: the subsequence at a set of positions. *)

Rank(I, i) == Cardinality({k \in I : k <= i})

\* The positions of a queue are finitely many.
LEMMA PositionsFinite ==
    ASSUME NEW n \in Nat, NEW I \in SUBSET (1..n)
    PROVE  IsFiniteSet(I) /\ Cardinality(I) \in Nat
<1>1. IsFiniteSet(1..n)
  <2>1. 1 \in Int /\ n \in Int
    OBVIOUS
  <2> QED
    BY <2>1, FS_Interval
<1>2. IsFiniteSet(I)
  BY <1>1, FS_Subset, Zenon
<1> QED
  BY <1>2, FS_CardinalityType, Zenon

\* Ranks count from 1 to the size of the set.
LEMMA RankRange ==
    ASSUME NEW n \in Nat, NEW I \in SUBSET (1..n), NEW i \in I
    PROVE  Rank(I, i) \in 1..Cardinality(I)
<1> DEFINE upTo == {k \in I : k <= i}
<1>1. IsFiniteSet(I) /\ Cardinality(I) \in Nat
  BY PositionsFinite
<1>2. upTo \in SUBSET I
  OBVIOUS
<1>3. /\ IsFiniteSet(upTo) /\ Cardinality(upTo) <= Cardinality(I)
  BY <1>1, <1>2, FS_Subset
<1>4. Cardinality(upTo) \in Nat /\ Cardinality(I) \in Nat
  BY <1>1, <1>3, FS_CardinalityType
<1>5. i \in upTo
  OBVIOUS
<1>6. Cardinality(upTo) # 0
  BY <1>3, <1>5, FS_EmptySet
<1> QED
  BY <1>3, <1>4, <1>6 DEF Rank

\* A smaller position has a smaller rank.
LEMMA RankMonotonic ==
    ASSUME NEW n \in Nat, NEW I \in SUBSET (1..n), NEW i \in I, NEW k \in I, i < k
    PROVE  Rank(I, i) < Rank(I, k)
<1> DEFINE upToI == {x \in I : x <= i}
           upToK == {x \in I : x <= k}
<1>1. IsFiniteSet(I) /\ Cardinality(I) \in Nat
  BY PositionsFinite
<1>2. upToK \in SUBSET I
  OBVIOUS
<1>3. IsFiniteSet(upToK)
  BY <1>1, <1>2, FS_Subset
<1>4. upToI \in SUBSET upToK
  <2>1. i \in Int /\ k \in Int /\ \A x \in I : x \in Int
    OBVIOUS
  <2>2. \A x \in Int : x <= i => x <= k
    BY <2>1
  <2> QED
    BY <2>1, <2>2, Zenon
<1>5. k \in upToK /\ k \notin upToI
  OBVIOUS
<1>6. upToI # upToK
  BY <1>5
<1>7. /\ IsFiniteSet(upToI)
      /\ Cardinality(upToI) <= Cardinality(upToK)
      /\ Cardinality(upToI) # Cardinality(upToK)
  BY <1>3, <1>4, <1>6, FS_Subset
<1>8. Cardinality(upToI) \in Nat /\ Cardinality(upToK) \in Nat
  BY <1>3, <1>7, FS_CardinalityType
<1> QED
  BY <1>7, <1>8 DEF Rank

\* Every rank is taken: Nth is well defined and Rank is its inverse.
LEMMA NthRank ==
    ASSUME NEW n \in Nat, NEW I \in SUBSET (1..n)
    PROVE  /\ Cardinality(I) \in Nat
           /\ \A j \in 1..Cardinality(I) : Nth(I, j) \in I /\ Rank(I, Nth(I, j)) = j
<1> DEFINE rank == [i \in I |-> Rank(I, i)]
<1>1. IsFiniteSet(I) /\ Cardinality(I) \in Nat
  BY PositionsFinite
<1>2. Cardinality(I) \in Nat
  BY <1>1, FS_CardinalityType
<1>3. /\ IsFiniteSet(1..Cardinality(I))
      /\ Cardinality(1..Cardinality(I)) = Cardinality(I)
  BY <1>2, FS_Interval
<1>4. rank \in [I -> 1..Cardinality(I)]
  BY RankRange
<1>5. \A i, k \in I : rank[i] = rank[k] => i = k
  <2> SUFFICES ASSUME NEW i \in I, NEW k \in I, i # k
               PROVE  Rank(I, i) # Rank(I, k)
    OBVIOUS
  <2>1. Rank(I, i) \in Int /\ Rank(I, k) \in Int
    <3>1. Rank(I, i) \in 1..Cardinality(I) /\ Rank(I, k) \in 1..Cardinality(I)
      BY RankRange, Zenon
    <3> QED
      BY <3>1
  <2>2. i < k \/ k < i
    OBVIOUS
  <2>3. Rank(I, i) < Rank(I, k) \/ Rank(I, k) < Rank(I, i)
    BY <2>2, RankMonotonic, Zenon
  <2> QED
    BY <2>1, <2>3
<1>6. rank \in Injection(I, 1..Cardinality(I))
  BY <1>4, <1>5 DEF Injection, IsInjective
<1>7. rank \in Surjection(I, 1..Cardinality(I))
  BY <1>1, <1>3, <1>6, FS_Injection
<1>8. \A j \in 1..Cardinality(I) : \E i \in I : Rank(I, i) = j
  BY <1>7 DEF Surjection
<1> QED
  BY <1>2, <1>8 DEF Nth, Rank

\* A kept entry is an entry of the sequence, each at most once and in order.
LEMMA KeepProperties ==
    ASSUME NEW S, NEW q \in Seq(S), NEW I \in SUBSET (DOMAIN q)
    PROVE  /\ Keep(q, I) \in Seq(S)
           /\ DOMAIN Keep(q, I) = 1..Cardinality(I)
           /\ Cardinality(I) \in Nat
           /\ \A j \in DOMAIN Keep(q, I) :
                Nth(I, j) \in I /\ Keep(q, I)[j] = q[Nth(I, j)]
           /\ \A j, k \in DOMAIN Keep(q, I) : Nth(I, j) = Nth(I, k) => j = k
<1>1. /\ Len(q) \in Nat /\ DOMAIN q = 1..Len(q)
      /\ \A i \in 1..Len(q) : q[i] \in S
  BY LenProperties, ElementOfSeq
<1>2. /\ Cardinality(I) \in Nat
      /\ \A j \in 1..Cardinality(I) : Nth(I, j) \in I /\ Rank(I, Nth(I, j)) = j
  BY <1>1, NthRank
<1>3. Keep(q, I) \in [1..Cardinality(I) -> S]
  BY <1>1, <1>2 DEF Keep
<1>4. Keep(q, I) \in Seq(S)
  BY <1>2, <1>3, SeqDef
<1> QED
  BY <1>2, <1>3, <1>4 DEF Keep

-----------------------------------------------------------------------------
(* The operators on queues keep queues queues. *)

\* A feature of a queue has a newest entry.
LEMMA LastOfProperties ==
    ASSUME NEW q \in Seq(Entry), NEW f \in FeaturesIn(q)
    PROVE  /\ LastOf(q, f) \in DOMAIN q
           /\ q[LastOf(q, f)].feature = f
           /\ \A j \in DOMAIN q : q[j].feature = f => j <= LastOf(q, f)
<1> DEFINE I == {i \in DOMAIN q : q[i].feature = f}
           c == Cardinality(I)
           last == Nth(I, c)
<1>1. Len(q) \in Nat /\ DOMAIN q = 1..Len(q)
  BY LenProperties
<1>2. I \in SUBSET (1..Len(q)) /\ I # {}
  BY <1>1 DEF FeaturesIn
<1> HIDE DEF I
<1>3. IsFiniteSet(I) /\ c \in Nat
  BY <1>1, <1>2, PositionsFinite, Zenon
<1>4. c # 0
  BY <1>2, <1>3, FS_EmptySet, Zenon
<1>5. last \in I /\ Rank(I, last) = c
  <2>1. c \in 1..c
    BY <1>3, <1>4
  <2> QED
    BY <1>1, <1>2, <2>1, NthRank, Zenon
<1>6. {k \in I : k <= last} = I
  <2>1. {k \in I : k <= last} \in SUBSET I
    OBVIOUS
  <2>2. Cardinality({k \in I : k <= last}) = c
    BY <1>5, Zenon DEF Rank
  <2> QED
    BY <1>3, <2>1, <2>2, FS_Subset, Zenon
<1>7. \E i \in DOMAIN q :
        q[i].feature = f /\ \A j \in DOMAIN q : q[j].feature = f => j <= i
  <2>1. last \in DOMAIN q /\ q[last].feature = f
    BY <1>5 DEF I
  <2>2. \A j \in DOMAIN q : q[j].feature = f => j <= last
    BY <1>6 DEF I
  <2> QED
    BY <2>1, <2>2
<1> QED
  BY <1>7 DEF LastOf

\* The features of a queue are features.
LEMMA FeaturesInQueue ==
    ASSUME NEW q \in Seq(Entry)
    PROVE  /\ FeaturesIn(q) \subseteq Features
           /\ NumbersIn(q) \subseteq 1..MaxPush
           /\ IsFiniteSet(EventsIn(q)) /\ Cardinality(EventsIn(q)) \in Nat
<1>1. /\ Len(q) \in Nat /\ DOMAIN q = 1..Len(q)
      /\ \A i \in 1..Len(q) : q[i] \in Entry
  BY LenProperties, ElementOfSeq
<1>2. EventsIn(q) \in SUBSET (1..Len(q))
  BY <1>1 DEF EventsIn
<1>3. IsFiniteSet(EventsIn(q)) /\ Cardinality(EventsIn(q)) \in Nat
  BY <1>1, <1>2, PositionsFinite, Zenon
<1> QED
  BY <1>1, <1>3 DEF FeaturesIn, NumbersIn, Entry

\* A stretch of a queue is a queue.
LEMMA SubSeqType ==
    ASSUME NEW S, NEW q \in Seq(S), NEW m \in Int, NEW n \in Int, 1 <= m, n <= Len(q)
    PROVE  /\ SubSeq(q, m, n) \in Seq(S)
           /\ Len(SubSeq(q, m, n)) = IF m <= n THEN n - m + 1 ELSE 0
           /\ \A i \in 1..(n - m + 1) : SubSeq(q, m, n)[i] = q[m + i - 1]
<1>1. Len(q) \in Nat /\ \A i \in 1..Len(q) : q[i] \in S
  BY LenProperties, ElementOfSeq
<1>2. \A i \in m..n : q[i] \in S
  BY <1>1
<1> QED
  BY <1>2, SubSeqProperties

\* The hard limit is a positive number.
LEMMA HardLimitType == HardLimit \in Nat \ {0}
BY LimitsAssumption DEF HardLimit

\* Thinning a queue gives a queue.
LEMMA ThinType ==
    ASSUME NEW q \in Seq(Entry) PROVE Thin(q) \in Seq(Entry)
BY KeepProperties DEF Thin

\* degrade() returns a queue.
LEMMA DegradeType ==
    ASSUME NEW q \in Seq(Entry) PROVE Degrade(q) \in Seq(Entry)
<1>1. Thin(q) \in Seq(Entry) /\ Len(Thin(q)) \in Nat
  BY ThinType, LenProperties
<1>2. ASSUME Len(Thin(q)) > HardLimit
      PROVE  SubSeq(Thin(q), Len(Thin(q)) - HardLimit + 1, Len(Thin(q))) \in Seq(Entry)
  <2>1. /\ Len(Thin(q)) - HardLimit + 1 \in Int /\ 1 <= Len(Thin(q)) - HardLimit + 1
        /\ Len(Thin(q)) \in Int /\ Len(Thin(q)) <= Len(Thin(q))
    BY <1>1, <1>2, HardLimitType
  <2> QED
    BY <1>1, <2>1, SubSeqType, Zenon
<1> QED
  BY <1>1, <1>2, HardLimitType DEF Degrade, EnforceHardLimit

\* requeue() returns a queue.
LEMMA RequeueType ==
    ASSUME NEW batch \in Seq(Entry), NEW q \in Seq(Entry)
    PROVE  Requeue(batch, q) \in Seq(Entry)
<1> DEFINE I == {i \in DOMAIN batch : batch[i].feature \notin FeaturesIn(q) \ Events}
<1>1. I \in SUBSET (DOMAIN batch)
  OBVIOUS
<1>2. Keep(batch, I) \in Seq(Entry)
  BY <1>1, KeepProperties, Zenon
<1> QED
  BY <1>2, ConcatProperties DEF Requeue

-----------------------------------------------------------------------------
(* Types. *)

SentType(sent) ==
    DOMAIN sent \subseteq 1..MaxPush /\ \A n \in DOMAIN sent : sent[n] \in 0..Window

\* What one run of the drain loop may make of the variables it changes.
DrainType ==
    /\ queue' \in Seq(Entry) /\ inFlight' \in Seq(Entry)
    /\ DOMAIN sampledIndex' \subseteq Sampled
    /\ SentType(sentAt')
    /\ timer' \in BOOLEAN /\ (timer' => inFlight' = <<>>)
    /\ cutEvents' \in Int /\ cut' \subseteq Features \ Events

\* The timestamps inside the window are finitely many.
LEMMA FreshFinite ==
    ASSUME NEW sent, SentType(sent)
    PROVE  /\ IsFiniteSet(Fresh(sent)) /\ Cardinality(Fresh(sent)) \in Nat
           /\ Budget(sent) \in Int
<1>1. Fresh(sent) \in SUBSET (1..MaxPush)
  BY DEF Fresh, SentType
<1>2. IsFiniteSet(Fresh(sent)) /\ Cardinality(Fresh(sent)) \in Nat
  BY <1>1, BoundsAssumption, PositionsFinite, Zenon
<1> QED
  BY <1>2, LimitsAssumption DEF Budget

\* A turn of the loop of drain() keeps the types of what it assigns.
LEMMA DrainTyped ==
    ASSUME TypeOK, NEW sent, SentType(sent), NEW ended \in BOOLEAN, Drain(sent, ended)
    PROVE  DrainType
<1>1. queue \in Seq(Entry) /\ cut \subseteq Features \ Events /\ cutEvents \in Int
      /\ DOMAIN sampledIndex \subseteq Sampled
  BY DEF TypeOK
<1>2. SentType(Prune(sent))
  BY DEF SentType, Prune, Fresh
<1>3. CASE DrainedAll(sent)
  <2>1. inFlight' \in Seq(Entry)
    BY <1>3, EmptySeq DEF DrainedAll
  <2> QED
    BY <1>1, <1>3, <2>1 DEF DrainedAll, DrainType
<1>4. CASE OverBudget(sent, ended)
  <2>1. queue' \in Seq(Entry) /\ inFlight' = <<>> /\ <<>> \in Seq(Entry)
    BY <1>1, <1>4, DegradeType, EmptySeq DEF OverBudget
  <2>2. DOMAIN sampledIndex' \subseteq Sampled
    BY <1>1, <1>4 DEF OverBudget, Reindex
  <2>3. cutEvents' \in Int /\ cut' \subseteq Features \ Events
    <3>1. CASE Len(queue) <= HighWater
      BY <1>1, <1>4, <3>1 DEF OverBudget
    <3>2. CASE ~(Len(queue) <= HighWater)
      <4>1. CutFrom(Thin(queue), queue')
        BY <1>4, <3>2 DEF OverBudget
      <4>2. /\ FeaturesIn(Thin(queue)) \subseteq Features
            /\ Cardinality(EventsIn(Thin(queue))) \in Nat
            /\ Cardinality(EventsIn(queue')) \in Nat
        BY <1>1, <2>1, ThinType, FeaturesInQueue
      <4> QED
        BY <1>1, <4>1, <4>2 DEF CutFrom
    <3> QED
      BY <3>1, <3>2
  <2>4. timer' \in BOOLEAN
    BY <1>4 DEF OverBudget, Retry
  <2> QED
    BY <1>2, <1>4, <2>1, <2>2, <2>3, <2>4 DEF OverBudget, DrainType
<1>5. CASE SendBatch(sent)
  <2> DEFINE size == BatchSize(sent, queue)
  <2>1. Len(queue) \in Nat /\ Budget(sent) \in Int
    BY <1>1, LenProperties, FreshFinite
  <2>2. size \in Int /\ size <= Len(queue) /\ 0 <= size
    BY <1>5, <2>1, LimitsAssumption DEF BatchSize, Smaller, SendBatch
  <2> HIDE DEF size
  <2>3. SubSeq(queue, 1, size) \in Seq(Entry)
    BY <1>1, <2>2, SubSeqType
  <2>4. SubSeq(queue, size + 1, Len(queue)) \in Seq(Entry)
    BY <1>1, <2>1, <2>2, SubSeqType
  <2>5. inFlight' \in Seq(Entry) /\ queue' \in Seq(Entry)
    BY <1>5, <2>3, <2>4 DEF SendBatch, size
  <2>6. DOMAIN sampledIndex' \subseteq Sampled
    BY <1>5 DEF SendBatch, Reindex
  <2> QED
    BY <1>1, <1>2, <1>5, <2>5, <2>6 DEF SendBatch, DrainType
<1> QED
  BY <1>3, <1>4, <1>5 DEF Drain

\* The variables of the publisher are well typed, and a timer is never armed
\* while a drain runs.
THEOREM TypeCorrect == Spec => []TypeOK
<1>1. Init => TypeOK
  <2> SUFFICES ASSUME Init PROVE TypeOK
    OBVIOUS
  <2>1. <<>> \in Seq(Entry) /\ DOMAIN <<>> = {}
    BY EmptySeq
  <2>2. /\ known \subseteq Features /\ cut \subseteq Features \ Events
        /\ timer \in BOOLEAN /\ stopped \in BOOLEAN /\ arrived \in BOOLEAN
        /\ ~timer /\ ~arrived /\ blank = {} /\ deleted = {}
    BY Zenon DEF Init
  <2>3. owed \in Int /\ cutEvents \in Int /\ pushes \in 0..MaxPush /\ lost \in 0..MaxLost
    BY BoundsAssumption DEF Init
  <2>4. /\ DOMAIN sampledIndex = {} /\ DOMAIN lastPublished = {} /\ DOMAIN sentAt = {}
        /\ DOMAIN received = {} /\ DOMAIN told = {} /\ DOMAIN reported = {}
        /\ queue \in Seq(Entry) /\ inFlight \in Seq(Entry)
    BY <2>1, Zenon DEF Init
  <2> QED
    BY <2>2, <2>3, <2>4 DEF TypeOK
<1>2. TypeOK /\ [Next]_vars => TypeOK'
  <2> SUFFICES ASSUME TypeOK, [Next]_vars PROVE TypeOK'
    OBVIOUS
  <2>1. ASSUME NEW f \in Features, NEW v \in Values, Push(f, v)
        PROVE  TypeOK'
    <3> DEFINE no == pushes + 1
    <3>1. no \in 1..MaxPush /\ pushes' = no
      BY <2>1, BoundsAssumption DEF Push, TypeOK
    <3>2. [feature |-> f, state |-> v, no |-> no] \in Entry
      BY <3>1 DEF Entry
    <3>3. queue' \in Seq(Entry) /\ DOMAIN sampledIndex' \subseteq Sampled
      <4>1. CASE HasSlot(f)
        <5>1. sampledIndex[f] \in 1..Len(queue)
          BY <4>1, LenProperties DEF HasSlot, TypeOK
        <5>2. queue[sampledIndex[f]] \in Entry
          BY <5>1, ElementOfSeq DEF TypeOK
        <5>3. [feature |-> queue[sampledIndex[f]].feature, state |-> v, no |-> no] \in Entry
          BY <3>1, <5>2 DEF Entry
        <5>4. /\ queue' = [queue EXCEPT ![sampledIndex[f]] =
                   [feature |-> queue[sampledIndex[f]].feature, state |-> v, no |-> no]]
              /\ sampledIndex' = sampledIndex
          BY <2>1, <4>1 DEF Push, Enqueue
        <5>5. queue \in Seq(Entry) /\ DOMAIN sampledIndex \subseteq Sampled
          BY DEF TypeOK
        <5>6. queue' \in Seq(Entry)
          BY <5>1, <5>3, <5>4, <5>5, ExceptSeq, Zenon
        <5> QED
          BY <5>4, <5>5, <5>6
      <4>2. CASE ~HasSlot(f)
        <5>1. queue' = Append(queue, [feature |-> f, state |-> v, no |-> no])
          BY <2>1, <4>2 DEF Push, Enqueue
        <5>2. queue' \in Seq(Entry)
          BY <3>2, <5>1, AppendProperties DEF TypeOK
        <5>3. DOMAIN sampledIndex' \subseteq Sampled
          BY <2>1, <4>2 DEF Push, Enqueue, TypeOK, Put
        <5> QED
          BY <5>2, <5>3
      <4> QED
        BY <4>1, <4>2
    <3>4. /\ DOMAIN lastPublished' \subseteq Features
          /\ \A g \in DOMAIN lastPublished' :
               lastPublished'[g] \in [state : Values, age : 0..DedupTTL]
      BY <2>1, TimeAssumption DEF Push, TypeOK, Put
    <3>5. /\ DOMAIN reported' \subseteq Features
          /\ \A g \in DOMAIN reported' : reported'[g] \in Values
      BY <2>1 DEF Push, TypeOK, Put
    <3>6. timer' \in BOOLEAN /\ (timer' => ~Flushing)
      BY <2>1 DEF Push, TypeOK, Schedule
    <3> QED
      BY <2>1, <3>1, <3>3, <3>4, <3>5, <3>6 DEF Push, TypeOK, Flushing
  <2>2. ASSUME NEW f \in Features, NEW v \in Values, PushSuppressed(f, v)
        PROVE  TypeOK'
    BY <2>2 DEF PushSuppressed, TypeOK, code, Put, Flushing
  <2>3. ASSUME NEW f \in Creatable, DeviceCreated(f) \/ DeviceDeleted(f)
        PROVE  TypeOK'
    BY <2>3, FeaturesAssumption DEF DeviceCreated, DeviceDeleted, Without, TypeOK, ghosts, Flushing
  <2>4. CASE TimerFires
    <3>1. DrainType
      BY <2>4, DrainTyped DEF TypeOK, TimerFires, SentType
    <3> QED
      BY <2>4, <3>1 DEF TimerFires, TypeOK, DrainType, SentType, Flushing
  <2>5. CASE HostStores
    <3>1. /\ FeaturesIn(inFlight) \subseteq Features
          /\ NumbersIn(inFlight) \subseteq 1..MaxPush
      BY FeaturesInQueue DEF TypeOK
    <3>2. \A f \in FeaturesIn(inFlight) : inFlight[LastOf(inFlight, f)] \in Entry
      BY LastOfProperties, ElementOfSeq, LenProperties DEF TypeOK
    <3>3. /\ DOMAIN told' \subseteq Features
          /\ \A f \in DOMAIN told' : told'[f] \in [state : Values, no : 1..MaxPush]
      BY <2>5, <3>1, <3>2 DEF HostStores, TypeOK, Entry
    <3>4. /\ DOMAIN received' \subseteq (1..MaxPush) \X (0..MaxLost)
          /\ \A r \in DOMAIN received' : received'[r] \in 0..(Window - 1)
      BY <2>5, <3>1, TimeAssumption DEF HostStores, TypeOK
    <3> QED
      BY <2>5, <3>3, <3>4 DEF HostStores, TypeOK, code, Flushing
  <2>6. CASE PublishOk
    <3>1. NumbersIn(inFlight) \subseteq 1..MaxPush /\ Cardinality(EventsIn(inFlight)) \in Nat
      BY FeaturesInQueue DEF TypeOK
    <3>2. SentType(Accepted)
      BY <3>1, TimeAssumption DEF SentType, Accepted, TypeOK
    <3>3. DrainType
      BY <2>6, <3>2, DrainTyped DEF PublishOk, TypeOK
    <3>4. owed' \in Int
      BY <2>6, <3>1 DEF PublishOk, TypeOK
    <3> QED
      BY <2>6, <3>3, <3>4 DEF PublishOk, TypeOK, DrainType, SentType, Flushing
  <2>7. CASE PublishFails
    <3>1. queue' \in Seq(Entry) /\ inFlight' \in Seq(Entry)
      BY <2>7, RequeueType, EmptySeq DEF PublishFails, TypeOK
    <3>2. lost' \in 0..MaxLost /\ timer' \in BOOLEAN
      BY <2>7, BoundsAssumption DEF PublishFails, TypeOK, Retry
    <3> QED
      BY <2>7, <3>1, <3>2 DEF PublishFails, TypeOK, Reindex, Flushing
  <2>8. CASE Stop
    <3>1. CASE Flushing
      BY <2>8, <3>1 DEF Stop, TypeOK, Flushing
    <3>2. CASE ~Flushing
      <4>1. DrainType
        BY <2>8, <3>2, DrainTyped DEF Stop, TypeOK, SentType
      <4> QED
        BY <2>8, <3>2, <4>1 DEF Stop, TypeOK, DrainType, SentType, Flushing
    <3> QED
      BY <3>1, <3>2
  <2>9. CASE Reset
    <3>1. DOMAIN lastPublished' = {}
      BY <2>9 DEF Reset
    <3> QED
      BY <2>9, <3>1 DEF Reset, TypeOK, ghosts, Flushing
  <2>10. CASE Tick
    <3>1. /\ DOMAIN sentAt' \subseteq 1..MaxPush
          /\ \A n \in DOMAIN sentAt' : sentAt'[n] \in 0..Window
      BY <2>10, TimeAssumption DEF Tick, TypeOK, Older, Smaller
    <3>2. /\ DOMAIN lastPublished' \subseteq Features
          /\ \A f \in DOMAIN lastPublished' :
               lastPublished'[f] \in [state : Values, age : 0..DedupTTL]
      BY <2>10, TimeAssumption DEF Tick, TypeOK, Older, Smaller
    <3>3. /\ DOMAIN received' \subseteq (1..MaxPush) \X (0..MaxLost)
          /\ \A r \in DOMAIN received' : received'[r] \in 0..(Window - 1)
      BY <2>10, TimeAssumption DEF Tick, TypeOK
    <3> QED
      BY <2>10, <3>1, <3>2, <3>3 DEF Tick, TypeOK, Flushing
  <2>11. CASE UNCHANGED vars
    BY <2>11 DEF vars, TypeOK, Flushing
  <2> QED
    BY <2>1, <2>2, <2>3, <2>4, <2>5, <2>6, <2>7, <2>8, <2>9, <2>10, <2>11 DEF Next
<1> QED
  BY <1>1, <1>2, PTL DEF Spec

-----------------------------------------------------------------------------
(* The budget.  What left the window of the publisher left that of the host *)
(* before; what the host counts and the publisher does not is the batch     *)
(* whose answer is on its way.                                              *)

\* The publisher never has more than the budget counted or on its way.
Reserved(sent, batch) == Cardinality(Fresh(sent)) + Len(batch) <= MaxPerMinute

\* All that is in the host's window is accounted for by the publisher.
Covered(sent, batch) ==
    \A r \in DOMAIN received :
        \/ arrived /\ r[1] \in NumbersIn(batch)
        \/ r[1] \in Fresh(sent) /\ sent[r[1]] <= received[r]

\* The host stored no report twice.
StoredOnce == \A r \in DOMAIN received : r[2] = 0

BudgetInv == Reserved(sentAt, inFlight) /\ Covered(sentAt, inFlight) /\ StoredOnce

BudgetUntilLoss == lost = 0 => BudgetInv

\* A lost answer stays lost.
LEMMA LostForGood ==
    ASSUME TypeOK, [Next]_vars, lost' = 0
    PROVE  lost = 0 /\ (PublishFails => ~arrived)
<1>1. lost \in Nat
  BY BoundsAssumption DEF TypeOK
<1>2. CASE PublishFails
  BY <1>1, <1>2 DEF PublishFails, TypeOK
<1>3. CASE ~PublishFails
  BY <1>3 DEF Next, vars, code, ghosts, Push, PushSuppressed, DeviceCreated, DeviceDeleted,
              TimerFires, HostStores, PublishOk, Stop, Reset, Tick
<1> QED
  BY <1>2, <1>3

\* A run of the drain loop keeps the reservation, whatever it sends.
LEMMA DrainReserves ==
    ASSUME TypeOK, NEW sent, SentType(sent), NEW ended \in BOOLEAN, Drain(sent, ended),
           Cardinality(Fresh(sent)) <= MaxPerMinute
    PROVE  /\ Reserved(sentAt', inFlight')
           /\ Fresh(sentAt') = Fresh(sent)
           /\ \A n \in Fresh(sent) : sentAt'[n] = sent[n]
<1>1. Fresh(Prune(sent)) = Fresh(sent) /\ \A n \in Fresh(sent) : Prune(sent)[n] = sent[n]
  BY DEF Prune, Fresh
<1>2. Cardinality(Fresh(sent)) \in Nat /\ MaxPerMinute \in Nat
  BY FreshFinite, LimitsAssumption
<1>3. Fresh(sentAt') = Fresh(sent) /\ \A n \in Fresh(sent) : sentAt'[n] = sent[n]
  BY <1>1 DEF Drain, DrainedAll, OverBudget, SendBatch
<1>4. ASSUME inFlight' = <<>>
      PROVE  Reserved(sentAt', inFlight')
  <2>1. Len(<<>>) = 0
    BY EmptySeq
  <2> QED
    BY <1>2, <1>3, <1>4, <2>1 DEF Reserved
<1>5. CASE SendBatch(sent)
  <2> DEFINE size == BatchSize(sent, queue)
  <2>1. Len(queue) \in Nat /\ Budget(sent) \in Int /\ queue \in Seq(Entry)
    BY LenProperties, FreshFinite DEF TypeOK
  <2>2. size \in Int /\ size <= Len(queue) /\ 0 <= size /\ size <= Budget(sent)
    BY <1>5, <2>1, LimitsAssumption DEF BatchSize, Smaller, SendBatch
  <2>3. inFlight' = SubSeq(queue, 1, size)
    BY <1>5 DEF SendBatch
  <2> HIDE DEF size
  <2>4. Len(inFlight') = size
    BY <2>1, <2>2, <2>3, SubSeqType
  <2> QED
    BY <1>2, <1>3, <2>2, <2>4 DEF Reserved, Budget
<1> QED
  BY <1>3, <1>4, <1>5 DEF Drain, DrainedAll, OverBudget

\* A batch carries no more report numbers than it has entries.
LEMMA BatchNumbers ==
    ASSUME NEW q \in Seq(Entry)
    PROVE  IsFiniteSet(NumbersIn(q)) /\ Cardinality(NumbersIn(q)) <= Len(q)
<1> DEFINE number == [i \in 1..Len(q) |-> q[i].no]
<1>1. Len(q) \in Nat /\ DOMAIN q = 1..Len(q)
  BY LenProperties
<1>2. IsFiniteSet(1..Len(q)) /\ Cardinality(1..Len(q)) = Len(q)
  BY <1>1, FS_Interval
<1>3. number \in Surjection(1..Len(q), NumbersIn(q))
  BY <1>1 DEF Surjection, NumbersIn
<1> QED
  BY <1>2, <1>3, FS_Surjection

\* The inductive invariant behind HostBudget holds of every behaviour.
THEOREM BudgetInvariant == Spec => []BudgetUntilLoss
<1>1. Init => BudgetUntilLoss
  <2> SUFFICES ASSUME Init PROVE BudgetInv
    BY DEF BudgetUntilLoss
  <2>1. DOMAIN sentAt = {} /\ DOMAIN received = {} /\ Len(inFlight) = 0
    BY EmptySeq DEF Init
  <2>2. Fresh(sentAt) = {}
    BY <2>1 DEF Fresh
  <2>3. Cardinality(Fresh(sentAt)) = 0
    BY <2>2, FS_EmptySet
  <2> QED
    BY <2>1, <2>3, LimitsAssumption DEF BudgetInv, Reserved, Covered, StoredOnce
<1>2. TypeOK /\ BudgetUntilLoss /\ [Next]_vars => BudgetUntilLoss'
  <2> SUFFICES ASSUME TypeOK, lost = 0 => BudgetInv, [Next]_vars, lost' = 0
               PROVE  BudgetInv'
    BY DEF BudgetUntilLoss
  <2>0. lost = 0 /\ BudgetInv /\ (PublishFails => ~arrived)
    BY LostForGood
  <2>1. inFlight \in Seq(Entry) /\ Len(inFlight) \in Nat /\ SentType(sentAt)
    BY LenProperties DEF TypeOK, SentType
  <2>2. Cardinality(Fresh(sentAt)) \in Nat /\ IsFiniteSet(Fresh(sentAt))
    BY <2>1, FreshFinite
  <2>3. Cardinality(Fresh(sentAt)) <= MaxPerMinute
    BY <2>0, <2>1, <2>2, LimitsAssumption DEF BudgetInv, Reserved
  <2>4. ASSUME UNCHANGED <<sentAt, inFlight, arrived, received>>
        PROVE  BudgetInv'
    BY <2>0, <2>4 DEF BudgetInv, Reserved, Covered, StoredOnce
  <2>5. ASSUME NEW ended \in BOOLEAN, Drain(sentAt, ended), ~arrived,
               UNCHANGED <<arrived, received>>
        PROVE  BudgetInv'
    <3>1. /\ Reserved(sentAt', inFlight')
          /\ Fresh(sentAt') = Fresh(sentAt)
          /\ \A n \in Fresh(sentAt) : sentAt'[n] = sentAt[n]
      BY <2>1, <2>3, <2>5, DrainReserves
    <3> QED
      BY <2>0, <2>5, <3>1 DEF BudgetInv, Covered, Reserved, StoredOnce
  <2>6. CASE HostStores
    <3>1. \A r \in DOMAIN received' :
            \/ r[1] \in NumbersIn(inFlight) /\ r[2] = 0
            \/ r \in DOMAIN received /\ received'[r] = received[r]
      BY <2>0, <2>6 DEF HostStores
    <3> QED
      BY <2>0, <2>6, <3>1 DEF HostStores, code, BudgetInv, Reserved, Covered, StoredOnce
  <2>7. CASE PublishOk
    <3>1. NumbersIn(inFlight) \subseteq 1..MaxPush
      BY <2>1, FeaturesInQueue
    <3>2. SentType(Accepted)
      BY <2>1, <3>1, TimeAssumption DEF SentType, Accepted
    <3>3. Fresh(Accepted) = Fresh(sentAt) \cup NumbersIn(inFlight)
      BY TimeAssumption DEF Fresh, Accepted
    <3>4. Cardinality(Fresh(Accepted)) <= MaxPerMinute
      <4>1. /\ IsFiniteSet(NumbersIn(inFlight))
            /\ Cardinality(NumbersIn(inFlight)) <= Len(inFlight)
        BY <2>1, BatchNumbers
      <4>2. Cardinality(Fresh(sentAt) \cup NumbersIn(inFlight))
              = Cardinality(Fresh(sentAt)) + Cardinality(NumbersIn(inFlight))
                - Cardinality(Fresh(sentAt) \cap NumbersIn(inFlight))
        BY <2>2, <4>1, FS_Union
      <4>3. Cardinality(Fresh(sentAt) \cap NumbersIn(inFlight)) \in Nat
        BY <4>1, FS_Subset, FS_CardinalityType
      <4>4. Cardinality(NumbersIn(inFlight)) \in Nat
        BY <4>1, FS_CardinalityType
      <4> QED
        BY <2>0, <2>1, <2>2, <3>3, <4>1, <4>2, <4>3, <4>4, LimitsAssumption
           DEF BudgetInv, Reserved
    <3>5. stopped \in BOOLEAN /\ Drain(Accepted, stopped)
      BY <2>7 DEF PublishOk, TypeOK
    <3>6. /\ Reserved(sentAt', inFlight')
          /\ Fresh(sentAt') = Fresh(Accepted)
          /\ \A n \in Fresh(Accepted) : sentAt'[n] = Accepted[n]
      BY <3>2, <3>4, <3>5, DrainReserves
    <3>7. \A r \in DOMAIN received :
            r[1] \in Fresh(Accepted) /\ Accepted[r[1]] <= received[r]
      <4> SUFFICES ASSUME NEW r \in DOMAIN received
                   PROVE  r[1] \in Fresh(Accepted) /\ Accepted[r[1]] <= received[r]
        OBVIOUS
      <4>1. received[r] \in Nat
        BY TimeAssumption DEF TypeOK
      <4>2. CASE r[1] \in NumbersIn(inFlight)
        BY <3>3, <4>1, <4>2 DEF Accepted
      <4>3. CASE r[1] \notin NumbersIn(inFlight)
        <5>1. r[1] \in Fresh(sentAt) /\ sentAt[r[1]] <= received[r]
          BY <2>0, <4>3 DEF BudgetInv, Covered
        <5> QED
          BY <3>3, <4>3, <5>1 DEF Accepted, Fresh
      <4> QED
        BY <4>2, <4>3
    <3> QED
      BY <2>0, <2>7, <3>6, <3>7 DEF PublishOk, BudgetInv, Covered, Reserved, StoredOnce
  <2>8. CASE PublishFails
    <3>1. ~arrived /\ ~arrived'
      BY <2>0, <2>8 DEF PublishFails
    <3>2. inFlight' = <<>> /\ Len(<<>>) = 0
      BY <2>8, EmptySeq DEF PublishFails
    <3> QED
      BY <2>0, <2>1, <2>3, <2>8, <3>1, <3>2, <2>2, LimitsAssumption
         DEF PublishFails, BudgetInv, Reserved, Covered, StoredOnce
  <2>9. CASE Tick
    <3>1. Fresh(sentAt') \in SUBSET Fresh(sentAt)
      BY <2>1, <2>9, TimeAssumption DEF Tick, Fresh, Older, Smaller, SentType
    <3>2. /\ Cardinality(Fresh(sentAt')) <= Cardinality(Fresh(sentAt))
          /\ Cardinality(Fresh(sentAt')) \in Nat
      BY <2>2, <3>1, FS_Subset, FS_CardinalityType
    <3>3. Reserved(sentAt', inFlight')
      BY <2>0, <2>1, <2>2, <2>9, <3>2, LimitsAssumption DEF Tick, BudgetInv, Reserved
    <3>4. ASSUME NEW r \in DOMAIN received'
          PROVE  \/ arrived /\ r[1] \in NumbersIn(inFlight)
                 \/ r[1] \in Fresh(sentAt') /\ sentAt'[r[1]] <= received'[r]
      <4>1. /\ r \in DOMAIN received /\ received'[r] = received[r] + 1
            /\ received[r] + 1 < Window /\ received[r] \in Nat
        BY <2>9, TimeAssumption DEF Tick, TypeOK
      <4>2. CASE arrived /\ r[1] \in NumbersIn(inFlight)
        BY <4>2
      <4>3. CASE r[1] \in Fresh(sentAt) /\ sentAt[r[1]] <= received[r]
        <5>1. r[1] \in DOMAIN sentAt /\ sentAt[r[1]] \in Nat
          BY <2>1, <4>3, TimeAssumption DEF Fresh, SentType
        <5> QED
          BY <2>9, <4>1, <4>3, <5>1, TimeAssumption DEF Tick, Fresh, Older, Smaller
      <4> QED
        BY <2>0, <4>1, <4>2, <4>3 DEF BudgetInv, Covered
    <3>5. UNCHANGED <<arrived, inFlight>> /\ DOMAIN received' \subseteq DOMAIN received
      BY <2>9 DEF Tick
    <3>6. StoredOnce'
      BY <2>0, <3>5 DEF BudgetInv, StoredOnce
    <3> QED
      BY <3>3, <3>4, <3>5, <3>6 DEF BudgetInv, Reserved, Covered
  <2>10. CASE Stop
    <3>1. CASE Flushing
      BY <2>4, <2>10, <3>1 DEF Stop
    <3>2. CASE ~Flushing
      BY <2>5, <2>10, <3>2 DEF Stop, TypeOK
    <3> QED
      BY <3>1, <3>2
  <2>11. CASE TimerFires
    BY <2>5, <2>11 DEF TimerFires, TypeOK
  <2>12. ASSUME \/ \E f \in Features, v \in Values : Push(f, v) \/ PushSuppressed(f, v)
                \/ \E f \in Creatable : DeviceCreated(f) \/ DeviceDeleted(f)
                \/ Reset
                \/ UNCHANGED vars
         PROVE  BudgetInv'
    BY <2>4, <2>12 DEF Push, PushSuppressed, DeviceCreated, DeviceDeleted, Reset, vars,
                       code, ghosts
  <2> QED
    BY <2>6, <2>7, <2>8, <2>9, <2>10, <2>11, <2>12 DEF Next
<1> QED
  BY <1>1, <1>2, TypeCorrect, PTL DEF Spec

\* However many states the network reports, and however late or often the
\* host's answers fail to come, the host never stores more in a window than
\* its limit, as long as no rejected batch was stored.
THEOREM HostBudgetKept == Spec => []HostBudget
<1>1. TypeOK /\ BudgetUntilLoss => HostBudget
  <2> SUFFICES ASSUME TypeOK, BudgetInv, lost = 0
               PROVE  Cardinality(DOMAIN received) <= MaxPerMinute
    BY DEF HostBudget, BudgetUntilLoss
  <2> DEFINE counted == Fresh(sentAt) \cup NumbersIn(inFlight)
             number == [r \in DOMAIN received |-> r[1]]
  <2>1. inFlight \in Seq(Entry) /\ Len(inFlight) \in Nat /\ SentType(sentAt)
    BY LenProperties DEF TypeOK, SentType
  <2>2. Cardinality(Fresh(sentAt)) \in Nat /\ IsFiniteSet(Fresh(sentAt))
    BY <2>1, FreshFinite
  <2>3. /\ IsFiniteSet(NumbersIn(inFlight)) /\ Cardinality(NumbersIn(inFlight)) \in Nat
        /\ Cardinality(NumbersIn(inFlight)) <= Len(inFlight)
    BY <2>1, BatchNumbers, FS_CardinalityType
  <2>4. /\ IsFiniteSet(counted)
        /\ Cardinality(counted) = Cardinality(Fresh(sentAt)) + Cardinality(NumbersIn(inFlight))
                - Cardinality(Fresh(sentAt) \cap NumbersIn(inFlight))
    BY <2>2, <2>3, FS_Union
  <2>5. Cardinality(Fresh(sentAt) \cap NumbersIn(inFlight)) \in Nat
    BY <2>3, FS_Subset, FS_CardinalityType
  <2>6. number \in Injection(DOMAIN received, counted)
    <3>1. \A r \in DOMAIN received : r[1] \in counted
      BY DEF BudgetInv, Covered
    <3>2. \A r \in DOMAIN received : r = <<r[1], 0>>
      BY DEF TypeOK, BudgetInv, StoredOnce
    <3>3. \A q, r \in DOMAIN received : q[1] = r[1] => q = r
      BY <3>2
    <3> QED
      BY <3>1, <3>3 DEF Injection, IsInjective
  <2>7. /\ IsFiniteSet(DOMAIN received)
        /\ Cardinality(DOMAIN received) <= Cardinality(counted)
    BY <2>4, <2>6, FS_Injection
  <2>8. Cardinality(DOMAIN received) \in Nat /\ Cardinality(counted) \in Nat
    BY <2>4, <2>7, FS_CardinalityType
  <2> QED
    BY <2>1, <2>2, <2>3, <2>4, <2>5, <2>7, <2>8, LimitsAssumption
       DEF BudgetInv, Reserved
<1> QED
  BY <1>1, TypeCorrect, BudgetInvariant, PTL

-----------------------------------------------------------------------------
(* The index. *)

Indexed(q, index) ==
    /\ DOMAIN index = FeaturesIn(q) \cap Sampled
    /\ \A f \in DOMAIN index : index[f] \in DOMAIN q /\ q[index[f]].feature = f

\* A batch, too, holds at most one entry of a sampled feature: it comes back.
IndexInv == IndexConsistent /\ AtMostOneSampled(inFlight)

\* reindex() of a queue with one entry per sampled feature indexes it.
LEMMA ReindexIndexes ==
    ASSUME NEW q \in Seq(Entry) PROVE Indexed(q, Reindex(q))
BY LastOfProperties DEF Indexed, Reindex

\* Dropping entries leaves at most one entry per sampled feature.
LEMMA KeepAtMostOne ==
    ASSUME NEW q \in Seq(Entry), AtMostOneSampled(q), NEW I \in SUBSET (DOMAIN q)
    PROVE  AtMostOneSampled(Keep(q, I)) /\ FeaturesIn(Keep(q, I)) \subseteq {q[i].feature : i \in I}
<1>1. /\ \A j \in DOMAIN Keep(q, I) : Nth(I, j) \in I /\ Keep(q, I)[j] = q[Nth(I, j)]
      /\ \A j, k \in DOMAIN Keep(q, I) : Nth(I, j) = Nth(I, k) => j = k
  BY KeepProperties
<1> QED
  BY <1>1 DEF AtMostOneSampled, FeaturesIn

\* So does taking a stretch of the queue.
LEMMA SubSeqAtMostOne ==
    ASSUME NEW q \in Seq(Entry), AtMostOneSampled(q),
           NEW m \in Int, NEW n \in Int, 1 <= m, n <= Len(q)
    PROVE  AtMostOneSampled(SubSeq(q, m, n))
<1> DEFINE part == SubSeq(q, m, n)
<1>1. /\ part \in Seq(Entry)
      /\ Len(part) = IF m <= n THEN n - m + 1 ELSE 0
      /\ \A i \in 1..(n - m + 1) : part[i] = q[m + i - 1]
  BY SubSeqType
<1>2. DOMAIN part = 1..Len(part) /\ Len(q) \in Nat /\ DOMAIN q = 1..Len(q)
  BY <1>1, LenProperties
<1> HIDE DEF part
<1>3. SUFFICES ASSUME NEW i \in DOMAIN part, NEW j \in DOMAIN part,
                      part[i].feature = part[j].feature, part[i].feature \in Sampled
               PROVE  i = j
  BY DEF AtMostOneSampled, part
<1>4. /\ m + i - 1 \in DOMAIN q /\ m + j - 1 \in DOMAIN q
      /\ part[i] = q[m + i - 1] /\ part[j] = q[m + j - 1]
  <2>1. i \in 1..Len(part) /\ j \in 1..Len(part)
    BY <1>2
  <2>2. m <= n /\ Len(part) = n - m + 1
    BY <1>1, <2>1
  <2>3. m + i - 1 \in 1..Len(q) /\ m + j - 1 \in 1..Len(q)
    BY <1>2, <2>1, <2>2
  <2> QED
    BY <1>1, <1>2, <2>1, <2>2, <2>3
<1>5. m + i - 1 = m + j - 1
  BY <1>3, <1>4 DEF AtMostOneSampled
<1> QED
  BY <1>2, <1>5

\* requeue() puts back no sampled feature that is still queued.
LEMMA RequeueAtMostOne ==
    ASSUME NEW batch \in Seq(Entry), NEW q \in Seq(Entry),
           AtMostOneSampled(batch), AtMostOneSampled(q)
    PROVE  AtMostOneSampled(Requeue(batch, q))
<1> DEFINE I == {i \in DOMAIN batch : batch[i].feature \notin FeaturesIn(q) \ Events}
           kept == Keep(batch, I)
<1>1. I \in SUBSET (DOMAIN batch)
  OBVIOUS
<1>2. kept \in Seq(Entry)
  BY <1>1, KeepProperties, Zenon
<1>3. AtMostOneSampled(kept) /\ FeaturesIn(kept) \subseteq {batch[i].feature : i \in I}
  BY <1>1, KeepAtMostOne, Zenon
<1>4. \A j \in DOMAIN kept : kept[j].feature \in Sampled => kept[j].feature \notin FeaturesIn(q)
  BY <1>3, FeaturesAssumption DEF FeaturesIn
<1> HIDE DEF kept, I
<1>5. /\ kept \o q \in Seq(Entry) /\ Len(kept \o q) = Len(kept) + Len(q)
      /\ \A i \in 1..(Len(kept) + Len(q)) :
           (kept \o q)[i] = IF i <= Len(kept) THEN kept[i] ELSE q[i - Len(kept)]
  BY <1>2, ConcatProperties
<1>6. /\ Len(kept) \in Nat /\ Len(q) \in Nat /\ DOMAIN kept = 1..Len(kept)
      /\ DOMAIN q = 1..Len(q) /\ DOMAIN (kept \o q) = 1..(Len(kept) + Len(q))
  BY <1>2, <1>5, LenProperties
<1>7. ASSUME NEW i \in DOMAIN (kept \o q), NEW j \in DOMAIN (kept \o q),
             (kept \o q)[i].feature = (kept \o q)[j].feature,
             (kept \o q)[i].feature \in Sampled
      PROVE  i = j
  <2>1. CASE i <= Len(kept) /\ j <= Len(kept)
    BY <1>3, <1>5, <1>6, <1>7, <2>1 DEF AtMostOneSampled
  <2>2. CASE i > Len(kept) /\ j > Len(kept)
    <3>1. /\ i - Len(kept) \in DOMAIN q /\ j - Len(kept) \in DOMAIN q
          /\ (kept \o q)[i] = q[i - Len(kept)] /\ (kept \o q)[j] = q[j - Len(kept)]
      BY <1>5, <1>6, <2>2
    <3>2. i - Len(kept) = j - Len(kept)
      BY <1>7, <3>1 DEF AtMostOneSampled
    <3> QED
      BY <1>6, <3>2
  <2>3. CASE i <= Len(kept) /\ j > Len(kept)
    <3>1. /\ i \in DOMAIN kept /\ j - Len(kept) \in DOMAIN q
          /\ (kept \o q)[i] = kept[i] /\ (kept \o q)[j] = q[j - Len(kept)]
      BY <1>5, <1>6, <2>3
    <3> QED
      BY <1>4, <1>7, <3>1 DEF FeaturesIn
  <2>4. CASE i > Len(kept) /\ j <= Len(kept)
    <3>1. /\ j \in DOMAIN kept /\ i - Len(kept) \in DOMAIN q
          /\ (kept \o q)[j] = kept[j] /\ (kept \o q)[i] = q[i - Len(kept)]
      BY <1>5, <1>6, <2>4
    <3> QED
      BY <1>4, <1>7, <3>1 DEF FeaturesIn
  <2> QED
    BY <1>6, <2>1, <2>2, <2>3, <2>4
<1> QED
  BY <1>7 DEF AtMostOneSampled, Requeue, kept, I

\* degrade() leaves at most one entry per sampled feature.
LEMMA DegradeAtMostOne ==
    ASSUME NEW q \in Seq(Entry), AtMostOneSampled(q)
    PROVE  AtMostOneSampled(Degrade(q))
<1>1. AtMostOneSampled(Thin(q))
  BY KeepAtMostOne DEF Thin
<1>2. Thin(q) \in Seq(Entry) /\ Len(Thin(q)) \in Nat
  BY ThinType, LenProperties
<1>3. AtMostOneSampled(EnforceHardLimit(Thin(q)))
  <2>1. CASE Len(Thin(q)) <= HardLimit
    BY <1>1, <2>1 DEF EnforceHardLimit
  <2>2. CASE ~(Len(Thin(q)) <= HardLimit)
    <3>1. /\ Len(Thin(q)) - HardLimit + 1 \in Int /\ 1 <= Len(Thin(q)) - HardLimit + 1
          /\ Len(Thin(q)) \in Int /\ Len(Thin(q)) <= Len(Thin(q))
      BY <1>2, <2>2, HardLimitType
    <3> QED
      BY <1>1, <1>2, <2>2, <3>1, SubSeqAtMostOne, Zenon DEF EnforceHardLimit
  <2> QED
    BY <2>1, <2>2
<1> QED
  BY <1>3 DEF Degrade

\* The empty queue has at most one entry per sampled feature.
LEMMA EmptyAtMostOne == AtMostOneSampled(<<>>)
BY EmptySeq DEF AtMostOneSampled

\* A turn of the loop of drain() leaves the queue indexed.
LEMMA DrainIndexes ==
    ASSUME TypeOK, IndexInv, NEW sent, SentType(sent), NEW ended \in BOOLEAN,
           Drain(sent, ended)
    PROVE  IndexInv'
<1>1. queue \in Seq(Entry) /\ AtMostOneSampled(queue) /\ Indexed(queue, sampledIndex)
  BY DEF TypeOK, IndexInv, IndexConsistent, Indexed
<1>2. SUFFICES /\ AtMostOneSampled(queue') /\ Indexed(queue', sampledIndex')
               /\ AtMostOneSampled(inFlight')
  BY DEF IndexInv, IndexConsistent, Indexed, AtMostOneSampled, FeaturesIn
<1>3. CASE DrainedAll(sent)
  BY <1>1, <1>3, EmptyAtMostOne DEF DrainedAll
<1>4. CASE OverBudget(sent, ended)
  <2>1. queue' = Degrade(queue) /\ queue' \in Seq(Entry) /\ inFlight' = <<>>
    BY <1>1, <1>4, DegradeType DEF OverBudget
  <2>2. Indexed(queue', sampledIndex')
    BY <1>1, <1>4, <2>1, ReindexIndexes DEF OverBudget, Degrade
  <2> QED
    BY <1>1, <2>1, <2>2, DegradeAtMostOne, EmptyAtMostOne
<1>5. CASE SendBatch(sent)
  <2> DEFINE size == BatchSize(sent, queue)
  <2>1. Len(queue) \in Nat /\ Budget(sent) \in Int
    BY <1>1, LenProperties, FreshFinite
  <2>2. size \in Int /\ size <= Len(queue) /\ 0 <= size
    BY <1>5, <2>1, LimitsAssumption DEF BatchSize, Smaller, SendBatch
  <2>3. /\ inFlight' = SubSeq(queue, 1, size)
        /\ queue' = SubSeq(queue, size + 1, Len(queue))
        /\ sampledIndex' = Reindex(queue')
    BY <1>5 DEF SendBatch
  <2> HIDE DEF size
  <2>4. AtMostOneSampled(inFlight')
    BY <1>1, <2>2, <2>3, SubSeqAtMostOne
  <2>5. AtMostOneSampled(queue') /\ queue' \in Seq(Entry)
    BY <1>1, <2>1, <2>2, <2>3, SubSeqAtMostOne, SubSeqType
  <2> QED
    BY <2>3, <2>4, <2>5, ReindexIndexes
<1> QED
  BY <1>3, <1>4, <1>5 DEF Drain

\* The index is exact in every reachable state: a sampled feature has at most
\* one entry in the queue, and an overwrite in place hits that entry.
THEOREM IndexCorrect == Spec => []IndexConsistent
<1>1. Init => IndexInv
  <2> SUFFICES ASSUME Init PROVE IndexInv
    OBVIOUS
  <2>1. queue = <<>> /\ inFlight = <<>> /\ DOMAIN queue = {} /\ DOMAIN sampledIndex = {}
    BY EmptySeq DEF Init
  <2> QED
    BY <2>1, EmptyAtMostOne DEF IndexInv, IndexConsistent, FeaturesIn
<1>2. TypeOK /\ IndexInv /\ [Next]_vars => IndexInv'
  <2> SUFFICES ASSUME TypeOK, IndexInv, [Next]_vars PROVE IndexInv'
    OBVIOUS
  <2>1. /\ queue \in Seq(Entry) /\ inFlight \in Seq(Entry)
        /\ AtMostOneSampled(queue) /\ AtMostOneSampled(inFlight)
        /\ Indexed(queue, sampledIndex)
    BY DEF TypeOK, IndexInv, IndexConsistent, Indexed
  <2>2. ASSUME UNCHANGED <<queue, sampledIndex, inFlight>>
        PROVE  IndexInv'
    BY <2>2 DEF IndexInv, IndexConsistent, AtMostOneSampled, FeaturesIn
  <2>3. ASSUME NEW f \in Features, NEW v \in Values, Push(f, v)
        PROVE  IndexInv'
    <3>1. /\ Len(queue) \in Nat /\ DOMAIN queue = 1..Len(queue)
          /\ \A i \in 1..Len(queue) : queue[i] \in Entry
      BY <2>1, LenProperties, ElementOfSeq
    <3>2. CASE HasSlot(f)
      <4> DEFINE slot == sampledIndex[f]
                 new == [feature |-> queue[slot].feature, state |-> v, no |-> pushes + 1]
      <4>1. slot \in DOMAIN queue /\ queue' = [queue EXCEPT ![slot] = new]
            /\ UNCHANGED <<sampledIndex, inFlight>>
        BY <2>3, <3>2 DEF Push, Enqueue, HasSlot
      <4>2. /\ DOMAIN queue' = DOMAIN queue
            /\ \A i \in DOMAIN queue : queue'[i].feature = queue[i].feature
        BY <3>1, <4>1
      <4> QED
        BY <4>1, <4>2 DEF IndexInv, IndexConsistent, AtMostOneSampled, FeaturesIn
    <3>3. CASE ~HasSlot(f)
      <4> DEFINE new == [feature |-> f, state |-> v, no |-> pushes + 1]
      <4>1. queue' = Append(queue, new) /\ UNCHANGED inFlight
        BY <2>3, <3>3 DEF Push, Enqueue
      <4>2. new \in Entry
        BY <2>3, BoundsAssumption DEF Entry, Push, TypeOK
      <4>3. /\ queue' \in Seq(Entry) /\ Len(queue') = Len(queue) + 1
            /\ \A i \in 1..Len(queue) : queue'[i] = queue[i]
            /\ queue'[Len(queue) + 1] = new
        BY <2>1, <4>1, <4>2, AppendProperties
      <4>4. DOMAIN queue' = 1..(Len(queue) + 1)
        BY <4>3, LenProperties
      <4>5. FeaturesIn(queue') = FeaturesIn(queue) \cup {f}
        <5>1. \A i \in DOMAIN queue : queue'[i].feature = queue[i].feature
          BY <3>1, <4>3
        <5>2. DOMAIN queue' = DOMAIN queue \cup {Len(queue) + 1}
          BY <3>1, <4>4
        <5>3. queue'[Len(queue) + 1].feature = f
          BY <4>3
        <5> QED
          BY <5>1, <5>2, <5>3 DEF FeaturesIn
      <4>6. f \in Sampled => f \notin FeaturesIn(queue)
        BY <2>1, <3>3 DEF HasSlot, Indexed
      <4>7. AtMostOneSampled(queue)'
        <5> SUFFICES ASSUME NEW i \in DOMAIN queue', NEW j \in DOMAIN queue',
                            queue'[i].feature = queue'[j].feature,
                            queue'[i].feature \in Sampled
                     PROVE  i = j
          BY DEF AtMostOneSampled
        <5>1. CASE i \in DOMAIN queue /\ j \in DOMAIN queue
          BY <2>1, <3>1, <4>3, <5>1 DEF AtMostOneSampled
        <5>2. CASE i \notin DOMAIN queue \/ j \notin DOMAIN queue
          BY <3>1, <4>3, <4>4, <4>6, <5>2 DEF FeaturesIn
        <5> QED
          BY <5>1, <5>2
      <4>8. Indexed(queue', sampledIndex')
        <5>1. CASE f \in Sampled
          <6>1. sampledIndex' = Put(sampledIndex, f, Len(queue) + 1)
            BY <2>3, <3>3, <5>1 DEF Push, Enqueue
          <6>2. DOMAIN sampledIndex' = FeaturesIn(queue') \cap Sampled
            BY <2>1, <4>5, <5>1, <6>1 DEF Put, Indexed
          <6>3. \A g \in DOMAIN sampledIndex' :
                  sampledIndex'[g] \in DOMAIN queue' /\ queue'[sampledIndex'[g]].feature = g
            BY <2>1, <3>1, <4>3, <4>4, <6>1 DEF Put, Indexed
          <6> QED
            BY <6>2, <6>3 DEF Indexed
        <5>2. CASE f \notin Sampled
          <6>1. sampledIndex' = sampledIndex
            BY <2>3, <3>3, <5>2 DEF Push, Enqueue
          <6> QED
            BY <2>1, <3>1, <4>3, <4>4, <4>5, <5>2, <6>1 DEF Indexed
        <5> QED
          BY <5>1, <5>2
      <4> QED
        BY <2>1, <4>1, <4>7, <4>8 DEF IndexInv, IndexConsistent, Indexed
    <3> QED
      BY <3>2, <3>3
  <2>4. CASE TimerFires
    BY <2>4, DrainIndexes DEF TimerFires, TypeOK, SentType
  <2>5. CASE PublishOk
    <3>1. NumbersIn(inFlight) \subseteq 1..MaxPush
      BY <2>1, FeaturesInQueue
    <3>2. SentType(Accepted)
      BY <3>1, TimeAssumption DEF SentType, Accepted, TypeOK
    <3> QED
      BY <2>5, <3>2, DrainIndexes DEF PublishOk, TypeOK
  <2>6. CASE PublishFails
    <3>1. /\ queue' = Requeue(inFlight, queue) /\ sampledIndex' = Reindex(queue')
          /\ inFlight' = <<>>
      BY <2>6 DEF PublishFails
    <3>2. queue' \in Seq(Entry) /\ AtMostOneSampled(queue')
      BY <2>1, <3>1, RequeueType, RequeueAtMostOne
    <3>3. Indexed(queue', sampledIndex') /\ AtMostOneSampled(inFlight')
      BY <3>1, <3>2, ReindexIndexes, EmptyAtMostOne
    <3> QED
      BY <3>2, <3>3 DEF IndexInv, IndexConsistent, Indexed
  <2>7. CASE Stop
    <3>1. CASE Flushing
      BY <2>2, <2>7, <3>1 DEF Stop
    <3>2. CASE ~Flushing
      BY <2>7, <3>2, DrainIndexes DEF Stop, TypeOK, SentType
    <3> QED
      BY <3>1, <3>2
  <2>8. ASSUME \/ \E f \in Features, v \in Values : PushSuppressed(f, v)
               \/ \E f \in Creatable : DeviceCreated(f) \/ DeviceDeleted(f)
               \/ HostStores \/ Reset \/ Tick
               \/ UNCHANGED vars
        PROVE  IndexInv'
    BY <2>2, <2>8 DEF PushSuppressed, DeviceCreated, DeviceDeleted, HostStores, Reset,
                      Tick, vars, code, ghosts
  <2> QED
    BY <2>3, <2>4, <2>5, <2>6, <2>7, <2>8 DEF Next
<1>3. IndexInv => IndexConsistent
  BY DEF IndexInv
<1> QED
  BY <1>1, <1>2, <1>3, TypeCorrect, PTL DEF Spec

-----------------------------------------------------------------------------
(* Retries. *)

\* A drain with a budget left takes at least one entry.
LEMMA SendsSomething ==
    ASSUME TypeOK, NEW sent, SentType(sent), SendBatch(sent)
    PROVE  inFlight' # <<>>
<1> DEFINE size == BatchSize(sent, queue)
<1>1. queue \in Seq(Entry) /\ queue # <<>> /\ Budget(sent) \in Int /\ Budget(sent) > 0
  BY FreshFinite DEF SendBatch, TypeOK
<1>2. Len(queue) \in Nat /\ Len(queue) # 0
  BY <1>1, EmptySeq
<1>3. size \in Int /\ size <= Len(queue) /\ 1 <= size
  BY <1>1, <1>2, LimitsAssumption DEF BatchSize, Smaller
<1>4. inFlight' = SubSeq(queue, 1, size)
  BY DEF SendBatch
<1> HIDE DEF size
<1>5. Len(inFlight') = size
  BY <1>1, <1>3, <1>4, SubSeqType
<1>6. Len(<<>>) = 0
  BY EmptySeq
<1> QED
  BY <1>3, <1>5, <1>6

\* Only the revival by reset() leaves a queue behind that nothing will send.
THEOREM RetriesArmed == Spec => OnlyRestartStrands
<1>1. TypeOK /\ [Next]_vars => [(~Stranded /\ Stranded') => (stopped /\ ~stopped')]_vars
  <2> SUFFICES ASSUME TypeOK, [Next]_vars, ~Stranded, Stranded'
               PROVE  stopped /\ ~stopped'
    OBVIOUS
  <2>1. /\ timer \in BOOLEAN /\ stopped \in BOOLEAN /\ SentType(sentAt)
        /\ inFlight \in Seq(Entry)
    BY DEF TypeOK, SentType
  <2>2. queue' # <<>> /\ ~timer' /\ ~stopped' /\ inFlight' = <<>>
    BY DEF Stranded, Flushing
  <2>3. ASSUME NEW sent, SentType(sent), NEW ended, Drain(sent, ended)
        PROVE  ended
    BY <2>2, <2>3, SendsSomething DEF Drain, DrainedAll, OverBudget, Retry
  <2>4. ASSUME NEW f \in Features, NEW v \in Values, Push(f, v)
        PROVE  FALSE
    BY <2>1, <2>2, <2>4 DEF Push, Schedule, Flushing
  <2>5. CASE TimerFires
    BY <2>1, <2>2, <2>3, <2>5 DEF TimerFires
  <2>6. CASE PublishOk
    <3>1. NumbersIn(inFlight) \subseteq 1..MaxPush
      BY <2>1, FeaturesInQueue
    <3>2. SentType(Accepted)
      BY <2>1, <3>1, TimeAssumption DEF SentType, Accepted
    <3> QED
      BY <2>2, <2>3, <2>6, <3>2 DEF PublishOk
  <2>7. CASE PublishFails
    BY <2>2, <2>7 DEF PublishFails, Retry
  <2>8. CASE Stop
    BY <2>2, <2>8 DEF Stop
  <2>9. CASE Reset
    BY <2>1, <2>2, <2>9 DEF Reset, Stranded, Flushing
  <2>10. ASSUME UNCHANGED <<queue, timer, inFlight, stopped>>
         PROVE  FALSE
    BY <2>10 DEF Stranded, Flushing
  <2>11. ASSUME \/ \E f \in Features, v \in Values : PushSuppressed(f, v)
                \/ \E f \in Creatable : DeviceCreated(f) \/ DeviceDeleted(f)
                \/ HostStores \/ Tick
                \/ UNCHANGED vars
         PROVE  FALSE
    BY <2>10, <2>11 DEF PushSuppressed, DeviceCreated, DeviceDeleted, HostStores, Tick,
                        vars, code
  <2> QED
    BY <2>4, <2>5, <2>6, <2>7, <2>8, <2>9, <2>11 DEF Next
<1> QED
  BY <1>1, TypeCorrect, PTL DEF Spec, OnlyRestartStrands
=============================================================================
