---------------------------- MODULE OutboxProofs ----------------------------
(***************************************************************************)
(* The order of the reports in StatePublisher, and the proof that it is    *)
(* the outbox of module Outbox, for every value of its constants.          *)
(***************************************************************************)
EXTENDS StatePublisherProofs

-----------------------------------------------------------------------------
(* Queues in order. *)

\* The reports of a feature are in the order they were made.
Ordered(q) ==
    \A i, j \in DOMAIN q : (i < j /\ q[i].feature = q[j].feature) => q[i].no < q[j].no

\* Those of `a' were made before those of `b'.
Before(a, b) ==
    \A i \in DOMAIN a, j \in DOMAIN b : a[i].feature = b[j].feature => a[i].no < b[j].no

\* They were made by now.
Said(q) == \A i \in DOMAIN q : q[i].no <= pushes

\* Keep() keeps the order of positions and misses none.
LEMMA KeepMonotonic ==
    ASSUME NEW q \in Seq(Entry), NEW I \in SUBSET (DOMAIN q)
    PROVE  /\ \A j, k \in DOMAIN Keep(q, I) : j < k => Nth(I, j) < Nth(I, k)
           /\ \A i \in I : \E j \in DOMAIN Keep(q, I) : Nth(I, j) = i
<1>1. Len(q) \in Nat /\ DOMAIN q = 1..Len(q)
  BY LenProperties
<1>2. /\ DOMAIN Keep(q, I) = 1..Cardinality(I) /\ Cardinality(I) \in Nat
      /\ \A j \in 1..Cardinality(I) : Nth(I, j) \in I /\ Rank(I, Nth(I, j)) = j
  <2>1. I \in SUBSET (1..Len(q))
    BY <1>1
  <2>2. DOMAIN Keep(q, I) = 1..Cardinality(I)
    BY KeepProperties
  <2>3. /\ Cardinality(I) \in Nat
        /\ \A j \in 1..Cardinality(I) : Nth(I, j) \in I /\ Rank(I, Nth(I, j)) = j
    <3>1. Len(q) \in Nat
      BY <1>1
    <3> QED
      BY <2>1, <3>1, NthRank
  <2> QED
    BY <2>2, <2>3
<1>3. \A i, k \in I : i < k => Rank(I, i) < Rank(I, k)
  BY <1>1, RankMonotonic
<1>4. ASSUME NEW i \in I PROVE i \in Int /\ Rank(I, i) \in 1..Cardinality(I)
  <2>1. Len(q) \in Nat /\ I \in SUBSET (1..Len(q))
    BY <1>1
  <2>2. Rank(I, i) \in 1..Cardinality(I)
    BY <2>1, RankRange, Zenon
  <2> QED
    BY <2>1, <2>2
<1>5. ASSUME NEW i \in I, NEW k \in I, Rank(I, i) = Rank(I, k) PROVE i = k
  BY <1>2, <1>3, <1>4, <1>5
<1>6. ASSUME NEW j \in DOMAIN Keep(q, I), NEW k \in DOMAIN Keep(q, I), j < k
      PROVE  Nth(I, j) < Nth(I, k)
  <2>1. /\ Nth(I, j) \in I /\ Nth(I, k) \in I
        /\ Rank(I, Nth(I, j)) = j /\ Rank(I, Nth(I, k)) = k
    BY <1>2, <1>6
  <2>2. Nth(I, j) \in Int /\ Nth(I, k) \in Int /\ j \in Int /\ k \in Int
    BY <1>2, <1>4, <1>6, <2>1
  <2>3. Nth(I, k) < Nth(I, j) => k < j
    BY <1>3, <2>1
  <2>4. Nth(I, j) # Nth(I, k)
    BY <1>6, <2>1, <2>2
  <2> QED
    BY <1>6, <2>2, <2>3, <2>4
<1>7. ASSUME NEW i \in I PROVE \E j \in DOMAIN Keep(q, I) : Nth(I, j) = i
  <2>1. Rank(I, i) \in DOMAIN Keep(q, I)
    BY <1>2, <1>4
  <2>2. Nth(I, Rank(I, i)) \in I /\ Rank(I, Nth(I, Rank(I, i))) = Rank(I, i)
    BY <1>2, <2>1
  <2> QED
    BY <1>5, <2>1, <2>2
<1> QED
  BY <1>6, <1>7

\* What Keep() keeps is in order, and is the reports at its positions.
LEMMA KeepOrdered ==
    ASSUME NEW q \in Seq(Entry), NEW I \in SUBSET (DOMAIN q)
    PROVE  /\ Ordered(q) => Ordered(Keep(q, I))
           /\ Said(q) => Said(Keep(q, I))
           /\ Reports(Keep(q, I)) = {[feature |-> q[i].feature, no |-> q[i].no] : i \in I}
<1>1. \A j \in DOMAIN Keep(q, I) : Nth(I, j) \in I /\ Keep(q, I)[j] = q[Nth(I, j)]
  BY KeepProperties
<1>2. /\ \A j, k \in DOMAIN Keep(q, I) : j < k => Nth(I, j) < Nth(I, k)
      /\ \A i \in I : \E j \in DOMAIN Keep(q, I) : Nth(I, j) = i
  BY KeepMonotonic
<1>3. Ordered(q) => Ordered(Keep(q, I))
  BY <1>1, <1>2 DEF Ordered
<1>4. Said(q) => Said(Keep(q, I))
  BY <1>1 DEF Said
<1>5. Reports(Keep(q, I)) \subseteq {[feature |-> q[i].feature, no |-> q[i].no] : i \in I}
  BY <1>1 DEF Reports
<1>6. ASSUME NEW i \in I
      PROVE  [feature |-> q[i].feature, no |-> q[i].no] \in Reports(Keep(q, I))
  <2>1. PICK j \in DOMAIN Keep(q, I) : Nth(I, j) = i
    BY <1>2
  <2>2. Keep(q, I)[j] = q[i]
    BY <1>1, <2>1
  <2> QED
    BY <2>1, <2>2 DEF Reports
<1> QED
  BY <1>3, <1>4, <1>5, <1>6

\* The two parts of a queue are in order, one before the other.
LEMMA SplitOrdered ==
    ASSUME NEW q \in Seq(Entry), NEW n \in Int, 0 <= n, n <= Len(q)
    PROVE  LET a == SubSeq(q, 1, n)
               b == SubSeq(q, n + 1, Len(q))
           IN  /\ Ordered(q) => Ordered(a) /\ Ordered(b) /\ Before(a, b)
               /\ Said(q) => Said(a) /\ Said(b)
               /\ Reports(a) \cup Reports(b) = Reports(q)
<1> DEFINE a == SubSeq(q, 1, n)
           b == SubSeq(q, n + 1, Len(q))
<1>1. Len(q) \in Nat /\ DOMAIN q = 1..Len(q)
  BY LenProperties
<1>2. /\ a \in Seq(Entry) /\ Len(a) = n
      /\ \A i \in 1..n : a[i] = q[i]
  <2>1. 1 \in Int /\ 1 <= 1
    OBVIOUS
  <2>2. /\ a \in Seq(Entry) /\ Len(a) = IF 1 <= n THEN n - 1 + 1 ELSE 0
        /\ \A i \in 1..(n - 1 + 1) : a[i] = q[1 + i - 1]
    BY <2>1, SubSeqType
  <2> HIDE DEF a, b
  <2> QED
    BY <2>2
<1>3. /\ b \in Seq(Entry) /\ Len(b) = Len(q) - n
      /\ \A i \in 1..(Len(q) - n) : b[i] = q[n + i]
  <2>1. n + 1 \in Int /\ 1 <= n + 1 /\ Len(q) \in Int /\ Len(q) <= Len(q)
    BY <1>1
  <2>2. /\ b \in Seq(Entry)
        /\ Len(b) = IF n + 1 <= Len(q) THEN Len(q) - (n + 1) + 1 ELSE 0
        /\ \A i \in 1..(Len(q) - (n + 1) + 1) : b[i] = q[n + 1 + i - 1]
    BY <2>1, SubSeqType
  <2> HIDE DEF a, b
  <2>3. Len(b) = Len(q) - n
    <3>1. CASE n + 1 <= Len(q)
      BY <1>1, <2>2, <3>1
    <3>2. CASE n = Len(q)
      BY <1>1, <2>2, <3>2
    <3>3. Len(q) \in Nat
      BY LenProperties
    <3>4. n + 1 <= Len(q) \/ n = Len(q)
      BY <3>3
    <3> QED
      BY <3>1, <3>2, <3>4, Zenon
  <2>4. ASSUME NEW i \in 1..(Len(q) - n) PROVE b[i] = q[n + i]
    <3>1. i \in 1..(Len(q) - (n + 1) + 1) /\ n + 1 + i - 1 = n + i
      BY <1>1
    <3> QED
      BY <2>2, <3>1
  <2> QED
    BY <2>2, <2>3, <2>4
<1>4. DOMAIN a = 1..n /\ DOMAIN b = 1..(Len(q) - n)
  BY <1>2, <1>3, LenProperties
<1> HIDE DEF a, b
<1>5. /\ \A i \in DOMAIN a : i \in DOMAIN q /\ i <= n /\ a[i] = q[i]
      /\ \A i \in DOMAIN b : n + i \in DOMAIN q /\ n < n + i /\ b[i] = q[n + i]
  BY <1>1, <1>2, <1>3, <1>4
<1>6. Ordered(q) => Ordered(a) /\ Ordered(b) /\ Before(a, b)
  <2> SUFFICES ASSUME Ordered(q) PROVE Ordered(a) /\ Ordered(b) /\ Before(a, b)
    OBVIOUS
  <2>1. Ordered(a)
    BY <1>5 DEF Ordered
  <2>2. Ordered(b)
    <3> SUFFICES ASSUME NEW i \in DOMAIN b, NEW j \in DOMAIN b, i < j,
                        b[i].feature = b[j].feature
                 PROVE  b[i].no < b[j].no
      BY DEF Ordered
    <3>1. n + i \in DOMAIN q /\ n + j \in DOMAIN q /\ n + i < n + j
      BY <1>4, <1>5
    <3> QED
      BY <1>5, <3>1 DEF Ordered
  <2>3. Before(a, b)
    <3> SUFFICES ASSUME NEW i \in DOMAIN a, NEW j \in DOMAIN b, a[i].feature = b[j].feature
                 PROVE  a[i].no < b[j].no
      BY DEF Before
    <3>1. i \in DOMAIN q /\ n + j \in DOMAIN q /\ i < n + j
      BY <1>4, <1>5
    <3> QED
      BY <1>5, <3>1 DEF Ordered
  <2> QED
    BY <2>1, <2>2, <2>3
<1>7. Said(q) => Said(a) /\ Said(b)
  BY <1>5 DEF Said
<1>8. Reports(a) \cup Reports(b) \subseteq Reports(q)
  BY <1>5 DEF Reports
<1>9. ASSUME NEW i \in DOMAIN q
      PROVE  [feature |-> q[i].feature, no |-> q[i].no] \in Reports(a) \cup Reports(b)
  <2>1. CASE i <= n
    BY <1>1, <1>4, <1>5, <2>1 DEF Reports
  <2>2. CASE i > n
    <3>1. i - n \in DOMAIN b /\ n + (i - n) = i
      BY <1>1, <1>4, <2>2
    <3>2. b[i - n] = q[i]
      BY <1>5, <3>1
    <3> QED
      BY <3>1, <3>2 DEF Reports
  <2> QED
    BY <1>1, <2>1, <2>2
<1>10. Reports(q) \subseteq Reports(a) \cup Reports(b)
  BY <1>9 DEF Reports
<1> QED
  BY <1>6, <1>7, <1>8, <1>10 DEF a, b

\* Two queues, one after the other.
LEMMA ConcatOrdered ==
    ASSUME NEW a \in Seq(Entry), NEW b \in Seq(Entry)
    PROVE  /\ a \o b \in Seq(Entry)
           /\ Ordered(a) /\ Ordered(b) /\ Before(a, b) => Ordered(a \o b)
           /\ Said(a) /\ Said(b) => Said(a \o b)
           /\ Reports(a \o b) = Reports(a) \cup Reports(b)
<1> DEFINE c == a \o b
<1>1. /\ c \in Seq(Entry) /\ Len(c) = Len(a) + Len(b)
      /\ \A i \in 1..(Len(a) + Len(b)) : c[i] = IF i <= Len(a) THEN a[i] ELSE b[i - Len(a)]
  BY ConcatProperties
<1>2. /\ Len(a) \in Nat /\ Len(b) \in Nat /\ DOMAIN a = 1..Len(a) /\ DOMAIN b = 1..Len(b)
      /\ DOMAIN c = 1..(Len(a) + Len(b))
  BY <1>1, LenProperties
<1> HIDE DEF c
<1>3. \A i \in DOMAIN c : i > Len(a) => i - Len(a) \in DOMAIN b /\ c[i] = b[i - Len(a)]
  BY <1>1, <1>2
<1>4. \A i \in DOMAIN c : i <= Len(a) => i \in DOMAIN a /\ c[i] = a[i]
  BY <1>1, <1>2
<1>5. /\ \A i \in DOMAIN a : i \in DOMAIN c /\ c[i] = a[i]
      /\ \A i \in DOMAIN b : Len(a) + i \in DOMAIN c /\ c[Len(a) + i] = b[i]
  <2>1. \A i \in DOMAIN a : i \in DOMAIN c /\ c[i] = a[i]
    BY <1>1, <1>2
  <2>2. ASSUME NEW i \in DOMAIN b PROVE Len(a) + i \in DOMAIN c /\ c[Len(a) + i] = b[i]
    <3>1. Len(a) + i \in DOMAIN c /\ Len(a) + i > Len(a) /\ (Len(a) + i) - Len(a) = i
      BY <1>2
    <3> QED
      BY <1>3, <3>1
  <2> QED
    BY <2>1, <2>2
<1>6. ASSUME Ordered(a), Ordered(b), Before(a, b) PROVE Ordered(c)
  <2> SUFFICES ASSUME NEW i \in DOMAIN c, NEW j \in DOMAIN c, i < j,
                      c[i].feature = c[j].feature
               PROVE  c[i].no < c[j].no
    BY DEF Ordered
  <2>1. CASE j <= Len(a)
    BY <1>2, <1>4, <1>6, <2>1 DEF Ordered
  <2>2. CASE i > Len(a)
    <3>1. /\ i - Len(a) \in DOMAIN b /\ c[i] = b[i - Len(a)]
          /\ j - Len(a) \in DOMAIN b /\ c[j] = b[j - Len(a)]
          /\ i - Len(a) < j - Len(a)
      BY <1>2, <1>3, <2>2
    <3> QED
      BY <1>6, <3>1 DEF Ordered
  <2>3. CASE i <= Len(a) /\ j > Len(a)
    BY <1>3, <1>4, <1>6, <2>3 DEF Before
  <2> QED
    BY <1>2, <2>1, <2>2, <2>3
<1>7. Said(a) /\ Said(b) => Said(c)
  BY <1>2, <1>3, <1>4 DEF Said
<1>8. Reports(c) = Reports(a) \cup Reports(b)
  <2>1. Reports(c) \subseteq Reports(a) \cup Reports(b)
    BY <1>2, <1>3, <1>4 DEF Reports
  <2>2. Reports(a) \cup Reports(b) \subseteq Reports(c)
    BY <1>5 DEF Reports
  <2> QED
    BY <2>1, <2>2
<1> QED
  BY <1>1, <1>6, <1>7, <1>8 DEF c

\* The empty queue is in order and holds no report.
LEMMA EmptyOrdered ==
    /\ Ordered(<<>>) /\ Said(<<>>) /\ Reports(<<>>) = {}
    /\ \A q : Before(<<>>, q)
BY EmptySeq DEF Ordered, Said, Reports, Before

\* No two entries of a queue in order are the same report.
LEMMA ReportsCounted ==
    ASSUME NEW q \in Seq(Entry), Ordered(q)
    PROVE  Cardinality(Reports(q)) = Len(q)
<1> DEFINE report == [i \in 1..Len(q) |-> [feature |-> q[i].feature, no |-> q[i].no]]
<1>1. Len(q) \in Nat
  BY LenProperties
<1>2. DOMAIN q = 1..Len(q) /\ \A i \in DOMAIN q : q[i] \in Entry
  BY LenProperties, ElementOfSeq
<1>3. \A i, j \in 1..Len(q) : report[i] = report[j] => i = j
  <2> SUFFICES ASSUME NEW i \in 1..Len(q), NEW j \in 1..Len(q), i # j
               PROVE  report[i] # report[j]
    OBVIOUS
  <2>1. i < j \/ j < i
    OBVIOUS
  <2>2. q[i].no \in Int /\ q[j].no \in Int
    BY <1>2 DEF Entry
  <2>3. q[i].feature = q[j].feature => q[i].no # q[j].no
    BY <1>2, <2>1, <2>2 DEF Ordered
  <2> QED
    BY <2>3
<1>4. report \in Bijection(1..Len(q), Reports(q))
  <2>1. report \in Injection(1..Len(q), Reports(q))
    BY <1>2, <1>3 DEF Injection, IsInjective, Reports
  <2>2. report \in Surjection(1..Len(q), Reports(q))
    BY <1>2 DEF Surjection, Reports
  <2> QED
    BY <2>1, <2>2 DEF Bijection
<1>5. ExistsBijection(1..Len(q), Reports(q))
  BY <1>4, Zenon DEF ExistsBijection
<1> QED
  BY <1>1, <1>5, FS_CountingElements, Zenon

\* Thinning drops only reports that a newer one replaces.
LEMMA ThinOrdered ==
    ASSUME NEW q \in Seq(Entry), Ordered(q)
    PROVE  /\ Ordered(Thin(q)) /\ (Said(q) => Said(Thin(q)))
           /\ Reports(Thin(q)) \subseteq Reports(q)
           /\ Out!Coalesced(Reports(q), Reports(Thin(q)))
<1> DEFINE I == {i \in DOMAIN q :
                   \/ q[i].feature \in Events
                   \/ \A j \in DOMAIN q : q[j].feature = q[i].feature => i <= j
                   \/ \A j \in DOMAIN q : q[j].feature = q[i].feature => j <= i}
<1>1. I \in SUBSET (DOMAIN q) /\ Thin(q) = Keep(q, I)
  BY DEF Thin
<1>2. DOMAIN q \in SUBSET Int
  BY LenProperties
<1>3. ASSUME NEW i \in DOMAIN q, i \notin I
      PROVE  /\ q[i].feature \notin Events
             /\ \E k \in I : q[k].feature = q[i].feature /\ q[i].no < q[k].no
  <2> DEFINE k == LastOf(q, q[i].feature)
  <2>1. q[i].feature \in FeaturesIn(q)
    BY DEF FeaturesIn
  <2>2. /\ k \in DOMAIN q /\ q[k].feature = q[i].feature
        /\ \A j \in DOMAIN q : q[j].feature = q[i].feature => j <= k
    BY <2>1, LastOfProperties
  <2>3. k \in I
    BY <2>2
  <2>4. i <= k /\ i # k
    BY <1>3, <2>2, <2>3
  <2>5. i < k
    BY <1>2, <2>2, <2>4
  <2> QED
    BY <1>3, <2>2, <2>3, <2>5 DEF Ordered
<1> HIDE DEF I
<1>4. /\ Ordered(Thin(q)) /\ (Said(q) => Said(Thin(q)))
      /\ Reports(Thin(q)) = {[feature |-> q[i].feature, no |-> q[i].no] : i \in I}
  BY <1>1, KeepOrdered
<1>5. Reports(Thin(q)) \subseteq Reports(q)
  BY <1>1, <1>4 DEF Reports
<1>6. ASSUME NEW r \in Reports(q), r \notin Reports(Thin(q))
      PROVE  r.feature \notin Events /\ Out!Newer(r, Reports(Thin(q)))
  <2>1. PICK i \in DOMAIN q : r = [feature |-> q[i].feature, no |-> q[i].no]
    BY DEF Reports
  <2>2. i \notin I
    BY <1>4, <1>6, <2>1
  <2>3. q[i].feature \notin Events
    BY <1>3, <2>2
  <2>4. PICK k \in I : q[k].feature = q[i].feature /\ q[i].no < q[k].no
    BY <1>3, <2>2
  <2>5. [feature |-> q[k].feature, no |-> q[k].no] \in Reports(Thin(q))
    BY <1>4
  <2> QED
    BY <2>1, <2>3, <2>4, <2>5 DEF Out!Newer
<1> QED
  BY <1>4, <1>5, <1>6 DEF Out!Coalesced

\* degrade() keeps the order; what it drops is replaced by a newer report, or
\* the queue is at its hard limit.
LEMMA DegradeOrdered ==
    ASSUME NEW q \in Seq(Entry), Ordered(q)
    PROVE  /\ Ordered(Degrade(q)) /\ (Said(q) => Said(Degrade(q)))
           /\ Reports(Degrade(q)) \subseteq Reports(q)
           /\ \/ Out!Coalesced(Reports(q), Reports(Degrade(q)))
              \/ Cardinality(Reports(Degrade(q))) = HardLimit
<1>1. /\ Ordered(Thin(q)) /\ (Said(q) => Said(Thin(q)))
      /\ Reports(Thin(q)) \subseteq Reports(q)
      /\ Out!Coalesced(Reports(q), Reports(Thin(q)))
  BY ThinOrdered
<1>2. Thin(q) \in Seq(Entry)
  BY ThinType
<1>3. Len(Thin(q)) \in Nat /\ HardLimit \in Nat
  BY <1>2, LenProperties, HardLimitType
<1>4. CASE Len(q) <= HighWater
  <2>1. Degrade(q) = q
    BY <1>4 DEF Degrade
  <2> QED
    BY <2>1 DEF Out!Coalesced
<1>5. CASE ~(Len(q) <= HighWater) /\ Len(Thin(q)) <= HardLimit
  <2>1. Degrade(q) = Thin(q)
    BY <1>5 DEF Degrade, EnforceHardLimit
  <2> QED
    BY <1>1, <2>1
<1>6. CASE ~(Len(q) <= HighWater) /\ ~(Len(Thin(q)) <= HardLimit)
  <2> DEFINE n == Len(Thin(q)) - HardLimit
             rest == SubSeq(Thin(q), n + 1, Len(Thin(q)))
  <2>1. Degrade(q) = rest
    BY <1>6 DEF Degrade, EnforceHardLimit
  <2>2. n \in Int /\ 0 <= n /\ n <= Len(Thin(q))
    BY <1>3, <1>6
  <2>3. /\ Ordered(rest) /\ (Said(Thin(q)) => Said(rest))
        /\ Reports(rest) \subseteq Reports(Thin(q))
    <3> HIDE DEF n
    <3> QED
      BY <1>1, <1>2, <2>2, SplitOrdered
  <2>4. rest \in Seq(Entry) /\ Len(rest) = HardLimit
    <3>1. n + 1 \in Int /\ Len(Thin(q)) \in Int /\ 1 <= n + 1 /\ n + 1 <= Len(Thin(q))
      BY <1>3, <1>6, <2>2, HardLimitType
    <3>2. rest \in Seq(Entry) /\ Len(rest) = Len(Thin(q)) - (n + 1) + 1
      <4> HIDE DEF n
      <4> QED
        BY <1>2, <1>3, <3>1, SubSeqType
    <3> QED
      BY <1>3, <3>2
  <2>5. Cardinality(Reports(rest)) = HardLimit
    BY <2>3, <2>4, ReportsCounted
  <2> QED
    BY <1>1, <2>1, <2>3, <2>5
<1> QED
  BY <1>4, <1>5, <1>6

\* requeue() keeps the order; what it drops is replaced by a newer report.
LEMMA RequeueOrdered ==
    ASSUME NEW batch \in Seq(Entry), NEW q \in Seq(Entry),
           Ordered(batch), Ordered(q), Before(batch, q)
    PROVE  /\ Ordered(Requeue(batch, q))
           /\ Said(batch) /\ Said(q) => Said(Requeue(batch, q))
           /\ Reports(q) \subseteq Reports(Requeue(batch, q))
           /\ Reports(Requeue(batch, q)) \subseteq Reports(batch) \cup Reports(q)
           /\ Out!Coalesced(Reports(batch) \cup Reports(q), Reports(Requeue(batch, q)))
<1> DEFINE I == {i \in DOMAIN batch : batch[i].feature \notin FeaturesIn(q) \ Events}
           kept == Keep(batch, I)
<1>1. I \in SUBSET (DOMAIN batch) /\ Requeue(batch, q) = kept \o q
  BY DEF Requeue
<1>2. ASSUME NEW i \in DOMAIN batch, i \notin I
      PROVE  /\ batch[i].feature \notin Events
             /\ \E j \in DOMAIN q : q[j].feature = batch[i].feature /\ batch[i].no < q[j].no
  BY <1>2 DEF FeaturesIn, Before
<1> HIDE DEF I
<1>3. kept \in Seq(Entry)
  BY <1>1, KeepProperties
<1>4. /\ Ordered(kept) /\ (Said(batch) => Said(kept))
      /\ Reports(kept) = {[feature |-> batch[i].feature, no |-> batch[i].no] : i \in I}
  BY <1>1, KeepOrdered
<1>5. Before(kept, q)
  <2>1. \A j \in DOMAIN kept : Nth(I, j) \in DOMAIN batch /\ kept[j] = batch[Nth(I, j)]
    BY <1>1, KeepProperties
  <2> HIDE DEF kept
  <2> QED
    BY <2>1 DEF Before
<1> HIDE DEF kept
<1>6. /\ Ordered(kept \o q) /\ (Said(kept) /\ Said(q) => Said(kept \o q))
      /\ Reports(kept \o q) = Reports(kept) \cup Reports(q)
  BY <1>3, <1>4, <1>5, ConcatOrdered
<1>7. Reports(kept) \subseteq Reports(batch)
  BY <1>1, <1>4 DEF Reports
<1>8. ASSUME NEW r \in Reports(batch), r \notin Reports(kept)
      PROVE  r.feature \notin Events /\ Out!Newer(r, Reports(q))
  <2>1. PICK i \in DOMAIN batch : r = [feature |-> batch[i].feature, no |-> batch[i].no]
    BY DEF Reports
  <2>2. i \notin I
    BY <1>4, <1>8, <2>1
  <2>3. batch[i].feature \notin Events
    BY <1>2, <2>2
  <2>4. PICK j \in DOMAIN q : q[j].feature = batch[i].feature /\ batch[i].no < q[j].no
    BY <1>2, <2>2
  <2>5. [feature |-> q[j].feature, no |-> q[j].no] \in Reports(q)
    BY DEF Reports
  <2> QED
    BY <2>1, <2>3, <2>4, <2>5 DEF Out!Newer
<1>9. Out!Coalesced(Reports(batch) \cup Reports(q), Reports(kept) \cup Reports(q))
  BY <1>8 DEF Out!Coalesced, Out!Newer
<1> QED
  BY <1>1, <1>4, <1>6, <1>7, <1>9

-----------------------------------------------------------------------------
(* The order, in every reachable state. *)

OrderInv ==
    /\ Ordered(inFlight) /\ Ordered(queue) /\ Before(inFlight, queue)
    /\ Said(inFlight) /\ Said(queue)

\* A turn of the loop of drain() keeps the order, and what it drops is replaced
\* by a newer report, or the queue is at its hard limit.
LEMMA DrainOrdered ==
    ASSUME TypeOK, OrderInv, NEW sent, SentType(sent), NEW ended \in BOOLEAN,
           Drain(sent, ended)
    PROVE  /\ Ordered(inFlight') /\ Ordered(queue') /\ Before(inFlight', queue')
           /\ Said(inFlight') /\ Said(queue')
           /\ Reports(inFlight') \cup Reports(queue') \subseteq Reports(queue)
           /\ \/ Out!Coalesced(Reports(queue), Reports(inFlight') \cup Reports(queue'))
              \/ Cardinality(Reports(inFlight') \cup Reports(queue')) = HardLimit
<1>1. queue \in Seq(Entry) /\ Ordered(queue) /\ Said(queue)
  BY DEF TypeOK, OrderInv
<1>2. CASE DrainedAll(sent)
  BY <1>1, <1>2, EmptyOrdered DEF DrainedAll, Out!Coalesced
<1>3. CASE OverBudget(sent, ended)
  <2>1. queue' = Degrade(queue) /\ inFlight' = <<>>
    BY <1>3 DEF OverBudget
  <2>2. Reports(inFlight') \cup Reports(queue') = Reports(Degrade(queue))
    BY <2>1, EmptyOrdered
  <2> QED
    BY <1>1, <2>1, <2>2, DegradeOrdered, EmptyOrdered
<1>4. CASE SendBatch(sent)
  <2> DEFINE size == BatchSize(sent, queue)
  <2>1. Len(queue) \in Nat /\ Budget(sent) \in Int
    BY <1>1, LenProperties, FreshFinite
  <2>2. size \in Int /\ size <= Len(queue) /\ 0 <= size
    BY <1>4, <2>1, LimitsAssumption DEF BatchSize, Smaller, SendBatch
  <2>3. /\ inFlight' = SubSeq(queue, 1, size)
        /\ queue' = SubSeq(queue, size + 1, Len(queue))
    BY <1>4 DEF SendBatch
  <2> HIDE DEF size
  <2>4. /\ Ordered(inFlight') /\ Ordered(queue') /\ Before(inFlight', queue')
        /\ Said(inFlight') /\ Said(queue')
        /\ Reports(inFlight') \cup Reports(queue') = Reports(queue)
    BY <1>1, <2>2, <2>3, SplitOrdered
  <2> QED
    BY <2>4 DEF Out!Coalesced
<1> QED
  BY <1>2, <1>3, <1>4 DEF Drain

\* A report that enters the queue is the newest of its feature, and takes the
\* place of at most one queued report, of a sampled feature.
LEMMA PushOrdered ==
    ASSUME TypeOK, IndexConsistent, OrderInv, NEW f \in Features, NEW v \in Values, Push(f, v)
    PROVE  /\ OrderInv'
           /\ \E old \in SUBSET {r \in Reports(queue) : r.feature = f /\ f \notin Events} :
                Reports(queue') = (Reports(queue) \ old) \cup {[feature |-> f, no |-> pushes + 1]}
<1> DEFINE no == pushes + 1
<1>1. /\ queue \in Seq(Entry) /\ inFlight \in Seq(Entry) /\ pushes \in Int
      /\ Ordered(queue) /\ Said(queue) /\ Ordered(inFlight) /\ Said(inFlight)
      /\ Before(inFlight, queue)
  BY BoundsAssumption DEF TypeOK, OrderInv
<1>2. /\ \A i \in DOMAIN queue : queue[i] \in Entry
      /\ \A i \in DOMAIN inFlight : inFlight[i] \in Entry
  BY <1>1, LenProperties, ElementOfSeq
<1>3. /\ \A i \in DOMAIN queue : queue[i].no \in Int /\ queue[i].no < no
      /\ \A i \in DOMAIN inFlight : inFlight[i].no \in Int /\ inFlight[i].no < no
  BY <1>1, <1>2 DEF Said, Entry
<1>4. pushes' = no /\ inFlight' = inFlight /\ no \in 1..MaxPush
  BY BoundsAssumption DEF Push, TypeOK
<1>5. \A i \in DOMAIN inFlight' : inFlight'[i].no <= pushes'
  BY <1>1, <1>3, <1>4
<1>6. CASE HasSlot(f)
  <2> DEFINE slot == sampledIndex[f]
             new == [feature |-> f, state |-> v, no |-> no]
  <2>1. slot \in DOMAIN queue /\ queue[slot].feature = f /\ f \in Sampled
    BY <1>6 DEF HasSlot, IndexConsistent
  <2>2. queue' = [queue EXCEPT ![slot] = new]
    BY <1>6, <2>1 DEF Push, Enqueue
  <2>3. /\ DOMAIN queue' = DOMAIN queue /\ queue'[slot] = new
        /\ \A i \in DOMAIN queue \ {slot} : queue'[i] = queue[i] /\ queue[i].feature # f
    <3>1. \A i \in DOMAIN queue \ {slot} : queue[i].feature # f
      BY <2>1 DEF IndexConsistent, AtMostOneSampled
    <3>2. DOMAIN queue' = DOMAIN queue
      BY <2>2
    <3>3. queue'[slot] = new
      BY <2>1, <2>2
    <3>4. \A i \in DOMAIN queue \ {slot} : queue'[i] = queue[i]
      BY <2>2
    <3> QED
      BY <3>1, <3>2, <3>3, <3>4
  <2> HIDE DEF slot
  <2>4. new.feature = f /\ new.no = no
    OBVIOUS
  <2> HIDE DEF new
  <2>5. Ordered(queue')
    BY <1>1, <2>1, <2>3, <2>4 DEF Ordered
  <2>6. Before(inFlight', queue')
    BY <1>1, <1>3, <1>4, <2>3, <2>4 DEF Before
  <2>7. \A i \in DOMAIN queue' : queue'[i].no <= pushes'
    BY <1>1, <1>3, <1>4, <2>3, <2>4
  <2>8. OrderInv'
    BY <1>1, <1>4, <1>5, <2>5, <2>6, <2>7 DEF OrderInv, Said
  <2> DEFINE over == [feature |-> f, no |-> queue[slot].no]
  <2>9. over \in Reports(queue) /\ f \notin Events
    BY <2>1, FeaturesAssumption DEF Reports
  <2>10. Reports(queue') = (Reports(queue) \ {over}) \cup {[feature |-> f, no |-> no]}
    <3>1. ASSUME NEW i \in DOMAIN queue'
          PROVE  [feature |-> queue'[i].feature, no |-> queue'[i].no]
                   \in (Reports(queue) \ {over}) \cup {[feature |-> f, no |-> no]}
      BY <2>3, <2>4 DEF Reports
    <3>2. [feature |-> f, no |-> no] \in Reports(queue')
      BY <2>1, <2>3, <2>4 DEF Reports
    <3>3. ASSUME NEW i \in DOMAIN queue, i # slot
          PROVE  [feature |-> queue[i].feature, no |-> queue[i].no] \in Reports(queue')
      BY <2>3, <3>3 DEF Reports
    <3>4. Reports(queue') \subseteq (Reports(queue) \ {over}) \cup {[feature |-> f, no |-> no]}
      BY <3>1 DEF Reports
    <3>5. ASSUME NEW r \in Reports(queue) \ {over} PROVE r \in Reports(queue')
      <4>1. PICK i \in DOMAIN queue : r = [feature |-> queue[i].feature, no |-> queue[i].no]
        BY <3>5 DEF Reports
      <4>2. i # slot
        BY <2>1, <3>5, <4>1
      <4> QED
        BY <3>3, <4>1, <4>2
    <3> QED
      BY <3>2, <3>4, <3>5
  <2>11. {over} \in SUBSET {r \in Reports(queue) : r.feature = f /\ f \notin Events}
    <3>1. over.feature = f
      OBVIOUS
    <3> HIDE DEF over
    <3> QED
      BY <2>9, <3>1
  <2> HIDE DEF over
  <2> QED
    BY <2>8, <2>10, <2>11
<1>7. CASE ~HasSlot(f)
  <2> DEFINE new == [feature |-> f, state |-> v, no |-> no]
  <2>1. queue' = Append(queue, new) /\ new \in Entry
    BY <1>4, <1>7 DEF Push, Enqueue, Entry
  <2>2. Len(queue) \in Nat
    BY <1>1, LenProperties
  <2>3. /\ DOMAIN queue' = DOMAIN queue \cup {Len(queue) + 1}
        /\ queue'[Len(queue) + 1] = new
        /\ \A i \in DOMAIN queue : queue'[i] = queue[i]
        /\ \A i \in DOMAIN queue : i \in Int /\ i < Len(queue) + 1
    <3>1. /\ queue' \in Seq(Entry) /\ Len(queue') = Len(queue) + 1
          /\ \A i \in 1..Len(queue) : queue'[i] = queue[i]
          /\ queue'[Len(queue) + 1] = new
      BY <1>1, <2>1, AppendProperties
    <3>2. DOMAIN queue' = 1..(Len(queue) + 1) /\ DOMAIN queue = 1..Len(queue)
      BY <1>1, <3>1, LenProperties
    <3>3. 1..(Len(queue) + 1) = 1..Len(queue) \cup {Len(queue) + 1}
      BY <2>2
    <3> QED
      BY <2>2, <3>1, <3>2, <3>3
  <2>4. new.feature = f /\ new.no = no
    OBVIOUS
  <2> HIDE DEF new
  <2>5. Ordered(queue')
    <3> SUFFICES ASSUME NEW i \in DOMAIN queue', NEW j \in DOMAIN queue', i < j,
                        queue'[i].feature = queue'[j].feature
                 PROVE  queue'[i].no < queue'[j].no
      BY DEF Ordered
    <3>1. i \in DOMAIN queue
      BY <2>2, <2>3
    <3>2. CASE j \in DOMAIN queue
      BY <1>1, <2>3, <3>1, <3>2 DEF Ordered
    <3>3. CASE j = Len(queue) + 1
      BY <1>3, <2>3, <2>4, <3>1, <3>3
    <3> QED
      BY <2>3, <3>2, <3>3
  <2>6. Before(inFlight', queue')
    BY <1>1, <1>3, <1>4, <2>3, <2>4 DEF Before
  <2>7. \A i \in DOMAIN queue' : queue'[i].no <= pushes'
    BY <1>1, <1>3, <1>4, <2>3, <2>4
  <2>8. OrderInv'
    BY <1>1, <1>4, <1>5, <2>5, <2>6, <2>7 DEF OrderInv, Said
  <2>9. Reports(queue') = Reports(queue) \cup {[feature |-> f, no |-> no]}
    BY <2>3, <2>4 DEF Reports
  <2>10. /\ {} \in SUBSET {r \in Reports(queue) : r.feature = f /\ f \notin Events}
         /\ Reports(queue') = (Reports(queue) \ {}) \cup {[feature |-> f, no |-> no]}
    BY <2>9
  <2> QED
    BY <2>8, <2>10
<1> QED
  BY <1>6, <1>7

\* The reports of a feature wait in the order they were made, those in flight
\* before those queued.
THEOREM OrderKept == Spec => []OrderInv
<1>1. Init => OrderInv
  BY EmptyOrdered DEF Init, OrderInv
<1>2. TypeOK /\ IndexConsistent /\ OrderInv /\ [Next]_vars => OrderInv'
  <2> SUFFICES ASSUME TypeOK, IndexConsistent, OrderInv, [Next]_vars PROVE OrderInv'
    OBVIOUS
  <2>1. /\ queue \in Seq(Entry) /\ inFlight \in Seq(Entry)
        /\ SentType(sentAt) /\ stopped \in BOOLEAN
    BY DEF TypeOK, SentType
  <2>2. ASSUME UNCHANGED <<queue, inFlight, pushes>>
        PROVE  OrderInv'
    BY <2>2 DEF OrderInv, Ordered, Before, Said
  <2>3. ASSUME NEW sent, SentType(sent), NEW ended \in BOOLEAN, Drain(sent, ended),
               UNCHANGED pushes
        PROVE  OrderInv'
    BY <2>3, DrainOrdered DEF OrderInv, Ordered, Before, Said
  <2>4. ASSUME NEW f \in Features, NEW v \in Values, Push(f, v)
        PROVE  OrderInv'
    BY <2>4, PushOrdered
  <2>5. CASE TimerFires
    BY <2>1, <2>3, <2>5 DEF TimerFires
  <2>6. CASE PublishOk
    <3>1. NumbersIn(inFlight) \subseteq 1..MaxPush
      BY <2>1, FeaturesInQueue
    <3>2. SentType(Accepted)
      BY <2>1, <3>1, TimeAssumption DEF SentType, Accepted
    <3> QED
      BY <2>1, <2>3, <2>6, <3>2 DEF PublishOk
  <2>7. CASE PublishFails
    <3>1. queue' = Requeue(inFlight, queue) /\ inFlight' = <<>> /\ pushes' = pushes
      BY <2>7 DEF PublishFails
    <3>2. Ordered(queue') /\ Said(queue')
      BY <2>1, <3>1, RequeueOrdered DEF OrderInv
    <3> QED
      BY <3>1, <3>2, EmptyOrdered DEF OrderInv, Ordered, Before, Said
  <2>8. CASE Stop
    BY <2>1, <2>2, <2>3, <2>8 DEF Stop
  <2>9. ASSUME \/ \E f \in Features, v \in Values : PushSuppressed(f, v)
               \/ \E f \in Creatable : DeviceCreated(f) \/ DeviceDeleted(f)
               \/ HostStores \/ Reset \/ Tick
               \/ UNCHANGED vars
        PROVE  OrderInv'
    BY <2>2, <2>9 DEF PushSuppressed, DeviceCreated, DeviceDeleted, HostStores, Reset,
                      Tick, vars, code, ghosts
  <2> QED
    BY <2>4, <2>5, <2>6, <2>7, <2>8, <2>9 DEF Next
<1> QED
  BY <1>1, <1>2, TypeCorrect, IndexCorrect, PTL DEF Spec

-----------------------------------------------------------------------------
(* The host is told the reports in order. *)

\* The reports of a queue are newer than what the host shows.
Beyond(q) ==
    \A i \in DOMAIN q :
        q[i].feature \in DOMAIN told => told[q[i].feature].no < q[i].no

HostInv ==
    /\ \A f \in DOMAIN told : told[f].no <= pushes
    /\ lost = 0 => Beyond(queue) /\ (arrived \/ Beyond(inFlight))

\* What a queue keeps of another is as new.
LEMMA BeyondReports ==
    ASSUME NEW a, NEW b, Reports(a) \subseteq Reports(b), Beyond(b)
    PROVE  Beyond(a)
<1> SUFFICES ASSUME NEW i \in DOMAIN a, a[i].feature \in DOMAIN told
             PROVE  told[a[i].feature].no < a[i].no
  BY DEF Beyond
<1>1. [feature |-> a[i].feature, no |-> a[i].no] \in Reports(b)
  BY DEF Reports
<1>2. PICK j \in DOMAIN b :
        [feature |-> a[i].feature, no |-> a[i].no] = [feature |-> b[j].feature, no |-> b[j].no]
  BY <1>1 DEF Reports
<1>3. a[i].feature = b[j].feature /\ a[i].no = b[j].no
  BY <1>2
<1> QED
  BY <1>3 DEF Beyond

\* What the host shows was reported, and unless an answer was lost nothing it
\* has yet to be told is older.
THEOREM HostBehind == Spec => []HostInv
<1>1. Init => HostInv
  BY EmptySeq DEF Init, HostInv, Beyond
<1>2. TypeOK /\ IndexConsistent /\ OrderInv /\ HostInv /\ [Next]_vars => HostInv'
  <2> SUFFICES ASSUME TypeOK, IndexConsistent, OrderInv, HostInv, [Next]_vars PROVE HostInv'
    OBVIOUS
  <2>1. /\ queue \in Seq(Entry) /\ inFlight \in Seq(Entry)
        /\ SentType(sentAt) /\ stopped \in BOOLEAN
        /\ pushes \in Int /\ lost \in Nat
        /\ \A f \in DOMAIN told : told[f].no \in Int
    BY BoundsAssumption DEF TypeOK, SentType
  <2>2. ASSUME UNCHANGED <<queue, inFlight, arrived, told, pushes, lost>>
        PROVE  HostInv'
    BY <2>2 DEF HostInv, Beyond
  <2>3. ASSUME NEW sent, SentType(sent), NEW ended \in BOOLEAN, Drain(sent, ended),
               ~arrived', UNCHANGED <<told, pushes, lost>>
        PROVE  HostInv'
    <3>1. Reports(queue') \subseteq Reports(queue) /\ Reports(inFlight') \subseteq Reports(queue)
      BY <2>3, DrainOrdered
    <3>2. Beyond(queue) => Beyond(queue') /\ Beyond(inFlight')
      BY <3>1, BeyondReports
    <3> QED
      BY <2>3, <3>2 DEF HostInv, Beyond
  <2>4. ASSUME NEW f \in Features, NEW v \in Values, Push(f, v)
        PROVE  HostInv'
    <3>1. /\ pushes' = pushes + 1 /\ UNCHANGED <<inFlight, arrived, told, lost>>
      BY <2>4 DEF Push
    <3>2. Reports(queue') \subseteq Reports(queue) \cup {[feature |-> f, no |-> pushes + 1]}
      BY <2>4, PushOrdered
    <3>3. ASSUME Beyond(queue) PROVE Beyond(queue')
      <4> SUFFICES ASSUME NEW i \in DOMAIN queue', queue'[i].feature \in DOMAIN told
                   PROVE  told[queue'[i].feature].no < queue'[i].no
        BY DEF Beyond
      <4>1. [feature |-> queue'[i].feature, no |-> queue'[i].no]
              \in Reports(queue) \cup {[feature |-> f, no |-> pushes + 1]}
        BY <3>2 DEF Reports
      <4>2. CASE [feature |-> queue'[i].feature, no |-> queue'[i].no] \in Reports(queue)
        <5>1. PICK j \in DOMAIN queue :
                [feature |-> queue'[i].feature, no |-> queue'[i].no]
                  = [feature |-> queue[j].feature, no |-> queue[j].no]
          BY <4>2 DEF Reports
        <5>2. queue'[i].feature = queue[j].feature /\ queue'[i].no = queue[j].no
          BY <5>1
        <5> QED
          BY <3>3, <5>2 DEF Beyond
      <4>3. CASE [feature |-> queue'[i].feature, no |-> queue'[i].no]
                   = [feature |-> f, no |-> pushes + 1]
        <5>1. queue'[i].no = pushes + 1
          BY <4>3
        <5> QED
          BY <2>1, <5>1 DEF HostInv
      <4> QED
        BY <4>1, <4>2, <4>3
    <3>4. \A g \in DOMAIN told' : told'[g].no <= pushes'
      BY <2>1, <3>1 DEF HostInv
    <3> QED
      BY <3>1, <3>3, <3>4 DEF HostInv, Beyond
  <2>5. CASE TimerFires
    <3>1. ~arrived'
      BY <2>5 DEF TimerFires, TypeOK
    <3> QED
      BY <2>1, <2>3, <2>5, <3>1 DEF TimerFires
  <2>6. CASE PublishOk
    <3>1. NumbersIn(inFlight) \subseteq 1..MaxPush
      BY <2>1, FeaturesInQueue
    <3>2. SentType(Accepted)
      BY <2>1, <3>1, TimeAssumption DEF SentType, Accepted
    <3> QED
      BY <2>1, <2>3, <2>6, <3>2 DEF PublishOk
  <2>7. CASE PublishFails
    <3>1. /\ queue' = Requeue(inFlight, queue) /\ inFlight' = <<>>
          /\ UNCHANGED <<told, pushes>> /\ lost' = IF arrived THEN lost + 1 ELSE lost
      BY <2>7 DEF PublishFails
    <3>2. CASE arrived
      BY <2>1, <3>1, <3>2 DEF HostInv
    <3>3. CASE ~arrived
      <4>1. Reports(queue') \subseteq Reports(inFlight) \cup Reports(queue)
        BY <2>1, <3>1, RequeueOrdered DEF OrderInv
      <4>2. ASSUME Beyond(queue), Beyond(inFlight) PROVE Beyond(queue')
        <5> SUFFICES ASSUME NEW i \in DOMAIN queue', queue'[i].feature \in DOMAIN told
                     PROVE  told[queue'[i].feature].no < queue'[i].no
          BY DEF Beyond
        <5> DEFINE r == [feature |-> queue'[i].feature, no |-> queue'[i].no]
        <5>1. r \in Reports(inFlight) \cup Reports(queue)
          BY <4>1 DEF Reports
        <5>2. \/ \E j \in DOMAIN inFlight : r = [feature |-> inFlight[j].feature, no |-> inFlight[j].no]
              \/ \E j \in DOMAIN queue : r = [feature |-> queue[j].feature, no |-> queue[j].no]
          BY <5>1 DEF Reports
        <5>3. CASE \E j \in DOMAIN inFlight :
                     r = [feature |-> inFlight[j].feature, no |-> inFlight[j].no]
          BY <4>2, <5>3 DEF Beyond
        <5>4. CASE \E j \in DOMAIN queue :
                     r = [feature |-> queue[j].feature, no |-> queue[j].no]
          BY <4>2, <5>4 DEF Beyond
        <5> QED
          BY <5>2, <5>3, <5>4
      <4> QED
        BY <3>1, <3>3, <4>2, EmptySeq DEF HostInv, Beyond
    <3> QED
      BY <3>2, <3>3
  <2>8. CASE Stop
    <3>1. CASE Flushing
      BY <2>2, <2>8, <3>1 DEF Stop
    <3>2. CASE ~Flushing
      BY <2>1, <2>3, <2>8, <3>2 DEF Stop, TypeOK
    <3> QED
      BY <3>1, <3>2
  <2>9. CASE HostStores
    <3>1. /\ arrived' /\ UNCHANGED <<queue, inFlight, pushes, lost>>
          /\ DOMAIN told' = DOMAIN told \cup FeaturesIn(inFlight)
          /\ \A f \in DOMAIN told' :
               told'[f].no = IF f \in FeaturesIn(inFlight)
                               THEN inFlight[LastOf(inFlight, f)].no ELSE told[f].no
      BY <2>9 DEF HostStores, code
    <3>2. \A f \in FeaturesIn(inFlight) :
            /\ LastOf(inFlight, f) \in DOMAIN inFlight
            /\ inFlight[LastOf(inFlight, f)].feature = f
      BY <2>1, LastOfProperties
    <3>3. \A f \in DOMAIN told' : told'[f].no <= pushes'
      BY <3>1, <3>2 DEF HostInv, OrderInv, Said
    <3>4. Beyond(queue) => Beyond(queue)'
      BY <3>1, <3>2 DEF Beyond, OrderInv, Before
    <3> QED
      BY <3>1, <3>3, <3>4 DEF HostInv
  <2>10. ASSUME \/ \E f \in Features, v \in Values : PushSuppressed(f, v)
                \/ \E f \in Creatable : DeviceCreated(f) \/ DeviceDeleted(f)
                \/ Reset \/ Tick
                \/ UNCHANGED vars
         PROVE  HostInv'
    BY <2>2, <2>10 DEF PushSuppressed, DeviceCreated, DeviceDeleted, Reset,
                       Tick, vars, code, ghosts
  <2> QED
    BY <2>4, <2>5, <2>6, <2>7, <2>8, <2>9, <2>10 DEF Next
<1> QED
  BY <1>1, <1>2, TypeCorrect, IndexCorrect, OrderKept, PTL DEF Spec

\* The host is told the reports of a feature in the order they were made, and
\* unless an answer was lost none after a newer one.
THEOREM OrderCorrect == Spec => []InOrder
<1>1. TypeOK /\ OrderInv /\ HostInv => InOrder
  <2> SUFFICES ASSUME TypeOK, OrderInv, HostInv PROVE InOrder
    OBVIOUS
  <2> DEFINE flying == IF arrived THEN <<>> ELSE inFlight
  <2>1. /\ queue \in Seq(Entry) /\ inFlight \in Seq(Entry)
        /\ flying \in Seq(Entry) /\ Pipe = flying \o queue
    BY EmptySeq DEF TypeOK, Pipe
  <2>2. Ordered(flying) /\ Before(flying, queue) /\ Ordered(queue)
    BY EmptyOrdered DEF OrderInv
  <2>3. lost = 0 => Beyond(flying) /\ Beyond(queue)
    BY EmptySeq DEF HostInv, Beyond
  <2> HIDE DEF flying
  <2>4. Ordered(Pipe) /\ Reports(Pipe) = Reports(flying) \cup Reports(queue)
    BY <2>1, <2>2, ConcatOrdered
  <2>5. ASSUME lost = 0 PROVE Beyond(Pipe)
    <3>1. Len(flying) \in Nat /\ Len(queue) \in Nat
      BY <2>1, LenProperties
    <3>2. /\ Pipe \in Seq(Entry) /\ Len(Pipe) = Len(flying) + Len(queue)
          /\ \A i \in 1..(Len(flying) + Len(queue)) :
               Pipe[i] = IF i <= Len(flying) THEN flying[i] ELSE queue[i - Len(flying)]
      BY <2>1, ConcatProperties
    <3>3. /\ DOMAIN Pipe = 1..(Len(flying) + Len(queue))
          /\ DOMAIN flying = 1..Len(flying) /\ DOMAIN queue = 1..Len(queue)
      BY <2>1, <3>2, LenProperties
    <3>4. ASSUME NEW i \in DOMAIN Pipe
          PROVE  \/ i \in DOMAIN flying /\ Pipe[i] = flying[i]
                 \/ i - Len(flying) \in DOMAIN queue /\ Pipe[i] = queue[i - Len(flying)]
      BY <3>1, <3>2, <3>3
    <3> QED
      BY <2>3, <2>5, <3>4 DEF Beyond
  <2> QED
    BY <2>4, <2>5 DEF InOrder, Ordered, Beyond
<1> QED
  BY <1>1, TypeCorrect, OrderKept, HostBehind, PTL

-----------------------------------------------------------------------------
(* The outbox. *)

\* The outbox counts as the publisher does.
LEMMA SameCardinality == ASSUME NEW S PROVE Out!Cardinality(S) = Cardinality(S)
BY Zenon DEF Out!Cardinality, Cardinality, Out!IsFiniteSet, IsFiniteSet

\* What the outbox of module Outbox holds.
Waiting ==
    Reports(Pipe) = (IF arrived THEN {} ELSE Reports(inFlight)) \cup Reports(queue)

\* The pipe is the batch in flight and the queue.
LEMMA PipeWaiting == TypeOK => Waiting
<1> SUFFICES ASSUME TypeOK PROVE Waiting
  OBVIOUS
<1> DEFINE flying == IF arrived THEN <<>> ELSE inFlight
<1>1. /\ queue \in Seq(Entry) /\ flying \in Seq(Entry) /\ Pipe = flying \o queue
      /\ Reports(flying) = IF arrived THEN {} ELSE Reports(inFlight)
  BY EmptySeq, EmptyOrdered DEF TypeOK, Pipe
<1> HIDE DEF flying
<1>2. Reports(Pipe) = Reports(flying) \cup Reports(queue)
  BY <1>1, ConcatOrdered
<1> QED
  BY <1>1, <1>2 DEF Waiting

\* A turn of the loop of drain() settles the batch that was told.
LEMMA DrainSettles ==
    ASSUME TypeOK, OrderInv, Waiting, Waiting',
           NEW sent, SentType(sent), NEW ended \in BOOLEAN, Drain(sent, ended),
           arrived \/ inFlight = <<>>, ~arrived', UNCHANGED <<told, pushes>>
    PROVE  Out!Settle
<1>1. Reports(Pipe) = Reports(queue)
  BY EmptyOrdered DEF Waiting
<1>2. Reports(Pipe)' = Reports(inFlight') \cup Reports(queue')
  BY DEF Waiting, Reports
<1>3. /\ Reports(Pipe)' \in SUBSET Reports(Pipe)
      /\ \/ Out!Coalesced(Reports(Pipe), Reports(Pipe)')
         \/ Cardinality(Reports(Pipe)') = HardLimit
  BY <1>1, <1>2, DrainOrdered, Zenon
<1> QED
  BY <1>3, SameCardinality DEF Out!Settle

\* A push says a report.
LEMMA PushSays ==
    ASSUME TypeOK, IndexConsistent, OrderInv, Waiting, Waiting',
           NEW f \in Features, NEW v \in Values, Push(f, v)
    PROVE  Out!Say(f)
<1> DEFINE fresh == [feature |-> f, no |-> pushes + 1]
           flying == IF arrived THEN {} ELSE Reports(inFlight)
<1>1. /\ pushes' = pushes + 1
      /\ UNCHANGED <<inFlight, arrived, told>>
  BY DEF Push
<1>2. PICK old \in SUBSET {r \in Reports(queue) : r.feature = f /\ f \notin Events} :
        Reports(queue') = (Reports(queue) \ old) \cup {fresh}
  BY PushOrdered
<1>3. Reports(inFlight) \cap Reports(queue) = {}
  <2>1. \A i \in DOMAIN inFlight : inFlight[i].no \in Int
    <3>1. inFlight \in Seq(Entry)
      BY DEF TypeOK
    <3>2. \A i \in DOMAIN inFlight : inFlight[i] \in Entry
      BY <3>1, LenProperties, ElementOfSeq
    <3> QED
      BY <3>2 DEF Entry
  <2>2. ASSUME NEW i \in DOMAIN inFlight, NEW j \in DOMAIN queue
        PROVE  [feature |-> inFlight[i].feature, no |-> inFlight[i].no]
                 # [feature |-> queue[j].feature, no |-> queue[j].no]
    BY <2>1 DEF OrderInv, Before
  <2> QED
    BY <2>2 DEF Reports
<1>4. Reports(Pipe) = flying \cup Reports(queue)
  BY DEF Waiting
<1>5. Reports(Pipe)' = flying \cup Reports(queue')
  BY <1>1 DEF Waiting, Reports
<1>6. flying \cap Reports(queue) = {}
  BY <1>3
<1> HIDE DEF flying, fresh
<1>7. Reports(Pipe)' = (Reports(Pipe) \ old) \cup {fresh}
  BY <1>2, <1>4, <1>5, <1>6
<1>8. old \in SUBSET {r \in Reports(Pipe) : r.feature = f /\ f \notin Events}
  BY <1>2, <1>4
<1> QED
  BY <1>1, <1>7, <1>8 DEF Out!Say, fresh, Reports

\* The host is told the batch in flight.
LEMMA HostTold ==
    ASSUME TypeOK, OrderInv, Waiting, Waiting', HostStores
    PROVE  Out!Tell
<1> DEFINE batch == Reports(inFlight)
<1>1. /\ ~arrived /\ arrived' /\ inFlight # <<>>
      /\ UNCHANGED <<queue, inFlight, pushes>>
  BY DEF HostStores, Flushing, code
<1>2. inFlight \in Seq(Entry) /\ \A i \in DOMAIN inFlight : inFlight[i] \in Entry
  BY LenProperties, ElementOfSeq DEF TypeOK
<1>3. \A i \in DOMAIN inFlight : inFlight[i].no \in Int
  BY <1>2 DEF Entry
<1>4. Reports(Pipe) = batch \cup Reports(queue) /\ Reports(Pipe)' = Reports(queue)
  BY <1>1 DEF Waiting, Reports
<1>5. ASSUME NEW r \in batch, NEW later \in Reports(queue), r.feature = later.feature
      PROVE  r.no < later.no
  <2>1. PICK i \in DOMAIN inFlight :
          r = [feature |-> inFlight[i].feature, no |-> inFlight[i].no]
    BY DEF Reports
  <2>2. PICK j \in DOMAIN queue :
          later = [feature |-> queue[j].feature, no |-> queue[j].no]
    BY DEF Reports
  <2> QED
    BY <1>5, <2>1, <2>2 DEF OrderInv, Before
<1>6. batch \cap Reports(queue) = {}
  <2>1. \A r \in batch : r.no \in Int
    BY <1>3 DEF Reports
  <2> QED
    BY <1>5, <2>1
<1>7. batch # {}
  <2>1. Len(inFlight) \in Nat /\ Len(inFlight) # 0
    BY <1>1, <1>2, EmptySeq
  <2>2. 1 \in DOMAIN inFlight
    BY <1>2, <2>1, LenProperties
  <2> QED
    BY <2>2 DEF Reports
<1>8. FeaturesIn(inFlight) = {r.feature : r \in batch}
  <2>1. ASSUME NEW i \in DOMAIN inFlight
        PROVE  inFlight[i].feature \in {r.feature : r \in batch}
    <3>1. [feature |-> inFlight[i].feature, no |-> inFlight[i].no] \in batch
      BY DEF Reports
    <3> QED
      BY <3>1
  <2>2. ASSUME NEW r \in batch PROVE r.feature \in FeaturesIn(inFlight)
    BY DEF Reports, FeaturesIn
  <2> QED
    BY <2>1, <2>2 DEF FeaturesIn
<1>9. ASSUME NEW f \in FeaturesIn(inFlight)
      PROVE  Out!Newest(batch, f) = inFlight[LastOf(inFlight, f)].no
  <2> DEFINE last == LastOf(inFlight, f)
             nos == {r.no : r \in {x \in batch : x.feature = f}}
  <2>1. /\ last \in DOMAIN inFlight /\ inFlight[last].feature = f
        /\ \A j \in DOMAIN inFlight : inFlight[j].feature = f => j <= last
    BY <1>2, LastOfProperties
  <2>2. DOMAIN inFlight \in SUBSET Int
    BY <1>2, LenProperties
  <2> HIDE DEF last
  <2>3. \A j \in DOMAIN inFlight :
          inFlight[j].feature = f => inFlight[j].no <= inFlight[last].no
    <3> SUFFICES ASSUME NEW j \in DOMAIN inFlight, inFlight[j].feature = f
                 PROVE  inFlight[j].no <= inFlight[last].no
      OBVIOUS
    <3>1. j = last \/ j < last
      BY <2>1, <2>2
    <3> QED
      BY <1>3, <2>1, <3>1 DEF OrderInv, Ordered
  <2>4. \A r \in batch : r.feature = f => r.no <= inFlight[last].no
    BY <2>3 DEF Reports
  <2>5. [feature |-> f, no |-> inFlight[last].no] \in batch
    BY <2>1 DEF Reports
  <2>6. inFlight[last].no \in nos
    BY <2>5
  <2>7. \A n \in nos : n \in Int /\ n <= inFlight[last].no
    BY <1>3, <2>4 DEF Reports
  <2>8. \A n \in nos : (\A r \in batch : r.feature = f => r.no <= n) => inFlight[last].no <= n
    BY <2>5
  <2> HIDE DEF nos, batch
  <2>9. \A n \in nos : (\A r \in batch : r.feature = f => r.no <= n) <=> n = inFlight[last].no
    BY <2>4, <2>6, <2>7, <2>8
  <2>10. Out!Newest(batch, f)
           = CHOOSE n \in nos : \A r \in batch : r.feature = f => r.no <= n
    BY DEF Out!Newest, nos
  <2> QED
    BY <2>6, <2>9, <2>10 DEF last
<1>10. /\ DOMAIN told' = DOMAIN told \cup FeaturesIn(inFlight)
       /\ \A f \in DOMAIN told' :
            told'[f].no = IF f \in FeaturesIn(inFlight)
                            THEN inFlight[LastOf(inFlight, f)].no ELSE told[f].no
  BY DEF HostStores
<1> HIDE DEF batch
<1>11. Reports(Pipe) \ Reports(Pipe)' = batch
  BY <1>4, <1>6
<1>12. (IF arrived THEN Reports(inFlight) ELSE {})' = batch
  BY <1>1 DEF batch, Reports
<1>13. [f \in DOMAIN told |-> told[f].no]'
         = [f \in DOMAIN [g \in DOMAIN told |-> told[g].no] \cup {r.feature : r \in batch} |->
              IF f \in {r.feature : r \in batch} THEN Out!Newest(batch, f)
              ELSE [g \in DOMAIN told |-> told[g].no][f]]
  BY <1>8, <1>9, <1>10
<1>14. /\ Reports(Pipe)' \in SUBSET Reports(Pipe) /\ Reports(Pipe)' # Reports(Pipe)
       /\ \A r \in Reports(Pipe) \ Reports(Pipe)', later \in Reports(Pipe)' :
            r.feature = later.feature => r.no < later.no
  BY <1>4, <1>5, <1>7, <1>11
<1>15. (IF arrived THEN Reports(inFlight) ELSE {}) = {} /\ pushes' = pushes
  BY <1>1
<1> QED
  BY <1>11, <1>12, <1>13, <1>14, <1>15, Zenon DEF Out!Tell

\* A failed batch waits again, or was never in doubt.
LEMMA FailureSettles ==
    ASSUME TypeOK, OrderInv, Waiting, Waiting', PublishFails
    PROVE  Out!Settle \/ Out!Again
<1>1. /\ queue' = Requeue(inFlight, queue) /\ inFlight' = <<>> /\ ~arrived'
      /\ UNCHANGED <<told, pushes>>
  BY DEF PublishFails
<1>2. /\ Reports(queue) \subseteq Reports(queue')
      /\ Reports(queue') \subseteq Reports(inFlight) \cup Reports(queue)
      /\ Out!Coalesced(Reports(inFlight) \cup Reports(queue), Reports(queue'))
  BY <1>1, RequeueOrdered DEF TypeOK, OrderInv
<1>3. Reports(Pipe)' = Reports(queue')
  <2>1. Reports(inFlight') = {}
    BY <1>1, EmptyOrdered
  <2> QED
    BY <1>1, <2>1 DEF Waiting, Reports
<1>4. CASE arrived
  <2>1. Reports(Pipe) = Reports(queue)
    BY <1>4 DEF Waiting
  <2>2. Reports(Pipe) \cup Reports(inFlight) = Reports(inFlight) \cup Reports(queue)
    BY <2>1
  <2>3. /\ Reports(Pipe)' \in SUBSET (Reports(Pipe) \cup Reports(inFlight))
        /\ Reports(Pipe) \subseteq Reports(Pipe)'
        /\ Out!Coalesced(Reports(Pipe) \cup Reports(inFlight), Reports(Pipe)')
    BY <1>2, <1>3, <2>1, <2>2
  <2> QED
    BY <1>1, <1>4, <2>3 DEF Out!Again
<1>5. CASE ~arrived
  <2>1. Reports(Pipe) = Reports(inFlight) \cup Reports(queue)
    BY <1>5 DEF Waiting
  <2>2. /\ Reports(Pipe)' \in SUBSET Reports(Pipe)
        /\ Out!Coalesced(Reports(Pipe), Reports(Pipe)')
    BY <1>2, <1>3, <2>1
  <2> QED
    BY <1>1, <2>2 DEF Out!Settle
<1> QED
  BY <1>4, <1>5

\* The publisher implements the outbox: of every feature the host is told the
\* reports in the order they were made, at least once, and only a newer report
\* of the feature or the hard limit makes one needless.
THEOREM OutboxImplemented == Spec => IsOutbox
<1>1. Init => Out!Init
  <2> SUFFICES ASSUME Init PROVE Out!Init
    OBVIOUS
  <2>1. /\ queue = <<>> /\ inFlight = <<>> /\ ~arrived /\ told = <<>> /\ pushes = 0
    BY DEF Init
  <2>2. Pipe = <<>>
    BY <2>1, ConcatEmptySeq, EmptySeq DEF Pipe
  <2>3. Reports(Pipe) = {}
    BY <2>2, EmptyOrdered
  <2>4. [f \in DOMAIN told |-> told[f].no] = <<>>
    BY <2>1, EmptySeq
  <2> QED
    BY <2>1, <2>3, <2>4 DEF Out!Init
<1>2. /\ TypeOK /\ IndexConsistent /\ OrderInv /\ Waiting /\ Waiting'
      /\ [Next]_vars
      => [Out!Next]_(Out!vars)
  <2> SUFFICES ASSUME TypeOK, IndexConsistent, OrderInv, Waiting, Waiting', [Next]_vars
               PROVE  [Out!Next]_(Out!vars)
    OBVIOUS
  <2>1. SentType(sentAt) /\ stopped \in BOOLEAN /\ inFlight \in Seq(Entry)
    BY DEF TypeOK, SentType
  <2>2. ASSUME UNCHANGED <<queue, inFlight, arrived, told, pushes>>
        PROVE  UNCHANGED Out!vars
    BY <2>2 DEF Out!vars, Pipe, Reports
  <2>3. ASSUME NEW f \in Features, NEW v \in Values, Push(f, v)
        PROVE  Out!Next
    BY <2>3, PushSays DEF Out!Next
  <2>4. CASE TimerFires
    <3>1. ~arrived' /\ inFlight = <<>> /\ UNCHANGED <<told, pushes>> /\ Drain(sentAt, stopped)
      BY <2>4 DEF TimerFires, TypeOK, Flushing
    <3> QED
      BY <2>1, <3>1, DrainSettles DEF Out!Next
  <2>5. CASE PublishOk
    <3>1. NumbersIn(inFlight) \subseteq 1..MaxPush
      BY <2>1, FeaturesInQueue
    <3>2. SentType(Accepted)
      BY <2>1, <3>1, TimeAssumption DEF SentType, Accepted
    <3>3. arrived /\ ~arrived' /\ UNCHANGED <<told, pushes>> /\ Drain(Accepted, stopped)
      BY <2>5 DEF PublishOk
    <3> QED
      BY <2>1, <3>2, <3>3, DrainSettles DEF Out!Next
  <2>6. CASE PublishFails
    BY <2>6, FailureSettles DEF Out!Next
  <2>7. CASE HostStores
    BY <2>7, HostTold DEF Out!Next
  <2>8. CASE Stop
    <3>1. CASE Flushing
      BY <2>2, <2>8, <3>1 DEF Stop
    <3>2. CASE ~Flushing
      <4>1. ~arrived' /\ inFlight = <<>> /\ UNCHANGED <<told, pushes>> /\ Drain(sentAt, TRUE)
        BY <2>8, <3>2 DEF Stop, TypeOK, Flushing
      <4> QED
        BY <2>1, <4>1, DrainSettles DEF Out!Next
    <3> QED
      BY <3>1, <3>2
  <2>9. ASSUME \/ \E f \in Features, v \in Values : PushSuppressed(f, v)
               \/ \E f \in Creatable : DeviceCreated(f) \/ DeviceDeleted(f)
               \/ Reset \/ Tick
               \/ UNCHANGED vars
        PROVE  UNCHANGED Out!vars
    BY <2>2, <2>9 DEF PushSuppressed, DeviceCreated, DeviceDeleted, Reset,
                      Tick, vars, code, ghosts
  <2> QED
    BY <2>3, <2>4, <2>5, <2>6, <2>7, <2>8, <2>9 DEF Next
<1> QED
  BY <1>1, <1>2, TypeCorrect, IndexCorrect, OrderKept, PipeWaiting, PTL
     DEF Spec, IsOutbox, Out!Spec
=============================================================================
