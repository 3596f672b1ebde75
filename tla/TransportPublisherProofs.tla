---------------------- MODULE TransportPublisherProofs ----------------------
(***************************************************************************)
(* Theorems about TransportPublisher, for every value of its constants.    *)
(***************************************************************************)
EXTENDS TransportPublisher, TLAPS, FiniteSetTheorems

-----------------------------------------------------------------------------
(* Types. *)

OneEach(E) == \A e, f \in E : e.device = f.device => e = f

\* The captured entries, sent or not, are at most one of a device.
LEMMA CaptureType ==
    ASSUME TypeOK, NEW D \in SUBSET (DOMAIN pending)
    PROVE  /\ Capture(D) \subseteq Entry /\ OneEach(Capture(D))
           /\ \A e \in Capture(D) : e.device \in D /\ e.no = pending[e.device].no
<1>1. ASSUME NEW d \in D
      PROVE  [device |-> d, badge |-> pending[d].badge, no |-> pending[d].no] \in Entry
  <2>1. d \in Devices /\ pending[d] \in [badge : Badges, no : 1..MaxPush]
    BY DEF TypeOK
  <2> QED
    BY <2>1 DEF Entry
<1>2. Capture(D) \subseteq Entry
  BY <1>1 DEF Capture
<1>3. OneEach(Capture(D))
  BY DEF OneEach, Capture
<1>4. \A e \in Capture(D) : e.device \in D /\ e.no = pending[e.device].no
  BY DEF Capture
<1> QED
  BY <1>2, <1>3, <1>4

\* Entries of different devices are finitely many.
LEMMA OneEachFinite ==
    ASSUME NEW E \in SUBSET Entry, OneEach(E)
    PROVE  IsFiniteSet(E) /\ Cardinality(E) \in Nat
<1> DEFINE device == [e \in E |-> e.device]
<1>1. device \in Injection(E, Devices)
  BY DEF OneEach, Entry, Injection, IsInjective
<1>2. IsFiniteSet(E)
  BY <1>1, DevicesAssumption, FS_Injection
<1> QED
  BY <1>2, FS_CardinalityType

\* The next request is part of what is left, not empty, and not too large.
LEMMA SliceType ==
    ASSUME NEW left \in SUBSET Entry, OneEach(left), left # {}, NEW B \in Slices(left)
    PROVE  B \subseteq left /\ B # {} /\ Cardinality(B) <= MaxPerRequest
<1>1. MaxPerRequest \in Nat /\ MaxPerRequest # 0
  BY LimitAssumption
<1>2. CASE Cardinality(B) = MaxPerRequest
  <2>1. B # {}
    BY <1>1, <1>2, FS_EmptySet
  <2> QED
    BY <1>1, <1>2, <2>1 DEF Slices
<1>3. CASE B = left /\ Cardinality(left) < MaxPerRequest
  BY <1>1, <1>3, OneEachFinite
<1> QED
  BY <1>2, <1>3 DEF Slices

\* What the loop over the requests may make of the variables it changes.
LoopType ==
    /\ rest' \cup batch' \subseteq Entry /\ OneEach(batch' \cup rest')
    /\ Cardinality(batch') <= MaxPerRequest
    /\ sends' \in Nat /\ (batch' # {} => sends' > 0) /\ (rest' # {} => batch' # {})
    /\ moved' \in BOOLEAN /\ failed' \in BOOLEAN /\ retryTimer' \in BOOLEAN
    /\ (failed' => batch' # {}) /\ batch' \cap rest' = {}

\* A turn of that loop keeps their types.
LEMMA LoopTyped ==
    ASSUME TypeOK, NEW left \in SUBSET Entry, OneEach(left), NEW refused \in BOOLEAN,
           sends > 0, NextBatch(left, refused)
    PROVE  LoopType
<1>1. sends \in Nat /\ moved \in BOOLEAN /\ retryTimer \in BOOLEAN /\ stopped \in BOOLEAN
  BY DEF TypeOK
<1>2. CASE left = {}
  <2>1. /\ batch' = {} /\ rest' = {} /\ failed' = FALSE /\ sends' = sends - 1
        /\ retryTimer' = Retry(refused) /\ moved' = moved
    BY <1>2 DEF NextBatch
  <2>2. Cardinality(batch') <= MaxPerRequest
    BY <2>1, FS_EmptySet, LimitAssumption
  <2>3. retryTimer' \in BOOLEAN
    BY <1>1, <2>1 DEF Retry
  <2>4. sends' \in Nat
    BY <1>1, <2>1
  <2>5. batch' \cup rest' = {} /\ OneEach({})
    BY <2>1 DEF OneEach
  <2> QED
    BY <1>1, <2>1, <2>2, <2>3, <2>4, <2>5 DEF LoopType
<1>3. CASE left # {}
  <2>1. PICK B \in Slices(left) : batch' = B /\ rest' = left \ B
    BY <1>3 DEF NextBatch
  <2>2. B \subseteq left /\ B # {} /\ Cardinality(B) <= MaxPerRequest
    BY <1>3, SliceType
  <2>3. moved' = FALSE /\ failed' = refused /\ UNCHANGED <<sends, retryTimer>>
    BY <1>3 DEF NextBatch
  <2>4. OneEach(batch' \cup rest')
    BY <2>1, <2>2 DEF OneEach
  <2> QED
    BY <1>1, <2>1, <2>2, <2>3, <2>4 DEF LoopType
<1> QED
  BY <1>2, <1>3

\* An accepted entry.
LEMMA AcceptTyped ==
    ASSUME TypeOK, NEW d \in Devices, NEW b \in Badges, Accept(d, b)
    PROVE  /\ DOMAIN pending' \subseteq Devices /\ DOMAIN latest' \subseteq Devices
           /\ \A x \in DOMAIN pending' : pending'[x] \in [badge : Badges, no : 1..MaxPush]
           /\ \A x \in DOMAIN latest' : latest'[x] \in Badges
           /\ sends' \in Nat /\ sends' > 0 /\ pushes' \in 0..MaxPush
<1>1. pushes \in 0..MaxPush /\ pushes < MaxPush /\ MaxPush \in Nat /\ sends \in Nat
  BY BoundsAssumption DEF TypeOK, Accept
<1>2. pushes' = pushes + 1 /\ sends' = sends + 1 /\ pushes + 1 \in 1..MaxPush
  BY <1>1 DEF Accept
<1>3. [badge |-> b, no |-> pushes + 1] \in [badge : Badges, no : 1..MaxPush]
  BY <1>2
<1>4. /\ DOMAIN pending' \subseteq Devices
      /\ \A x \in DOMAIN pending' : pending'[x] \in [badge : Badges, no : 1..MaxPush]
  BY <1>3 DEF Accept, Put, TypeOK
<1>5. DOMAIN latest' \subseteq Devices /\ \A x \in DOMAIN latest' : latest'[x] \in Badges
  BY DEF Accept, Put, TypeOK
<1> QED
  BY <1>1, <1>2, <1>4, <1>5

\* A refusal is remembered by a running send only, and what is being sent is not
\* left to send.
TypeInv == TypeOK /\ (failed => Running) /\ batch \cap rest = {}

\* The type invariant, strengthened.
LEMMA TypeInvariant == Spec => []TypeInv
<1>1. Init => TypeInv
  <2> SUFFICES ASSUME Init PROVE TypeInv
    OBVIOUS
  <2>1. /\ DOMAIN pending = {} /\ DOMAIN published = {} /\ DOMAIN host = {} /\ DOMAIN latest = {}
    BY DEF Init
  <2>2. Cardinality(batch) <= MaxPerRequest
    BY FS_EmptySet, LimitAssumption DEF Init
  <2>3. pushes \in 0..MaxPush /\ lost \in 0..MaxLost /\ sends \in Nat
    BY BoundsAssumption DEF Init
  <2> QED
    BY <2>1, <2>2, <2>3 DEF Init, TypeInv, TypeOK, Running
<1>2. TypeInv /\ [Next]_vars => TypeInv'
  <2> SUFFICES ASSUME TypeOK, failed => Running, batch \cap rest = {}, [Next]_vars
               PROVE  TypeInv'
    BY DEF TypeInv
  <2>1. ASSUME NEW d \in Devices, NEW b \in Badges, Push(d, b)
        PROVE  TypeInv'
    <3>1. Accept(d, b)
      BY <2>1 DEF Push
    <3> QED
      BY <2>1, <3>1, AcceptTyped DEF Push, TypeInv, TypeOK, Running
  <2>2. ASSUME NEW d \in Deletable, DeviceCreated(d)
        PROVE  TypeInv'
    <3>1. d \in Devices
      BY DevicesAssumption
    <3>2. /\ known' \subseteq Devices /\ DOMAIN host' \subseteq Devices
          /\ \A x \in DOMAIN host' : host'[x] \in Badges
      BY <2>2, <3>1 DEF DeviceCreated, TypeOK, Without
    <3>3. CASE \E b \in Badges : Accept(d, b)
      <4>1. PICK b \in Badges : Accept(d, b)
        BY <3>3
      <4> QED
        BY <2>2, <3>1, <3>2, <4>1, AcceptTyped DEF DeviceCreated, TypeInv, TypeOK, Running
    <3>4. CASE latest' = Without(latest, {d}) /\ UNCHANGED <<pending, sends, pushes>>
      <4>1. DOMAIN latest' \subseteq Devices /\ \A x \in DOMAIN latest' : latest'[x] \in Badges
        BY <3>4 DEF Without, TypeOK
      <4> QED
        BY <2>2, <3>2, <3>4, <4>1 DEF DeviceCreated, TypeInv, TypeOK, Running
    <3> QED
      BY <2>2, <3>3, <3>4 DEF DeviceCreated
  <2>3. ASSUME NEW d \in Deletable, DeviceDeleted(d)
        PROVE  TypeInv'
    <3>1. /\ DOMAIN pending' \subseteq Devices /\ DOMAIN published' \subseteq Devices
          /\ \A x \in DOMAIN pending' : pending'[x] \in [badge : Badges, no : 1..MaxPush]
          /\ \A x \in DOMAIN published' : published'[x] \in Badges
          /\ moved' \in BOOLEAN
      BY <2>3 DEF DeviceDeleted, Forget, Without, TypeOK
    <3>2. /\ DOMAIN host' \subseteq Devices /\ DOMAIN latest' \subseteq Devices
          /\ \A x \in DOMAIN host' : host'[x] \in Badges
          /\ \A x \in DOMAIN latest' : latest'[x] \in Badges
          /\ known' \subseteq Devices
      BY <2>3 DEF DeviceDeleted, Without, TypeOK
    <3>3. disowned' \subseteq Devices
      BY <2>3 DEF DeviceDeleted, TypeOK, Entry
    <3> QED
      BY <2>3, <3>1, <3>2, <3>3 DEF DeviceDeleted, TypeInv, TypeOK, Running
  <2>4. CASE StartSend
    <3>1. Changed \in SUBSET (DOMAIN pending)
      BY DEF Changed
    <3>2. LoopType
      <4>1. Capture(Changed) \in SUBSET Entry /\ OneEach(Capture(Changed))
        BY <3>1, CaptureType
      <4> QED
        BY <2>4, <4>1, LoopTyped DEF StartSend
    <3>3. /\ DOMAIN pending' \subseteq Devices
          /\ \A x \in DOMAIN pending' : pending'[x] \in [badge : Badges, no : 1..MaxPush]
      BY <2>4 DEF StartSend, Without, TypeOK
    <3> QED
      BY <2>4, <3>2, <3>3 DEF StartSend, TypeInv, TypeOK, LoopType, OneEach, Running
  <2>5. CASE HostStores
    <3>1. DOMAIN host' \subseteq Devices /\ \A x \in DOMAIN host' : host'[x] \in Badges
      <4>1. DOMAIN host' = DOMAIN host \cup {e.device : e \in {x \in batch : x.device \in known}}
        BY <2>5 DEF HostStores
      <4>2. \A e \in batch : e.device \in Devices /\ e.badge \in Badges
        BY DEF TypeOK, Entry
      <4>3. ASSUME NEW d \in DOMAIN host' PROVE host'[d] \in Badges
        BY <2>5, <4>2 DEF HostStores, TypeOK
      <4> QED
        BY <4>1, <4>2, <4>3 DEF TypeOK
    <3> QED
      BY <2>5, <3>1 DEF HostStores, TypeInv, TypeOK, Running
  <2>6. ASSUME NEW refused \in BOOLEAN, NextBatch(rest, refused), Running
        PROVE  LoopType
    <3>1. rest \in SUBSET Entry /\ OneEach(rest) /\ sends > 0
      BY <2>6 DEF TypeOK, OneEach
    <3> QED
      BY <2>6, <3>1, LoopTyped
  <2>7. CASE PublishOk
    <3>1. LoopType
      BY <2>6, <2>7 DEF PublishOk, TypeOK
    <3>2. /\ DOMAIN pending' \subseteq Devices /\ DOMAIN published' \subseteq Devices
          /\ \A x \in DOMAIN pending' : pending'[x] \in [badge : Badges, no : 1..MaxPush]
          /\ \A x \in DOMAIN published' : published'[x] \in Badges
          /\ disowned' \subseteq Devices
      <4>1. CASE moved
        BY <2>7, <4>1 DEF PublishOk, TypeOK
      <4>2. CASE ~moved
        <5>1. /\ pending' = Without(pending, Settled)
              /\ disowned' \subseteq disowned
              /\ DOMAIN published' = DOMAIN published \cup {e.device : e \in batch}
          BY <2>7, <4>2 DEF PublishOk
        <5>2. \A e \in batch : e.device \in Devices /\ e.badge \in Badges
          BY DEF TypeOK, Entry
        <5>3. ASSUME NEW d \in DOMAIN published' PROVE published'[d] \in Badges
          BY <2>7, <4>2, <5>2 DEF PublishOk, TypeOK
        <5> QED
          BY <5>1, <5>2, <5>3 DEF TypeOK, Without
      <4> QED
        BY <4>1, <4>2
    <3> QED
      BY <2>7, <3>1, <3>2 DEF PublishOk, TypeInv, TypeOK, LoopType, OneEach, Running
  <2>8. CASE PublishFails
    <3>1. LoopType
      BY <2>6, <2>8 DEF PublishFails
    <3>2. lost' \in 0..MaxLost
      BY <2>8, BoundsAssumption DEF PublishFails, TypeOK
    <3> QED
      BY <2>8, <3>1, <3>2 DEF PublishFails, TypeInv, TypeOK, LoopType, OneEach, Running
  <2>9. CASE RetryFires
    <3>1. sends' \in Nat /\ (sends > 0 => sends' > 0)
      BY <2>9 DEF RetryFires, TypeOK
    <3> QED
      BY <2>9, <3>1 DEF RetryFires, TypeInv, TypeOK, Running
  <2>10. CASE Stop
    BY <2>10 DEF Stop, TypeInv, TypeOK, Running
  <2>11. CASE Reset
    <3>1. /\ DOMAIN pending' \subseteq Devices /\ DOMAIN published' \subseteq Devices
          /\ \A x \in DOMAIN pending' : pending'[x] \in [badge : Badges, no : 1..MaxPush]
          /\ \A x \in DOMAIN published' : published'[x] \in Badges
          /\ moved' \in BOOLEAN
      BY <2>11 DEF Reset, Forget, Without, TypeOK
    <3>2. DOMAIN latest' = {} /\ disowned' \subseteq disowned
      BY <2>11 DEF Reset
    <3> QED
      BY <2>11, <3>1, <3>2 DEF Reset, TypeInv, TypeOK, Running
  <2>12. CASE UNCHANGED vars
    BY <2>12 DEF vars, TypeInv, TypeOK, Running
  <2> QED
    BY <2>1, <2>2, <2>3, <2>4, <2>5, <2>7, <2>8, <2>9, <2>10, <2>11, <2>12 DEF Next
<1> QED
  BY <1>1, <1>2, PTL DEF Spec

\* The variables of the publisher are well typed: no request is larger than
\* allowed nor carries two entries of a device, and a send runs or is queued
\* as long as there is something to send.
THEOREM TypeCorrect == Spec => []TypeOK
<1>1. TypeInv => TypeOK
  BY DEF TypeInv
<1> QED
  BY <1>1, TypeInvariant, PTL

-----------------------------------------------------------------------------
(* Retries. *)

\* What the running send has captured and not heard of.
Captured == rest \cup batch

\* Another send will start.
SendToCome == sends > 1 \/ (sends > 0 /\ ~Running)

\* Why the entry of d waits: it is being sent, a send or a retry comes, or
\* forget() disowned the request that carried it.
Reason(d) ==
    \/ SendToCome
    \/ failed \/ retryTimer \/ stopped
    \/ \E e \in Captured : e.device = d /\ e.no = pending[d].no
    \/ d \in disowned /\ \A e \in Captured : e.device # d

\* The entries are numbered in the order they are pushed; a request that
\* forget() disowned leaves nothing to wait for, but of disowned devices; and
\* whatever waits does so for a reason.
RetryInv ==
    /\ \A d \in DOMAIN pending : pending[d].no <= pushes
    /\ \A e \in Captured : e.no <= pushes
    /\ moved => \A e \in batch :
         (e.device \in DOMAIN pending /\ pending[e.device].no = e.no) => e.device \in disowned
    /\ \A d \in DOMAIN pending : Reason(d)

\* The rest of the loop over the requests: what it captured is what is left,
\* and what waited for a send, a retry or a restart goes on waiting for one.
LEMMA LoopKeepsReasons ==
    ASSUME TypeOK, NEW left \in SUBSET Entry, OneEach(left), NEW refused \in BOOLEAN,
           sends > 0, NextBatch(left, refused), UNCHANGED stopped
    PROVE  /\ Captured' = left
           /\ sends > 1 => SendToCome'
           /\ refused \/ retryTimer \/ stopped => failed' \/ retryTimer' \/ stopped'
           /\ moved' => batch' = {}
<1>1. sends \in Nat /\ stopped \in BOOLEAN /\ retryTimer \in BOOLEAN
  BY DEF TypeOK
<1>2. CASE left = {}
  <2>1. /\ batch' = {} /\ rest' = {} /\ sends' = sends - 1
        /\ retryTimer' = Retry(refused)
    BY <1>2 DEF NextBatch
  <2>2. sends > 1 => SendToCome'
    BY <1>1, <2>1 DEF SendToCome, Running
  <2>3. refused \/ retryTimer \/ stopped => retryTimer' \/ stopped'
    BY <2>1 DEF Retry
  <2> QED
    BY <1>2, <2>1, <2>2, <2>3 DEF Captured
<1>3. CASE left # {}
  <2>1. PICK B \in Slices(left) : batch' = B /\ rest' = left \ B
    BY <1>3 DEF NextBatch
  <2>2. B \subseteq left
    BY DEF Slices
  <2>3. moved' = FALSE /\ failed' = refused /\ UNCHANGED <<sends, retryTimer>>
    BY <1>3 DEF NextBatch
  <2> QED
    BY <2>1, <2>2, <2>3 DEF Captured, SendToCome
<1> QED
  BY <1>2, <1>3

\* A waiting entry always has a reason to wait.
LEMMA RetryInvariant == Spec => []RetryInv
<1>1. Init => RetryInv
  BY DEF Init, RetryInv, Captured
<1>2. TypeInv /\ RetryInv /\ [Next]_vars => RetryInv'
  <2> SUFFICES ASSUME TypeOK, batch \cap rest = {}, RetryInv, [Next]_vars
               PROVE  RetryInv'
    BY DEF TypeInv
  <2>1. /\ sends \in Nat /\ pushes \in Int
        /\ batch \subseteq Entry /\ rest \subseteq Entry /\ OneEach(Captured)
        /\ Running => sends > 0
    BY BoundsAssumption DEF TypeOK, OneEach, Captured
  <2>2. /\ \A e \in Captured : e.no \in Int
        /\ \A d \in DOMAIN pending : pending[d].no \in Int
    BY <2>1 DEF TypeOK, Entry, Captured
  <2>3. ASSUME NEW d, NEW b, Accept(d, b),
               UNCHANGED <<rest, batch, moved, disowned>>
        PROVE  RetryInv'
    <3>1. /\ pushes' = pushes + 1 /\ sends' = sends + 1 /\ Captured' = Captured
          /\ pending' = Put(pending, d, [badge |-> b, no |-> pushes + 1])
      BY <2>3 DEF Accept, Captured
    <3>2. \A x \in DOMAIN pending' :
            (x = d /\ pending'[x].no = pushes + 1) \/ (x \in DOMAIN pending /\ pending'[x] = pending[x])
      BY <3>1 DEF Put
    <3>3. SendToCome'
      BY <2>1, <2>3, <3>1 DEF SendToCome, Running
    <3>4. \A x \in DOMAIN pending' : pending'[x].no <= pushes'
      BY <2>1, <2>2, <3>1, <3>2 DEF RetryInv
    <3>5. \A e \in Captured' : e.no <= pushes' /\ e.no # pushes + 1
      BY <2>1, <2>2, <3>1 DEF RetryInv
    <3>6. moved' => \A e \in batch' :
            (e.device \in DOMAIN pending' /\ pending'[e.device].no = e.no) => e.device \in disowned'
      BY <2>3, <3>1, <3>2, <3>5 DEF RetryInv, Captured
    <3> QED
      BY <3>3, <3>4, <3>5, <3>6 DEF RetryInv, Reason
  <2>4. ASSUME NEW d \in Devices, NEW b \in Badges, Push(d, b)
        PROVE  RetryInv'
    BY <2>3, <2>4 DEF Push
  <2>5. ASSUME UNCHANGED <<pending, sends, rest, batch, moved, failed, retryTimer, stopped,
                           disowned, pushes>>
        PROVE  RetryInv'
    BY <2>5 DEF RetryInv, Captured, Reason, SendToCome, Running
  <2>6. ASSUME NEW d \in Deletable, DeviceCreated(d)
        PROVE  RetryInv'
    BY <2>3, <2>5, <2>6 DEF DeviceCreated
  <2>7. ASSUME NEW d \in Deletable, DeviceDeleted(d)
        PROVE  RetryInv'
    <3>1. /\ DOMAIN pending' = DOMAIN pending \ {d}
          /\ \A x \in DOMAIN pending' : pending'[x] = pending[x]
          /\ UNCHANGED <<sends, rest, batch, failed, retryTimer, stopped, pushes>>
          /\ disowned \subseteq disowned'
          /\ {e.device : e \in batch} \ {d} \subseteq disowned'
      BY <2>7 DEF DeviceDeleted, Forget, Without
    <3>2. Captured' = Captured /\ (SendToCome <=> SendToCome')
      BY <3>1 DEF Captured, SendToCome, Running
    <3>3. \A x \in DOMAIN pending' : Reason(x)'
      BY <3>1, <3>2 DEF RetryInv, Reason
    <3>4. \A e \in batch' : e.device \in DOMAIN pending' => e.device \in disowned'
      BY <3>1
    <3> QED
      BY <3>1, <3>2, <3>3, <3>4 DEF RetryInv
  <2>8. CASE StartSend
    <3>1. Changed \in SUBSET (DOMAIN pending)
      BY DEF Changed
    <3>2. /\ Capture(Changed) \subseteq Entry /\ OneEach(Capture(Changed))
          /\ \A e \in Capture(Changed) : e.device \in Changed /\ e.no = pending[e.device].no
      BY <3>1, CaptureType
    <3>3. /\ NextBatch(Capture(Changed), FALSE) /\ sends > 0
          /\ UNCHANGED <<stopped, disowned, pushes>>
          /\ DOMAIN pending' = Changed /\ \A x \in DOMAIN pending' : pending'[x] = pending[x]
      BY <2>8, <3>1 DEF StartSend, Without
    <3>4. Captured' = Capture(Changed) /\ (moved' => batch' = {})
      BY <3>2, <3>3, LoopKeepsReasons
    <3>5. \A x \in DOMAIN pending' : Reason(x)'
      <4> SUFFICES ASSUME NEW x \in Changed
                   PROVE  \E e \in Captured' : e.device = x /\ e.no = pending'[x].no
        BY <3>3 DEF Reason
      <4>1. [device |-> x, badge |-> pending[x].badge, no |-> pending[x].no] \in Captured'
        BY <3>4 DEF Capture
      <4> QED
        BY <3>3, <4>1
    <3> QED
      BY <3>1, <3>2, <3>3, <3>4, <3>5 DEF RetryInv
  <2>9. CASE PublishOk
    <3>1. /\ NextBatch(rest, failed) /\ Running /\ UNCHANGED <<stopped, pushes>>
          /\ OneEach(rest) /\ rest \in SUBSET Entry /\ failed \in BOOLEAN /\ sends > 0
      BY <2>1, <2>9 DEF PublishOk, OneEach, Captured, TypeOK
    <3>2. /\ Captured' = rest /\ (moved' => batch' = {})
          /\ sends > 1 => SendToCome'
          /\ failed \/ retryTimer \/ stopped => failed' \/ retryTimer' \/ stopped'
      BY <3>1, LoopKeepsReasons
    <3>3. /\ DOMAIN pending' \subseteq DOMAIN pending
          /\ \A x \in DOMAIN pending' : pending'[x] = pending[x]
      BY <2>9 DEF PublishOk, Without
    <3>4. ASSUME NEW x \in DOMAIN pending', x \in disowned, \A e \in batch : e.device # x
          PROVE  x \in disowned'
      BY <2>9, <3>4 DEF PublishOk
    <3>5. ASSUME NEW x \in DOMAIN pending', NEW e \in batch, e.device = x, e.no = pending[x].no
          PROVE  x \in disowned' /\ \A f \in rest : f.device # x
      <4>1. moved
        BY <2>9, <3>3, <3>5 DEF PublishOk, Without, Settled
      <4>2. x \in disowned'
        BY <2>9, <3>3, <3>5, <4>1 DEF PublishOk, RetryInv
      <4>3. e \notin rest
        BY <3>5
      <4> QED
        BY <2>1, <3>5, <4>2, <4>3 DEF OneEach, Captured
    <3>6. \A x \in DOMAIN pending' : Reason(x)'
      <4> SUFFICES ASSUME NEW x \in DOMAIN pending' PROVE Reason(x)'
        OBVIOUS
      <4>1. Reason(x)
        BY <3>3 DEF RetryInv
      <4>2. CASE SendToCome \/ failed \/ retryTimer \/ stopped
        BY <2>1, <3>1, <3>2, <4>2 DEF Reason, SendToCome
      <4>3. CASE \E e \in rest : e.device = x /\ e.no = pending[x].no
        BY <3>2, <3>3, <4>3 DEF Reason
      <4>4. CASE \E e \in batch : e.device = x /\ e.no = pending[x].no
        BY <3>2, <3>5, <4>4 DEF Reason
      <4>5. CASE x \in disowned /\ \A e \in Captured : e.device # x
        BY <3>2, <3>4, <4>5 DEF Reason, Captured
      <4> QED
        BY <4>1, <4>2, <4>3, <4>4, <4>5 DEF Reason, Captured
    <3> QED
      BY <3>1, <3>2, <3>3, <3>6 DEF RetryInv, Captured
  <2>10. CASE PublishFails
    <3>1. /\ NextBatch(rest, TRUE) /\ Running
          /\ UNCHANGED <<pending, disowned, stopped, pushes>>
          /\ OneEach(rest) /\ rest \in SUBSET Entry /\ sends > 0
      BY <2>1, <2>10 DEF PublishFails, OneEach, Captured
    <3>2. /\ Captured' = rest /\ (moved' => batch' = {})
          /\ failed' \/ retryTimer' \/ stopped'
      BY <3>1, LoopKeepsReasons
    <3> QED
      BY <3>1, <3>2 DEF RetryInv, Reason, Captured
  <2>11. CASE RetryFires
    <3>1. /\ UNCHANGED <<pending, rest, batch, moved, failed, stopped, disowned, pushes>>
          /\ IF stopped THEN sends' = sends ELSE sends' = sends + 1
      BY <2>11 DEF RetryFires
    <3>2. Captured' = Captured /\ (Running <=> Running')
      BY <3>1 DEF Captured, Running
    <3>3. stopped \/ SendToCome'
      BY <2>1, <3>1, <3>2 DEF SendToCome
    <3> QED
      BY <3>1, <3>2, <3>3 DEF RetryInv, Reason
  <2>12. CASE Stop
    BY <2>12 DEF Stop, RetryInv, Reason, Captured
  <2>13. CASE Reset
    <3>1. DOMAIN pending' = {} /\ UNCHANGED <<rest, batch, pushes>>
      BY <2>13 DEF Reset, Forget, Without, TypeOK
    <3> QED
      BY <3>1 DEF RetryInv, Captured
  <2>14. ASSUME HostStores \/ UNCHANGED vars
         PROVE  RetryInv'
    BY <2>5, <2>14 DEF HostStores, vars
  <2> QED
    BY <2>4, <2>6, <2>7, <2>8, <2>9, <2>10, <2>11, <2>12, <2>13, <2>14 DEF Next
<1> QED
  BY <1>1, <1>2, TypeInvariant, PTL DEF Spec

\* No entry waits without a send or a retry to come, but for those of the
\* devices whose request forget() disowned.
THEOREM RetryKept == Spec => []RetryArmed
<1>1. TypeInv /\ RetryInv => RetryArmed
  <2> SUFFICES ASSUME TypeOK, failed => Running, RetryInv, NEW d \in Waiting
               PROVE  sends > 0 \/ retryTimer \/ stopped
    BY DEF TypeInv, RetryArmed
  <2>1. sends \in Nat /\ (Running => sends > 0) /\ (rest # {} => Running)
    BY DEF TypeOK
  <2>2. Reason(d) /\ d \notin disowned
    BY DEF RetryInv, Waiting
  <2> QED
    BY <2>1, <2>2 DEF Reason, SendToCome, Captured, Running
<1> QED
  BY <1>1, TypeInvariant, RetryInvariant, PTL

-----------------------------------------------------------------------------
(* The badge that Gladys ends up showing. *)

\* What waits of a device is the last badge pushed; what was captured is what
\* waits, or was replaced by it; and a device with a captured entry has one that
\* waits, unless it was deleted or the session began anew.
EntriesLatest ==
    /\ \A d \in DOMAIN pending \cap DOMAIN latest : pending[d].badge = latest[d]
    /\ \A e \in Captured :
         /\ (e.device \in DOMAIN pending /\ pending[e.device].no = e.no)
              => e.badge = pending[e.device].badge
         /\ e.device \in DOMAIN latest => e.device \in DOMAIN pending

\* Gladys shows badges of the devices it has; a device deleted while it is still
\* to be sent is disowned, and so is one with a record which forget() found in
\* flight; a batch that arrived shows, but for disowned devices.
HostInv ==
    /\ DOMAIN host \subseteq known
    /\ arrived => Running
    /\ \A e \in rest : e.device \in known \cup disowned
    /\ ~moved => \A e \in batch : e.device \in known \cup disowned
    /\ moved => \A e \in batch : e.device \in DOMAIN published => e.device \in disowned
    /\ (arrived /\ ~moved) => \A e \in batch :
         e.device \notin disowned => e.device \in DOMAIN host /\ host[e.device] = e.badge

\* Gladys shows what was recorded as published, or an answer that records
\* something newer is on its way.
Recorded(d) ==
    /\ d \in DOMAIN host
    /\ host[d] = published[d] \/ (arrived /\ ~moved /\ \E e \in batch : e.device = d)

\* As long as no answer was lost, and but for disowned devices, Gladys shows what
\* was recorded, and a badge it does not show waits.
ShownInv ==
    lost = 0 =>
      /\ \A d \in DOMAIN published \ disowned : Recorded(d)
      /\ \A d \in (known \cap DOMAIN latest) \ disowned :
           d \in DOMAIN pending \/ ShowsLatest(d)

LatestInv == EntriesLatest /\ HostInv /\ ShownInv

\* No step takes what waits away from a device that has an entry captured, nor
\* lets it be older than the last push.
LEMMA EntriesKept ==
    ASSUME TypeInv, RetryInv, EntriesLatest, [Next]_vars
    PROVE  EntriesLatest'
<1>1. /\ pushes \in Int /\ OneEach(Captured) /\ batch \cap rest = {}
      /\ batch \in SUBSET Entry /\ rest \in SUBSET Entry /\ OneEach(rest)
      /\ \A e \in Captured : e.no \in Int /\ e.no <= pushes
      /\ Running => sends > 0
  BY BoundsAssumption DEF TypeInv, TypeOK, OneEach, Captured, Entry, RetryInv
<1>2. ASSUME NEW d, NEW b, Accept(d, b), UNCHANGED <<rest, batch>>
      PROVE  EntriesLatest'
  <2>1. /\ pending' = Put(pending, d, [badge |-> b, no |-> pushes + 1])
        /\ latest' = Put(latest, d, b) /\ Captured' = Captured
    BY <1>2 DEF Accept, Captured
  <2>2. /\ DOMAIN pending' = DOMAIN pending \cup {d} /\ DOMAIN latest' = DOMAIN latest \cup {d}
        /\ pending'[d].badge = b /\ pending'[d].no = pushes + 1 /\ latest'[d] = b
        /\ \A x \in DOMAIN pending : x # d => pending'[x] = pending[x]
        /\ \A x \in DOMAIN latest : x # d => latest'[x] = latest[x]
    BY <2>1 DEF Put
  <2>3. \A e \in Captured : e.no # pushes + 1
    BY <1>1
  <2> QED
    BY <2>1, <2>2, <2>3 DEF EntriesLatest
<1>3. ASSUME DOMAIN pending' \subseteq DOMAIN pending, DOMAIN latest' \subseteq DOMAIN latest,
             \A x \in DOMAIN pending' : pending'[x] = pending[x],
             \A x \in DOMAIN latest' : latest'[x] = latest[x],
             Captured' \subseteq Captured,
             \A e \in Captured' : e.device \in DOMAIN latest' \cap DOMAIN pending
                                    => e.device \in DOMAIN pending'
      PROVE  EntriesLatest'
  BY <1>3 DEF EntriesLatest
<1>4. ASSUME NEW d \in Devices, NEW b \in Badges, Push(d, b) PROVE EntriesLatest'
  BY <1>2, <1>4 DEF Push
<1>5. ASSUME UNCHANGED <<pending, latest, rest, batch>> PROVE EntriesLatest'
  BY <1>3, <1>5 DEF Captured
<1>6. ASSUME NEW d \in Deletable, DeviceCreated(d) PROVE EntriesLatest'
  <2>1. CASE \E b \in Badges : Accept(d, b)
    BY <1>2, <1>6, <2>1 DEF DeviceCreated
  <2>2. CASE latest' = Without(latest, {d}) /\ UNCHANGED pending
    <3>1. Captured' = Captured
      BY <1>6 DEF DeviceCreated, Captured
    <3> QED
      BY <1>3, <2>2, <3>1 DEF Without
  <2> QED
    BY <1>6, <2>1, <2>2 DEF DeviceCreated
<1>7. ASSUME NEW d \in Deletable, DeviceDeleted(d) PROVE EntriesLatest'
  <2>1. Captured' = Captured
    BY <1>7 DEF DeviceDeleted, Captured
  <2>2. pending' = Without(pending, {d}) /\ latest' = Without(latest, {d})
    BY <1>7 DEF DeviceDeleted, Forget
  <2> QED
    BY <1>3, <2>1, <2>2 DEF Without
<1>8. CASE StartSend
  <2>1. Changed \in SUBSET (DOMAIN pending)
    BY DEF Changed
  <2>2. /\ Capture(Changed) \in SUBSET Entry /\ OneEach(Capture(Changed))
        /\ \A e \in Capture(Changed) : e.device \in Changed
    BY <2>1, CaptureType DEF TypeInv
  <2>3. Captured' = Capture(Changed)
    BY <1>8, <2>2, LoopKeepsReasons DEF StartSend, TypeInv
  <2>4. /\ UNCHANGED latest /\ DOMAIN pending' = Changed
        /\ \A x \in DOMAIN pending' : pending'[x] = pending[x]
    BY <1>8, <2>1 DEF StartSend, Without
  <2>5. \A e \in Capture(Changed) : e.badge = pending[e.device].badge
    BY DEF Capture
  <2> QED
    BY <2>1, <2>2, <2>3, <2>4, <2>5 DEF EntriesLatest
<1>9. CASE PublishOk
  <2>1. Captured' = rest
    BY <1>1, <1>9, LoopKeepsReasons DEF PublishOk, TypeInv, TypeOK
  <2>2. \A e \in rest : e.device \notin {x.device : x \in batch}
    BY <1>1 DEF OneEach, Captured
  <2>3. /\ UNCHANGED latest /\ DOMAIN pending' \subseteq DOMAIN pending
        /\ \A x \in DOMAIN pending' : pending'[x] = pending[x]
        /\ DOMAIN pending \ {x.device : x \in batch} \subseteq DOMAIN pending'
    BY <1>9 DEF PublishOk, Without, Settled
  <2> QED
    BY <1>3, <2>1, <2>2, <2>3 DEF Captured
<1>10. CASE PublishFails
  <2>1. Captured' = rest
    BY <1>1, <1>10, LoopKeepsReasons DEF PublishFails, TypeInv
  <2> QED
    BY <1>3, <1>10, <2>1 DEF PublishFails, Captured
<1>11. CASE Reset
  <2>1. Captured' = Captured /\ latest' = <<>> /\ pending' = Without(pending, Devices)
    BY <1>11 DEF Reset, Forget, Captured
  <2> QED
    BY <1>3, <2>1 DEF Without
<1> QED
  BY <1>4, <1>5, <1>6, <1>7, <1>8, <1>9, <1>10, <1>11 DEF Next, HostStores, RetryFires, Stop, vars

\* What Gladys shows, and which devices are disowned, stay what they are to be.
LEMMA HostKept ==
    ASSUME TypeInv, HostInv, [Next]_vars
    PROVE  HostInv'
<1>1. /\ OneEach(Captured) /\ batch \cap rest = {}
      /\ batch \in SUBSET Entry /\ rest \in SUBSET Entry /\ OneEach(rest)
      /\ (Running => sends > 0) /\ failed \in BOOLEAN
  BY DEF TypeInv, TypeOK, OneEach, Captured
\* The loop over the requests, once the one in flight has been answered.
<1>2. ASSUME NEW left \in SUBSET Entry, Captured' = left, moved' => batch' = {}, ~arrived',
             DOMAIN host' \subseteq known',
             \A e \in left : e.device \in known' \cup disowned'
      PROVE  HostInv'
  BY <1>2 DEF HostInv, Captured
<1>3. ASSUME UNCHANGED <<known, published, rest, batch, moved, arrived, host, disowned>>
      PROVE  HostInv'
  BY <1>3 DEF HostInv, Running
<1>4. ASSUME NEW d \in Devices, NEW b \in Badges, Push(d, b) PROVE HostInv'
  BY <1>3, <1>4 DEF Push
<1>5. ASSUME NEW d \in Deletable, DeviceCreated(d) PROVE HostInv'
  <2>1. /\ known' = known \cup {d} /\ d \notin known /\ host' = Without(host, {d})
        /\ UNCHANGED <<published, rest, batch, moved, arrived, disowned>>
    BY <1>5 DEF DeviceCreated
  <2>2. DOMAIN host' = DOMAIN host /\ \A x \in DOMAIN host : host'[x] = host[x]
    BY <2>1 DEF HostInv, Without
  <2> QED
    BY <2>1, <2>2 DEF HostInv, Running
<1>6. ASSUME NEW d \in Deletable, DeviceDeleted(d) PROVE HostInv'
  <2>1. /\ known' = known \ {d} /\ host' = Without(host, {d}) /\ moved' = TRUE
        /\ published' = Without(published, {d})
        /\ disowned' = disowned \cup ({e.device : e \in batch} \ {d})
                                \cup ({e.device : e \in rest} \cap {d})
        /\ UNCHANGED <<rest, batch, arrived>>
    BY <1>6 DEF DeviceDeleted, Forget
  <2> QED
    BY <2>1 DEF HostInv, Running, Without
<1>7. CASE StartSend
  <2>1. Changed \in SUBSET (DOMAIN pending) /\ Changed \subseteq known
    BY DEF Changed
  <2>2. /\ Capture(Changed) \in SUBSET Entry /\ OneEach(Capture(Changed))
        /\ \A e \in Capture(Changed) : e.device \in Changed
    BY <2>1, CaptureType DEF TypeInv
  <2>3. Captured' = Capture(Changed) /\ (moved' => batch' = {})
    BY <1>7, <2>2, LoopKeepsReasons DEF StartSend, TypeInv
  <2>4. ~arrived' /\ UNCHANGED <<known, host, disowned>>
    BY <1>7 DEF StartSend, HostInv
  <2> QED
    BY <1>2, <2>1, <2>2, <2>3, <2>4 DEF HostInv
<1>8. CASE HostStores
  <2>1. /\ arrived' = TRUE /\ Running
        /\ UNCHANGED <<known, published, rest, batch, moved, disowned>>
    BY <1>8 DEF HostStores
  <2>2. DOMAIN host' = DOMAIN host \cup {e.device : e \in {x \in batch : x.device \in known}}
    BY <1>8 DEF HostStores
  <2>3. ASSUME NEW e \in batch, e.device \in known
        PROVE  e.device \in DOMAIN host' /\ host'[e.device] = e.badge
    <3>1. \A f \in batch : f.device = e.device => f = e
      BY <1>1 DEF OneEach, Captured
    <3> QED
      BY <1>8, <2>2, <2>3, <3>1 DEF HostStores
  <2> QED
    BY <2>1, <2>2, <2>3 DEF HostInv, Running
<1>9. CASE PublishOk
  <2>1. Captured' = rest /\ (moved' => batch' = {})
    BY <1>1, <1>9, LoopKeepsReasons DEF PublishOk, TypeInv, TypeOK
  <2>2. \A e \in rest : e.device \notin {x.device : x \in batch}
    BY <1>1 DEF OneEach, Captured
  <2>3. ~arrived' /\ UNCHANGED <<known, host>>
        /\ disowned \ {x.device : x \in batch} \subseteq disowned'
    BY <1>9 DEF PublishOk
  <2> QED
    BY <1>1, <1>2, <2>1, <2>2, <2>3 DEF HostInv
<1>10. CASE PublishFails
  <2>1. Captured' = rest /\ (moved' => batch' = {})
    BY <1>1, <1>10, LoopKeepsReasons DEF PublishFails, TypeInv
  <2>2. ~arrived' /\ UNCHANGED <<known, host, disowned>>
    BY <1>10 DEF PublishFails
  <2> QED
    BY <1>1, <1>2, <2>1, <2>2 DEF HostInv
<1>11. CASE Reset
  <2>1. /\ published' = Without(published, Devices) /\ moved' = TRUE
        /\ disowned' = disowned \cap {e.device : e \in rest}
        /\ UNCHANGED <<known, rest, batch, arrived, host>>
    BY <1>11 DEF Reset, Forget
  <2>2. DOMAIN published' = {}
    BY <2>1 DEF TypeInv, TypeOK, Without
  <2> QED
    BY <2>1, <2>2 DEF HostInv, Running
<1> QED
  BY <1>3, <1>4, <1>5, <1>6, <1>7, <1>8, <1>9, <1>10, <1>11 DEF Next, RetryFires, Stop, vars

\* Gladys shows what is recorded and the last badge pushed, or the badge waits.
LEMMA ShownKept ==
    ASSUME TypeInv, EntriesLatest, HostInv, ShownInv, [Next]_vars
    PROVE  ShownInv'
<1>1. OneEach(Captured) /\ lost \in Nat
  BY BoundsAssumption DEF TypeInv, TypeOK, OneEach, Captured
<1>2. lost' = 0 => lost = 0
  <2>1. UNCHANGED lost \/ PublishFails
    <3>1. ASSUME NEW d \in Deletable, DeviceCreated(d) \/ DeviceDeleted(d) PROVE UNCHANGED lost
      BY <3>1 DEF DeviceCreated, DeviceDeleted
    <3>2. ASSUME NEW d \in Devices, NEW b \in Badges, Push(d, b) PROVE UNCHANGED lost
      BY <3>2 DEF Push
    <3>3. StartSend \/ HostStores \/ PublishOk \/ RetryFires \/ Stop \/ Reset \/ UNCHANGED vars
            => UNCHANGED lost
      BY DEF StartSend, HostStores, PublishOk, RetryFires, Stop, Reset, vars
    <3> QED
      BY <3>1, <3>2, <3>3 DEF Next
  <2>2. PublishFails => lost' = lost \/ lost' = lost + 1
    BY DEF PublishFails
  <2> QED
    BY <1>1, <2>1, <2>2
<1> SUFFICES ASSUME lost' = 0, lost = 0,
                    \A d \in DOMAIN published \ disowned : Recorded(d),
                    \A d \in (known \cap DOMAIN latest) \ disowned :
                      d \in DOMAIN pending \/ ShowsLatest(d)
             PROVE  /\ \A d \in DOMAIN published' \ disowned' : Recorded(d)'
                    /\ \A d \in (known' \cap DOMAIN latest') \ disowned' :
                         d \in DOMAIN pending' \/ ShowsLatest(d)'
  BY <1>2 DEF ShownInv
<1> DEFINE RecordedNext == \A d \in DOMAIN published' \ disowned' : Recorded(d)'
           ShownNext == \A d \in (known' \cap DOMAIN latest') \ disowned' :
                         d \in DOMAIN pending' \/ ShowsLatest(d)'
<1>3. ASSUME UNCHANGED <<known, pending, published, batch, moved, arrived, host, latest, disowned>>
      PROVE  RecordedNext /\ ShownNext
  BY <1>3 DEF Recorded, ShowsLatest
<1>4. ASSUME NEW d, NEW b, Accept(d, b), d \notin DOMAIN host' \/ host' = host,
             DOMAIN host' \subseteq DOMAIN host, \A x \in DOMAIN host' : host'[x] = host[x],
             known' \subseteq known \cup {d}, UNCHANGED disowned,
             \A x \in DOMAIN host \ {d} : x \in DOMAIN host'
      PROVE  ShownNext
  <2>1. /\ DOMAIN pending' = DOMAIN pending \cup {d} /\ DOMAIN latest' = DOMAIN latest \cup {d}
        /\ \A x \in DOMAIN latest : x # d => latest'[x] = latest[x]
    BY <1>4 DEF Accept, Put
  <2> QED
    BY <1>4, <2>1 DEF ShowsLatest
<1>5. ASSUME NEW d \in Devices, NEW b \in Badges, Push(d, b) PROVE RecordedNext /\ ShownNext
  <2>1. RecordedNext
    BY <1>5 DEF Push, Recorded
  <2>2. ShownNext
    BY <1>4, <1>5 DEF Push
  <2> QED
    BY <2>1, <2>2
<1>6. ASSUME NEW d \in Deletable, DeviceCreated(d) PROVE RecordedNext /\ ShownNext
  <2>1. /\ known' = known \cup {d} /\ d \notin known /\ host' = Without(host, {d})
        /\ UNCHANGED <<published, batch, moved, arrived, disowned>>
    BY <1>6 DEF DeviceCreated
  <2>2. /\ DOMAIN host' = DOMAIN host /\ \A x \in DOMAIN host : host'[x] = host[x]
    BY <2>1 DEF HostInv, Without
  <2>3. RecordedNext
    BY <2>1, <2>2 DEF Recorded
  <2>4. CASE \E b \in Badges : Accept(d, b)
    <3>1. d \notin DOMAIN host'
      BY <2>1, <2>2 DEF HostInv
    <3> QED
      BY <1>4, <2>1, <2>2, <2>3, <2>4, <3>1
  <2>5. CASE latest' = Without(latest, {d}) /\ UNCHANGED pending
    BY <2>1, <2>2, <2>3, <2>5 DEF ShowsLatest, Without
  <2> QED
    BY <1>6, <2>4, <2>5 DEF DeviceCreated
<1>7. ASSUME NEW d \in Deletable, DeviceDeleted(d) PROVE RecordedNext /\ ShownNext
  <2>1. /\ known' = known \ {d} /\ host' = Without(host, {d})
        /\ published' = Without(published, {d}) /\ pending' = Without(pending, {d})
        /\ latest' = Without(latest, {d})
        /\ disowned \subseteq disowned' /\ {e.device : e \in batch} \ {d} \subseteq disowned'
    BY <1>7 DEF DeviceDeleted, Forget
  <2>2. RecordedNext
    BY <2>1 DEF Recorded, Without
  <2>3. ShownNext
    BY <2>1 DEF ShowsLatest, Without
  <2> QED
    BY <2>2, <2>3
<1>8. CASE StartSend
  <2>1. /\ ~arrived /\ ~arrived' /\ UNCHANGED <<known, published, host, latest, disowned>>
        /\ DOMAIN pending' = DOMAIN pending \cap Changed
    BY <1>8 DEF StartSend, HostInv, Without
  <2>2. RecordedNext
    BY <2>1 DEF Recorded
  <2>3. ASSUME NEW d \in (known \cap DOMAIN latest) \ disowned, d \in DOMAIN pending \ Changed
        PROVE  ShowsLatest(d)
    <3>1. d \in DOMAIN published /\ published[d] = pending[d].badge
      BY <2>3 DEF Changed
    <3>2. pending[d].badge = latest[d]
      BY <2>3 DEF EntriesLatest
    <3> QED
      BY <2>1, <2>3, <3>1, <3>2 DEF Recorded, ShowsLatest
  <2>4. ShownNext
    BY <2>1, <2>3 DEF ShowsLatest
  <2> QED
    BY <2>2, <2>4
<1>9. CASE HostStores
  <2>1. /\ arrived' = TRUE
        /\ UNCHANGED <<known, pending, published, batch, moved, latest, disowned>>
        /\ ~arrived
    BY <1>9 DEF HostStores
  <2>2. /\ DOMAIN host \subseteq DOMAIN host'
        /\ \A x \in DOMAIN host : x \notin {e.device : e \in batch} => host'[x] = host[x]
    BY <1>9 DEF HostStores
  <2>3. RecordedNext
    BY <2>1, <2>2 DEF Recorded, HostInv
  <2>4. \A x \in DOMAIN latest : x \notin DOMAIN pending => x \notin {e.device : e \in batch}
    BY DEF EntriesLatest, Captured
  <2>5. ShownNext
    BY <2>1, <2>2, <2>4 DEF ShowsLatest
  <2> QED
    BY <2>3, <2>5
<1>10. CASE PublishFails
  <2>1. /\ ~arrived /\ ~arrived'
        /\ UNCHANGED <<known, pending, published, host, latest, disowned>>
    BY <1>1, <1>10 DEF PublishFails
  <2> QED
    BY <2>1 DEF Recorded, ShowsLatest
<1>11. CASE PublishOk
  <2>1. arrived /\ ~arrived' /\ UNCHANGED <<known, host, latest>>
    BY <1>11 DEF PublishOk
  <2>2. CASE moved
    <3>1. UNCHANGED <<published, pending, disowned>>
      BY <1>11, <2>2 DEF PublishOk
    <3> QED
      BY <2>1, <2>2, <3>1 DEF Recorded, ShowsLatest
  <2>3. CASE ~moved
    <3>1. /\ DOMAIN published' = DOMAIN published \cup {e.device : e \in batch}
          /\ \A x \in DOMAIN published :
               x \notin {e.device : e \in batch} => published'[x] = published[x]
      BY <1>11, <2>3 DEF PublishOk
    <3>2. \A e \in batch : published'[e.device] = e.badge
      <4>1. \A e, f \in batch : e.device = f.device => e = f
        BY <1>1 DEF OneEach, Captured
      <4> QED
        BY <1>11, <2>3, <4>1 DEF PublishOk
    <3>3. disowned' = disowned \ {d \in DOMAIN host : \E e \in batch :
                                             e.device = d /\ e.badge = host[d]}
      BY <1>11, <2>3 DEF PublishOk
    <3>4. ASSUME NEW e \in batch, e.device \notin disowned'
          PROVE  e.device \in DOMAIN host /\ host[e.device] = e.badge
      <4>1. CASE e.device \notin disowned
        BY <2>1, <2>3, <4>1 DEF HostInv
      <4>2. CASE e.device \in disowned
        <5>1. PICK f \in batch : f.device = e.device /\ f.badge = host[e.device]
                                 /\ e.device \in DOMAIN host
          BY <3>3, <3>4, <4>2
        <5>2. f = e
          BY <1>1, <5>1 DEF OneEach, Captured
        <5> QED
          BY <5>1, <5>2
      <4> QED
        BY <4>1, <4>2
    <3>5. \A d \in disowned : d \notin {e.device : e \in batch} => d \in disowned'
      BY <3>3
    <3>6. RecordedNext
      <4> SUFFICES ASSUME NEW d \in DOMAIN published' \ disowned' PROVE Recorded(d)'
        OBVIOUS
      <4>1. CASE d \in {e.device : e \in batch}
        BY <2>1, <3>2, <3>4, <4>1 DEF Recorded
      <4>2. CASE d \notin {e.device : e \in batch}
        <5>1. Recorded(d) /\ published'[d] = published[d]
          BY <3>1, <3>5, <4>2
        <5> QED
          BY <2>1, <4>2, <5>1 DEF Recorded
      <4> QED
        BY <4>1, <4>2
    <3>7. DOMAIN pending' = DOMAIN pending \ Settled
      BY <1>11, <2>3 DEF PublishOk, Without
    <3>8. ShownNext
      <4> SUFFICES ASSUME NEW d \in (known \cap DOMAIN latest) \ disowned', d \notin DOMAIN pending'
                   PROVE  ShowsLatest(d)
        BY <2>1 DEF ShowsLatest
      <4>1. CASE d \in {e.device : e \in batch}
        <5>1. PICK e \in batch : e.device = d
          BY <4>1
        <5>2. d \in DOMAIN pending
          BY <5>1 DEF EntriesLatest, Captured
        <5>3. d \in Settled
          BY <3>7, <5>2
        <5>4. PICK f \in batch : f.device = d /\ pending[d].no = f.no
          BY <5>3 DEF Settled
        <5>5. f.badge = latest[d]
          BY <5>2, <5>4 DEF EntriesLatest, Captured
        <5> QED
          BY <3>4, <5>4, <5>5 DEF ShowsLatest
      <4>2. CASE d \notin {e.device : e \in batch}
        <5>1. d \notin DOMAIN pending /\ d \notin disowned
          BY <3>5, <3>7, <4>2 DEF Settled
        <5> QED
          BY <5>1
      <4> QED
        BY <4>1, <4>2
    <3> QED
      BY <3>6, <3>8
  <2> QED
    BY <2>2, <2>3
<1>12. CASE Reset
  <2>1. latest' = <<>> /\ published' = Without(published, Devices)
    BY <1>12 DEF Reset, Forget
  <2>2. DOMAIN published' = {} /\ DOMAIN latest' = {}
    BY <2>1 DEF TypeInv, TypeOK, Without
  <2> QED
    BY <2>2
<1>13. CASE RetryFires \/ Stop \/ UNCHANGED vars
  BY <1>3, <1>13 DEF RetryFires, Stop, vars
<1> QED
  BY <1>5, <1>6, <1>7, <1>8, <1>9, <1>10, <1>11, <1>12, <1>13 DEF Next

\* The last badge of a device is shown, or it waits.
LEMMA LatestInvariant == Spec => []LatestInv
<1>1. Init => LatestInv
  BY DEF Init, LatestInv, EntriesLatest, HostInv, ShownInv, Captured
<1>2. TypeInv /\ RetryInv /\ LatestInv /\ [Next]_vars => LatestInv'
  BY EntriesKept, HostKept, ShownKept DEF LatestInv
<1> QED
  BY <1>1, <1>2, TypeInvariant, RetryInvariant, PTL DEF Spec

\* Once nothing is queued or to be retried, Gladys shows of each device it has the
\* last badge pushed, as long as no answer was lost, whatever is created, deleted,
\* refused or restarted meanwhile, and but for the devices forget() disowned.
THEOREM LatestShown == Spec => []EndsUpLatest
<1>1. LatestInv /\ RetryArmed => EndsUpLatest
  BY DEF LatestInv, ShownInv, RetryArmed, Waiting, Quiet, EndsUpLatest
<1> QED
  BY <1>1, LatestInvariant, RetryKept, PTL
=============================================================================
