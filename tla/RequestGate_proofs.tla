------------------------- MODULE RequestGate_proofs -------------------------
(***************************************************************************)
(* Safety of RequestGate for any tasks, thermostats and concurrency: the   *)
(* inductive invariant GateInv, what follows from it, and that the queues  *)
(* implement FleetBus.                                                     *)
(***************************************************************************)
EXTENDS RequestGate, FiniteSetTheorems, SequenceTheorems, TLAPS

-----------------------------------------------------------------------------
(* Queues without repetition, seen as sets.                                *)

(* A newcomer at the end of a queue.                                       *)
LEMMA AppendToQueue ==
  ASSUME NEW S, NEW q \in Seq(S), NEW t \in S,
         IsInjective(q), t \notin ToSet(q)
  PROVE  /\ Append(q, t) \in Seq(S)
         /\ IsInjective(Append(q, t))
         /\ ToSet(Append(q, t)) = ToSet(q) \cup {t}
  BY DEF IsInjective, ToSet

(* The first of a queue leaves it.                                         *)
LEMMA PopQueue ==
  ASSUME NEW S, NEW q \in Seq(S), IsInjective(q), q # <<>>
  PROVE  /\ Head(q) \in S
         /\ Head(q) \in ToSet(q)
         /\ Tail(q) \in Seq(S)
         /\ IsInjective(Tail(q))
         /\ ToSet(Tail(q)) = ToSet(q) \ {Head(q)}
<1>1. /\ Len(q) \in Nat \ {0}
      /\ Head(q) = q[1]
      /\ Head(q) \in S
      /\ DOMAIN q = 1 .. Len(q)
  BY LenProperties, HeadTailProperties
<1>2. /\ Tail(q) \in Seq(S)
      /\ Len(Tail(q)) = Len(q) - 1
      /\ \A i \in 1 .. Len(Tail(q)) : Tail(q)[i] = q[i + 1]
  BY HeadTailProperties
<1>3. DOMAIN Tail(q) = 1 .. Len(q) - 1
  BY <1>2, LenProperties
<1>4. IsInjective(Tail(q))
  BY <1>1, <1>2, <1>3 DEF IsInjective
<1>5. ASSUME NEW x \in ToSet(Tail(q))
      PROVE  x \in ToSet(q) \ {Head(q)}
  BY <1>1, <1>2, <1>3, <1>5 DEF ToSet, IsInjective
<1>6. ASSUME NEW x \in ToSet(q) \ {Head(q)}
      PROVE  x \in ToSet(Tail(q))
  <2>1. PICK i \in DOMAIN q : x = q[i]
    BY DEF ToSet
  <2>2. i \in 2 .. Len(q)
    BY <1>1, <2>1, <1>6
  <2>3. i - 1 \in DOMAIN Tail(q) /\ Tail(q)[i - 1] = x
    BY <1>1, <1>2, <1>3, <2>1, <2>2
  <2>4. QED
    BY <2>3 DEF ToSet
<1>7. Head(q) \in ToSet(q)
  BY <1>1 DEF ToSet
<1>8. QED
  BY <1>1, <1>2, <1>4, <1>5, <1>6, <1>7

(* A sequence without its i-th element.                                    *)
LEMMA RemoveAtElements ==
  ASSUME NEW S, NEW q \in Seq(S), NEW i \in DOMAIN q
  PROVE  /\ RemoveAt(q, i) \in Seq(S)
         /\ Len(RemoveAt(q, i)) = Len(q) - 1
         /\ \A j \in 1 .. Len(q) - 1 :
              RemoveAt(q, i)[j] = IF j < i THEN q[j] ELSE q[j + 1]
<1> DEFINE front == SubSeq(q, 1, i - 1)
           back == SubSeq(q, i + 1, Len(q))
           r == RemoveAt(q, i)
<1>1. /\ Len(q) \in Nat
      /\ i \in 1 .. Len(q)
  BY LenProperties
<1>2. /\ front \in Seq(S)
      /\ Len(front) = i - 1
      /\ \A j \in 1 .. i - 1 : front[j] = q[j]
  BY <1>1
<1>3. /\ back \in Seq(S)
      /\ Len(back) = Len(q) - i
      /\ \A j \in 1 .. Len(q) - i : back[j] = q[i + j]
  BY <1>1
<1>4. r = front \o back
  BY DEF RemoveAt
<1> HIDE DEF front, back, r
<1>5. /\ r \in Seq(S)
      /\ Len(r) = Len(front) + Len(back)
      /\ \A j \in 1 .. Len(front) + Len(back) :
           r[j] = IF j <= Len(front) THEN front[j] ELSE back[j - Len(front)]
  BY <1>2, <1>3, <1>4, ConcatProperties
<1>6. Len(r) = Len(q) - 1
  BY <1>1, <1>2, <1>3, <1>5
<1>7. ASSUME NEW j \in 1 .. Len(q) - 1
      PROVE  r[j] = IF j < i THEN q[j] ELSE q[j + 1]
  <2> HIDE DEF front, back, r
  <2>1. CASE j < i
    <3>1. j \in 1 .. i - 1 /\ j <= Len(front) /\ j \in 1 .. Len(front) + Len(back)
      BY <1>1, <1>2, <1>3, <2>1
    <3>2. r[j] = front[j]
      BY <1>5, <3>1
    <3>3. front[j] = q[j]
      BY <1>2, <3>1
    <3>4. QED
      BY <2>1, <3>2, <3>3
  <2>2. CASE ~ (j < i)
    <3> DEFINE k == j - (i - 1)
    <3>1. /\ j \in 1 .. Len(front) + Len(back)
          /\ ~ (j <= Len(front))
          /\ j - Len(front) = k
      BY <1>1, <1>2, <1>3, <2>2
    <3>2. k \in 1 .. Len(q) - i /\ i + k = j + 1
      BY <1>1, <2>2
    <3> HIDE DEF k
    <3>3. r[j] = q[j + 1]
      BY <1>3, <1>5, <3>1, <3>2
    <3>4. QED
      BY <2>2, <3>3
  <2>3. QED
    BY <2>1, <2>2
<1>8. QED
  BY <1>5, <1>6, <1>7 DEF r

(* A cancelled task leaves a queue from the middle.                        *)
LEMMA RemoveFromQueue ==
  ASSUME NEW S, NEW q \in Seq(S), IsInjective(q), NEW i \in DOMAIN q
  PROVE  /\ RemoveAt(q, i) \in Seq(S)
         /\ IsInjective(RemoveAt(q, i))
         /\ ToSet(RemoveAt(q, i)) = ToSet(q) \ {q[i]}
<1> DEFINE r == RemoveAt(q, i)
<1>1. /\ Len(q) \in Nat
      /\ DOMAIN q = 1 .. Len(q)
      /\ i \in 1 .. Len(q)
  BY LenProperties
<1>2. /\ r \in Seq(S)
      /\ Len(r) = Len(q) - 1
      /\ \A j \in 1 .. Len(q) - 1 : r[j] = IF j < i THEN q[j] ELSE q[j + 1]
  BY RemoveAtElements
<1>3. DOMAIN r = 1 .. Len(q) - 1
  BY <1>2, LenProperties
<1>4. IsInjective(r)
  <2> DEFINE from(j) == IF j < i THEN j ELSE j + 1
  <2>1. \A j \in DOMAIN r : from(j) \in DOMAIN q /\ r[j] = q[from(j)]
    BY <1>1, <1>2, <1>3
  <2>2. \A j, k \in DOMAIN r : from(j) = from(k) => j = k
    BY <1>1, <1>3
  <2>3. \A j, k \in DOMAIN q : q[j] = q[k] => j = k
    BY DEF IsInjective
  <2> HIDE DEF from, r
  <2>4. ASSUME NEW j \in DOMAIN r, NEW k \in DOMAIN r, r[j] = r[k]
        PROVE  j = k
    BY <2>1, <2>2, <2>3, <2>4
  <2>5. QED
    BY <2>4 DEF IsInjective
<1>5. ASSUME NEW x \in ToSet(r)
      PROVE  x \in ToSet(q) \ {q[i]}
  <2>1. PICK j \in 1 .. Len(q) - 1 : x = r[j]
    BY <1>3 DEF ToSet
  <2>2. CASE j < i
    BY <1>1, <1>2, <2>1, <2>2 DEF ToSet, IsInjective
  <2>3. CASE ~ (j < i)
    BY <1>1, <1>2, <2>1, <2>3 DEF ToSet, IsInjective
  <2>4. QED
    BY <2>2, <2>3
<1>6. ASSUME NEW x \in ToSet(q) \ {q[i]}
      PROVE  x \in ToSet(r)
  <2>1. PICK j \in DOMAIN q : x = q[j]
    BY DEF ToSet
  <2>2. CASE j < i
    <3>1. j \in DOMAIN r /\ r[j] = x
      BY <1>1, <1>2, <1>3, <2>1, <2>2
    <3>2. QED
      BY <3>1 DEF ToSet
  <2>3. CASE j > i
    <3>1. j - 1 \in DOMAIN r /\ r[j - 1] = x
      BY <1>1, <1>2, <1>3, <2>1, <2>3
    <3>2. QED
      BY <3>1 DEF ToSet
  <2>4. QED
    BY <1>1, <2>1, <2>2, <2>3, <1>6
<1>7. QED
  BY <1>2, <1>4, <1>5, <1>6
-----------------------------------------------------------------------------
(* Queues without repetition, seen as orders.                              *)

(* Who stands ahead, position by position.                                 *)
LEMMA AheadMeaning ==
  ASSUME NEW q, NEW t, NEW u
  PROVE  u \in Ahead(q, t)
         <=> \E j, k \in DOMAIN q : j < k /\ q[j] = u /\ q[k] = t
  BY DEF Ahead

(* A newcomer stands before nobody.                                        *)
LEMMA AppendAhead ==
  ASSUME NEW S, NEW q \in Seq(S), NEW x \in S, NEW t \in ToSet(q), x \notin ToSet(q)
  PROVE  Ahead(Append(q, x), t) \subseteq Ahead(q, t)
<1> DEFINE r == Append(q, x)
<1> SUFFICES ASSUME NEW u \in Ahead(r, t) PROVE u \in Ahead(q, t)
  OBVIOUS
<1>1. /\ Len(q) \in Nat
      /\ DOMAIN q = 1 .. Len(q)
      /\ DOMAIN r = 1 .. Len(q) + 1
      /\ r[Len(q) + 1] = x
      /\ \A j \in 1 .. Len(q) : r[j] = q[j]
  BY AppendProperties, LenProperties
<1> HIDE DEF r
<1>2. PICK j, k \in DOMAIN r : j < k /\ r[j] = u /\ r[k] = t
  BY AheadMeaning
<1>3. k # Len(q) + 1
  BY <1>1, <1>2
<1>4. j \in 1 .. Len(q) /\ k \in 1 .. Len(q)
  BY <1>1, <1>2, <1>3
<1>5. QED
  BY <1>1, <1>2, <1>4, AheadMeaning

(* The first of a queue stands before all the others, and its leaving puts *)
(* nobody before them.                                                     *)
LEMMA PopAhead ==
  ASSUME NEW S, NEW q \in Seq(S), q # <<>>, NEW t \in ToSet(Tail(q))
  PROVE  /\ Ahead(Tail(q), t) \subseteq Ahead(q, t)
         /\ Head(q) \in Ahead(q, t)
<1> DEFINE r == Tail(q)
<1>1. /\ Len(q) \in Nat \ {0}
      /\ DOMAIN q = 1 .. Len(q)
      /\ Head(q) = q[1]
      /\ DOMAIN r = 1 .. Len(q) - 1
      /\ \A i \in 1 .. Len(q) - 1 : r[i] = q[i + 1]
  <2>1. /\ r \in Seq(S)
        /\ Len(r) = Len(q) - 1
        /\ \A i \in 1 .. Len(r) : r[i] = q[i + 1]
    BY HeadTailProperties
  <2>2. QED
    BY <2>1, LenProperties, HeadTailProperties
<1>2. PICK n \in DOMAIN r : t = r[n]
  BY DEF ToSet
<1> HIDE DEF r
<1>3. Head(q) \in Ahead(q, t)
  <2>1. 1 \in DOMAIN q /\ n + 1 \in DOMAIN q /\ 1 < n + 1 /\ q[n + 1] = t
    BY <1>1, <1>2
  <2>2. QED
    BY <1>1, <2>1, AheadMeaning
<1>4. ASSUME NEW u \in Ahead(r, t) PROVE u \in Ahead(q, t)
  <2>1. PICK j, k \in DOMAIN r : j < k /\ r[j] = u /\ r[k] = t
    BY AheadMeaning
  <2>2. /\ j + 1 \in DOMAIN q /\ k + 1 \in DOMAIN q /\ j + 1 < k + 1
        /\ q[j + 1] = u /\ q[k + 1] = t
    BY <1>1, <2>1
  <2>3. QED
    BY <2>2, AheadMeaning
<1>5. QED
  BY <1>3, <1>4 DEF r

(* One who leaves from the middle puts nobody before anyone.               *)
LEMMA RemoveAhead ==
  ASSUME NEW S, NEW q \in Seq(S), NEW i \in DOMAIN q, NEW t
  PROVE  Ahead(RemoveAt(q, i), t) \subseteq Ahead(q, t)
<1> DEFINE r == RemoveAt(q, i)
           from(j) == IF j < i THEN j ELSE j + 1
<1> SUFFICES ASSUME NEW u \in Ahead(r, t) PROVE u \in Ahead(q, t)
  OBVIOUS
<1>1. /\ Len(q) \in Nat
      /\ DOMAIN q = 1 .. Len(q)
      /\ DOMAIN r = 1 .. Len(q) - 1
      /\ i \in 1 .. Len(q)
  BY RemoveAtElements, LenProperties
<1>2. \A j \in DOMAIN r : from(j) \in DOMAIN q /\ r[j] = q[from(j)]
  <2>1. \A j \in 1 .. Len(q) - 1 : r[j] = IF j < i THEN q[j] ELSE q[j + 1]
    BY RemoveAtElements
  <2> HIDE DEF r
  <2>2. QED
    BY <1>1, <2>1
<1>3. \A j, k \in DOMAIN r : j < k => from(j) < from(k)
  BY <1>1
<1> HIDE DEF r, from
<1>4. PICK j, k \in DOMAIN r : j < k /\ r[j] = u /\ r[k] = t
  BY AheadMeaning
<1>5. QED
  BY <1>2, <1>3, <1>4, AheadMeaning
-----------------------------------------------------------------------------
(* The semaphore's half of the invariant, and the locks' half.             *)
GateHalf ==
  /\ gateQueue \in Seq(Task)
  /\ IsInjective(gateQueue)
  /\ granted \subseteq Task
  /\ talking \subseteq granted
  /\ granted \cap ToSet(gateQueue) = {}
  /\ permits \in 0 .. Concurrency
  /\ PermitsCounted
  /\ PermitsUsed

LockHalf ==
  /\ owner \in [Device -> Task \cup {NoTask}]
  /\ deviceQueue \in [Device -> Seq(Task)]
  /\ \A d \in Device : IsInjective(deviceQueue[d])

(* Acquiring the semaphore adds the task to those who hold or await it.    *)
LEMMA TryGateStep ==
  ASSUME GateHalf, NEW t \in Task, TryGate(t),
         t \notin granted, t \notin ToSet(gateQueue)
  PROVE  /\ GateHalf'
         /\ granted' \cup ToSet(gateQueue') = granted \cup ToSet(gateQueue) \cup {t}
<1>1. CASE permits > 0 /\ permits' = permits - 1 /\ granted' = granted \cup {t}
           /\ talking' = talking \cup {t} /\ UNCHANGED gateQueue
  <2>1. IsFiniteSet(granted') /\ Cardinality(granted') = Cardinality(granted) + 1
    BY <1>1, FS_AddElement DEF GateHalf, PermitsCounted, PermitsUsed
  <2>2. PermitsCounted' /\ permits' \in 0 .. Concurrency
    BY <1>1, <2>1, FS_CardinalityType, GateAssumption DEF GateHalf, PermitsCounted, PermitsUsed
  <2>3. PermitsUsed'
    BY <1>1 DEF GateHalf, PermitsUsed
  <2>4. QED
    BY <1>1, <2>2, <2>3 DEF GateHalf
<1>2. CASE permits = 0 /\ gateQueue' = Append(gateQueue, t)
           /\ UNCHANGED <<permits, granted, talking>>
  BY <1>2, AppendToQueue DEF GateHalf, PermitsCounted, PermitsUsed
<1>3. QED
  BY <1>1, <1>2 DEF TryGate

(* Releasing it takes the task out, and nobody else: the permit goes to a  *)
(* waiter or back to the counter.                                          *)
LEMMA PassPermitStep ==
  ASSUME GateHalf, NEW t \in granted, PassPermit(t), talking' = talking \ {t}
  PROVE  /\ GateHalf'
         /\ granted' \cup ToSet(gateQueue') = (granted \cup ToSet(gateQueue)) \ {t}
<1>1. IsFiniteSet(granted \ {t}) /\ Cardinality(granted \ {t}) = Cardinality(granted) - 1
  BY FS_RemoveElement DEF GateHalf, PermitsCounted, PermitsUsed
<1>2. Cardinality(granted) \in Nat /\ Cardinality(granted \ {t}) \in Nat
  BY <1>1, FS_CardinalityType DEF GateHalf, PermitsCounted, PermitsUsed
<1>3. CASE gateQueue = <<>> /\ permits' = permits + 1
           /\ granted' = granted \ {t} /\ UNCHANGED gateQueue
  <2>1. PermitsCounted' /\ permits' \in 0 .. Concurrency
    BY <1>1, <1>2, <1>3, GateAssumption DEF GateHalf, PermitsCounted, PermitsUsed
  <2>2. t \notin ToSet(gateQueue)
    BY DEF GateHalf
  <2>3. PermitsUsed'
    BY <1>3 DEF PermitsUsed
  <2>4. QED
    BY <1>3, <2>1, <2>2, <2>3 DEF GateHalf
<1>4. CASE gateQueue # <<>> /\ granted' = (granted \ {t}) \cup {Head(gateQueue)}
           /\ gateQueue' = Tail(gateQueue) /\ UNCHANGED permits
  <2>1. /\ Head(gateQueue) \in Task
        /\ Head(gateQueue) \in ToSet(gateQueue)
        /\ gateQueue' \in Seq(Task)
        /\ IsInjective(gateQueue')
        /\ ToSet(gateQueue') = ToSet(gateQueue) \ {Head(gateQueue)}
    BY <1>4, PopQueue DEF GateHalf
  <2>2. Head(gateQueue) \notin granted
    BY <2>1 DEF GateHalf
  <2>3. /\ IsFiniteSet(granted')
        /\ Cardinality(granted') = Cardinality(granted \ {t}) + 1
    BY <1>1, <1>4, <2>2, FS_AddElement
  <2>4. PermitsCounted' /\ permits' \in 0 .. Concurrency
    BY <1>1, <1>2, <1>4, <2>3 DEF GateHalf, PermitsCounted, PermitsUsed
  <2>5. PermitsUsed'
    BY <1>4 DEF GateHalf, PermitsUsed
  <2>6. QED
    BY <1>4, <2>1, <2>2, <2>4, <2>5 DEF GateHalf
<1>5. QED
  BY <1>3, <1>4 DEF PassPermit

(* Releasing a device's lock leaves it free with no waiter, or hands it to *)
(* one of its waiters; the other locks are as they were.                   *)
LEMMA PassDeviceStep ==
  ASSUME LockHalf, NEW d \in Device, PassDevice(d)
  PROVE  /\ LockHalf'
         /\ \A e \in Device \ {d} :
              owner'[e] = owner[e] /\ deviceQueue'[e] = deviceQueue[e]
         /\ \/ /\ owner'[d] = NoTask
               /\ deviceQueue'[d] = <<>>
               /\ deviceQueue[d] = <<>>
            \/ /\ owner'[d] \in ToSet(deviceQueue[d])
               /\ owner'[d] \in Task
               /\ ToSet(deviceQueue'[d]) = ToSet(deviceQueue[d]) \ {owner'[d]}
<1>1. CASE deviceQueue[d] = <<>> /\ owner' = [owner EXCEPT ![d] = NoTask]
           /\ UNCHANGED deviceQueue
  BY <1>1 DEF LockHalf
<1>2. CASE deviceQueue[d] # <<>>
           /\ owner' = [owner EXCEPT ![d] = Head(deviceQueue[d])]
           /\ deviceQueue' = [deviceQueue EXCEPT ![d] = Tail(@)]
  <2>1. /\ Head(deviceQueue[d]) \in Task
        /\ Head(deviceQueue[d]) \in ToSet(deviceQueue[d])
        /\ Tail(deviceQueue[d]) \in Seq(Task)
        /\ IsInjective(Tail(deviceQueue[d]))
        /\ ToSet(Tail(deviceQueue[d])) = ToSet(deviceQueue[d]) \ {Head(deviceQueue[d])}
    BY <1>2, PopQueue DEF LockHalf
  <2>2. QED
    BY <1>2, <2>1 DEF LockHalf
<1>3. QED
  BY <1>1, <1>2 DEF PassDevice
-----------------------------------------------------------------------------
(* What ties the two halves together: who is where.                        *)
Placed ==
  /\ target \in [Task -> Device \cup {NoDevice}]
  /\ stopped \subseteq Background
  /\ LockOrder
  /\ \A d \in Device : \A t \in ToSet(deviceQueue[d]) : target[t] = d /\ owner[d] # t
  /\ StoppedAreOut
  /\ LocksHeld
  /\ Accounted

(* GateInv by halves: the gate's, the locks', and the tasks'.              *)
LEMMA GateInvSplit == GateInv <=> GateHalf /\ LockHalf /\ Placed
  BY DEF GateInv, GateHalf, LockHalf, Placed, TypeOK, QueuesAreSets, WaitersWait

(* The initial state is in order.                                          *)
LEMMA InitGateInv == Init => GateInv
<1> SUFFICES ASSUME Init PROVE GateHalf /\ LockHalf /\ Placed
  BY GateInvSplit
<1>1. ToSet(<<>>) = {}
  BY DEF ToSet
<1>2. PermitsCounted
  BY FS_EmptySet, GateAssumption DEF Init, PermitsCounted
<1>3. GateHalf
  BY <1>1, <1>2, GateAssumption DEF Init, GateHalf, IsInjective, PermitsUsed
<1>4. LockHalf
  BY DEF Init, LockHalf, IsInjective
<1>5. Placed
  BY <1>1 DEF Init, Placed, LockOrder, StoppedAreOut, LocksHeld, Accounted
<1>6. QED
  BY <1>3, <1>4, <1>5

(* A call takes the lock, or joins its queue; with the lock it takes a     *)
(* permit or joins the gate's queue.                                       *)
LEMMA CallGateInv ==
  ASSUME GateInv, NEW t \in Task, NEW d \in Device, Call(t, d)
  PROVE  GateInv'
<1> USE GateAssumption
<1>1. GateHalf /\ LockHalf /\ Placed
  BY GateInvSplit
<1>2. /\ target[t] = NoDevice
      /\ t \notin stopped
      /\ target' = [target EXCEPT ![t] = d]
      /\ stopped' = stopped
  BY DEF Call, Idle
<1>3. /\ t \notin granted \cup ToSet(gateQueue)
      /\ \A e \in Device : t \notin ToSet(deviceQueue[e]) /\ owner[e] # t
  BY <1>1, <1>2 DEF Placed, LockOrder, LocksHeld, LockHalf
<1>4. CASE owner[d] = NoTask /\ owner' = [owner EXCEPT ![d] = t] /\ TryGate(t)
           /\ UNCHANGED deviceQueue
  <2>1. /\ GateHalf'
        /\ granted' \cup ToSet(gateQueue') = granted \cup ToSet(gateQueue) \cup {t}
    BY <1>1, <1>3, <1>4, TryGateStep
  <2>2. LockHalf'
    BY <1>1, <1>4 DEF LockHalf
  <2>3. LockOrder'
    <3> SUFFICES ASSUME NEW u \in granted \cup ToSet(gateQueue) \cup {t}
                 PROVE  target'[u] # NoDevice /\ owner'[target'[u]] = u
      BY <2>1 DEF LockOrder
    <3>1. CASE u = t
      BY <1>1, <1>2, <1>4, <3>1 DEF Placed, LockHalf
    <3>2. CASE u # t
      <4>1. u \in Task
        BY <1>1 DEF GateHalf, ToSet
      <4>2. target[u] # NoDevice /\ owner[target[u]] = u /\ target[u] \in Device
        BY <1>1, <3>2, <4>1 DEF Placed, LockOrder
      <4>3. target[u] # d /\ target'[u] = target[u]
        BY <1>1, <1>2, <1>4, <3>2, <4>1, <4>2 DEF Placed
      <4>4. QED
        BY <1>1, <1>4, <4>2, <4>3 DEF LockHalf
    <3>3. QED
      BY <3>1, <3>2
  <2>4. LocksHeld'
    BY <1>1, <1>2, <1>3, <1>4 DEF Placed, LockHalf, LocksHeld
  <2>5. Accounted'
    BY <1>1, <1>2, <1>4 DEF Placed, LockHalf, Accounted
  <2>6. Placed'
    BY <1>1, <1>2, <1>3, <1>4, <2>3, <2>4, <2>5 DEF Placed, LockHalf, StoppedAreOut
  <2>7. QED
    BY <2>1, <2>2, <2>6, GateInvSplit, PTL
<1>5. CASE owner[d] # NoTask /\ deviceQueue' = [deviceQueue EXCEPT ![d] = Append(@, t)]
           /\ UNCHANGED <<owner, gateQueue, permits, granted, talking>>
  <2>1. /\ deviceQueue'[d] \in Seq(Task)
        /\ IsInjective(deviceQueue'[d])
        /\ ToSet(deviceQueue'[d]) = ToSet(deviceQueue[d]) \cup {t}
    BY <1>1, <1>3, <1>5, AppendToQueue DEF LockHalf
  <2>2. LockHalf'
    BY <1>1, <1>5, <2>1 DEF LockHalf
  <2>3. GateHalf'
    BY <1>1, <1>5 DEF GateHalf, PermitsCounted, PermitsUsed
  <2>4. LockOrder' /\ LocksHeld'
    BY <1>1, <1>2, <1>3, <1>5 DEF Placed, LockOrder, LocksHeld, LockHalf, GateHalf
  <2>5. \A e \in Device : \A u \in ToSet(deviceQueue'[e]) : target'[u] = e /\ owner'[e] # u
    BY <1>1, <1>2, <1>3, <1>5, <2>1 DEF Placed, LockHalf
  <2>6. Accounted'
    BY <1>1, <1>2, <1>5, <2>1 DEF Placed, LockHalf, Accounted
  <2>7. Placed'
    BY <1>1, <1>2, <2>4, <2>5, <2>6 DEF Placed, StoppedAreOut
  <2>8. QED
    BY <2>2, <2>3, <2>7, GateInvSplit, PTL
<1>6. QED
  BY <1>4, <1>5 DEF Call

(* A task that was handed the lock goes on to the gate.                    *)
LEMMA EnterGateInv ==
  ASSUME GateInv, NEW t \in Task, Enter(t)
  PROVE  GateInv'
<1>1. GateHalf /\ LockHalf /\ Placed
  BY GateInvSplit
<1>2. /\ GateHalf'
      /\ granted' \cup ToSet(gateQueue') = granted \cup ToSet(gateQueue) \cup {t}
  BY <1>1, TryGateStep DEF Enter
<1>3. LockHalf'
  BY <1>1 DEF Enter, LockHalf
<1>4. Placed'
  BY <1>1, <1>2 DEF Enter, Placed, LockOrder, LocksHeld, StoppedAreOut, Accounted
<1>5. QED
  BY <1>2, <1>3, <1>4, GateInvSplit, PTL

(* A task that was handed a permit goes on the wire.                       *)
LEMMA SendGateInv ==
  ASSUME GateInv, NEW t \in Task, Send(t)
  PROVE  GateInv'
<1>1. GateHalf /\ LockHalf /\ Placed
  BY GateInvSplit
<1>2. GateHalf' /\ LockHalf'
  BY <1>1 DEF Send, GateHalf, LockHalf, PermitsCounted, PermitsUsed
<1>3. Placed'
  BY <1>1 DEF Send, Placed, LockOrder, LocksHeld, StoppedAreOut, Accounted
<1>4. QED
  BY <1>2, <1>3, GateInvSplit, PTL

(* A task that leaves both its permit (or its place in the gate's queue)   *)
(* and its device's lock behind: what Finish and Cancel have in common.    *)
LEMMA LeavingGateInv ==
  ASSUME GateInv, NEW t \in Task,
         target[t] # NoDevice, owner[target[t]] = t,
         target' = [target EXCEPT ![t] = NoDevice],
         stopped' \subseteq Background, stopped' \subseteq stopped \cup {t},
         PassDevice(target[t]),
         GateHalf',
         granted' \cup ToSet(gateQueue') = (granted \cup ToSet(gateQueue)) \ {t}
  PROVE  GateInv'
<1> USE GateAssumption
<1> DEFINE d == target[t]
<1>1. GateHalf /\ LockHalf /\ Placed
  BY GateInvSplit
<1>2. d \in Device
  BY <1>1 DEF Placed
<1>3. /\ LockHalf'
      /\ \A e \in Device \ {d} :
           owner'[e] = owner[e] /\ deviceQueue'[e] = deviceQueue[e]
      /\ \/ /\ owner'[d] = NoTask
            /\ deviceQueue'[d] = <<>>
            /\ deviceQueue[d] = <<>>
         \/ /\ owner'[d] \in ToSet(deviceQueue[d])
            /\ owner'[d] \in Task
            /\ ToSet(deviceQueue'[d]) = ToSet(deviceQueue[d]) \ {owner'[d]}
  BY <1>1, <1>2, PassDeviceStep
<1>4. /\ \A e \in Device : t \notin ToSet(deviceQueue[e])
      /\ \A e \in Device \ {d} : owner[e] # t
  BY <1>1, <1>2 DEF Placed, LocksHeld, LockHalf
<1>5. \A u \in Task \ {t} : target'[u] = target[u]
  BY <1>1 DEF Placed
<1>6. LockOrder'
  <2> SUFFICES ASSUME NEW u \in (granted \cup ToSet(gateQueue)) \ {t}
               PROVE  target'[u] # NoDevice /\ owner'[target'[u]] = u
    BY DEF LockOrder
  <2>1. u \in Task
    BY <1>1 DEF GateHalf, ToSet
  <2>2. target[u] # NoDevice /\ owner[target[u]] = u /\ target[u] \in Device
    BY <1>1, <2>1 DEF Placed, LockOrder
  <2>3. target[u] # d
    BY <2>2
  <2>4. QED
    BY <1>3, <1>5, <2>1, <2>2, <2>3
<1>7. LocksHeld'
  <2> SUFFICES ASSUME NEW e \in Device
               PROVE  /\ owner'[e] # NoTask => target'[owner'[e]] = e
                      /\ owner'[e] = NoTask => deviceQueue'[e] = <<>>
    BY DEF LocksHeld
  <2>1. CASE e = d
    <3>1. ASSUME owner'[d] \in ToSet(deviceQueue[d]), owner'[d] \in Task
          PROVE  target'[owner'[d]] = d
      BY <1>1, <1>2, <1>4, <1>5, <3>1 DEF Placed
    <3>2. QED
      BY <1>3, <2>1, <3>1
  <2>2. CASE e # d
    <3>1. owner'[e] = owner[e] /\ deviceQueue'[e] = deviceQueue[e] /\ owner[e] # t
      BY <1>3, <1>4, <2>2
    <3>2. owner[e] # NoTask => owner[e] \in Task \ {t} /\ target[owner[e]] = e
      BY <1>1, <3>1 DEF Placed, LocksHeld, LockHalf
    <3>3. owner[e] = NoTask => deviceQueue[e] = <<>>
      BY <1>1 DEF Placed, LocksHeld
    <3>4. QED
      BY <1>5, <3>1, <3>2, <3>3
  <2>3. QED
    BY <2>1, <2>2
<1>8. \A e \in Device : \A u \in ToSet(deviceQueue'[e]) : target'[u] = e /\ owner'[e] # u
  <2> SUFFICES ASSUME NEW e \in Device, NEW u \in ToSet(deviceQueue'[e])
               PROVE  target'[u] = e /\ owner'[e] # u
    OBVIOUS
  <2>1. u \in ToSet(deviceQueue[e]) /\ owner'[e] # u
    <3>1. CASE e = d
      <4>1. ToSet(<<>>) = {}
        BY DEF ToSet
      <4>2. QED
        BY <1>3, <3>1, <4>1
    <3>2. CASE e # d
      BY <1>1, <1>3, <3>2 DEF Placed
    <3>3. QED
      BY <3>1, <3>2
  <2>2. u \in Task \ {t}
    BY <1>1, <1>4, <2>1 DEF LockHalf, ToSet
  <2>3. QED
    BY <1>1, <1>5, <2>1, <2>2 DEF Placed
<1>9. StoppedAreOut' /\ target' \in [Task -> Device \cup {NoDevice}]
  BY <1>1 DEF Placed, StoppedAreOut
<1>10. Accounted'
  <2> SUFFICES ASSUME NEW u \in Task \ {t}, target[u] # NoDevice
               PROVE  owner'[target[u]] = u \/ u \in ToSet(deviceQueue'[target[u]])
    BY <1>1, <1>5 DEF Placed, Accounted
  <2>1. target[u] \in Device
    BY <1>1 DEF Placed
  <2>2. owner[target[u]] = u \/ u \in ToSet(deviceQueue[target[u]])
    BY <1>1 DEF Placed, Accounted
  <2>3. CASE target[u] = d
    <3>1. u \in ToSet(deviceQueue[d]) /\ deviceQueue[d] # <<>>
      BY <2>2, <2>3 DEF ToSet
    <3>2. QED
      BY <1>3, <2>3, <3>1
  <2>4. CASE target[u] # d
    BY <1>3, <2>1, <2>2, <2>4
  <2>5. QED
    BY <2>3, <2>4
<1>11. Placed'
  BY <1>1, <1>6, <1>7, <1>8, <1>9, <1>10 DEF Placed
<1>12. QED
  BY <1>3, <1>11, GateInvSplit, PTL

(* A request ends, whatever its outcome.                                   *)
LEMMA FinishGateInv ==
  ASSUME GateInv, NEW t \in Task, Finish(t)
  PROVE  GateInv'
<1>1. GateHalf /\ Placed
  BY GateInvSplit
<1>2. t \in granted /\ target[t] # NoDevice /\ owner[target[t]] = t
  BY <1>1 DEF Finish, GateHalf, Placed, LockOrder
<1>3. /\ GateHalf'
      /\ granted' \cup ToSet(gateQueue') = (granted \cup ToSet(gateQueue)) \ {t}
  BY <1>1, <1>2, PassPermitStep DEF Finish
<1>4. QED
  BY <1>1, <1>2, <1>3, LeavingGateInv DEF Finish, Placed

(* A shutdown cancels a task on the wire, at the gate or at a lock.        *)
LEMMA CancelGateInv ==
  ASSUME GateInv, NEW t \in Task, Cancel(t)
  PROVE  GateInv'
<1>1. GateHalf /\ LockHalf /\ Placed
  BY GateInvSplit
<1>2. /\ t \in Background
      /\ stopped' = stopped \cup {t}
      /\ stopped' \subseteq Background
      /\ target' = [target EXCEPT ![t] = NoDevice]
      /\ talking' = talking \ {t}
  BY <1>1 DEF Cancel, Placed
<1>3. CASE target[t] = NoDevice /\ UNCHANGED <<owner, deviceQueue, gateQueue, permits, granted>>
  <2>1. GateHalf' /\ LockHalf' /\ target' = target
    BY <1>1, <1>2, <1>3 DEF GateHalf, LockHalf, PermitsCounted, PermitsUsed, Placed
  <2>2. Placed'
    <3>1. LockOrder' /\ LocksHeld' /\ Accounted'
      BY <1>1, <1>3, <2>1 DEF Placed, LockOrder, LocksHeld, Accounted
    <3>2. QED
      BY <1>1, <1>2, <1>3, <2>1, <3>1 DEF Placed, StoppedAreOut
  <2>3. QED
    BY <2>1, <2>2, GateInvSplit, PTL
<1>4. ASSUME target[t] # NoDevice,
             owner[target[t]] # t,
             NEW i \in DOMAIN deviceQueue[target[t]],
             deviceQueue[target[t]][i] = t,
             deviceQueue' = [deviceQueue EXCEPT ![target[t]] = RemoveAt(@, i)],
             UNCHANGED <<owner, gateQueue, permits, granted>>
      PROVE  GateInv'
  <2> DEFINE d == target[t]
  <2>1. d \in Device
    BY <1>1, <1>4 DEF Placed
  <2>2. /\ deviceQueue'[d] \in Seq(Task)
        /\ IsInjective(deviceQueue'[d])
        /\ ToSet(deviceQueue'[d]) = ToSet(deviceQueue[d]) \ {t}
    BY <1>1, <1>4, <2>1, RemoveFromQueue DEF LockHalf
  <2>3. GateHalf'
    BY <1>1, <1>2, <1>4 DEF GateHalf, PermitsCounted, PermitsUsed
  <2>4. LockHalf'
    BY <1>1, <1>4, <2>1, <2>2 DEF LockHalf
  <2>5. t \notin granted \cup ToSet(gateQueue)
    BY <1>1, <1>4 DEF Placed, LockOrder
  <2>6. \A e \in Device : owner[e] # t
    BY <1>1, <1>4, GateAssumption DEF Placed, LocksHeld, LockHalf
  <2>7. \A u \in Task \ {t} : target'[u] = target[u]
    BY <1>1, <1>2 DEF Placed
  <2>8. LockOrder'
    BY <1>1, <1>4, <2>5, <2>7 DEF Placed, LockOrder, GateHalf, ToSet
  <2>9. ASSUME NEW e \in Device
        PROVE  /\ owner'[e] # NoTask => target'[owner'[e]] = e
               /\ owner'[e] = NoTask => deviceQueue'[e] = <<>>
    <3>1. owner'[e] = owner[e]
      BY <1>4
    <3>2. owner[e] # NoTask => owner[e] \in Task \ {t} /\ target[owner[e]] = e
      BY <1>1, <2>6 DEF Placed, LocksHeld, LockHalf
    <3>3. owner[e] = NoTask => deviceQueue[e] = <<>> /\ e # d
      BY <1>1, <1>4 DEF Placed, LocksHeld
    <3>4. e # d => deviceQueue'[e] = deviceQueue[e]
      BY <1>1, <1>4, <2>1 DEF LockHalf
    <3>5. QED
      BY <2>7, <3>1, <3>2, <3>3, <3>4
  <2>10. ASSUME NEW e \in Device, NEW u \in ToSet(deviceQueue'[e])
         PROVE  target'[u] = e /\ owner'[e] # u
    <3>1. u \in ToSet(deviceQueue[e]) /\ (e = d => u # t)
      BY <1>1, <1>4, <2>1, <2>2 DEF LockHalf
    <3>2. u \in Task /\ u # t
      BY <1>1, <3>1 DEF LockHalf, Placed, ToSet
    <3>3. QED
      BY <1>1, <1>4, <2>7, <3>1, <3>2 DEF Placed
  <2>11. StoppedAreOut'
    BY <1>1, <1>2, GateAssumption DEF Placed, StoppedAreOut
  <2>12. Accounted'
    <3> SUFFICES ASSUME NEW u \in Task \ {t}, target[u] # NoDevice
                 PROVE  owner'[target[u]] = u \/ u \in ToSet(deviceQueue'[target[u]])
      BY <1>1, <1>2, <2>7 DEF Placed, Accounted
    <3>1. target[u] \in Device
      BY <1>1 DEF Placed
    <3>2. owner[target[u]] = u \/ u \in ToSet(deviceQueue[target[u]])
      BY <1>1 DEF Placed, Accounted
    <3>3. u \in ToSet(deviceQueue[target[u]]) => u \in ToSet(deviceQueue'[target[u]])
      BY <1>1, <1>4, <2>2, <3>1 DEF LockHalf
    <3>4. QED
      BY <1>4, <3>2, <3>3
  <2>13. Placed'
    BY <1>1, <1>2, <2>8, <2>9, <2>10, <2>11, <2>12 DEF Placed, LocksHeld
  <2>14. QED
    BY <2>3, <2>4, <2>13, GateInvSplit, PTL
<1>5. ASSUME target[t] # NoDevice,
             owner[target[t]] = t,
             PassDevice(target[t]),
             \/ t \in granted /\ PassPermit(t)
             \/ /\ t \notin granted
                /\ \E i \in DOMAIN gateQueue :
                     gateQueue[i] = t /\ gateQueue' = RemoveAt(gateQueue, i)
                /\ UNCHANGED <<permits, granted>>
             \/ /\ t \notin granted
                /\ t \notin ToSet(gateQueue)
                /\ UNCHANGED <<gateQueue, permits, granted>>
      PROVE  GateInv'
  <2>1. /\ GateHalf'
        /\ granted' \cup ToSet(gateQueue') = (granted \cup ToSet(gateQueue)) \ {t}
    <3>1. CASE t \in granted /\ PassPermit(t)
      BY <1>1, <1>2, <3>1, PassPermitStep
    <3>2. ASSUME t \notin granted, NEW i \in DOMAIN gateQueue,
                 gateQueue[i] = t, gateQueue' = RemoveAt(gateQueue, i),
                 UNCHANGED <<permits, granted>>
          PROVE  /\ GateHalf'
                 /\ granted' \cup ToSet(gateQueue') = (granted \cup ToSet(gateQueue)) \ {t}
      BY <1>1, <1>2, <3>2, RemoveFromQueue DEF GateHalf, PermitsCounted, PermitsUsed
    <3>3. CASE /\ t \notin granted
               /\ t \notin ToSet(gateQueue)
               /\ UNCHANGED <<gateQueue, permits, granted>>
      BY <1>1, <1>2, <3>3 DEF GateHalf, PermitsCounted, PermitsUsed
    <3>4. QED
      BY <1>5, <3>1, <3>2, <3>3
  <2>2. QED
    BY <1>2, <1>5, <2>1, LeavingGateInv
<1>6. QED
  BY <1>3, <1>4, <1>5 DEF Cancel

(* Every state of the gate satisfies GateInv.                              *)
THEOREM GateInvariance == Spec => []GateInv
<1>1. GateInv /\ [Next]_vars => GateInv'
  <2> SUFFICES ASSUME GateInv, [Next]_vars PROVE GateInv'
    OBVIOUS
  <2>1. CASE UNCHANGED vars
    BY <2>1 DEF vars, GateInv, TypeOK, QueuesAreSets, LockOrder, WaitersWait,
                StoppedAreOut, PermitsCounted, LocksHeld, PermitsUsed, Accounted
  <2>2. CASE Next
    BY <2>2, CallGateInv, EnterGateInv, SendGateInv, FinishGateInv, CancelGateInv
       DEF Next
  <2>3. QED
    BY <2>1, <2>2
<1>2. QED
  BY <1>1, InitGateInv, PTL DEF Spec

-----------------------------------------------------------------------------
(* The locks, their queues and the counters are of their types: every      *)
(* owner and every waiter is a task, and the counter stays within its      *)
(* bound.                                                                  *)
THEOREM GateTypes == Spec => []TypeOK
<1>1. GateInv => TypeOK
  BY DEF GateInv
<1>2. QED
  BY <1>1, GateInvariance, PTL

(* No thermostat ever carries two transactions: BacnetClient's device lock *)
(* keeps reconciler writes, polls and commands of one unit apart.          *)
THEOREM MutualExclusion == Spec => []OneTransactionPerDevice
<1>1. GateInv => OneTransactionPerDevice
  BY DEF GateInv, OneTransactionPerDevice, LockOrder
<1>2. QED
  BY <1>1, GateInvariance, PTL

(* The fleet-wide bound poll_concurrency holds in every state.             *)
THEOREM BoundedInFlight == Spec => []InFlightBound
<1>1. GateInv => InFlightBound
  <2> SUFFICES ASSUME GateInv PROVE Cardinality(talking) <= Concurrency
    BY DEF InFlightBound
  <2>1. /\ IsFiniteSet(granted)
        /\ Cardinality(granted) <= Concurrency
    BY FS_CardinalityType, GateAssumption DEF GateInv, TypeOK, PermitsCounted
  <2>2. /\ Cardinality(talking) <= Cardinality(granted)
        /\ Cardinality(talking) \in Nat /\ Cardinality(granted) \in Nat
    BY <2>1, FS_Subset, FS_CardinalityType DEF GateInv
  <2>3. QED
    BY <2>1, <2>2, GateAssumption
<1>2. QED
  BY <1>1, GateInvariance, PTL

(* Whatever way requests end, cancellation included, permits and locks are *)
(* all accounted for.                                                      *)
THEOREM NoLeak == Spec => []NothingLeaks
<1>1. GateInv => NothingLeaks
  <2> SUFFICES ASSUME GateInv, NEW d \in Device, owner[d] # NoTask
               PROVE  owner[d] \notin stopped
    BY DEF NothingLeaks, GateInv, PermitsCounted, LocksHeld
  <2>1. target[owner[d]] = d
    BY DEF GateInv, LocksHeld
  <2>2. QED
    BY <2>1, GateAssumption DEF GateInv, StoppedAreOut
<1>2. QED
  BY <1>1, GateInvariance, PTL

(* The two locks are always taken in the one order that cannot deadlock.   *)
THEOREM LockOrderHolds == Spec => []LockOrder
<1>1. GateInv => LockOrder
  BY DEF GateInv
<1>2. QED
  BY <1>1, GateInvariance, PTL

(* CanGoOn is the guard of Enter, of Send or of Finish, but for the permit *)
(* or the place in the queue that Enter takes.                             *)
LEMMA CanGoOnMeaning ==
  ASSUME NEW t, CanGoOn(t)
  PROVE  \/ t \in talking
         \/ t \in granted \ talking
         \/ /\ target[t] # NoDevice
            /\ owner[target[t]] = t
            /\ t \notin granted
            /\ t \notin ToSet(gateQueue)
  BY DEF CanGoOn

(* No request is ever left waiting for something nobody will give it:      *)
(* along lock, gate and permit, every wait ends at a task that can go on.  *)
THEOREM EveryWaitIsForSomebody == Spec => []NobodyWaitsInVain
<1>1. GateInv => NobodyWaitsInVain
  <2> SUFFICES ASSUME GateInv, NEW t \in Task, target[t] # NoDevice
               PROVE  \/ CanGoOn(t)
                      \/ WaitsForPermit(t)
                      \/ /\ t \in ToSet(deviceQueue[target[t]])
                         /\ LET holder == owner[target[t]]
                            IN  CanGoOn(holder) \/ WaitsForPermit(holder)
    BY DEF NobodyWaitsInVain
  <2> DEFINE holder == owner[target[t]]
  <2>1. target[t] \in Device
    BY DEF GateInv, TypeOK
  <2>2. holder # t => t \in ToSet(deviceQueue[target[t]])
    BY DEF GateInv, Accounted
  <2>3. holder # NoTask
    <3>1. holder = NoTask => deviceQueue[target[t]] = <<>>
      BY <2>1 DEF GateInv, LocksHeld
    <3>2. ToSet(<<>>) = {}
      BY DEF ToSet
    <3>3. QED
      BY <2>2, <3>1, <3>2, GateAssumption
  <2>4. target[holder] = target[t]
    BY <2>1, <2>3 DEF GateInv, LocksHeld
  <2>5. CanGoOn(holder) \/ WaitsForPermit(holder)
    <3>1. CASE holder \in ToSet(gateQueue)
      <4>1. permits = 0
        BY <3>1 DEF GateInv, PermitsUsed, ToSet
      <4>2. Cardinality(granted) = Concurrency
        BY <4>1, FS_CardinalityType DEF GateInv, PermitsCounted
      <4>3. QED
        BY <3>1, <4>2 DEF WaitsForPermit
    <3>2. CASE holder \notin ToSet(gateQueue)
      BY <2>4, <3>2 DEF CanGoOn
    <3>3. QED
      BY <3>1, <3>2
  <2>6. QED
    BY <2>2, <2>5
<1>2. QED
  BY <1>1, GateInvariance, PTL

(* Deadlock freedom: while any request is unfinished, some task can go on. *)
COROLLARY SomebodyCanGoOn ==
  Spec => []((\E t \in Task : target[t] # NoDevice) => \E u \in Task : CanGoOn(u))
<1>1. GateInv /\ NobodyWaitsInVain
      => ((\E t \in Task : target[t] # NoDevice) => \E u \in Task : CanGoOn(u))
  <2> SUFFICES ASSUME GateInv, NobodyWaitsInVain,
                      NEW t \in Task, target[t] # NoDevice
               PROVE  \E u \in Task : CanGoOn(u)
    OBVIOUS
  <2>1. ASSUME NEW w, WaitsForPermit(w) PROVE \E u \in Task : CanGoOn(u)
    <3>1. granted # {}
      BY <2>1, FS_EmptySet, GateAssumption DEF WaitsForPermit
    <3>2. QED
      BY <3>1 DEF GateInv, TypeOK, CanGoOn
  <2>2. ASSUME t \in ToSet(deviceQueue[target[t]]), CanGoOn(owner[target[t]])
        PROVE  \E u \in Task : CanGoOn(u)
    <3>1. target[t] \in Device
      BY DEF GateInv, TypeOK
    <3>2. owner[target[t]] # NoTask
      BY <2>2, <3>1 DEF GateInv, LocksHeld, ToSet
    <3>3. owner[target[t]] \in Task
      BY <3>1, <3>2 DEF GateInv, TypeOK
    <3>4. QED
      BY <2>2, <3>3
  <2>3. QED
    BY <2>1, <2>2 DEF NobodyWaitsInVain
<1>2. QED
  BY <1>1, GateInvariance, EveryWaitIsForSomebody, PTL

-----------------------------------------------------------------------------
(* Order at the gate and at the locks, piece by piece of a step.           *)

(* A task that tries the gate takes a free permit only if nobody waits for *)
(* one.                                                                    *)
LEMMA TryGateInOrder ==
  ASSUME GateHalf, NEW t \in Task, TryGate(t), t \notin ToSet(gateQueue)
  PROVE  GateInOrder
<1>1. CASE permits > 0
  <2>1. gateQueue = <<>>
    BY <1>1 DEF GateHalf, PermitsUsed
  <2>2. QED
    BY <2>1 DEF GateInOrder, ToSet
<1>2. CASE gateQueue' = Append(gateQueue, t) /\ granted' = granted
  BY <1>2, AppendAhead DEF GateHalf, GateInOrder
<1>3. QED
  BY <1>1, <1>2 DEF TryGate

(* A permit goes to the first waiter.                                      *)
LEMMA PassPermitInOrder ==
  ASSUME GateHalf, NEW t, PassPermit(t)
  PROVE  GateInOrder
<1>1. CASE gateQueue = <<>>
  BY <1>1 DEF GateInOrder, ToSet
<1>2. CASE /\ gateQueue # <<>>
           /\ granted' = (granted \ {t}) \cup {Head(gateQueue)}
           /\ gateQueue' = Tail(gateQueue)
  <2> SUFFICES ASSUME NEW u \in ToSet(Tail(gateQueue))
               PROVE  /\ Ahead(gateQueue', u) \subseteq Ahead(gateQueue, u)
                      /\ granted' \ granted \subseteq Ahead(gateQueue, u)
    BY <1>2 DEF GateInOrder
  <2>1. /\ Ahead(gateQueue', u) \subseteq Ahead(gateQueue, u)
        /\ Head(gateQueue) \in Ahead(gateQueue, u)
    BY <1>2, PopAhead DEF GateHalf
  <2>2. QED
    BY <1>2, <2>1
<1>3. QED
  BY <1>1, <1>2 DEF PassPermit

(* Who keeps out of the gate leaves its order alone.                       *)
LEMMA GateAlone ==
  ASSUME gateQueue' = gateQueue, granted' \subseteq granted
  PROVE  GateInOrder
  BY DEF GateInOrder

(* A lock that keeps its owner and its queue is in order.                  *)
LEMMA LockAlone ==
  ASSUME NEW d, owner'[d] = owner[d], deviceQueue'[d] = deviceQueue[d]
  PROVE  LockInOrder(d)
  BY DEF LockInOrder

(* A lock goes to the first waiter; the other locks are left alone.        *)
LEMMA PassDeviceInOrder ==
  ASSUME LockHalf, NEW d \in Device, PassDevice(d)
  PROVE  \A e \in Device : LockInOrder(e)
<1> SUFFICES ASSUME NEW e \in Device PROVE LockInOrder(e)
  OBVIOUS
<1>1. CASE e # d
  BY <1>1, PassDeviceStep, LockAlone
<1>2. CASE e = d /\ deviceQueue[d] = <<>>
  BY <1>2 DEF LockInOrder, ToSet
<1>3. CASE /\ e = d
           /\ deviceQueue[d] # <<>>
           /\ owner' = [owner EXCEPT ![d] = Head(deviceQueue[d])]
           /\ deviceQueue' = [deviceQueue EXCEPT ![d] = Tail(@)]
  <2>1. owner'[d] = Head(deviceQueue[d]) /\ deviceQueue'[d] = Tail(deviceQueue[d])
    BY <1>3 DEF LockHalf
  <2>2. ASSUME NEW u \in ToSet(Tail(deviceQueue[d]))
        PROVE  /\ Ahead(deviceQueue'[d], u) \subseteq Ahead(deviceQueue[d], u)
               /\ owner'[d] \in Ahead(deviceQueue[d], u)
    BY <1>3, <2>1, PopAhead DEF LockHalf
  <2>3. QED
    BY <1>3, <2>1, <2>2 DEF LockInOrder
<1>4. QED
  BY <1>1, <1>2, <1>3 DEF PassDevice

(* A call stands behind whoever already waits.                             *)
LEMMA CallInOrder ==
  ASSUME GateInv, NEW t \in Task, NEW d \in Device, Call(t, d)
  PROVE  GateInOrder /\ \A e \in Device : LockInOrder(e)
<1>1. GateHalf /\ LockHalf /\ Placed
  BY GateInvSplit
<1>2. /\ t \notin ToSet(gateQueue)
      /\ \A e \in Device : t \notin ToSet(deviceQueue[e])
  BY <1>1, GateAssumption DEF Call, Idle, Placed, LockOrder
<1>3. CASE /\ owner[d] = NoTask
           /\ owner' = [owner EXCEPT ![d] = t]
           /\ TryGate(t)
           /\ UNCHANGED deviceQueue
  <2>1. GateInOrder
    BY <1>1, <1>2, <1>3, TryGateInOrder
  <2>2. ASSUME NEW e \in Device PROVE LockInOrder(e)
    <3>1. CASE e = d
      <4>1. deviceQueue[d] = <<>>
        BY <1>1, <1>3 DEF Placed, LocksHeld
      <4>2. QED
        BY <3>1, <4>1 DEF LockInOrder, ToSet
    <3>2. CASE e # d
      BY <1>1, <1>3, <3>2, LockAlone DEF LockHalf
    <3>3. QED
      BY <3>1, <3>2
  <2>3. QED
    BY <2>1, <2>2
<1>4. CASE /\ deviceQueue' = [deviceQueue EXCEPT ![d] = Append(@, t)]
           /\ UNCHANGED <<owner, gateQueue, permits, granted, talking>>
  <2>1. GateInOrder
    BY <1>4, GateAlone
  <2>2. ASSUME NEW e \in Device PROVE LockInOrder(e)
    <3>1. CASE e = d
      <4>1. deviceQueue'[d] = Append(deviceQueue[d], t) /\ owner' = owner
        BY <1>1, <1>4 DEF LockHalf
      <4>2. ASSUME NEW u \in ToSet(deviceQueue[d])
            PROVE  Ahead(deviceQueue'[d], u) \subseteq Ahead(deviceQueue[d], u)
        BY <1>1, <1>2, <4>1, AppendAhead DEF LockHalf
      <4>3. QED
        BY <3>1, <4>1, <4>2 DEF LockInOrder
    <3>2. CASE e # d
      BY <1>1, <1>4, <3>2, LockAlone DEF LockHalf
    <3>3. QED
      BY <3>1, <3>2
  <2>3. QED
    BY <2>1, <2>2
<1>5. QED
  BY <1>3, <1>4 DEF Call

(* A shutdown takes tasks out of the queues and puts nobody forward.       *)
LEMMA CancelInOrder ==
  ASSUME GateInv, NEW t \in Task, Cancel(t)
  PROVE  GateInOrder /\ \A e \in Device : LockInOrder(e)
<1>1. GateHalf /\ LockHalf /\ Placed
  BY GateInvSplit
<1>2. CASE UNCHANGED <<owner, deviceQueue, gateQueue, permits, granted>>
  BY <1>2, GateAlone, LockAlone
<1>3. ASSUME target[t] # NoDevice,
             NEW i \in DOMAIN deviceQueue[target[t]],
             deviceQueue' = [deviceQueue EXCEPT ![target[t]] = RemoveAt(@, i)],
             UNCHANGED <<owner, gateQueue, permits, granted>>
      PROVE  GateInOrder /\ \A e \in Device : LockInOrder(e)
  <2>1. target[t] \in Device
    BY <1>1, <1>3 DEF Placed
  <2>2. ASSUME NEW e \in Device PROVE LockInOrder(e)
    <3>1. CASE e = target[t]
      <4>1. deviceQueue'[e] = RemoveAt(deviceQueue[e], i) /\ owner'[e] = owner[e]
        BY <1>1, <1>3, <3>1 DEF LockHalf
      <4>2. ASSUME NEW u
            PROVE  Ahead(deviceQueue'[e], u) \subseteq Ahead(deviceQueue[e], u)
        BY <1>1, <1>3, <3>1, <4>1, RemoveAhead DEF LockHalf
      <4>3. QED
        BY <4>1, <4>2 DEF LockInOrder
    <3>2. CASE e # target[t]
      BY <1>1, <1>3, <3>2, LockAlone DEF LockHalf
    <3>3. QED
      BY <3>1, <3>2
  <2>3. QED
    BY <1>3, <2>2, GateAlone
<1>4. ASSUME target[t] # NoDevice, PassDevice(target[t]),
             \/ PassPermit(t)
             \/ /\ \E i \in DOMAIN gateQueue : gateQueue' = RemoveAt(gateQueue, i)
                /\ granted' = granted
             \/ gateQueue' = gateQueue /\ granted' = granted
      PROVE  GateInOrder /\ \A e \in Device : LockInOrder(e)
  <2>1. \A e \in Device : LockInOrder(e)
    BY <1>1, <1>4, PassDeviceInOrder DEF Placed
  <2>2. ASSUME NEW i \in DOMAIN gateQueue, gateQueue' = RemoveAt(gateQueue, i),
               granted' = granted
        PROVE  GateInOrder
    BY <1>1, <2>2, RemoveAhead DEF GateHalf, GateInOrder
  <2>3. QED
    BY <1>1, <1>4, <2>1, <2>2, PassPermitInOrder, GateAlone
<1>5. QED
  BY <1>2, <1>3, <1>4 DEF Cancel

(* First come, first served, at each thermostat's lock and at the fleet's  *)
(* gate: with EveryWaitIsForSomebody, the safety half of "no starvation    *)
(* behind a busy poller".                                                  *)
THEOREM FirstComeFirstServed == Spec => NobodyIsOvertaken
<1>1. GateInv /\ [Next]_vars
      => [GateInOrder /\ \A d \in Device : LockInOrder(d)]_vars
  <2> SUFFICES ASSUME GateInv, Next
               PROVE  GateInOrder /\ \A d \in Device : LockInOrder(d)
    OBVIOUS
  <2>1. GateHalf /\ LockHalf /\ Placed
    BY GateInvSplit
  <2>2. ASSUME NEW t \in Task, Enter(t)
        PROVE  GateInOrder /\ \A d \in Device : LockInOrder(d)
    <3>1. GateInOrder
      BY <2>1, <2>2, TryGateInOrder DEF Enter
    <3>2. QED
      BY <2>2, <3>1, LockAlone DEF Enter
  <2>3. ASSUME NEW t \in Task, Send(t)
        PROVE  GateInOrder /\ \A d \in Device : LockInOrder(d)
    BY <2>3, GateAlone, LockAlone DEF Send
  <2>4. ASSUME NEW t \in Task, Finish(t)
        PROVE  GateInOrder /\ \A d \in Device : LockInOrder(d)
    <3>1. target[t] \in Device
      BY <2>1, <2>4 DEF Finish, GateHalf, Placed, LockOrder
    <3>2. QED
      BY <2>1, <2>4, <3>1, PassPermitInOrder, PassDeviceInOrder DEF Finish
  <2>5. QED
    BY <2>2, <2>3, <2>4, CallInOrder, CancelInOrder DEF Next
<1>2. QED
  BY <1>1, GateInvariance, PTL DEF Spec, NobodyIsOvertaken

-----------------------------------------------------------------------------
(* A task that goes on the wire while GateInv holds finds room there.      *)
LEMMA RoomForNewcomer ==
  ASSUME GateInv, GateInv', NEW t \in Task, t \notin talking,
         t \in talking', talking \subseteq talking',
         \A u \in talking : target'[u] = target[u]
  PROVE  Bus!Room(target'[t])
<1>1. \A u \in talking : target[u] # target'[t]
  <2> SUFFICES ASSUME NEW u \in talking, target[u] = target'[t] PROVE FALSE
    OBVIOUS
  <2>1. owner'[target'[t]] = t /\ owner'[target'[u]] = u
    BY DEF GateInv, LockOrder
  <2>2. QED
    BY <2>1
<1>2. Cardinality(talking) < Concurrency
  <2>1. /\ IsFiniteSet(granted')
        /\ Cardinality(granted') <= Concurrency
        /\ Cardinality(granted') \in Nat
    <3>1. /\ IsFiniteSet(granted')
          /\ permits' \in Nat
          /\ permits' + Cardinality(granted') = Concurrency
      BY GateAssumption DEF GateInv, TypeOK, PermitsCounted
    <3>2. QED
      BY <3>1, FS_CardinalityType, GateAssumption
  <2>2. IsFiniteSet(talking) /\ Cardinality(talking \cup {t}) = Cardinality(talking) + 1
    BY <2>1, FS_Subset, FS_AddElement DEF GateInv
  <2>3. talking \cup {t} \subseteq granted'
    BY DEF GateInv
  <2>4. Cardinality(talking \cup {t}) <= Cardinality(granted')
    BY <2>1, <2>3, FS_Subset
  <2>5. Cardinality(talking) \in Nat
    BY <2>2, FS_CardinalityType
  <2>6. QED
    BY <2>1, <2>2, <2>4, <2>5, GateAssumption
<1>3. Bus!Cardinality(talking) = Cardinality(talking)
  BY Zenon DEF Bus!Cardinality, Cardinality
<1>4. QED
  BY <1>1, <1>2, <1>3 DEF Bus!Room

(* The locks, the semaphore and their queues implement FleetBus: each step *)
(* of a task is one of its steps, or changes nothing it can see.           *)
THEOREM GateImplementsFleetBus == Spec => ImplementsFleetBus
<1>1. Init => Bus!Init
  BY DEF Init, Bus!Init
<1>2. GateInv /\ GateInv' /\ [Next]_vars => [Bus!Next]_(Bus!vars)
  <2> SUFFICES ASSUME GateInv, GateInv', [Next]_vars
               PROVE  Bus!Next \/ UNCHANGED Bus!vars
    OBVIOUS
  <2> USE GateAssumption
  <2>1. ASSUME NEW t \in Task, NEW d \in Device, Call(t, d)
        PROVE  Bus!Next \/ UNCHANGED Bus!vars
    <3>1. /\ target[t] = NoDevice
          /\ target' = [target EXCEPT ![t] = d]
          /\ t \notin talking
      BY <2>1 DEF Call, Idle, GateInv, LockOrder
    <3>2. CASE talking' = talking
      BY <3>1, <3>2 DEF Bus!Next, Bus!Ask
    <3>3. CASE talking' = talking \cup {t}
      <4>1. target'[t] = d /\ \A u \in talking : target'[u] = target[u]
        BY <3>1 DEF GateInv, TypeOK
      <4>2. Bus!Room(d)
        BY <3>1, <3>3, <4>1, RoomForNewcomer
      <4>3. QED
        BY <3>1, <3>3, <4>2 DEF Bus!Next, Bus!AskAndStart
    <3>4. QED
      BY <2>1, <3>2, <3>3 DEF Call, TryGate
  <2>2. ASSUME NEW t \in Task, Enter(t) \/ Send(t)
        PROVE  Bus!Next \/ UNCHANGED Bus!vars
    <3>1. /\ target' = target
          /\ t \notin talking
          /\ target[t] # NoDevice
      BY <2>2 DEF Enter, Send, GateInv, LockOrder
    <3>2. CASE talking' = talking
      BY <3>1, <3>2 DEF Bus!vars
    <3>3. CASE talking' = talking \cup {t}
      <4>1. Bus!Room(target[t])
        BY <3>1, <3>3, RoomForNewcomer
      <4>2. QED
        BY <3>1, <3>3, <4>1 DEF Bus!Next, Bus!Start
    <3>4. QED
      BY <2>2, <3>2, <3>3 DEF Enter, Send, TryGate
  <2>3. ASSUME NEW t \in Task, Finish(t) \/ Cancel(t)
        PROVE  Bus!Next \/ UNCHANGED Bus!vars
    <3>1. /\ target' = [target EXCEPT ![t] = NoDevice]
          /\ talking' = talking \ {t}
      BY <2>3 DEF Finish, Cancel
    <3>2. CASE target[t] # NoDevice
      BY <3>1, <3>2 DEF Bus!Next, Bus!Leave
    <3>3. CASE target[t] = NoDevice
      <4>1. t \notin talking
        BY <3>3 DEF GateInv, LockOrder
      <4>2. target' = target /\ talking' = talking
        BY <3>1, <3>3, <4>1 DEF GateInv, TypeOK
      <4>3. QED
        BY <4>2 DEF Bus!vars
    <3>4. QED
      BY <3>2, <3>3
  <2>4. CASE UNCHANGED vars
    BY <2>4 DEF vars, Bus!vars
  <2>5. QED
    BY <2>1, <2>2, <2>3, <2>4 DEF Next
<1>3. QED
  BY <1>1, <1>2, GateInvariance, PTL DEF Spec, ImplementsFleetBus, Bus!Safe
=============================================================================
