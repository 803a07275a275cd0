--------------------- MODULE NativePhaseSchedulerProofs ---------------------
(***************************************************************************)
(* Proofs about NativePhaseScheduler for any launch policy, any finite set *)
(* of callers and any request shapes.                                      *)
(***************************************************************************)
EXTENDS NativePhaseScheduler, FiniteSetTheorems, SequenceTheorems, TLAPS

-----------------------------------------------------------------------------
(* Lemmas about the operators.                                             *)

\* Rounding a positive quotient up gives at least one.
LEMMA CeilDivPositive ==
    ASSUME NEW a \in Nat \ {0}, NEW b \in Nat \ {0}
    PROVE  CeilDiv(a, b) \in Nat \ {0}
<1> DEFINE q == (a + b - 1) \div b
           m == (a + b - 1) % b
<1>1. q \in Int /\ m \in 0 .. b - 1 /\ a + b - 1 = b * q + m
  OBVIOUS
<1>2. b * q >= 1
  BY <1>1
<1>3. q >= 1
  BY <1>1, <1>2
<1> QED
  BY <1>1, <1>3 DEF CeilDiv

\* A request that run() accepts gets an entry within the launch policy.
LEMMA EntryOfType ==
    ASSUME NEW shape \in Shapes, Accepted(shape)
    PROVE  EntryOf(shape) \in EntryType
<1>1. shape \in ShapeType
  BY RequestsAssumption
<1>2. EffectiveEstimate(shape) \in Nat \ {0}
  BY <1>1 DEF EffectiveEstimate, ShapeType
<1>3. EffectiveWorkerSlots(shape) \in 1 .. Jobs
  <2>1. CASE shape.input = 0 \/ ~shape.aot
    BY <1>1, <2>1, LaunchPolicyAssumption DEF EffectiveWorkerSlots, ShapeType, Accepted
  <2>2. CASE ~(shape.input = 0 \/ ~shape.aot)
    <3>1. CeilDiv(shape.input, AotUnit) \in Nat \ {0}
      BY <1>1, <2>2, CeilDivPositive, RequestsAssumption DEF ShapeType
    <3> QED
      BY <1>1, <2>2, <3>1, LaunchPolicyAssumption
         DEF EffectiveWorkerSlots, ShapeType, Accepted, Least
  <2> QED
    BY <2>1, <2>2
<1>4. ClampedAdmission(EffectiveEstimate(shape)) \in 1 .. MemoryMax
  BY <1>2, LaunchPolicyAssumption DEF ClampedAdmission, Least
<1> QED
  BY <1>1, <1>2, <1>3, <1>4 DEF EntryOf, EntryType, ShapeType

\* The units held by finitely many requests are finitely many.
LEMMA UnitsFinite ==
    ASSUME NEW R, IsFiniteSet(R), NEW n \in Nat, NEW f
    PROVE  IsFiniteSet(Units(R, n, f)) /\ Cardinality(Units(R, n, f)) \in Nat
<1>0. IsFiniteSet(1 .. n)
  BY FS_Interval
<1>1. IsFiniteSet(R \X (1 .. n))
  BY <1>0, FS_Product
<1>2. Units(R, n, f) \in SUBSET (R \X (1 .. n))
  BY DEF Units
<1> QED
  BY <1>1, <1>2, FS_Subset, FS_CardinalityType

\* Q is the finite set R with one more request x, each r in R holds as much as before,
\* and what x holds is at most n.
OneMore(R, Q, x, n, f, g) ==
    /\ IsFiniteSet(R) /\ x \notin R /\ Q = R \cup {x}
    /\ n \in Nat /\ g[x] \in 1 .. n
    /\ \A r \in R : f[r] = g[r]

\* One more request adds exactly what it holds.
LEMMA UnitsAdd ==
    ASSUME NEW R, NEW Q, NEW x, NEW n, NEW f, NEW g, OneMore(R, Q, x, n, f, g)
    PROVE  Cardinality(Units(Q, n, g)) = Cardinality(Units(R, n, f)) + g[x]
<1> USE DEF OneMore
<1> DEFINE A == Units(R, n, f)
           B == {x} \X (1 .. g[x])
<1>1. Units(Q, n, g) = A \cup B
  BY DEF Units
<1>2. A \cap B = {}
  BY DEF Units
<1>3. IsFiniteSet(B) /\ Cardinality(B) = g[x]
  <2>1. IsFiniteSet({x}) /\ Cardinality({x}) = 1
    BY FS_Singleton
  <2>2. IsFiniteSet(1 .. g[x]) /\ Cardinality(1 .. g[x]) = g[x]
    BY FS_Interval
  <2>3. /\ IsFiniteSet({x} \X (1 .. g[x]))
        /\ Cardinality({x} \X (1 .. g[x])) = Cardinality({x}) * Cardinality(1 .. g[x])
    BY <2>1, <2>2, FS_Product
  <2>4. 1 * g[x] = g[x]
    OBVIOUS
  <2> QED
    BY <2>1, <2>2, <2>3, <2>4
<1>4. IsFiniteSet(A) /\ Cardinality(A) \in Nat
  BY UnitsFinite
<1>5. Cardinality(A \cap B) = 0
  BY <1>2, FS_EmptySet
<1> HIDE DEF A, B
<1>6. Cardinality(A \cup B) = Cardinality(A) + Cardinality(B) - Cardinality(A \cap B)
  BY <1>3, <1>4, FS_Union
<1> QED
  <2>1. Cardinality(A \cup B) = Cardinality(A) + g[x]
    BY <1>3, <1>4, <1>5, <1>6
  <2> QED
    BY <1>1, <2>1 DEF A

\* The arithmetic of one wave of k = Jobs - 1 slots: p places gained cost p * k.
LEMMA WaveArithmetic ==
    ASSUME NEW p \in Nat, NEW k \in Nat
    PROVE  p * k \in Nat /\ (p + 1) * k = p * k + k
OBVIOUS

\* A bound that counted the charge of this head covers one more wave instead.
LEMMA OneWaveLater ==
    ASSUME NEW o \in Nat, NEW b \in Nat, NEW k \in Nat, NEW c \in Nat, NEW d \in Nat,
           o <= b + c, c <= k
    PROVE  o <= (b + k) + d
OBVIOUS

\* A backfill of s slots is paid for by the charge of the head, with or without a wave.
LEMMA BackfillArithmetic ==
    ASSUME NEW o \in Nat, NEW u \in Nat, NEW b \in Nat, NEW k \in Nat, NEW c \in Nat,
           NEW s \in Nat, o <= u + s, u <= b + c
    PROVE  o <= b + (c + s) /\ o <= (b + k) + (c + s)
OBVIOUS

\* Removing one place of a sequence shifts the places after it.
LEMMA RemoveAtProperties ==
    ASSUME NEW S, NEW s \in Seq(S), NEW i \in 1 .. Len(s)
    PROVE  /\ RemoveAt(s, i) \in Seq(S)
           /\ Len(RemoveAt(s, i)) = Len(s) - 1
           /\ \A j \in 1 .. Len(s) - 1 :
                RemoveAt(s, i)[j] = IF j < i THEN s[j] ELSE s[j + 1]
<1> DEFINE a == SubSeq(s, 1, i - 1)
           b == SubSeq(s, i + 1, Len(s))
<1>0. Len(s) \in Nat
  BY LenProperties
<1>s. \A j \in 1 .. Len(s) : s[j] \in S
  BY ElementOfSeq
<1>1. a \in Seq(S) /\ Len(a) = i - 1 /\ \A j \in 1 .. i - 1 : a[j] = s[j]
  BY <1>0, <1>s, SubSeqProperties
<1>2. /\ b \in Seq(S) /\ Len(b) = Len(s) - i
      /\ \A j \in 1 .. Len(s) - i : b[j] = s[i + j]
  <2>1. i + 1 \in Int /\ \A j \in i + 1 .. Len(s) : s[j] \in S
    BY <1>0, <1>s
  <2>2. /\ b \in Seq(S)
        /\ Len(b) = IF i + 1 <= Len(s) THEN Len(s) - (i + 1) + 1 ELSE 0
        /\ \A j \in 1 .. Len(s) - (i + 1) + 1 : b[j] = s[(i + 1) + j - 1]
    BY <1>0, <2>1, SubSeqProperties
  <2>3. Len(b) = Len(s) - i
    BY <1>0, <2>2
  <2>4. ASSUME NEW j \in 1 .. Len(s) - i PROVE b[j] = s[i + j]
    <3>1. j \in 1 .. Len(s) - (i + 1) + 1 /\ (i + 1) + j - 1 = i + j
      BY <1>0
    <3> HIDE DEF b
    <3> QED
      BY <2>2, <3>1
  <2> QED
    BY <2>2, <2>3, <2>4
<1> HIDE DEF a, b
<1>3. /\ a \o b \in Seq(S) /\ Len(a \o b) = Len(a) + Len(b)
      /\ \A j \in 1 .. Len(a) + Len(b) :
           (a \o b)[j] = IF j <= Len(a) THEN a[j] ELSE b[j - Len(a)]
  BY <1>1, <1>2, ConcatProperties
<1>4. RemoveAt(s, i) = a \o b
  BY DEF RemoveAt, a, b
<1>5. Len(a) + Len(b) = Len(s) - 1
  BY <1>0, <1>1, <1>2
<1>6. ASSUME NEW j \in 1 .. Len(s) - 1
      PROVE  (a \o b)[j] = IF j < i THEN s[j] ELSE s[j + 1]
  <2>1. CASE j < i
    BY <1>0, <1>1, <1>3, <1>5, <2>1
  <2>2. CASE ~(j < i)
    <3>1. (a \o b)[j] = b[j - (i - 1)]
      BY <1>0, <1>1, <1>3, <1>5, <2>2
    <3>2. j - (i - 1) \in 1 .. Len(s) - i /\ i + (j - (i - 1)) = j + 1
      BY <1>0, <2>2
    <3> QED
      BY <1>2, <2>2, <3>1, <3>2
  <2> QED
    BY <2>1, <2>2
<1> QED
  BY <1>3, <1>4, <1>5, <1>6

-----------------------------------------------------------------------------
(* Type correctness.                                                       *)

\* The head of a queue of requests, and the request at any of its places.
LEMMA QueuePlaces ==
    ASSUME TypeOK, QueueHoldsQueued
    PROVE  /\ Len(queue) \in Nat
           /\ \A i \in 1 .. Len(queue) :
                /\ queue[i] \in Requests /\ status[queue[i]] = "queued"
                /\ entry[queue[i]] \in EntryType
           /\ queue # <<>> => Head(queue) = queue[1] /\ 1 \in 1 .. Len(queue)
<1>1. queue \in Seq(Requests) /\ Len(queue) \in Nat
  BY LenProperties DEF TypeOK
<1>2. ASSUME NEW i \in 1 .. Len(queue)
      PROVE  /\ queue[i] \in Requests /\ status[queue[i]] = "queued"
             /\ entry[queue[i]] \in EntryType
  <2>1. queue[i] \in Requests /\ status[queue[i]] = "queued"
    BY DEF QueueHoldsQueued, Queued
  <2>2. entry[queue[i]] # None
    BY <2>1 DEF TypeOK
  <2> QED
    BY <2>1, <2>2 DEF TypeOK
<1>3. queue # <<>> => Head(queue) = queue[1] /\ 1 \in 1 .. Len(queue)
  BY <1>1, EmptySeq
<1> QED
  BY <1>1, <1>2, <1>3

\* Entries are records, None is not one of them.
LEMMA EntryFields ==
    ASSUME NEW e \in EntryType
    PROVE  /\ e.slots \in 1 .. Jobs /\ e.admission \in 1 .. MemoryMax
           /\ e.estimate \in Nat \ {0} /\ e.closes \in BOOLEAN
BY DEF EntryType

\* The set of running commands is finite, and counted by activeCount.
LEMMA ActiveFinite ==
    ASSUME BudgetRespected
    PROVE  /\ IsFiniteSet(Active) /\ activeCount \in Nat
           /\ activeCount = 0 <=> Active = {}
<1>1. IsFiniteSet(Active)
  <2>1. Active \in SUBSET Requests
    BY DEF Active
  <2> QED
    BY <2>1, FS_Subset, RequestsAssumption
<1>2. Cardinality(Active) = 0 <=> Active = {}
  BY <1>1, FS_EmptySet
<1> QED
  BY <1>1, <1>2, FS_CardinalityType DEF BudgetRespected

LEMMA TypeInit == Init => TypeOK
<1> SUFFICES ASSUME Init PROVE TypeOK
  OBVIOUS
<1>1. <<>> \in Seq(Requests)
  BY EmptySeq
<1>2. /\ hasSchedulingFailure \in BOOLEAN /\ schedulingFailure \in Requests \cup {None}
      /\ hasSchedulingFailure <=> schedulingFailure # None
  BY Zenon DEF Init
<1>3. \A r \in Requests : status[r] = "idle" <=> entry[r] = None
  BY DEF Init
<1> QED
  BY <1>1, <1>2, <1>3 DEF Init, TypeOK

\* One admission keeps the types; DrainHead and DrainBackfill are admissions.
LEMMA AdmitType ==
    ASSUME TypeOK, NEW r \in Requests, entry[r] \in EntryType, Admit(r)
    PROVE  /\ status' \in [Requests -> {"idle", "queued", "active"}]
           /\ entry' \in [Requests -> EntryType \cup {None}]
           /\ \A q \in Requests : status'[q] = "idle" <=> entry'[q] = None
           /\ activeCount' \in Nat /\ activeWorkerSlots' \in Int
           /\ activeAdmission' \in Int /\ activeWorkingSet' \in Int
           /\ ahead' \in [Requests -> Nat]
<1>1. entry[r] # None
  BY RequestsAssumption
<1>2. /\ entry[r].slots \in Int /\ entry[r].admission \in Int
      /\ entry[r].estimate \in Int
  BY EntryFields, LaunchPolicyAssumption
<1>3. /\ activeCount' \in Nat /\ activeWorkerSlots' \in Int
      /\ activeAdmission' \in Int /\ activeWorkingSet' \in Int
  <2>1. /\ activeCount \in Nat /\ activeWorkerSlots \in Int
        /\ activeAdmission \in Int /\ activeWorkingSet \in Int
    BY DEF TypeOK
  <2>2. /\ activeCount' = activeCount + 1
        /\ activeWorkerSlots' = activeWorkerSlots + entry[r].slots
        /\ activeAdmission' = activeAdmission + entry[r].admission
        /\ activeWorkingSet' = activeWorkingSet + entry[r].estimate
    BY DEF Admit
  <2> QED
    BY <1>2, <2>1, <2>2
<1> QED
  BY <1>1, <1>3 DEF TypeOK, Admit

LEMMA TypeStep ==
    ASSUME IndInv, [Next]_vars
    PROVE  TypeOK'
<1> USE DEF IndInv
<1> USE RequestsAssumption
<1>1. ASSUME NEW r \in Requests, NEW shape \in Shapes, Run(r, shape)
      PROVE  TypeOK'
  <2>1. EntryOf(shape) \in EntryType
    BY <1>1, EntryOfType DEF Run
  <2>2. queue' \in Seq(Requests) /\ Len(queue) + 1 \in Nat
    BY <1>1, AppendProperties, LenProperties DEF Run, TypeOK
  <2> QED
    BY <1>1, <2>1, <2>2 DEF Run, TypeOK, active, failure, backfill
<1>2. ASSUME NEW r \in Requests, RunClosed(r)
      PROVE  TypeOK'
  BY <1>2 DEF RunClosed, TypeOK, active, failure, backfill, history
<1>3. CASE DrainHead
  <2>1. /\ Head(queue) \in Requests /\ entry[Head(queue)] \in EntryType
        /\ Admit(Head(queue))
    BY <1>3, QueuePlaces DEF DrainHead, Draining
  <2>2. queue' \in Seq(Requests)
    BY <1>3, HeadTailProperties DEF DrainHead, Draining, TypeOK
  <2>3. /\ backfilledHead' \in Requests \cup {None} /\ backfilledWorkerSlots' \in Nat
        /\ overtaken' \in [Requests -> Nat]
    BY <1>3, <2>1 DEF DrainHead, TypeOK, backfill
  <2> QED
    BY <2>1, <2>2, <2>3, AdmitType DEF Admit, TypeOK, failure
<1>4. CASE DrainBackfill
  <2>1. PICK i \in BackfillIndices : BackfillAt(i)
    BY <1>4 DEF DrainBackfill
  <2>2. /\ i \in 1 .. Len(queue) /\ queue[i] \in Requests
        /\ entry[queue[i]] \in EntryType /\ Admit(queue[i])
        /\ Head(queue) \in Requests
    BY <1>4, <2>1, QueuePlaces DEF BackfillIndices, BackfillAt, DrainBackfill, Draining
  <2>3. queue' \in Seq(Requests)
    BY <2>1, <2>2, RemoveAtProperties DEF BackfillAt, TypeOK
  <2>4. /\ backfilledHead' \in Requests \cup {None} /\ backfilledWorkerSlots' \in Nat
    BY <2>1, <2>2, EntryFields DEF BackfillAt, TypeOK, ChargeOfHead
  <2>5. overtaken' \in [Requests -> Nat]
    <3>1. \A a, b \in Nat : Least(a, b) \in Nat
      BY DEF Least
    <3>2. \A r \in Requests : overtaken[r] + entry[queue[i]].slots \in Nat
      <4>1. entry[queue[i]].slots \in Nat
        BY <2>2, EntryFields
      <4>2. \A r \in Requests : overtaken[r] \in Nat
        BY DEF TypeOK
      <4> QED
        BY <4>1, <4>2
    <3>3. \A r \in Requests : ahead[r] * (Jobs - 1) + 1 \in Nat
      <4>1. Jobs - 1 \in Nat /\ \A r \in Requests : ahead[r] \in Nat
        BY LaunchPolicyAssumption DEF TypeOK
      <4>2. \A r \in Requests : ahead[r] * (Jobs - 1) \in Nat
        BY <4>1, WaveArithmetic
      <4> QED
        BY <4>2
    <3> QED
      BY <2>1, <3>1, <3>2, <3>3 DEF BackfillAt, TypeOK
  <2> QED
    BY <2>2, <2>3, <2>4, <2>5, AdmitType DEF Admit, TypeOK, failure
<1>5. CASE DrainStop
  <2>1. /\ backfilledHead' \in Requests \cup {None} /\ backfilledWorkerSlots' \in Nat
    BY <1>5, QueuePlaces DEF DrainStop, TypeOK, ChargeOfHead, backfill
  <2> QED
    BY <1>5, <2>1 DEF DrainStop, TypeOK, IdleWaitersAfter, active, failure, history
<1>6. CASE DrainReject
  <2>1. queue' \in Seq(Requests)
    BY <1>6, EmptySeq DEF DrainReject
  <2>2. schedulingFailure \in Requests
    BY <1>6 DEF DrainReject, TypeOK
  <2> QED
    BY <1>6, <2>1, <2>2
       DEF DrainReject, TypeOK, IdleWaitersAfter, active, failure, backfill, history
<1>7. ASSUME NEW r \in Requests, status[r] = "active", Release(r)
      PROVE  /\ status' \in [Requests -> {"idle", "queued", "active"}]
             /\ entry' \in [Requests -> EntryType \cup {None}]
             /\ \A q \in Requests : status'[q] = "idle" <=> entry'[q] = None
             /\ activeCount' \in Nat /\ activeWorkerSlots' \in Int
             /\ activeAdmission' \in Int /\ activeWorkingSet' \in Int
  <2>1. entry[r] \in EntryType
    BY <1>7 DEF TypeOK
  <2>2. activeCount # 0
    BY <1>7, ActiveFinite DEF Active
  <2>3. /\ activeCount' \in Nat /\ activeWorkerSlots' \in Int
        /\ activeAdmission' \in Int /\ activeWorkingSet' \in Int
    <3>1. /\ entry[r].slots \in Int /\ entry[r].admission \in Int
          /\ entry[r].estimate \in Int
      BY <2>1, EntryFields, LaunchPolicyAssumption
    <3>2. /\ activeCount \in Nat /\ activeWorkerSlots \in Int
          /\ activeAdmission \in Int /\ activeWorkingSet \in Int
      BY DEF TypeOK
    <3> QED
      BY <1>7, <2>2, <3>1, <3>2 DEF Release
  <2> QED
    BY <1>7, <2>3 DEF Release, TypeOK
<1>8. ASSUME NEW r \in Requests, Complete(r)
      PROVE  TypeOK'
  BY <1>7, <1>8 DEF Complete, Release, TypeOK, failure, backfill, history
<1>9. ASSUME NEW r \in Requests, Fail(r)
      PROVE  TypeOK'
  <2>1. /\ hasSchedulingFailure' \in BOOLEAN
        /\ schedulingFailure' \in Requests \cup {None}
        /\ hasSchedulingFailure' <=> schedulingFailure' # None
    <3>1. CASE entry[r].closes /\ ~hasSchedulingFailure
      <4>1. hasSchedulingFailure' = TRUE /\ schedulingFailure' = r /\ r # None
        BY <1>9, <3>1 DEF Fail
      <4> QED
        BY <4>1, Zenon
    <3>2. CASE ~(entry[r].closes /\ ~hasSchedulingFailure)
      <4>1. UNCHANGED <<hasSchedulingFailure, schedulingFailure>>
        BY <1>9, <3>2 DEF Fail, failure
      <4> QED
        BY <4>1 DEF TypeOK
    <3> QED
      BY <3>1, <3>2
  <2> QED
    BY <1>7, <1>9, <2>1 DEF Fail, Release, TypeOK, backfill, history
<1>10. ASSUME NEW w \in Waiters, Idle(w)
       PROVE  TypeOK'
  BY <1>10 DEF Idle, TypeOK, active, failure, backfill, history
<1>11. CASE UNCHANGED vars
  BY <1>11 DEF vars, TypeOK, active, failure, backfill, history
<1> QED
  BY <1>1, <1>2, <1>3, <1>4, <1>5, <1>6, <1>8, <1>9, <1>10, <1>11 DEF Next

-----------------------------------------------------------------------------
(* The queue.                                                              *)

LEMMA QueueInit == Init => QueueHoldsQueued
<1> SUFFICES ASSUME Init PROVE QueueHoldsQueued
  OBVIOUS
<1>1. Len(queue) = 0
  BY EmptySeq DEF Init
<1> QED
  BY <1>1 DEF Init, QueueHoldsQueued, Queued

LEMMA QueueStep ==
    ASSUME IndInv, [Next]_vars
    PROVE  QueueHoldsQueued'
<1> USE DEF IndInv
<1>0. queue \in Seq(Requests) /\ Len(queue) \in Nat
  BY LenProperties DEF TypeOK
<1>1. ASSUME NEW r \in Requests, NEW shape \in Shapes, Run(r, shape)
      PROVE  QueueHoldsQueued'
  <2>1. /\ Len(queue') = Len(queue) + 1 /\ queue'[Len(queue) + 1] = r
        /\ \A i \in 1 .. Len(queue) : queue'[i] = queue[i]
    BY <1>0, <1>1, AppendProperties DEF Run
  <2>2. Queued' = Queued \cup {r} /\ r \notin Queued
    BY <1>1 DEF Run, Queued, TypeOK
  <2>3. \A i \in 1 .. Len(queue') : i \in 1 .. Len(queue) \/ i = Len(queue) + 1
    BY <1>0, <2>1
  <2>4. \A i \in 1 .. Len(queue) : i \in 1 .. Len(queue')
    BY <1>0, <2>1
  <2>5. Len(queue) + 1 \in 1 .. Len(queue')
    BY <1>0, <2>1
  <2>6. \A i \in 1 .. Len(queue') : queue'[i] \in Queued'
    BY <2>1, <2>2, <2>3 DEF QueueHoldsQueued
  <2>7. \A q \in Queued' : \E i \in 1 .. Len(queue') : queue'[i] = q
    BY <2>1, <2>2, <2>4, <2>5 DEF QueueHoldsQueued
  <2>8. \A i, j \in 1 .. Len(queue') : queue'[i] = queue'[j] => i = j
    BY <2>1, <2>2, <2>3 DEF QueueHoldsQueued
  <2> QED
    BY <2>6, <2>7, <2>8 DEF QueueHoldsQueued
\* Taking the request at place k out of the queue, when it alone stops being queued.
<1>2. ASSUME NEW k \in 1 .. Len(queue), Queued' = Queued \ {queue[k]},
             Len(queue') = Len(queue) - 1,
             \A j \in 1 .. Len(queue) - 1 :
                queue'[j] = IF j < k THEN queue[j] ELSE queue[j + 1]
      PROVE  QueueHoldsQueued'
  <2>1. ASSUME NEW j \in 1 .. Len(queue')
        PROVE  LET m == IF j < k THEN j ELSE j + 1
               IN  m \in 1 .. Len(queue) /\ m # k /\ queue'[j] = queue[m]
    BY <1>0, <1>2
  <2>2. \A j \in 1 .. Len(queue') : queue'[j] \in Queued'
    BY <1>2, <2>1 DEF QueueHoldsQueued
  <2>3. ASSUME NEW i \in 1 .. Len(queue'), NEW j \in 1 .. Len(queue'),
               queue'[i] = queue'[j]
        PROVE  i = j
    <3> DEFINE m(h) == IF h < k THEN h ELSE h + 1
    <3>1. /\ m(i) \in 1 .. Len(queue) /\ queue'[i] = queue[m(i)]
          /\ m(j) \in 1 .. Len(queue) /\ queue'[j] = queue[m(j)]
      BY <2>1
    <3>2. m(i) = m(j)
      <4> HIDE DEF m
      <4> QED
        BY <2>3, <3>1 DEF QueueHoldsQueued
    <3> QED
      BY <1>0, <3>2
  <2>4. ASSUME NEW q \in Queued' PROVE \E j \in 1 .. Len(queue') : queue'[j] = q
    <3>1. PICK m \in 1 .. Len(queue) : queue[m] = q /\ m # k
      BY <1>2 DEF QueueHoldsQueued
    <3>2. CASE m < k
      BY <1>0, <1>2, <3>1, <3>2
    <3>3. CASE m > k
      <4>1. m - 1 \in 1 .. Len(queue') /\ ~(m - 1 < k) /\ (m - 1) + 1 = m
        BY <1>0, <1>2, <3>3
      <4> QED
        BY <1>2, <3>1, <4>1
    <3> QED
      BY <3>1, <3>2, <3>3
  <2> QED
    BY <2>2, <2>3, <2>4 DEF QueueHoldsQueued
<1>3. CASE DrainHead
  <2>1. queue # <<>> /\ Head(queue) = queue[1] /\ 1 \in 1 .. Len(queue)
    BY <1>3, QueuePlaces DEF DrainHead, Draining
  <2>2. Queued' = Queued \ {queue[1]}
    BY <1>3, <2>1 DEF DrainHead, Admit, Queued, TypeOK
  <2>3. Len(queue') = Len(queue) - 1 /\ \A j \in 1 .. Len(queue) - 1 : queue'[j] = queue[j + 1]
    BY <1>0, <1>3, <2>1, HeadTailProperties DEF DrainHead
  <2> QED
    BY <1>0, <1>2, <2>1, <2>2, <2>3
<1>4. CASE DrainBackfill
  <2>1. PICK i \in BackfillIndices : BackfillAt(i)
    BY <1>4 DEF DrainBackfill
  <2>2. i \in 1 .. Len(queue)
    BY <1>0, <2>1 DEF BackfillIndices
  <2>3. Queued' = Queued \ {queue[i]}
    BY <2>1 DEF BackfillAt, Admit, Queued, TypeOK
  <2>4. /\ Len(queue') = Len(queue) - 1
        /\ \A j \in 1 .. Len(queue) - 1 :
              queue'[j] = IF j < i THEN queue[j] ELSE queue[j + 1]
    BY <1>0, <2>1, <2>2, RemoveAtProperties DEF BackfillAt
  <2> QED
    BY <1>2, <2>2, <2>3, <2>4
<1>5. CASE DrainReject
  <2>1. Queued' = {} /\ Len(queue') = 0
    BY <1>5, EmptySeq DEF DrainReject, Queued, TypeOK
  <2> QED
    BY <2>1 DEF QueueHoldsQueued
<1>6. ASSUME UNCHANGED queue, Queued' = Queued
      PROVE  QueueHoldsQueued'
  BY <1>6 DEF QueueHoldsQueued
<1>7. ASSUME NEW r \in Requests, Complete(r) \/ Fail(r)
      PROVE  UNCHANGED queue /\ Queued' = Queued
  BY <1>7 DEF Complete, Fail, Release, Queued, TypeOK
<1>8. ASSUME \/ \E r \in Requests : RunClosed(r)
             \/ DrainStop
             \/ \E w \in Waiters : Idle(w)
             \/ UNCHANGED vars
      PROVE  UNCHANGED queue /\ Queued' = Queued
  BY <1>8 DEF RunClosed, DrainStop, Idle, vars, Queued
<1> QED
  BY <1>1, <1>3, <1>4, <1>5, <1>6, <1>7, <1>8 DEF Next

-----------------------------------------------------------------------------
(* The budgets.                                                            *)

LEMMA BudgetInit == Init => BudgetRespected
<1> SUFFICES ASSUME Init PROVE BudgetRespected
  OBVIOUS
<1>1. Active = {}
  BY DEF Init, Active
<1>2. \A n, f : Units({}, n, f) = {}
  BY DEF Units
<1>3. Cardinality(Active) = 0 /\ SlotsHeld = 0 /\ MemoryHeld = 0
  BY <1>1, <1>2, FS_EmptySet DEF SlotsHeld, MemoryHeld
<1> QED
  BY <1>3, LaunchPolicyAssumption DEF Init, BudgetRespected

\* A step that neither starts nor settles a command leaves the sums alone.
LEMMA BudgetUnchanged ==
    ASSUME BudgetRespected, UNCHANGED active, Active' = Active,
           \A r \in Active : entry'[r] = entry[r]
    PROVE  BudgetRespected'
<1>1. [r \in Active' |-> entry'[r].slots] = [r \in Active |-> entry[r].slots]
  OBVIOUS
<1>2. [r \in Active' |-> entry'[r].admission] = [r \in Active |-> entry[r].admission]
  OBVIOUS
<1>3. SlotsHeld' = SlotsHeld /\ MemoryHeld' = MemoryHeld
  BY <1>1, <1>2 DEF SlotsHeld, MemoryHeld
<1> QED
  BY <1>3 DEF BudgetRespected, active

\* A step that admits a request that fits.
LEMMA BudgetAdmit ==
    ASSUME TypeOK, BudgetRespected, NEW x \in Requests, status[x] = "queued",
           canAdmit(x), Admit(x)
    PROVE  BudgetRespected'
<1>1. Active' = Active \cup {x} /\ x \notin Active /\ entry' = entry
  BY DEF Active, Admit, TypeOK
<1>2. IsFiniteSet(Active) /\ activeCount \in Nat
  BY ActiveFinite
<1>3. entry[x] \in EntryType
  BY DEF TypeOK
<1>4. entry[x].slots \in 1 .. Jobs /\ entry[x].admission \in 1 .. MemoryMax
  BY <1>3, EntryFields
<1>5. Cardinality(Active') = Cardinality(Active) + 1
  BY <1>1, <1>2, FS_AddElement
<1>6. SlotsHeld' = SlotsHeld + entry[x].slots
  <2> DEFINE f == [r \in Active |-> entry[r].slots]
             g == [r \in Active' |-> entry'[r].slots]
  <2>1. g[x] = entry[x].slots /\ \A r \in Active : f[r] = g[r]
    BY <1>1
  <2> HIDE DEF f, g
  <2>2. OneMore(Active, Active', x, Jobs, f, g)
    BY <1>1, <1>2, <1>4, <2>1, LaunchPolicyAssumption DEF OneMore
  <2>3. Cardinality(Units(Active', Jobs, g)) = Cardinality(Units(Active, Jobs, f)) + g[x]
    BY <2>2, UnitsAdd
  <2> QED
    BY <2>1, <2>3 DEF SlotsHeld, f, g
<1>7. MemoryHeld' = MemoryHeld + entry[x].admission
  <2> DEFINE f == [r \in Active |-> entry[r].admission]
             g == [r \in Active' |-> entry'[r].admission]
  <2>1. g[x] = entry[x].admission /\ \A r \in Active : f[r] = g[r]
    BY <1>1
  <2> HIDE DEF f, g
  <2>2. OneMore(Active, Active', x, MemoryMax, f, g)
    BY <1>1, <1>2, <1>4, <2>1, LaunchPolicyAssumption DEF OneMore
  <2>3. Cardinality(Units(Active', MemoryMax, g)) = Cardinality(Units(Active, MemoryMax, f)) + g[x]
    BY <2>2, UnitsAdd
  <2> QED
    BY <2>1, <2>3 DEF MemoryHeld, f, g
<1> QED
  BY <1>2, <1>4, <1>5, <1>6, <1>7 DEF BudgetRespected, Admit, canAdmit

\* A step that settles a running command.
LEMMA BudgetRelease ==
    ASSUME TypeOK, BudgetRespected, NEW x \in Requests, status[x] = "active", Release(x)
    PROVE  BudgetRespected'
<1>1. Active = Active' \cup {x} /\ x \notin Active' /\ \A r \in Active' : entry'[r] = entry[r]
  BY DEF Active, Release, TypeOK
<1>2. IsFiniteSet(Active) /\ IsFiniteSet(Active') /\ activeCount \in Nat
  <2>1. Active' \in SUBSET Active
    BY <1>1
  <2> QED
    BY <2>1, ActiveFinite, FS_Subset
<1>3. entry[x] \in EntryType
  BY DEF TypeOK
<1>4. entry[x].slots \in 1 .. Jobs /\ entry[x].admission \in 1 .. MemoryMax
  BY <1>3, EntryFields
<1>5. Cardinality(Active) = Cardinality(Active') + 1
  BY <1>1, <1>2, FS_AddElement
<1>6. SlotsHeld = SlotsHeld' + entry[x].slots /\ SlotsHeld' \in Nat
  <2> DEFINE g == [r \in Active |-> entry[r].slots]
             f == [r \in Active' |-> entry'[r].slots]
  <2>1. g[x] = entry[x].slots /\ \A r \in Active' : f[r] = g[r]
    BY <1>1
  <2> HIDE DEF f, g
  <2>2. OneMore(Active', Active, x, Jobs, f, g)
    BY <1>1, <1>2, <1>4, <2>1, LaunchPolicyAssumption DEF OneMore
  <2>3. Cardinality(Units(Active, Jobs, g)) = Cardinality(Units(Active', Jobs, f)) + g[x]
    BY <2>2, UnitsAdd
  <2>4. Cardinality(Units(Active', Jobs, f)) \in Nat
    BY <1>2, UnitsFinite, LaunchPolicyAssumption
  <2> QED
    BY <2>1, <2>3, <2>4 DEF SlotsHeld, f, g
<1>7. MemoryHeld = MemoryHeld' + entry[x].admission /\ MemoryHeld' \in Nat
  <2> DEFINE g == [r \in Active |-> entry[r].admission]
             f == [r \in Active' |-> entry'[r].admission]
  <2>1. g[x] = entry[x].admission /\ \A r \in Active' : f[r] = g[r]
    BY <1>1
  <2> HIDE DEF f, g
  <2>2. OneMore(Active', Active, x, MemoryMax, f, g)
    BY <1>1, <1>2, <1>4, <2>1, LaunchPolicyAssumption DEF OneMore
  <2>3. Cardinality(Units(Active, MemoryMax, g)) = Cardinality(Units(Active', MemoryMax, f)) + g[x]
    BY <2>2, UnitsAdd
  <2>4. Cardinality(Units(Active', MemoryMax, f)) \in Nat
    BY <1>2, UnitsFinite, LaunchPolicyAssumption
  <2> QED
    BY <2>1, <2>3, <2>4 DEF MemoryHeld, f, g
<1>8. Cardinality(Active') \in Nat
  BY <1>2, FS_CardinalityType
<1> QED
  BY <1>4, <1>5, <1>6, <1>7, <1>8, LaunchPolicyAssumption DEF BudgetRespected, Release

LEMMA BudgetStep ==
    ASSUME IndInv, [Next]_vars
    PROVE  BudgetRespected'
<1> USE DEF IndInv
<1>1. CASE DrainHead
  <2>1. /\ Head(queue) \in Requests /\ status[Head(queue)] = "queued"
        /\ canAdmit(Head(queue)) /\ Admit(Head(queue))
    BY <1>1, QueuePlaces DEF DrainHead, Draining
  <2> QED
    BY <2>1, BudgetAdmit
<1>2. CASE DrainBackfill
  <2>1. PICK i \in BackfillIndices : BackfillAt(i)
    BY <1>2 DEF DrainBackfill
  <2>2. i \in 1 .. Len(queue)
    BY <2>1, QueuePlaces DEF BackfillIndices
  <2>3. /\ queue[i] \in Requests /\ status[queue[i]] = "queued"
        /\ canAdmit(queue[i]) /\ Admit(queue[i])
    BY <2>1, <2>2, QueuePlaces DEF BackfillIndices, BackfillAt
  <2> QED
    BY <2>3, BudgetAdmit
<1>3. ASSUME NEW r \in Requests, Complete(r) \/ Fail(r)
      PROVE  BudgetRespected'
  BY <1>3, BudgetRelease DEF Complete, Fail
<1>4. ASSUME NEW r \in Requests, NEW shape \in Shapes, Run(r, shape)
      PROVE  BudgetRespected'
  <2>1. Active' = Active /\ \A q \in Active : entry'[q] = entry[q]
    BY <1>4 DEF Run, Active, TypeOK
  <2> QED
    BY <1>4, <2>1, BudgetUnchanged DEF Run
<1>5. CASE DrainReject
  <2>1. Active' = Active /\ \A q \in Active : entry'[q] = entry[q]
    BY <1>5 DEF DrainReject, Active, TypeOK
  <2> QED
    BY <1>5, <2>1, BudgetUnchanged DEF DrainReject
<1>6. ASSUME \/ \E r \in Requests : RunClosed(r)
             \/ DrainStop
             \/ \E w \in Waiters : Idle(w)
             \/ UNCHANGED vars
      PROVE  BudgetRespected'
  <2>1. Active' = Active /\ UNCHANGED <<entry, active>>
    BY <1>6 DEF RunClosed, DrainStop, Idle, vars, Active
  <2> QED
    BY <2>1, BudgetUnchanged
<1> QED
  BY <1>1, <1>2, <1>3, <1>4, <1>5, <1>6 DEF Next

-----------------------------------------------------------------------------
(* A queue with work in it has a command running.                          *)

\* With nothing running every accepted request fits.
LEMMA NothingRunningAdmits ==
    ASSUME TypeOK, BudgetRespected, Active = {}, NEW r \in Requests,
           entry[r] \in EntryType
    PROVE  canAdmit(r)
<1>1. \A n, f : Units({}, n, f) = {}
  BY DEF Units
<1>2. SlotsHeld = 0 /\ MemoryHeld = 0
  BY <1>1, FS_EmptySet DEF SlotsHeld, MemoryHeld
<1>3. entry[r].slots \in 1 .. Jobs /\ entry[r].admission \in 1 .. MemoryMax
  BY EntryFields
<1> QED
  BY <1>2, <1>3, LaunchPolicyAssumption DEF canAdmit, BudgetRespected

LEMMA StrandedStep ==
    ASSUME IndInv, [Next]_vars
    PROVE  QueueNeverStranded'
<1> USE DEF IndInv
<1>1. CASE DrainStop
  <2>1. UNCHANGED <<queue, status>> /\ (queue # <<>> => ~canAdmit(Head(queue)))
    BY <1>1 DEF DrainStop
  <2>2. queue # <<>> => Active # {}
    BY <2>1, QueuePlaces, NothingRunningAdmits
  <2> QED
    BY <2>1, <2>2 DEF QueueNeverStranded, Active
<1>2. CASE DrainReject
  BY <1>2 DEF DrainReject, QueueNeverStranded
<1>3. ASSUME \/ \E r \in Requests, shape \in Shapes : Run(r, shape)
             \/ DrainHead \/ DrainBackfill
             \/ \E r \in Requests : Complete(r) \/ Fail(r)
      PROVE  QueueNeverStranded'
  BY <1>3 DEF Run, DrainHead, DrainBackfill, BackfillAt, Draining, Admit, Complete,
              Fail, Release, QueueNeverStranded
<1>4. ASSUME \/ \E r \in Requests : RunClosed(r)
             \/ \E w \in Waiters : Idle(w)
             \/ UNCHANGED vars
      PROVE  QueueNeverStranded'
  BY <1>4 DEF RunClosed, Idle, vars, QueueNeverStranded, Active
<1> QED
  BY <1>1, <1>2, <1>3, <1>4 DEF Next

-----------------------------------------------------------------------------
(* Bounded overtaking.                                                     *)

\* The charge of the present head is what backfill admitted past it, if anything.
LEMMA ChargeBounded ==
    ASSUME TypeOK, BackfillTracksHead
    PROVE  ChargeOfHead \in 0 .. Jobs - 1
BY LaunchPolicyAssumption DEF TypeOK, BackfillTracksHead, ChargeOfHead

LEMMA TracksHeadStep ==
    ASSUME IndInv, [Next]_vars
    PROVE  BackfillTracksHead'
<1> USE DEF IndInv
<1>0. queue \in Seq(Requests) /\ Len(queue) \in Nat
  BY LenProperties DEF TypeOK
<1>1. ASSUME NEW r \in Requests, NEW shape \in Shapes, Run(r, shape)
      PROVE  BackfillTracksHead'
  <2>1. queue' = Append(queue, r) /\ queue' # <<>>
    BY <1>0, <1>1, AppendProperties, EmptySeq DEF Run
  <2>2. queue # <<>> => Head(queue') = Head(queue)
    BY <1>0, <2>1
  <2>3. UNCHANGED <<backfilledHead, backfilledWorkerSlots>> /\ ~hasSchedulingFailure
    BY <1>1 DEF Run, backfill
  <2> QED
    BY <2>1, <2>2, <2>3 DEF BackfillTracksHead
<1>2. CASE DrainHead
  <2>1. backfilledHead' = None /\ backfilledWorkerSlots' <= Jobs - 1
    BY <1>2, LaunchPolicyAssumption DEF DrainHead, Draining, BackfillTracksHead, backfill
  <2> QED
    BY <2>1 DEF BackfillTracksHead
<1>3. CASE DrainBackfill
  <2>1. PICK i \in BackfillIndices : BackfillAt(i)
    BY <1>3 DEF DrainBackfill
  <2>2. /\ i \in 2 .. Len(queue) /\ entry[queue[i]].slots <= Jobs - 1 - ChargeOfHead
        /\ backfilledHead' = Head(queue) /\ queue' = RemoveAt(queue, i)
        /\ backfilledWorkerSlots' = ChargeOfHead + entry[queue[i]].slots
    BY <2>1 DEF BackfillIndices, BackfillAt
  <2>3. i \in 1 .. Len(queue) /\ 1 \in 1 .. Len(queue) - 1 /\ 1 < i
    BY <1>0, <2>2
  <2>4. queue' \in Seq(Requests) /\ Len(queue') = Len(queue) - 1 /\ queue'[1] = queue[1]
    BY <1>0, <2>2, <2>3, RemoveAtProperties
  <2>5. queue # <<>> /\ queue' # <<>>
    BY <1>0, <2>3, <2>4, EmptySeq
  <2>6. Head(queue') = Head(queue)
    BY <1>0, <2>4, <2>5
  <2>7. backfilledWorkerSlots' <= Jobs - 1
    BY <2>2, <2>3, QueuePlaces, EntryFields, ChargeBounded, LaunchPolicyAssumption
  <2> QED
    BY <2>2, <2>5, <2>6, <2>7 DEF BackfillTracksHead
<1>4. CASE DrainStop
  <2>1. CASE queue # <<>>
    BY <1>4, <2>1, ChargeBounded, LaunchPolicyAssumption DEF DrainStop, BackfillTracksHead
  <2>2. CASE queue = <<>>
    BY <1>4, <2>2 DEF DrainStop, BackfillTracksHead, backfill, failure
  <2> QED
    BY <2>1, <2>2
<1>5. CASE DrainReject
  BY <1>5 DEF DrainReject, BackfillTracksHead, backfill, failure
<1>6. ASSUME NEW r \in Requests, Fail(r)
      PROVE  BackfillTracksHead'
  <2>1. /\ UNCHANGED <<queue, backfilledHead, backfilledWorkerSlots>>
        /\ hasSchedulingFailure => hasSchedulingFailure'
    BY <1>6 DEF Fail, Release, backfill, failure
  <2> QED
    BY <2>1 DEF BackfillTracksHead
<1>7. ASSUME \/ \E r \in Requests : RunClosed(r) \/ Complete(r)
             \/ \E w \in Waiters : Idle(w)
             \/ UNCHANGED vars
      PROVE  BackfillTracksHead'
  <2>1. UNCHANGED <<queue, backfill, failure>>
    BY <1>7 DEF RunClosed, Complete, Release, Idle, vars
  <2> QED
    BY <2>1 DEF BackfillTracksHead, backfill, failure
<1> QED
  BY <1>1, <1>2, <1>3, <1>4, <1>5, <1>6, <1>7 DEF Next

LEMMA OvertakingStep ==
    ASSUME IndInv, [Next]_vars
    PROVE  OvertakingByPlace'
<1> USE DEF IndInv
<1> DEFINE k == Jobs - 1
           bound(i) == (ahead[queue[i]] - i) * k
<1>0. /\ queue \in Seq(Requests) /\ Len(queue) \in Nat /\ k \in Nat
      /\ ChargeOfHead \in 0 .. k
  BY LenProperties, ChargeBounded, LaunchPolicyAssumption DEF TypeOK
<1>i. ASSUME NEW i \in 1 .. Len(queue)
      PROVE  /\ queue[i] \in Requests /\ ahead[queue[i]] - i \in Nat
             /\ overtaken[queue[i]] \in Nat
             /\ bound(i) \in Nat /\ overtaken[queue[i]] <= bound(i) + ChargeOfHead
  <2>1. queue[i] \in Requests
    BY QueuePlaces
  <2>2. ahead[queue[i]] - i \in Nat /\ overtaken[queue[i]] \in Nat
    BY SMTT(30), <1>0, <2>1 DEF OvertakingByPlace, TypeOK
  <2> QED
    BY <1>0, <2>1, <2>2, WaveArithmetic DEF OvertakingByPlace
<1>1. ASSUME NEW r \in Requests, NEW shape \in Shapes, Run(r, shape)
      PROVE  OvertakingByPlace'
  <2>1. /\ Len(queue') = Len(queue) + 1 /\ queue'[Len(queue) + 1] = r
        /\ \A i \in 1 .. Len(queue) : queue'[i] = queue[i]
    BY <1>0, <1>1, AppendProperties DEF Run
  <2>2. ahead'[r] = Len(queue) + 1 /\ overtaken'[r] = 0
    BY <1>1 DEF Run, TypeOK
  <2>3. \A i \in 1 .. Len(queue) : queue[i] # r
    BY <1>1, QueuePlaces DEF Run
  <2>4. \A i \in 1 .. Len(queue) :
          ahead'[queue[i]] = ahead[queue[i]] /\ overtaken'[queue[i]] = overtaken[queue[i]]
    BY <1>1, <1>i, <2>3 DEF Run, TypeOK
  <2>5. ChargeOfHead' \in Nat /\ (queue # <<>> => ChargeOfHead' = ChargeOfHead)
    <3>1. UNCHANGED <<backfilledHead, backfilledWorkerSlots>> /\ queue' = Append(queue, r)
      BY <1>1 DEF Run, backfill
    <3>2. queue # <<>> => Head(queue') = Head(queue)
      BY <1>0, <3>1
    <3> QED
      BY <3>1, <3>2 DEF ChargeOfHead, TypeOK
  <2>6. ASSUME NEW i \in 1 .. Len(queue')
        PROVE  /\ i <= ahead'[queue'[i]]
               /\ overtaken'[queue'[i]] <= (ahead'[queue'[i]] - i) * k + ChargeOfHead'
    <3>1. CASE i \in 1 .. Len(queue)
      <4>1. queue # <<>>
        BY <3>1, EmptySeq
      <4>2. ahead'[queue'[i]] = ahead[queue[i]] /\ overtaken'[queue'[i]] = overtaken[queue[i]]
        BY <2>1, <2>4, <3>1
      <4> QED
        BY <2>5, <3>1, <4>1, <4>2 DEF OvertakingByPlace
    <3>2. CASE i = Len(queue) + 1
      <4>1. (ahead'[queue'[i]] - i) * k = 0
        <5>1. ahead'[queue'[i]] - i = 0
          BY <1>0, <2>1, <2>2, <3>2
        <5> QED
          BY <1>0, <5>1
      <4> QED
        BY <1>0, <2>1, <2>2, <2>5, <3>2, <4>1
    <3> QED
      BY <1>0, <2>1, <3>1, <3>2
  <2> QED
    BY <2>6 DEF OvertakingByPlace
<1>2. CASE DrainHead
  <2>1. queue # <<>> /\ Head(queue) = queue[1] /\ 1 \in 1 .. Len(queue)
    BY <1>2, QueuePlaces DEF DrainHead, Draining
  <2>2. Len(queue') = Len(queue) - 1 /\ \A j \in 1 .. Len(queue) - 1 : queue'[j] = queue[j + 1]
    BY <1>0, <1>2, <2>1, HeadTailProperties DEF DrainHead
  <2>3. ChargeOfHead' \in Nat
    BY TypeStep DEF ChargeOfHead, TypeOK
  <2>4. ASSUME NEW j \in 1 .. Len(queue')
        PROVE  /\ j <= ahead'[queue'[j]]
               /\ overtaken'[queue'[j]] <= (ahead'[queue'[j]] - j) * k + ChargeOfHead'
    <3>1. j + 1 \in 1 .. Len(queue) /\ queue'[j] = queue[j + 1] /\ j + 1 # 1
      BY <1>0, <2>2
    <3>2. queue[j + 1] # queue[1]
      BY <2>1, <3>1 DEF QueueHoldsQueued
    <3>3. /\ ahead'[queue'[j]] = ahead[queue[j + 1]]
          /\ overtaken'[queue'[j]] = overtaken[queue[j + 1]]
      BY <1>2, <1>i, <2>1, <3>1, <3>2 DEF DrainHead, Admit, TypeOK
    <3> DEFINE p == ahead[queue[j + 1]] - (j + 1)
    <3>4. p \in Nat /\ p * k \in Nat /\ overtaken[queue[j + 1]] <= p * k + ChargeOfHead
      BY <1>i, <3>1
    <3>5. ahead'[queue'[j]] - j = p + 1 /\ j <= ahead'[queue'[j]]
      <4>1. PICK a \in Nat : a = ahead[queue[j + 1]]
        BY <1>i, <3>1 DEF TypeOK
      <4>2. a - (j + 1) \in Nat
        BY <3>4, <4>1
      <4>3. a - j = (a - (j + 1)) + 1 /\ j <= a
        BY <4>2
      <4> QED
        BY <3>3, <4>1, <4>3
    <3> HIDE DEF p
    <3>6. (p + 1) * k = p * k + k
      BY <1>0, <3>4, WaveArithmetic
    <3>7. overtaken'[queue'[j]] <= (p + 1) * k + ChargeOfHead'
      <4>1. overtaken[queue[j + 1]] \in Nat
        BY <1>i, <3>1
      <4> DEFINE pk == p * k
                 qk == (p + 1) * k
      <4>2. pk \in Nat /\ qk = pk + k /\ overtaken[queue[j + 1]] <= pk + ChargeOfHead
        BY <3>4, <3>6
      <4> HIDE DEF pk, qk, k
      <4>3. overtaken[queue[j + 1]] <= qk + ChargeOfHead'
        <5>1. ChargeOfHead \in Nat /\ ChargeOfHead <= k
          BY <1>0
        <5>2. overtaken[queue[j + 1]] <= (pk + k) + ChargeOfHead'
          BY <1>0, <2>3, <4>1, <4>2, <5>1, OneWaveLater
        <5> QED
          BY <4>2, <5>2, Zenon
      <4> QED
        BY <3>3, <4>3 DEF qk
    <3> QED
      BY <3>5, <3>7
  <2> QED
    BY <2>4 DEF OvertakingByPlace
<1>3. CASE DrainBackfill
  <2>1. PICK n \in BackfillIndices : BackfillAt(n)
    BY <1>3 DEF DrainBackfill
  <2> DEFINE slots == entry[queue[n]].slots
  <2>2. n \in 2 .. Len(queue) /\ n \in 1 .. Len(queue) /\ slots <= k - ChargeOfHead
    BY <1>0, <2>1 DEF BackfillIndices
  <2>3. slots \in Nat
    BY <2>2, QueuePlaces, EntryFields
  <2>4. /\ Len(queue') = Len(queue) - 1
        /\ \A j \in 1 .. Len(queue) - 1 :
              queue'[j] = IF j < n THEN queue[j] ELSE queue[j + 1]
        /\ queue' \in Seq(Requests)
    BY <1>0, <2>1, <2>2, RemoveAtProperties DEF BackfillAt
  <2>5. ChargeOfHead' = ChargeOfHead + slots
    <3>1. queue # <<>> /\ queue' # <<>>
      BY <1>0, <2>2, <2>4, EmptySeq
    <3>2. Head(queue') = Head(queue)
      BY <1>0, <2>2, <2>4, <3>1
    <3> QED
      BY <2>1, <3>2 DEF BackfillAt, ChargeOfHead
  <2> HIDE DEF slots
  <2>6. ASSUME NEW m \in 1 .. Len(queue), m # n
        PROVE  /\ ahead'[queue[m]] = ahead[queue[m]]
               /\ overtaken'[queue[m]] \in Nat
               /\ overtaken'[queue[m]] <= overtaken[queue[m]] + slots
    <3>1. queue[m] \in Requests /\ queue[m] # queue[n]
      BY <1>i, <2>2, <2>6 DEF QueueHoldsQueued
    <3>2. ahead'[queue[m]] = ahead[queue[m]]
      BY <2>1, <3>1 DEF BackfillAt, Admit, TypeOK
    <3>3. overtaken'[queue[m]] \in Nat
      BY <3>1, TypeStep DEF TypeOK
    <3>4. \/ overtaken'[queue[m]] = overtaken[queue[m]]
          \/ overtaken'[queue[m]] = Least(overtaken[queue[m]] + slots,
                                         ahead[queue[m]] * (Jobs - 1) + 1)
      BY <2>1, <3>1 DEF BackfillAt, TypeOK, slots
    <3>5. overtaken[queue[m]] \in Nat /\ ahead[queue[m]] * (Jobs - 1) + 1 \in Int
      BY <1>0, <3>1 DEF TypeOK
    <3> QED
      BY <2>3, <3>2, <3>3, <3>4, <3>5 DEF Least
  <2>7. ASSUME NEW j \in 1 .. Len(queue')
        PROVE  /\ j <= ahead'[queue'[j]]
               /\ overtaken'[queue'[j]] <= (ahead'[queue'[j]] - j) * k + ChargeOfHead'
    <3>1. CASE j < n
      <4>0. j \in 1 .. Len(queue) - 1
        BY <2>4
      <4>1. j \in 1 .. Len(queue) /\ j # n /\ queue'[j] = queue[j]
        <5>1. j \in 1 .. Len(queue) /\ j # n
          BY <1>0, <2>2, <3>1, <4>0
        <5> QED
          BY <2>4, <3>1, <4>0, <5>1
      <4>2. ahead'[queue'[j]] = ahead[queue[j]] /\ overtaken'[queue'[j]] \in Nat
            /\ overtaken'[queue'[j]] <= overtaken[queue[j]] + slots
        BY <2>6, <4>1
      <4>3. /\ bound(j) \in Nat /\ overtaken[queue[j]] \in Nat
            /\ overtaken[queue[j]] <= bound(j) + ChargeOfHead
            /\ j <= ahead[queue[j]]
        BY <1>i, <4>1 DEF OvertakingByPlace
      <4>4. (ahead'[queue'[j]] - j) * k = bound(j)
        BY <4>2
      <4>5. overtaken'[queue'[j]] <= bound(j) + ChargeOfHead'
        <5> DEFINE o == overtaken'[queue'[j]]
                   b == bound(j)
        <5>1. /\ o \in Nat /\ b \in Nat /\ o <= overtaken[queue[j]] + slots
              /\ overtaken[queue[j]] <= b + ChargeOfHead
          BY <4>2, <4>3
        <5>2. overtaken[queue[j]] \in Nat
          BY <4>3
        <5> HIDE DEF bound, k, o, b
        <5>3. o <= b + (ChargeOfHead + slots)
          <6>1. ChargeOfHead \in Nat
            BY <1>0
          <6> QED
            BY <1>0, <2>3, <5>1, <5>2, <6>1, BackfillArithmetic
        <5> QED
          BY <2>5, <5>3 DEF o, b
      <4> QED
        BY <4>2, <4>3, <4>4, <4>5
    <3>2. CASE ~(j < n)
      <4>0. j \in 1 .. Len(queue) - 1
        BY <2>4
      <4>1. j + 1 \in 1 .. Len(queue) /\ j + 1 # n /\ queue'[j] = queue[j + 1]
        <5>1. j + 1 \in 1 .. Len(queue) /\ j + 1 # n
          BY <1>0, <2>2, <3>2, <4>0
        <5> QED
          BY <2>4, <3>2, <4>0, <5>1
      <4> DEFINE p == ahead[queue[j + 1]] - (j + 1)
      <4>2. /\ ahead'[queue'[j]] = ahead[queue[j + 1]] /\ overtaken'[queue'[j]] \in Nat
            /\ overtaken'[queue'[j]] <= overtaken[queue[j + 1]] + slots
        BY <2>6, <4>1
      <4>3. /\ p \in Nat /\ p * k \in Nat /\ overtaken[queue[j + 1]] \in Nat
            /\ overtaken[queue[j + 1]] <= p * k + ChargeOfHead
        BY <1>i, <4>1
      <4>4. ahead'[queue'[j]] - j = p + 1 /\ j <= ahead'[queue'[j]]
        <5>1. PICK a \in Nat : a = ahead[queue[j + 1]]
          BY <1>i, <4>1 DEF TypeOK
        <5>2. a - (j + 1) \in Nat
          BY <4>3, <5>1
        <5>3. a - j = (a - (j + 1)) + 1 /\ j <= a
          BY <5>2
        <5> QED
          BY <4>2, <5>1, <5>3
      <4> HIDE DEF p
      <4>5. (p + 1) * k = p * k + k
        BY <1>0, <4>3, WaveArithmetic
      <4>6. overtaken'[queue'[j]] <= (p + 1) * k + ChargeOfHead'
        <5> DEFINE pk == p * k
        <5>1. /\ pk \in Nat /\ overtaken[queue[j + 1]] <= pk + ChargeOfHead
              /\ (p + 1) * k = pk + k
          BY <4>3, <4>5
        <5> DEFINE o == overtaken'[queue'[j]]
                   qk == (p + 1) * k
        <5>2. /\ o \in Nat /\ o <= overtaken[queue[j + 1]] + slots
              /\ overtaken[queue[j + 1]] \in Nat /\ qk = pk + k
          BY <4>2, <4>3, <5>1
        <5> HIDE DEF pk, qk, k, o
        <5>3. o <= qk + (ChargeOfHead + slots)
          <6>1. ChargeOfHead \in Nat
            BY <1>0
          <6>2. o <= (pk + k) + (ChargeOfHead + slots)
            BY <1>0, <2>3, <5>1, <5>2, <6>1, BackfillArithmetic
          <6> QED
            BY <5>2, <6>2, Zenon
        <5> QED
          BY <2>5, <5>3 DEF o, qk
      <4> QED
        BY <4>4, <4>6
    <3> QED
      BY <3>1, <3>2
  <2> QED
    BY <2>7 DEF OvertakingByPlace
<1>4. CASE DrainStop
  <2>1. UNCHANGED <<queue, ahead, overtaken>> /\ (queue # <<>> => ChargeOfHead' = ChargeOfHead)
    BY <1>4 DEF DrainStop, ChargeOfHead, history
  <2>2. \A i \in 1 .. Len(queue) : queue # <<>>
    BY EmptySeq
  <2> QED
    BY <2>1, <2>2 DEF OvertakingByPlace
<1>5. CASE DrainReject
  <2>1. Len(queue') = 0
    BY <1>5, EmptySeq DEF DrainReject
  <2> QED
    BY <2>1 DEF OvertakingByPlace
<1>6. ASSUME \/ \E r \in Requests : RunClosed(r) \/ Complete(r) \/ Fail(r)
             \/ \E w \in Waiters : Idle(w)
             \/ UNCHANGED vars
      PROVE  OvertakingByPlace'
  <2>1. UNCHANGED <<queue, backfill, history>>
    BY <1>6 DEF RunClosed, Complete, Fail, Release, Idle, vars
  <2> QED
    BY <2>1 DEF OvertakingByPlace, ChargeOfHead, backfill, history
<1> QED
  BY <1>1, <1>2, <1>3, <1>4, <1>5, <1>6 DEF Next

-----------------------------------------------------------------------------
(* idle().                                                                 *)

\* The queue is empty exactly when no request is queued.
LEMMA QueueEmpty ==
    ASSUME TypeOK, QueueHoldsQueued
    PROVE  queue = <<>> <=> Queued = {}
<1>1. queue \in Seq(Requests)
  BY DEF TypeOK
<1>2. queue = <<>> => Queued = {}
  BY EmptySeq DEF QueueHoldsQueued
<1>3. queue # <<>> => Queued # {}
  BY QueuePlaces DEF QueueHoldsQueued
<1> QED
  BY <1>2, <1>3

LEMMA RunLeavesWorkStep ==
    ASSUME IndInv, [Next]_vars
    PROVE  RunLeavesWork'
<1> USE DEF IndInv
<1>1. ASSUME NEW r \in Requests, NEW shape \in Shapes, Run(r, shape)
      PROVE  RunLeavesWork'
  <2>1. queue' # <<>>
    BY <1>1, AppendProperties, EmptySeq DEF Run, TypeOK
  <2> QED
    BY <1>1, <2>1 DEF Run, RunLeavesWork, failure
<1>2. ASSUME NEW r \in Requests, Admit(r), ~hasSchedulingFailure
      PROVE  RunLeavesWork'
  <2>1. Active' # {} /\ ~hasSchedulingFailure'
    BY <1>2 DEF Admit, Active, TypeOK, failure
  <2> QED
    BY <2>1 DEF RunLeavesWork
<1>3. CASE DrainHead
  BY <1>2, <1>3, QueuePlaces DEF DrainHead, Draining
<1>4. CASE DrainBackfill
  <2>1. PICK n \in BackfillIndices : BackfillAt(n)
    BY <1>4 DEF DrainBackfill
  <2>2. queue[n] \in Requests /\ Admit(queue[n]) /\ ~hasSchedulingFailure
    BY <1>4, <2>1, QueuePlaces DEF BackfillIndices, BackfillAt, DrainBackfill, Draining
  <2> QED
    BY <1>2, <2>2
<1>5. ASSUME \/ DrainStop \/ DrainReject
             \/ \E r \in Requests : Complete(r) \/ Fail(r)
      PROVE  RunLeavesWork'
  BY <1>5 DEF DrainStop, DrainReject, Complete, Fail, Release, RunLeavesWork
<1>6. ASSUME \/ \E r \in Requests : RunClosed(r)
             \/ \E w \in Waiters : Idle(w)
             \/ UNCHANGED vars
      PROVE  RunLeavesWork'
  <2>1. UNCHANGED <<status, queue, failure, loop>>
    BY <1>6 DEF RunClosed, Idle, vars
  <2> QED
    BY <2>1 DEF RunLeavesWork, Active, failure
<1> QED
  BY <1>1, <1>3, <1>4, <1>5, <1>6 DEF Next

LEMMA IdleStep ==
    ASSUME IndInv, [Next]_vars
    PROVE  NoForgottenIdleWaiter'
<1> USE DEF IndInv
<1>1. CASE DrainStop
  <2>1. CASE loop = "finish"
    <3>1. activeCount = 0 <=> Active = {}
      BY ActiveFinite
    <3> QED
      BY <1>1, <2>1, <3>1, QueueEmpty
         DEF DrainStop, IdleWaitersAfter, NoForgottenIdleWaiter, Active, Queued
  <2>2. CASE loop # "finish"
    <3>1. loop = "run"
      BY <1>1, <2>2 DEF DrainStop, TypeOK
    <3> QED
      BY <1>1, <3>1, QueueEmpty
         DEF DrainStop, RunLeavesWork, NoForgottenIdleWaiter, Active, Queued
  <2> QED
    BY <2>1, <2>2
<1>2. CASE DrainReject
  <2>1. Active' = Active
    BY <1>2 DEF DrainReject, Active, TypeOK
  <2>2. activeCount = 0 <=> Active = {}
    BY ActiveFinite
  <2> QED
    BY <1>2, <2>1, <2>2 DEF DrainReject, IdleWaitersAfter, NoForgottenIdleWaiter
<1>3. ASSUME \/ \E r \in Requests, shape \in Shapes : Run(r, shape)
             \/ DrainHead \/ DrainBackfill
             \/ \E r \in Requests : Complete(r) \/ Fail(r)
      PROVE  NoForgottenIdleWaiter'
  BY <1>3 DEF Run, DrainHead, DrainBackfill, BackfillAt, Draining, Admit, Complete,
              Fail, Release, NoForgottenIdleWaiter
<1>4. ASSUME NEW w \in Waiters, Idle(w)
      PROVE  NoForgottenIdleWaiter'
  <2>1. activeCount = 0 <=> Active = {}
    BY ActiveFinite
  <2> QED
    BY <1>4, <2>1, QueueEmpty DEF Idle, NoForgottenIdleWaiter, Active, Queued
<1>5. ASSUME (\E r \in Requests : RunClosed(r)) \/ UNCHANGED vars
      PROVE  NoForgottenIdleWaiter'
  BY <1>5 DEF RunClosed, vars, NoForgottenIdleWaiter, Active, Queued
<1> QED
  BY <1>1, <1>2, <1>3, <1>4, <1>5 DEF Next

-----------------------------------------------------------------------------
(* The theorems.                                                           *)

\* Every behaviour of the scheduler keeps the inductive invariant.
THEOREM Invariance == Spec => []IndInv
<1>1. Init => IndInv
  <2> SUFFICES ASSUME Init PROVE IndInv
    OBVIOUS
  <2>1. Len(queue) = 0
    BY EmptySeq DEF Init
  <2>2. QueueNeverStranded /\ RunLeavesWork /\ NoForgottenIdleWaiter
    BY DEF Init, QueueNeverStranded, RunLeavesWork, NoForgottenIdleWaiter
  <2>3. BackfillTracksHead
    BY LaunchPolicyAssumption DEF Init, BackfillTracksHead
  <2>4. OvertakingByPlace
    BY <2>1 DEF OvertakingByPlace
  <2> QED
    BY <2>2, <2>3, <2>4, TypeInit, QueueInit, BudgetInit DEF IndInv
<1>2. IndInv /\ [Next]_vars => IndInv'
  <2> SUFFICES ASSUME IndInv, [Next]_vars PROVE IndInv'
    OBVIOUS
  <2> QED
    BY TypeStep, QueueStep, BudgetStep, StrandedStep, TracksHeadStep, OvertakingStep,
       RunLeavesWorkStep, IdleStep DEF IndInv
<1> QED
  BY <1>1, <1>2, PTL DEF Spec

\* Every variable of the scheduler keeps its type.
THEOREM TypeCorrect == Spec => []TypeOK
BY Invariance, PTL DEF IndInv

\* The queue holds each queued request once: backfill and rejection lose none.
THEOREM QueueIntact == Spec => []QueueHoldsQueued
BY Invariance, PTL DEF IndInv

\* drain() and the settlement handler keep the running commands within the worker
\* slots and the memory budget of any launch policy.
THEOREM Budget == Spec => []BudgetRespected
BY Invariance, PTL DEF IndInv

\* No request is left in the queue without a running command that will drain it.
THEOREM NotStranded == Spec => []QueueNeverStranded
BY Invariance, PTL DEF IndInv

\* Backfill overtakes a queued request by at most one wave per place.
THEOREM Overtaking == Spec => []BoundedOvertaking
<1>1. IndInv => BoundedOvertaking
  <2> SUFFICES ASSUME IndInv, NEW r \in Queued
               PROVE  overtaken[r] <= ahead[r] * (Jobs - 1)
    BY DEF BoundedOvertaking
  <2> USE DEF IndInv
  <2> DEFINE k == Jobs - 1
  <2>1. PICK i \in 1 .. Len(queue) : queue[i] = r
    BY DEF QueueHoldsQueued
  <2>2. /\ Len(queue) \in Nat /\ k \in Nat /\ r \in Requests
        /\ ahead[r] \in Nat /\ overtaken[r] \in Nat
    BY QueuePlaces, LaunchPolicyAssumption DEF TypeOK, Queued
  <2> DEFINE p == ahead[r] - i
             pk == p * k
  <2>3. p \in Nat /\ pk \in Nat /\ overtaken[r] <= pk + ChargeOfHead
    BY <2>1, <2>2, WaveArithmetic DEF OvertakingByPlace
  <2>4. ChargeOfHead \in 0 .. k
    BY ChargeBounded
  <2>5. ahead[r] * k = pk + k + (i - 1) * k
    <3>1. ahead[r] = p + 1 + (i - 1)
      BY <2>2
    <3> QED
      BY SMTT(30), <2>2, <2>3, <3>1
  <2>6. (i - 1) * k \in Nat
    BY <2>2
  <2> DEFINE rest == (i - 1) * k
  <2> HIDE DEF p, pk, rest, k
  <2>7. overtaken[r] <= pk + k + rest
    BY <2>2, <2>3, <2>4, <2>6 DEF rest
  <2> QED
    BY <2>5, <2>7 DEF rest, k
<1> QED
  BY <1>1, Invariance, PTL

\* No idle() waiter is forgotten.
THEOREM IdleNotForgotten == Spec => []NoForgottenIdleWaiter
BY Invariance, PTL DEF IndInv

\* idle() waiters are resolved only by a step that leaves the scheduler idle.
THEOREM ResolvedIdle == Spec => IdleMeansIdle
<1>1. ASSUME IndInv, [Next]_vars, ~(idleWaiters \subseteq idleWaiters')
      PROVE  Active' = {} /\ Queued' = {}
  <2> USE DEF IndInv
  <2>0. BudgetRespected /\ (activeCount = 0 <=> Active = {})
    BY <1>1, ActiveFinite
  <2>1. CASE DrainStop
    <3>0. idleWaiters' # idleWaiters
      BY <1>1
    <3>1. activeCount = 0 /\ queue = <<>> /\ UNCHANGED status
      BY <2>1, <3>0 DEF DrainStop, IdleWaitersAfter
    <3> QED
      BY <1>1, <2>0, <3>1, QueueEmpty DEF Active, Queued
  <2>2. CASE DrainReject
    <3>1. activeCount = 0 /\ Active' = Active /\ Queued' = {}
      BY <1>1, <2>2 DEF DrainReject, IdleWaitersAfter, Active, Queued, TypeOK
    <3> QED
      BY <2>0, <3>1
  <2>3. ASSUME \/ \E r \in Requests, shape \in Shapes : Run(r, shape)
               \/ \E r \in Requests : RunClosed(r) \/ Complete(r) \/ Fail(r)
               \/ DrainHead \/ DrainBackfill
               \/ \E w \in Waiters : Idle(w)
               \/ UNCHANGED vars
        PROVE  idleWaiters \subseteq idleWaiters'
    BY <2>3 DEF Run, RunClosed, Complete, Fail, Release, DrainHead, DrainBackfill,
                BackfillAt, Admit, Idle, vars
  <2> QED
    BY <1>1, <2>1, <2>2, <2>3 DEF Next
<1>2. IndInv /\ [Next]_vars => [ResolvesWhenIdle]_vars
  BY <1>1 DEF ResolvesWhenIdle
<1> QED
  BY <1>2, Invariance, PTL DEF Spec, IdleMeansIdle

\* The first admission-closing failure stays the reason, and nothing starts after it.
THEOREM FirstFailure == Spec => FirstFailureCloses
<1>1. ASSUME IndInv, [Next]_vars
      PROVE  KeepsFirstFailure
  <2> USE DEF IndInv
  <2>1. ASSUME \/ \E r \in Requests, shape \in Shapes : Run(r, shape)
               \/ DrainHead \/ DrainBackfill
        PROVE  ~hasSchedulingFailure
    BY <2>1 DEF Run, DrainHead, DrainBackfill, Draining
  <2>2. ASSUME NEW r \in Requests, NEW shape \in Shapes, Run(r, shape)
        PROVE  KeepsFirstFailure
    BY <2>1, <2>2 DEF Run, KeepsFirstFailure, TypeOK
  <2>3. CASE DrainHead \/ DrainBackfill
    <3>1. UNCHANGED settled
      BY <2>3 DEF DrainHead, DrainBackfill, BackfillAt, Admit
    <3> QED
      BY <2>1, <2>3, <3>1 DEF KeepsFirstFailure
  <2>4. ASSUME NEW r \in Requests, RunClosed(r)
        PROVE  KeepsFirstFailure
    BY <2>4 DEF RunClosed, KeepsFirstFailure, Active, TypeOK, failure
  <2>5. CASE DrainReject
    <3>1. UNCHANGED <<hasSchedulingFailure, schedulingFailure>> /\ Active' = Active
      BY <2>5 DEF DrainReject, Active, TypeOK, failure
    <3>2. \A r \in Requests : settled'[r] # settled[r] => settled'[r] = schedulingFailure
      BY <2>5 DEF DrainReject
    <3> QED
      BY <3>1, <3>2 DEF KeepsFirstFailure
  <2>6. ASSUME NEW r \in Requests, Complete(r) \/ Fail(r)
        PROVE  KeepsFirstFailure
    <3>1. hasSchedulingFailure => UNCHANGED <<hasSchedulingFailure, schedulingFailure>>
      BY <2>6 DEF Complete, Fail, failure
    <3>2. Active' \subseteq Active
      BY <1>1, <2>6 DEF Complete, Fail, Release, Active, TypeOK
    <3>3. \A q \in Requests : settled'[q] # settled[q] => status[q] = "active"
      BY <1>1, <2>6 DEF Complete, Fail, TypeOK
    <3> QED
      BY <3>1, <3>2, <3>3 DEF KeepsFirstFailure
  <2>7. ASSUME \/ DrainStop
               \/ \E w \in Waiters : Idle(w)
               \/ UNCHANGED vars
        PROVE  KeepsFirstFailure
    <3>1. UNCHANGED <<status, settled, failure>>
      BY <2>7 DEF DrainStop, Idle, vars
    <3> QED
      BY <3>1 DEF KeepsFirstFailure, Active, failure
  <2> QED
    BY <1>1, <2>2, <2>3, <2>4, <2>5, <2>6, <2>7 DEF Next
<1>2. IndInv /\ [Next]_vars => [KeepsFirstFailure]_vars
  BY <1>1
<1> QED
  BY <1>2, Invariance, PTL DEF Spec, FirstFailureCloses

=============================================================================
