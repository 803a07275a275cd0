------------------------ MODULE NativePhaseScheduler ------------------------
(***************************************************************************)
(* The native-phase scheduler of one build process                         *)
(* (createConvexWasmNativePhaseScheduler in                                *)
(* scripts/lib/convex-wasm-native-launch-scheduling.mjs): native commands  *)
(* queue for worker slots and for a share of the aggregate memory budget,  *)
(* and a blocked head of the queue may be passed by one bounded wave of    *)
(* later commands that fit.                                                *)
(*                                                                         *)
(* JavaScript runs a handler to completion.  run() and the settlement of a *)
(* command each end with a call of drain(), whose loop admits one command  *)
(* per iteration: `loop' names the handler whose drain() is on the stack,  *)
(* and while it is not "none" only the iterations of drain() can happen.   *)
(*                                                                         *)
(* A member of Requests is a caller that issues one request after another, *)
(* so that an endless stream of commands can be expressed.  A request's    *)
(* error is named after the caller.                                        *)
(***************************************************************************)
EXTENDS Integers, FiniteSets, SequencesExt

CONSTANTS
    Requests,     \* callers of run()
    Waiters,      \* callers of idle()
    Shapes,       \* the request options callers use, see ShapeType
    Jobs,         \* launch policy: worker slots
    AotWorkers,   \* launch policy: most worker slots of one AOT command
    MemoryMax,    \* launch policy: aggregate memory budget, in memory units
    AotUnit,      \* memory units of working set that justify one AOT worker
    None          \* no request

(***************************************************************************)
(* A request as its caller states it: whether the stage's class is an AOT  *)
(* class, the requested worker slots, the working-set estimate of the      *)
(* input (0 when not given), the stage's default estimate, and             *)
(* failureClosesAdmission.                                                 *)
(***************************************************************************)
ShapeType == [aot : BOOLEAN, workerSlots : Nat \ {0}, input : Nat,
              stage : Nat \ {0}, closes : BOOLEAN]

\* A queue entry: what the request is charged with, and its estimate.
EntryType == [slots : 1 .. Jobs, admission : 1 .. MemoryMax,
              estimate : Nat \ {0}, closes : BOOLEAN]

(***************************************************************************)
(* normalizeConvexWasmNativeLaunchPolicy: positive integers, and no more   *)
(* AOT workers than jobs.                                                  *)
(***************************************************************************)
ASSUME LaunchPolicyAssumption ==
    /\ Jobs \in Nat \ {0} /\ MemoryMax \in Nat \ {0}
    /\ AotWorkers \in Nat \ {0} /\ AotWorkers <= Jobs

ASSUME RequestsAssumption ==
    /\ IsFiniteSet(Requests) /\ None \notin Requests /\ None \notin EntryType
    /\ Requests \cap {"pending", "resolved"} = {}
    /\ Shapes \subseteq ShapeType
    /\ AotUnit \in Nat \ {0}

VARIABLES
    status,         \* each caller's request: "idle", "queued" or "active"
    entry,          \* the queue entry of a queued or active request
    settled,        \* the last request's promise: pending, resolved, or its error
    queue,          \* queued requests, oldest first
    activeCount, activeWorkerSlots,
    activeAdmission,        \* activeAdmissionWorkingSetEstimateBytes
    activeWorkingSet,       \* activeWorkingSetEstimateBytes
    hasSchedulingFailure, schedulingFailure,
    backfilledHead, backfilledWorkerSlots,
    idleWaiters,
    loop,           \* "none", or the handler whose drain() is running
    ahead,          \* history: the request's place in the queue when it joined
    overtaken       \* history: worker slots admitted past the queued request

active == <<activeCount, activeWorkerSlots, activeAdmission, activeWorkingSet>>
failure == <<hasSchedulingFailure, schedulingFailure>>
backfill == <<backfilledHead, backfilledWorkerSlots>>
history == <<ahead, overtaken>>
vars == <<status, entry, settled, queue, active, failure, backfill,
          idleWaiters, loop, history>>

Least(a, b) == IF a <= b THEN a ELSE b
CeilDiv(a, b) == (a + b - 1) \div b

-----------------------------------------------------------------------------
(* Admission arithmetic.                                                   *)

EffectiveEstimate(shape) == IF shape.input = 0 THEN shape.stage ELSE shape.input

\* effectiveNativePhaseWorkerSlots: an input-sized AOT command takes one worker
\* per AotUnit of its estimate, at least one, at most what the caller asked for.
EffectiveWorkerSlots(shape) ==
    IF shape.input = 0 \/ ~shape.aot
    THEN shape.workerSlots
    ELSE Least(shape.workerSlots, CeilDiv(shape.input, AotUnit))

\* The worker-slot checks of run() that throw before anything is queued.
Accepted(shape) ==
    /\ shape.workerSlots <= Jobs
    /\ shape.aot => shape.workerSlots <= AotWorkers

\* Mutant: an estimate above the budget is charged as it is.
UnclampedAdmission(estimate) == estimate

\* An estimate larger than the budget is charged as the whole budget.
ClampedAdmission(estimate) == Least(estimate, MemoryMax)

EntryOf(shape) ==
    [slots     |-> EffectiveWorkerSlots(shape),
     admission |-> ClampedAdmission(EffectiveEstimate(shape)),
     estimate  |-> EffectiveEstimate(shape),
     closes    |-> shape.closes]


canAdmit(r) ==
    /\ activeWorkerSlots + entry[r].slots <= Jobs
    /\ activeAdmission + entry[r].admission <= MemoryMax

\* Mutant: every wave past a blocked head starts from nothing.
ForgottenCharge == 0

\* Worker slots already admitted past the present head of the queue.
ChargeOfHead ==
    IF backfilledHead = Head(queue) THEN backfilledWorkerSlots ELSE 0

\* The followers of a blocked head that fit in the rest of its wave.
BackfillIndices ==
    {i \in 2 .. Len(queue) :
        /\ entry[queue[i]].slots <= Jobs - 1 - ChargeOfHead
        /\ canAdmit(queue[i])}

-----------------------------------------------------------------------------
Init ==
    /\ status = [r \in Requests |-> "idle"]
    /\ entry = [r \in Requests |-> None]
    /\ settled = [r \in Requests |-> "pending"]
    /\ queue = <<>>
    /\ activeCount = 0 /\ activeWorkerSlots = 0
    /\ activeAdmission = 0 /\ activeWorkingSet = 0
    /\ hasSchedulingFailure = FALSE /\ schedulingFailure = None
    /\ backfilledHead = None /\ backfilledWorkerSlots = 0
    /\ idleWaiters = {}
    /\ loop = "none"
    /\ ahead = [r \in Requests |-> 0]
    /\ overtaken = [r \in Requests |-> 0]

\* run(): the request joins the queue and drain() begins.  A request that is
\* refused by Accepted throws and changes nothing.
Run(r, shape) ==
    /\ loop = "none" /\ status[r] = "idle"
    /\ Accepted(shape)
    /\ ~hasSchedulingFailure
    /\ status' = [status EXCEPT ![r] = "queued"]
    /\ entry' = [entry EXCEPT ![r] = EntryOf(shape)]
    /\ settled' = [settled EXCEPT ![r] = "pending"]
    /\ queue' = Append(queue, r)
    /\ loop' = "run"
    /\ ahead' = [ahead EXCEPT ![r] = Len(queue) + 1]
    /\ overtaken' = [overtaken EXCEPT ![r] = 0]
    /\ UNCHANGED <<active, failure, backfill, idleWaiters>>

\* run() after admission closed: the promise is rejected without queueing.
RunClosed(r) ==
    /\ loop = "none" /\ status[r] = "idle"
    /\ hasSchedulingFailure
    /\ settled' = [settled EXCEPT ![r] = schedulingFailure]
    /\ UNCHANGED <<status, entry, queue, active, failure, backfill,
                   idleWaiters, loop, history>>

\* One command leaves the queue and starts.
Admit(r) ==
    /\ status' = [status EXCEPT ![r] = "active"]
    /\ activeCount' = activeCount + 1
    /\ activeWorkerSlots' = activeWorkerSlots + entry[r].slots
    /\ activeAdmission' = activeAdmission + entry[r].admission
    /\ activeWorkingSet' = activeWorkingSet + entry[r].estimate
    /\ ahead' = [ahead EXCEPT ![r] = 0]
    /\ UNCHANGED <<entry, settled, failure, idleWaiters, loop>>

Draining == loop # "none" /\ ~hasSchedulingFailure /\ queue # <<>>

DrainHead ==
    /\ Draining
    /\ canAdmit(Head(queue))
    /\ Admit(Head(queue))
    /\ queue' = Tail(queue)
    /\ IF backfilledHead = Head(queue)
       THEN backfilledHead' = None /\ backfilledWorkerSlots' = 0
       ELSE UNCHANGED backfill
    /\ overtaken' = [overtaken EXCEPT ![Head(queue)] = 0]


\* The earliest follower that fits passes the blocked head and is charged to it.
\* The history counter saturates one above the bound that BoundedOvertaking sets.
BackfillAt(i) ==
    /\ Admit(queue[i])
    /\ queue' = RemoveAt(queue, i)
    /\ backfilledHead' = Head(queue)
    /\ backfilledWorkerSlots' = ChargeOfHead + entry[queue[i]].slots
    /\ overtaken' = [r \in Requests |->
          IF \E j \in 1 .. i - 1 : queue[j] = r
          THEN Least(overtaken[r] + entry[queue[i]].slots,
                     ahead[r] * (Jobs - 1) + 1)
          ELSE IF r = queue[i] THEN 0 ELSE overtaken[r]]

DrainBackfill ==
    /\ Draining
    /\ ~canAdmit(Head(queue))
    /\ \E i \in BackfillIndices :
          /\ \A j \in BackfillIndices : i <= j
          /\ BackfillAt(i)

\* Mutant: only an empty queue is looked at, running commands are not.
IdleWaitersAfterQueue(count, waiting) ==
    IF waiting = <<>> THEN {} ELSE idleWaiters

\* Mutant: the waiters are never resolved.
IdleWaitersForgotten(count, waiting) == idleWaiters

\* resolveIdleWaiters: the waiters left once `count' commands run and `waiting' queue.
IdleWaitersAfter(count, waiting) ==
    IF count = 0 /\ waiting = <<>> THEN {} ELSE idleWaiters

\* drain() returns; the settlement handler then resolves idle waiters.
DrainStop ==
    /\ loop # "none" /\ ~hasSchedulingFailure
    /\ queue # <<>> => ~canAdmit(Head(queue)) /\ BackfillIndices = {}
    /\ IF queue # <<>>
       THEN backfilledHead' = Head(queue) /\ backfilledWorkerSlots' = ChargeOfHead
       ELSE UNCHANGED backfill
    /\ idleWaiters' = IF loop = "finish" THEN IdleWaitersAfter(activeCount, queue)
                      ELSE idleWaiters
    /\ loop' = "none"
    /\ UNCHANGED <<status, entry, settled, queue, active, failure, history>>

\* drain() after admission closed: every queued request is rejected.
DrainReject ==
    /\ loop # "none" /\ hasSchedulingFailure
    /\ status' = [r \in Requests |-> IF status[r] = "queued" THEN "idle" ELSE status[r]]
    /\ settled' = [r \in Requests |->
                     IF status[r] = "queued" THEN schedulingFailure ELSE settled[r]]
    /\ entry' = [r \in Requests |-> IF status[r] = "queued" THEN None ELSE entry[r]]
    /\ queue' = <<>>
    /\ idleWaiters' = IdleWaitersAfter(activeCount, <<>>)
    /\ loop' = "none"
    /\ UNCHANGED <<active, failure, backfill, history>>

\* Mutant: the admission charge is returned from the unclamped estimate.
ReleaseEstimate(r) ==
    /\ status' = [status EXCEPT ![r] = "idle"]
    /\ activeCount' = activeCount - 1
    /\ activeWorkerSlots' = activeWorkerSlots - entry[r].slots
    /\ activeAdmission' = activeAdmission - entry[r].estimate
    /\ activeWorkingSet' = activeWorkingSet - entry[r].estimate
    /\ entry' = [entry EXCEPT ![r] = None]
    /\ loop' = "finish"
    /\ UNCHANGED <<queue, backfill, idleWaiters, history>>

\* A command settles: its share is returned, then drain() begins.
Release(r) ==
    /\ status' = [status EXCEPT ![r] = "idle"]
    /\ activeCount' = activeCount - 1
    /\ activeWorkerSlots' = activeWorkerSlots - entry[r].slots
    /\ activeAdmission' = activeAdmission - entry[r].admission
    /\ activeWorkingSet' = activeWorkingSet - entry[r].estimate
    /\ entry' = [entry EXCEPT ![r] = None]
    /\ loop' = "finish"
    /\ UNCHANGED <<queue, backfill, idleWaiters, history>>

Complete(r) ==
    /\ loop = "none" /\ status[r] = "active"
    /\ settled' = [settled EXCEPT ![r] = "resolved"]
    /\ UNCHANGED failure
    /\ Release(r)

\* Mutant: a later admission-closing failure replaces the first one.
FailLast(r) ==
    /\ loop = "none" /\ status[r] = "active"
    /\ settled' = [settled EXCEPT ![r] = r]
    /\ IF entry[r].closes
       THEN hasSchedulingFailure' = TRUE /\ schedulingFailure' = r
       ELSE UNCHANGED failure
    /\ Release(r)

\* The operation rejects, or its resource timing is not valid.
Fail(r) ==
    /\ loop = "none" /\ status[r] = "active"
    /\ settled' = [settled EXCEPT ![r] = r]
    /\ IF entry[r].closes /\ ~hasSchedulingFailure
       THEN hasSchedulingFailure' = TRUE /\ schedulingFailure' = r
       ELSE UNCHANGED failure
    /\ Release(r)

\* idle() while work is queued or active; otherwise it resolves at once.
Idle(w) ==
    /\ loop = "none"
    /\ activeCount # 0 \/ queue # <<>>
    /\ idleWaiters' = idleWaiters \cup {w}
    /\ UNCHANGED <<status, entry, settled, queue, active, failure, backfill,
                   loop, history>>

Drain == DrainHead \/ DrainBackfill \/ DrainStop \/ DrainReject

Next ==
    \/ \E r \in Requests, shape \in Shapes : Run(r, shape)
    \/ \E r \in Requests : RunClosed(r)
    \/ DrainHead
    \/ DrainBackfill
    \/ DrainStop
    \/ DrainReject
    \/ \E r \in Requests : Complete(r)
    \/ \E r \in Requests : Fail(r)
    \/ \E w \in Waiters : Idle(w)

Spec == Init /\ [][Next]_vars

(***************************************************************************)
(* A handler that began runs to completion, and an admitted command        *)
(* settles: it is a child process under a timeout.  Nothing obliges a      *)
(* caller to issue a request.                                              *)
(***************************************************************************)
FairSpec ==
    /\ Spec
    /\ WF_vars(Drain)
    /\ \A r \in Requests : WF_vars(Complete(r) \/ Fail(r))

-----------------------------------------------------------------------------
(* Properties.                                                             *)

Active == {r \in Requests : status[r] = "active"}
Queued == {r \in Requests : status[r] = "queued"}

\* One element per unit that the requests in R hold when r holds f[r] of n units:
\* its cardinality is the sum of f over R.
Units(R, n, f) == {u \in R \X (1 .. n) : u[2] <= f[u[1]]}

\* What the running commands hold, from their entries and not from the accumulators.
SlotsHeld == Cardinality(Units(Active, Jobs, [r \in Active |-> entry[r].slots]))
MemoryHeld ==
    Cardinality(Units(Active, MemoryMax, [r \in Active |-> entry[r].admission]))

\* Type invariant: every variable has its type, and the entry of every queued or
\* active request fits the launch policy.
TypeOK ==
    /\ status \in [Requests -> {"idle", "queued", "active"}]
    /\ entry \in [Requests -> EntryType \cup {None}]
    /\ \A r \in Requests : status[r] = "idle" <=> entry[r] = None
    /\ settled \in [Requests -> {"pending", "resolved"} \cup Requests]
    /\ queue \in Seq(Requests)
    /\ activeCount \in Nat /\ activeWorkerSlots \in Int
    /\ activeAdmission \in Int /\ activeWorkingSet \in Int
    /\ hasSchedulingFailure \in BOOLEAN
    /\ schedulingFailure \in Requests \cup {None}
    /\ hasSchedulingFailure <=> schedulingFailure # None
    /\ backfilledHead \in Requests \cup {None}
    /\ backfilledWorkerSlots \in Nat
    /\ idleWaiters \in SUBSET Waiters
    /\ loop \in {"none", "run", "finish"}
    /\ ahead \in [Requests -> Nat] /\ overtaken \in [Requests -> Nat]

\* The queue holds every queued request once and nothing else, whatever order
\* backfill removes entries in: no request is run twice and none is dropped.
QueueHoldsQueued ==
    /\ \A i \in 1 .. Len(queue) : queue[i] \in Queued
    /\ \A r \in Queued : \E i \in 1 .. Len(queue) : queue[i] = r
    /\ \A i, j \in 1 .. Len(queue) : queue[i] = queue[j] => i = j

\* The commands that are really running never hold more worker slots than jobs
\* or more admission memory than the aggregate budget, and the accumulators that
\* drain() and the settlement handler adjust agree with what is running.
BudgetRespected ==
    /\ activeCount = Cardinality(Active)
    /\ activeWorkerSlots = SlotsHeld
    /\ activeAdmission = MemoryHeld
    /\ activeWorkerSlots <= Jobs
    /\ activeAdmission <= MemoryMax

\* Between handlers a queue with work in it always has a command running, whose
\* settlement will drain it again: no request can be left behind for good, however
\* large its estimate.
QueueNeverStranded ==
    loop = "none" /\ queue # <<>> => Active # {}

\* Later requests pass a queued one only by the bounded waves granted to the heads
\* before it and to itself: at most Jobs - 1 worker slots for each place it had in
\* the queue when it joined.
BoundedOvertaking ==
    \A r \in Queued : overtaken[r] <= ahead[r] * (Jobs - 1)

\* The parts of the inductive invariant that the properties above leave out.  The
\* charge belongs to the present head, and fits one wave:
BackfillTracksHead ==
    /\ backfilledHead # None =>
         IF queue = <<>> THEN hasSchedulingFailure ELSE backfilledHead = Head(queue)
    /\ backfilledWorkerSlots <= Jobs - 1

\* each place gained since joining has cost a request at most one wave:
OvertakingByPlace ==
    \A i \in 1 .. Len(queue) :
        /\ i <= ahead[queue[i]]
        /\ overtaken[queue[i]] <= (ahead[queue[i]] - i) * (Jobs - 1) + ChargeOfHead

\* and the drain() of a run() finds admission open and work to look at.
RunLeavesWork ==
    loop = "run" => ~hasSchedulingFailure /\ (queue # <<>> \/ Active # {})

\* idle() waiters are not forgotten: when a handler leaves the scheduler with
\* nothing queued and nothing running, nobody waits.
NoForgottenIdleWaiter ==
    loop = "none" /\ Active = {} /\ Queued = {} => idleWaiters = {}

\* idle() waiters are not resolved early: a step that resolves one leaves nothing
\* queued and nothing running.
ResolvesWhenIdle ==
    ~(idleWaiters \subseteq idleWaiters') => Active' = {} /\ Queued' = {}
IdleMeansIdle == [][ResolvesWhenIdle]_vars

\* The first admission-closing failure is final: no command starts after it, its
\* error stays the reason, and every request that never ran is rejected with that
\* first error and not with a sibling's later one.
KeepsFirstFailure ==
    /\ hasSchedulingFailure =>
         /\ hasSchedulingFailure' /\ schedulingFailure' = schedulingFailure
         /\ Active' \subseteq Active
    /\ \A r \in Requests :
         status[r] # "active" /\ settled'[r] # settled[r]
           => settled'[r] \in {"pending", schedulingFailure}
FirstFailureCloses == [][KeepsFirstFailure]_vars

\* The inductive invariant.
IndInv ==
    /\ TypeOK /\ QueueHoldsQueued /\ BudgetRespected /\ QueueNeverStranded
    /\ BackfillTracksHead /\ OvertakingByPlace /\ RunLeavesWork
    /\ NoForgottenIdleWaiter

\* Every queued request is eventually admitted or rejected, even when other callers
\* keep issuing smaller requests for ever.
QueuedRequestsLeave ==
    \A r \in Requests : status[r] = "queued" ~> status[r] # "queued"

\* Once admission closed, idle() resolves: the active siblings drain.
IdleAfterFailure ==
    \A w \in Waiters :
        hasSchedulingFailure /\ w \in idleWaiters ~> w \notin idleWaiters

=============================================================================
