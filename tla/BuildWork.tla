----------------------------- MODULE BuildWork -----------------------------
(***************************************************************************)
(* Build-work leases and cache maintenance                                 *)
(* (scripts/lib/convex-wasm-cache-retention.mjs and                        *)
(* convex-wasm-cache-maintenance-schedule.mjs).  A build makes a work root *)
(* with a record of its lease, and completes or fails it; whatever builds  *)
(* leave behind is reclaimed by maintenance, which classifies every root,  *)
(* lets a sweep of the immutable cache run only when no work is            *)
(* unresolved, and keeps a receipt that defers automatic runs.             *)
(*                                                                         *)
(* Builds and maintenance hold the cache lock (CacheLock), taken as mutual *)
(* exclusion here.  Either may die or throw at any step, and the clock may *)
(* be set back.                                                            *)
(***************************************************************************)
EXTENDS Integers

CONSTANTS
    Builds, Policies,
    Maintenance,    \* who holds the lock when no build does
    None,
    Quiescent, AbandonedRecovery, FailedRecovery, CompletedRetention,
    Interval,       \* automaticCacheMaintenanceIntervalMs
    MaxTime,        \* bound: times are told apart in a window of this length
    MaxRollbacks,   \* bound: how often the clock is set back
    MaxFaults       \* bound: how often a maintenance run breaks off

ASSUME PeriodAssumption ==
    /\ {Quiescent, AbandonedRecovery, CompletedRetention} \subseteq Nat
    /\ {FailedRecovery, Interval} \subseteq Nat \ {0}
    /\ {MaxTime, MaxRollbacks, MaxFaults} \subseteq Nat
    /\ None \notin Builds \cup {Maintenance} /\ Maintenance \notin Builds

\* The window tells the recovery periods apart.
ASSUME WindowAssumption ==
    Quiescent + AbandonedRecovery <= MaxTime /\ FailedRecovery <= MaxTime

VARIABLES
    clock, rollbacks,
    lock,           \* None, a build or Maintenance
    phase,          \* builds: new, leasing, active, completed, ended
    lease,          \* the record a build believes its root to have
    root,           \* the record of each work root, or None; a root without a record is
                    \* "bare", and dated by its modification time
    fate,           \* how each build's work ended (history)
    receipt,        \* automatic-maintenance.json: None or [policy, completed]
    quarantine,     \* whether an interrupted sweep is pending
    above,          \* whether immutable occupancy is above the high watermark
    run,            \* the maintenance run: None or a record
    faults          \* maintenance runs that broke off (bounded)

vars == <<clock, rollbacks, lock, phase, lease, root, fate, receipt, quarantine, above,
          run, faults>>
time == <<clock, rollbacks>>
build == <<phase, lease>>
cache == <<receipt, quarantine, above>>

Times == 0..(MaxTime + AbandonedRecovery + FailedRecovery)
Statuses == {"bare", "torn", "active", "completed", "failed", "abandoned"}
Record == [status : Statuses, started : Times, updated : Times, until : Times \cup {None}]
Modes == {"plain", "explicit", "automatic"}
Run == [mode : Modes, policy : Policies \cup {None}, now : Times, due : BOOLEAN, pending : BOOLEAN,
        todo : SUBSET Builds, blocked : BOOLEAN, pc : {"inspect", "sweeping", "finish"}]

ASSUME NoneIsNothing == None \notin Record \cup Run \cup Times \cup {"interrupted", "failed"}

bareRoot(at) == [status |-> "bare", started |-> at, updated |-> at, until |-> None]
activeRecord(at) == [status |-> "active", started |-> at, updated |-> at, until |-> None]
completedRecord(r, at) == [r EXCEPT !.status = "completed", !.updated = at]
failedRecord(r, at) ==
    [r EXCEPT !.status = "failed", !.updated = at, !.until = at + FailedRecovery]
\* Mutant: the recovery period is counted from the start of the build.
abandonedSinceStart(r, at) ==
    [r EXCEPT !.status = "abandoned", !.updated = at, !.until = r.started + AbandonedRecovery]
abandonedRecord(r, at) ==
    [r EXCEPT !.status = "abandoned", !.updated = at, !.until = at + AbandonedRecovery]
\* A file that a crash left without its contents.
tornRecord == [activeRecord(0) EXCEPT !.status = "torn"]
\* Of an earlier version: a failed record without a deadline.
legacyFailed == [activeRecord(0) EXCEPT !.status = "failed"]

Init ==
    /\ clock = 0 /\ rollbacks \in 0..MaxRollbacks /\ lock = None
    /\ \E old, gone \in SUBSET Builds :
          /\ old \cap gone = {}
          /\ phase = [b \in Builds |-> IF b \in old \cup gone THEN "ended" ELSE "new"]
          /\ root = [b \in Builds |-> IF b \in old THEN legacyFailed ELSE None]
          /\ fate = [b \in Builds |-> IF b \in old THEN "failed" ELSE None]
    /\ lease = [b \in Builds |-> None]
    /\ receipt = None /\ quarantine = FALSE /\ above \in BOOLEAN
    /\ run = None /\ faults = 0

Tick ==
    /\ clock < MaxTime
    /\ clock' = clock + 1
    /\ UNCHANGED <<rollbacks, lock, build, root, fate, cache, run, faults>>

\* Time goes on beyond the window, which slides between the critical sections: what is older
\* than the window is as old as the window.  (Bound: the clock is set back only before that.)
Earlier(t) == IF t \in {None, 0} THEN t ELSE t - 1
Aged(record) ==
    IF record.updated < record.started THEN record
    ELSE [record EXCEPT !.started = Earlier(@), !.updated = Earlier(@), !.until = Earlier(@)]
Slide ==
    /\ clock = MaxTime /\ lock = None
    /\ root' = [b \in Builds |-> IF root[b] = None THEN None ELSE Aged(root[b])]
    /\ receipt' = IF receipt = None THEN None
                  ELSE [receipt EXCEPT !.completed = Earlier(@)]
    /\ rollbacks' = MaxRollbacks
    /\ UNCHANGED <<clock, lock, build, fate, quarantine, above, run, faults>>

SetBack ==
    /\ rollbacks < MaxRollbacks
    /\ rollbacks' = rollbacks + 1
    /\ \E t \in 0..clock : t < clock /\ clock' = t
    /\ UNCHANGED <<lock, build, root, fate, cache, run, faults>>

-----------------------------------------------------------------------------
(* Builds.                                                                 *)

EndBuild(b, how) ==
    /\ phase' = [phase EXCEPT ![b] = "ended"]
    /\ lock' = None
    /\ fate' = [fate EXCEPT ![b] = how]
    /\ lease' = [lease EXCEPT ![b] = None]

\* createConvexWasmBuildWorkLease: the directory, then the record.
Begin(b) ==
    /\ phase[b] = "new" /\ lock = None
    /\ lock' = b
    /\ phase' = [phase EXCEPT ![b] = "leasing"]
    /\ root' = [root EXCEPT ![b] = bareRoot(clock)]
    /\ UNCHANGED <<time, lease, fate, cache, run, faults>>

Lease(b) ==
    /\ phase[b] = "leasing"
    /\ lease' = [lease EXCEPT ![b] = activeRecord(clock)]
    /\ root' = [root EXCEPT ![b] = activeRecord(clock)]
    /\ phase' = [phase EXCEPT ![b] = "active"]
    /\ UNCHANGED <<time, lock, fate, cache, run, faults>>

\* transition: the record on disk must still be the lease's, and is replaced by a rename.
Transition(b, record) ==
    /\ root[b] = lease[b]
    /\ root' = [root EXCEPT ![b] = record]

Complete(b) ==
    /\ phase[b] = "active"
    /\ Transition(b, completedRecord(lease[b], clock))
    /\ lease' = [lease EXCEPT ![b] = root'[b]]
    /\ phase' = [phase EXCEPT ![b] = "completed"]
    /\ above' \in {above, TRUE}
    /\ UNCHANGED <<time, lock, fate, receipt, quarantine, run, faults>>

\* removeConvexWasmCacheTree: children go in any order, and an error or the end of the process
\* may leave the root with or without its record.
Removed(b) == root' = [root EXCEPT ![b] = None]
PartlyRemoved(b) == root' = [root EXCEPT ![b] = bareRoot(clock)]

\* The tree is removed, or an error leaves it: fail() then keeps the completed record.
Cleanup(b) ==
    /\ phase[b] = "completed"
    /\ \/ Removed(b) /\ EndBuild(b, "completed")
       \/ UNCHANGED root /\ EndBuild(b, "completed")
       \/ PartlyRemoved(b) /\ EndBuild(b, "discarded")
    /\ UNCHANGED <<time, cache, run, faults>>

FailLease(b) ==
    /\ phase[b] = "active"
    /\ Transition(b, failedRecord(lease[b], clock))
    /\ EndBuild(b, "failed")
    /\ UNCHANGED <<time, cache, run, faults>>

\* The process dies; while the record is first written, it may be torn.
CrashBuild(b) ==
    /\ \/ phase[b] = "active" /\ UNCHANGED root
       \/ /\ phase[b] = "leasing"
          /\ root' \in {root, [root EXCEPT ![b] = tornRecord]}
    /\ EndBuild(b, "interrupted")
    /\ UNCHANGED <<time, cache, run, faults>>

-----------------------------------------------------------------------------
(* inspectWorkRoot: what is done with one root at time `now`.  `status` is *)
(* what the report says of the root as it was found.                       *)

Verdict(action, status, record) == [action |-> action, status |-> status, record |-> record]

Unreadable(record) == record.status = "torn" \/ record.updated < record.started

\* Mutant: work is removed as soon as it is found abandoned.
InspectActiveOnce(record, now) ==
    IF now - record.updated < Quiescent THEN Verdict("retain", "active", record)
    ELSE Verdict("remove", "active", record)
InspectActive(record, now) ==
    IF now - record.updated < Quiescent THEN Verdict("retain", "active", record)
    ELSE Verdict("mark-abandoned", "active", abandonedRecord(record, now))

\* Mutant: a root that was never recorded is taken for one at work.
InspectBareAsActive(record, now) == Verdict("retain", "legacy", record)
InspectBare(record, now) ==
    IF record.updated > now \/ now - record.updated < Quiescent
    THEN Verdict("retain", "legacy", record)
    ELSE Verdict("mark-abandoned", "legacy", abandonedRecord(record, now))

Inspect(record, now) ==
    IF record.status = "bare" THEN InspectBare(record, now)
    ELSE IF Unreadable(record) THEN Verdict("retain", "invalid", record)
    ELSE IF record.updated > now THEN Verdict("retain", "invalid", record)
    ELSE IF record.status = "failed" /\ record.until = None
    THEN Verdict("set-deadline", "failed",
                 [record EXCEPT !.until = record.updated + FailedRecovery])
    ELSE IF record.status = "active" THEN InspectActive(record, now)
    ELSE IF \/ record.status = "completed" /\ now - record.updated < CompletedRetention
            \/ record.status # "completed" /\ now < record.until
    THEN Verdict("retain", record.status, record)
    ELSE Verdict("remove", record.status, record)

\* A root that keeps a sweep from running.
\* Mutant: a root that has just been marked does not.
BlocksRetained(v) == v.action = "retain" /\ v.status \notin {"failed", "completed"}
Blocks(v) == v.action # "remove" /\ v.status \notin {"failed", "completed"}

-----------------------------------------------------------------------------
(* Maintenance.                                                            *)

\* readAutomaticCacheMaintenanceSchedule
Due(policy, now) ==
    receipt # None =>
        (receipt.policy # policy \/ now < receipt.completed
         \/ now - receipt.completed >= Interval)

EndRun == lock' = None /\ run' = None

\* The lock is acquired, the run is dated, and the pending quarantine and the receipt are read.
\* A deferred run without a quarantine to recover ends there.
Start(mode, policy) ==
    LET due == mode = "automatic" => Due(policy, clock)
        pending == mode = "automatic" /\ quarantine
    IN /\ run = None /\ lock = None
       /\ due \/ pending
       /\ lock' = Maintenance
       /\ run' = [mode |-> mode, policy |-> policy, now |-> clock, due |-> due,
                  pending |-> pending, todo |-> {b \in Builds : root[b] # None},
                  blocked |-> FALSE, pc |-> "inspect"]
       /\ UNCHANGED <<time, build, root, fate, cache, faults>>

InspectRoot(b) ==
    /\ run # None /\ run.pc = "inspect" /\ b \in run.todo
    /\ LET v == Inspect(root[b], run.now) IN
          /\ IF v.action = "remove" THEN Removed(b)
             ELSE root' = [root EXCEPT ![b] = v.record]
          /\ run' = [run EXCEPT !.todo = @ \ {b}, !.blocked = @ \/ Blocks(v)]
    /\ UNCHANGED <<time, lock, build, fate, cache, faults>>

Fault == faults < MaxFaults /\ faults' = faults + 1

\* The run throws or its process dies; a removal or a first record may be half done.
BreakOff ==
    /\ run # None /\ Fault
    /\ \/ UNCHANGED <<root, fate>>
       \/ \E b \in run.todo :
             LET v == Inspect(root[b], run.now) IN
             /\ run.pc = "inspect"
             /\ \/ /\ v.action = "remove" /\ PartlyRemoved(b)
                   /\ fate' = [fate EXCEPT ![b] = "discarded"]
                \/ /\ v.action = "mark-abandoned" /\ root[b].status = "bare"
                   /\ root' = [root EXCEPT ![b] = tornRecord] /\ UNCHANGED fate
    /\ EndRun
    /\ UNCHANGED <<time, build, cache>>

\* Whether the run wants a sweep, which is made when nothing blocks it.
Requested == run.mode = "explicit" \/ run.pending
             \/ (run.mode = "automatic" /\ run.due /\ above)
RecoveryOnly == run.mode = "automatic" /\ ~run.due

Decide ==
    /\ run # None /\ run.pc = "inspect" /\ run.todo = {}
    /\ run' = [run EXCEPT !.pc = IF Requested /\ ~run.blocked THEN "sweeping" ELSE "finish"]
    /\ UNCHANGED <<time, lock, build, root, fate, cache, faults>>

\* The sweep, or in the cooldown the recovery of the quarantine alone.
Sweep ==
    /\ run # None /\ run.pc = "sweeping"
    /\ \/ /\ quarantine' = FALSE
          /\ IF RecoveryOnly THEN UNCHANGED above ELSE above' \in {above, FALSE}
          /\ run' = [run EXCEPT !.pc = "finish"] /\ UNCHANGED <<lock, faults>>
       \/ quarantine' = TRUE /\ EndRun /\ Fault /\ UNCHANGED above
    /\ UNCHANGED <<time, build, root, fate, receipt>>

Served == run.mode = "automatic" /\ run.due /\ ~(Requested /\ run.blocked)

Finish ==
    /\ run # None /\ run.pc = "finish"
    /\ receipt' = IF Served THEN [policy |-> run.policy, completed |-> clock] ELSE receipt
    /\ EndRun
    /\ UNCHANGED <<time, build, root, fate, quarantine, above, faults>>

-----------------------------------------------------------------------------
BuildStep(b) == Lease(b) \/ Complete(b) \/ Cleanup(b) \/ FailLease(b) \/ CrashBuild(b)

Starts ==
    \/ Start("plain", None) \/ Start("explicit", None)
    \/ \E policy \in Policies : Start("automatic", policy)

Work ==
    \/ Starts \/ BreakOff \/ Decide \/ Sweep \/ Finish
    \/ \E b \in Builds : BuildStep(b) \/ InspectRoot(b)

Next ==
    \/ Tick \/ Slide \/ SetBack
    \/ \E b \in Builds : Begin(b)
    \/ Work

Spec == Init /\ [][Next]_vars

(***************************************************************************)
(* Fairness: time passes, a build that has begun and a maintenance run go  *)
(* on, and somebody runs maintenance again and again.  What a run tries    *)
(* does not fail for ever: MaxFaults bounds how often.                     *)
(***************************************************************************)
Fairness == SF_vars(Tick \/ Slide) /\ WF_vars(Work)

-----------------------------------------------------------------------------
(* Properties.                                                             *)

TypeOK ==
    /\ clock \in 0..MaxTime /\ rollbacks \in 0..MaxRollbacks
    /\ lock \in Builds \cup {None, Maintenance}
    /\ phase \in [Builds -> {"new", "leasing", "active", "completed", "ended"}]
    /\ lease \in [Builds -> Record \cup {None}]
    /\ \A b \in Builds :
          root[b] \in Record \cup {None}
    /\ receipt = None \/ (receipt.policy \in Policies /\ receipt.completed \in 0..MaxTime)
    /\ quarantine \in BOOLEAN /\ above \in BOOLEAN
    /\ run \in Run \cup {None} /\ (lock = Maintenance <=> run # None)
    /\ faults \in 0..MaxFaults

\* Nobody touches the record of a build that is at work: when it completes or fails its lease
\* it finds the record that it wrote, however old that record looks to maintenance.
LeaseUndisturbed ==
    \A b \in Builds : phase[b] \in {"active", "completed"} =>
        root[b] = lease[b]

\* An immutable sweep runs only when all work that is left was concluded by its build: no
\* interrupted, unreadable or future record, marked in this very run or not, is on disk.
SweepOnlyOverConcludedWork ==
    run # None /\ run.pc = "sweeping" =>
        \A b \in Builds : root[b] # None =>
            root[b].status \in {"failed", "completed"}

Marks(b) == /\ run # None /\ root[b] # None /\ root'[b] # None
            /\ root[b].status # "abandoned" /\ root'[b].status = "abandoned"
Removes(b) == run # None /\ root[b] # None /\ root'[b] = None

MarkedInTime(b) ==
    /\ phase[b] = "ended" /\ run.now >= root[b].updated + Quiescent
    /\ root'[b].updated = run.now
RecoveryIsOver(b) ==
    /\ phase[b] = "ended"
    /\ fate[b] = "interrupted" => root[b].status = "abandoned"
    /\ root[b].status = "abandoned" =>
          run.now >= root[b].until /\ run.now >= root[b].updated + AbandonedRecovery
    /\ fate[b] = "failed" => run.now >= root[b].updated + FailedRecovery

\* Work is kept for its whole recovery time, counted by the clock that maintenance reads.  An
\* interrupted build is left alone while it may still be at work, then a run marks it, and it
\* goes only in a run to which the deadline of the mark has passed, a full recovery period
\* after the run that marked it: however late that one noticed, and whatever broke off since.
WorkKeptForRecovery ==
    [][\A b \in Builds :
          (Marks(b) => MarkedInTime(b)) /\ (Removes(b) => RecoveryIsOver(b))]_vars

\* What a build leaves behind is reclaimed, but for a record that cannot be read: one that
\* was torn, or that a clock set back during the build dates before its start.
WorkReclaimed ==
    \A b \in Builds : phase[b] = "ended" ~> root[b] = None \/ Unreadable(root[b])

=============================================================================
