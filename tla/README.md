# Verification of the Convex Wasm compiler's build coordination

The repository turns the functions of a Convex project into precompiled Wasm
modules. A build is a JavaScript program (`src/scripts/lib/*.mjs`) that plans
the work, starts native commands (a Rust compiler, Static Hermes, linkers, an
AOT precompiler), keeps their outputs in a content-addressed cache that all
checkouts of a host share, and publishes a runtime registry. What this project
verifies is the coordination of all that: who may run, who waits for whom, who
may touch the cache, and what callers are told when something fails. The
transformations themselves (lowering, context-reuse analysis, code generation)
are outside its scope.

Paths below are relative to `src/scripts/lib/` unless they begin with `src/`.

## 1. Inventory

| Component | State | Operations | What is hard |
|---|---|---|---|
| Native-phase scheduler, `convex-wasm-native-launch-scheduling.mjs` | queue, running totals (count, worker slots, memory), backfill charge, first failure, idle waiters | `run`, `drain`, settlement of a command, `idle` | a bounded wave may pass a blocked head; estimates above the budget; several failures; waiters |
| Cache lock, `convex-wasm-cache-lock.mjs` | a SQLite write transaction, a table of authority records, a token in the environment of each process | acquire, nested acquire, require authority, release | statements of several processes interleave; owners crash; process ids and rowids are reused |
| Artifact stage, `convex-wasm-artifact-stage.mjs` | map of flights, one-use miss tokens | ensure (ordinary, speculative, after an observed miss), the producer, the reactions of waiting calls | callers with different limits share a flight; retries in reactions; publication races |
| Cache entries, `convex-wasm-artifact-cache-entry.mjs` | immutable directories; per-build validation memo | publish, validate, validate in a scope | rename race; hard links added while a digest is computed |
| Build-work leases and retention, `convex-wasm-cache-retention*.mjs`, `src/scripts/maintain-convex-wasm-cache.mjs` | lease records, recent-success snapshots, sweep journal | lease, complete, fail, maintain, sweep | crash during a sweep; abandoned leases; entries still in use |
| Maintenance schedule, `convex-wasm-cache-maintenance-schedule.mjs` | one receipt file | read (due or deferred), complete | clock rollback, policy change, crash before the receipt |
| Registry publication, `runtime-registry-publication.mjs` | a staged directory tree | publish | crash between copy, sync and rename |
| Native package acquisition, `convex-wasm-native-package-acquisition.mjs` | package directory, scratch | acquire | two checkouts install one package; cancellation at every await |
| Capsule worker pool, `convex-wasm-cohort-capsule-worker.mjs` | workers, queued and pending tasks, pool failure | probe, worker messages, errors and exits, close | a worker fails while its answer is being restored |
| Bounded native command, `bounded-native-command.mjs` | one child process, timers, output | run | timeout, cancellation, output limit and exit race |
| Material session, `convex-wasm-artifact-pipeline.mjs` | stage of finalization, promises of base support, base artifacts and AOT readiness, flights of the header snapshot, the deployment's token, ownership of reports | create, compile, preactivate, adopt a token, finalize, claim the reports of shared phases | work outlives the compilation that started it; checks before an await; retries in reactions; three places of the scratch |
| Maps over a shared scheduler, `convex-wasm-artifact-pipeline.mjs` | queue and count of a bounded scheduler; cursor, failures and workers of each map | `run`, `idle`, `mapWithScheduler` | a failure must be recorded before the queue moves on, and must not stop other maps |
| Physical shard planner, `convex-wasm-physical-shard-planner.mjs` | none that outlives a call | plan | cycles, and a quotient graph that merges change and never rebuild |
| Source-authority and snapshot caches | content-addressed files | read, validate, publish | as for cache entries |
| Cohort schedule | none | pure planning | algorithmic |
| Rest of the artifact pipeline, module graph build and package | wiring of the above | per-function and per-unit stages | its shared state is in the components above |

How they interact. A build process acquires the cache lock and hands its token
to the processes that it starts. Inside the process, pipeline code asks
artifact stages for entries; a stage that has to build one runs native commands
through the scheduler (`run`), each a bounded native command, and publishes the
result as a cache entry. Nested processes of the same lock owner use the same
cache. Maintenance takes the same lock, so entries are not removed while
a build runs. The compilations of a build share a material session, which keeps
what they have in common and is finalized at the end; a graph build may take
over its reports. The registry is published from validated entries.

What makes each component correct, in the order of the plan: the scheduler
keeps to the budget, starves nobody and reports the first failure; an inherited
authority is honoured only under the lock; an entry is produced by one flight
at a time, published once, and every caller is answered by its own limits;
a sweep removes nothing that a lease or a recent success refers to, and resumes
after a crash; the registry appears completely or not at all; a pool or a
command settles exactly once and always ends; the scratch of a session outlives
its work, and each phase has one report; a shard plan has no cycle and puts
every component where the policy says.

The hazards behind these properties are listed with their lines in
`PROJECT.json`.

## 2. Plan

Done, in this order: `NativePhaseScheduler`; `CacheLock`; `ArtifactStage` with
the abstract `ImmutableEntry`; `CacheEntryValidation`; `CapsuleWorkerPool` and
`BoundedCommand`; `BuildWork`, `ImmutableRetention` and `SweepQuarantine` for
retention; `RegistryPublication` and `PackageAcquisition` with the abstract
`AtomicPublication`, side by side in `Publications`; `MaterialSession` and
`OrchestratedMap` for the pipeline; `PhysicalShardPlanner`. Each has an MC module,
alone or with a part of the same kind, and all but `PhysicalShardPlanner` have
theorems.

To follow:

1. an abstract lock (one owner and the processes it lets in) that undisturbed
   owners of `CacheLock` implement;
2. the control stage that is built from another stage's material
   (`ensureArtifactControlStageFromMaterial`);
3. the per-function and per-unit stages of the pipeline, and the source-authority
   and snapshot caches;
4. the cohort schedule against a reference definition.

## 3. Modules

A definition's lines are in the `map` of `PROJECT.json`. A definition whose
comment begins with "Mutant:" is a plausible wrong version of the one that
follows it; nothing uses it in the specification.

### NativePhaseScheduler

One action for every handler, split where the code loops. `Run` enqueues;
`Complete` and `Fail` return a command's share (`Release`); each sets `loop`,
which says that `drain()` is on the stack, and until it is "none" again only the
iterations of the loop can happen: `DrainHead`, `DrainBackfill`, `DrainStop`,
`DrainReject`. JavaScript runs handlers to completion, so nothing else
interleaves with them. `BackfillAt` takes the earliest follower that fits, as
`findIndex` does, and charges it to the head. A member of `Requests` is a
caller that issues requests again and again. `ahead` and `overtaken` are history
variables for `BoundedOvertaking`; `overtaken` saturates one above the bound, so
the state space is finite and a violation is still seen.

Bytes are counted in a small memory unit. Left out: statistics, critical-path
intervals and reports; `run()` calls that throw before they queue anything; an
operation that throws before its first await (the settlement then still happens
in a microtask of its own); `idle()` that resolves at once.

### CacheLock

Every SQLite statement and every look at `/proc` is an action, because other
processes run in between. A process is a process id and the start identity of
its incarnation. `Lookup` and `Observe` are the two halves of
`liveInheritedAuthorityOwnerPid`; `Select`, `Filter`, `Prune`, `Insert`, `Begin`
those of `acquireConvexWasmCacheLock`; `Revoke` and `Unlock` those of `release`.
`BeginError` covers a database that cannot be opened and a BEGIN that fails for
good, including a removal of the record that fails as well.

External, from how the code uses it: processes start, inherit an environment,
exit and crash at any step (the kernel drops the transaction, the record stays),
and SQLite gives a new row the largest rowid plus one (the table has a TEXT
primary key and no AUTOINCREMENT). `disturbed` is a history variable: a process
died, or released or exited before its children were gone, which the callers of
the lock in this repository do not do when nothing goes wrong. `NestedUnderLock`
is about owners that are not disturbed, `AuthorityMeansLock` about all.

Left out: the checks on the database file, the migration of PID-only records, an
identity that cannot be read (`inaccessible`: the nested check then fails and
pruning keeps the record), and macOS' one-second resolution of start times.

### ArtifactStage and ImmutableEntry

One stage and one content key. `Ensure`, `Observe` and `EnsureAfterMiss` are the
entry points; `Enter` joins the current flight or becomes its producer. The
producer goes through `Validate`, `Hit` or `Build`, `Prerequisite`, `Publish`,
`Winner` (the loser of the rename race) and `Cleanup`; any of them may fail
(`Reject`). When a flight settles, its reactions run in the order in which they
were registered: `Clear` (clearFlight), then the waiting calls one after the
other, `Deliver` or `Retry`. `Verdict` is what a settled flight means to one
call. A producer never retries (`ProducesOnce`, which is checked and proved), so
a flight is named by its producer.

An artifact is represented by its size, which stands for its bytes: two builds
with different sizes are the case "different bytes for the same identity". All
callers of a key share one prerequisite, as in the pipeline, where the key
determines it. External: the prerequisite settles either way, and a nested
process may publish the same key at any time. Validation is one step; the one
case in which it answers from an earlier point in time (a pending validation of
an observed miss that is shared) is `ValidateSharedMiss`.

`ImmutableEntry` is what a caller may rely on, without flights: an entry appears
once and never changes, and a call ends once, with that entry within its limit,
refused by its limit, or failed.

Left out: `ensureArtifactControlStageFromMaterial`; the copies of read buffers
that protect callers from each other; tokens used with other options (the token
is used up and the call throws); removal of entries, which the lock excludes.

### CacheEntryValidation

One entry and one validation scope of a build. `Call` and `Captured` begin an
attempt with a read of the payload's physical state, which concurrent callers
share while it is in flight (`FlightObserve`, `FlightSettle`); `Validated` and
`Stable` decide whether the authentication that the memo returned is of the
bytes that are there now, `Again` whether another attempt is left, and `Return`,
`Fits` what the caller gets. The authentication itself is `ValLook`, `ValAdmit`
(the admission that a publication of this build left), `ValHash`, `ValHashed` and
`ValVerify`, and `Fail` takes a failed one out of the memo.

A payload is its ctime, mtime, link count and whether its bytes are the right
ones. `Link` is a build that adds or removes a hard link, which changes ctime and
the link count; `Rewrite` is anybody who writes, after which mtime is restored or
not. A rewrite with a restored mtime changes ctime and not the link count; that
no link is added in the same interval is an assumption, since the code compares
exactly these and cannot tell the two apart. Callbacks run before other
completions (`Quiet`). Digests of states that are gone are dropped, since a ctime
does not come again. `MaxValidations` bounds the authentications that somebody
still refers to; within the other bounds it is never reached.

`GivesUpOnlyUnderChurn` counts changes against attempts. The first attempt may fail
for what changed before the call, since it joins an old read, and an attempt for
what made the one before it fail, since it joins a read that looked before that
change. So, unless somebody rewrote the payload, a call that used up its attempts saw
two changes for every pair of them; two for every attempt would not be true.

### CapsuleWorkerPool

`Probe`, `NotPresent` and `Present` are the probe and its presence check;
`assign`, `Finish` and `rejectPool` are the functions of these names; `Receive`,
`Restored` and `Restore` handle a worker's answer around the awaited restoration
in the parent; `ErrorEvent` and `ExitEvent` are the two handlers of a worker's
end; `Close`, `Stop`, `Terminate` and `Closed` are the steps of `close`. A worker
answers (`Reply`) or ends (`Die`) at any time. Left out: a `terminate()` that
rejects, and messageerror events.

### BoundedCommand

`Start` to `Close` are the handlers of one command, `Report` what the runner makes
of its result. The process group is a child and descendants that inherited its
output; it writes (`Write`) and its members end (`End`) when they get a signal they
do not ignore. Assumed: descendants stay in the group, and no member ends unless
it is signalled or finishes its own work. A write is refused as a whole when it
passes the limit, as in the code. A settled command leaves nothing behind
(`NothingLeft`): no member of its group and no armed timer.

### RegistryPublication, PackageAcquisition and AtomicPublication

`RegistryPublication` is a list of file-system calls (`Program`), built as the
code builds it from the graphs, and a process that makes one after the other; a
call may fail (`Error`), a copied file may differ from its record, graphs may
disagree, a path may exist (`Exclusive`: a graph that is listed twice has its
package copied twice, which `mkdir` refuses) and a second publisher may have the
name already (`Refused`). `PowerFailure` keeps of every
directory and file what was synced and any part of the rest (`OnDisk`). In
`PackageAcquisition` the actions are the stretches between two awaits; `Abort`
may come at any of them and `Crash` ends the process. The package is not synced,
so nothing is claimed of it after a power failure.

Clean-up may fail as well. The removal of the stage
(`runtime-registry-publication.mjs:347`) or of the scratch
(`convex-wasm-native-package-acquisition.mjs:192`) may reject, and the chmod of the
stage (`:270`) comes before the try block; the call then fails and leaves its
private directory beside the target. Such a call is `littered`, where `failed` is one
that left nothing, and `OutcomeIsFinal` and `NoScratchLeft` claim clean directories
of the latter only. What they rule out is that litter comes from anything else: from
an earlier failure, an interrupt, a lost rename or a success. `stages` are the stages
that are beside the target; their contents are not followed once they are given up,
since nobody reads them. A removed stage may be back after a power failure, because
nothing syncs the parent directory after the removal.

`AtomicPublication` is what both promise: the name is given once, to something
whole, and a caller that is told of success was told the truth. Both modules
implement it (`ImplementsPublication`). A caller told of a failure may still have
published: the sync of the parent directory may fail after the rename, and a
cancellation may come during it. `Publications` puts both side by side, with their
steps in any order; its properties are those of both.

### BuildWork

Leases of builds, their records and work roots; the maintenance run that inspects
every root (`InspectRoot`, with `Inspect` as the decision table), decides
(`Decide`) whether to sweep the immutable entries (`Sweep`), and writes the
receipt of the schedule (`Finish`). `BreakOff` is a maintenance that fails or dies
half-way. `WorkKeptForRecovery` follows interrupted work through the runs: it is
marked only when it has been quiet long enough, the mark is dated by the run that
makes it, and a removal needs the mark of an earlier run, the deadline in it, and a
whole period since the mark. So work that is noticed late is still kept for all of
its recovery period. A transition of a lease writes a record and may be torn by a crash
(`tornRecord`); a removal may be partial (`PartlyRemoved`).

Only differences of times matter, so the clock is kept in a window: `Tick`
advances it up to `MaxTime`, and `Slide` moves all times back by one when the
clock is at its end. Times at 0 stay there: they are older than every period,
because each fits the window (`WindowAssumption`).
`SetBack` is a clock that is set back, at most `MaxRollbacks` times and before the
window slides.

### ImmutableRetention

What a wave of the sweep may remove. An object is a cache entry with a kind, what
it cannot be read without (`Refs`; `RefersTo` is the table of kinds: certificates
refer to packages, packages and records to artifacts and bundles, a topology to its
record, a capsule to both) and a payload that it may share. A bundle names layout
entries, which may be missing. `Roots` are the entries of recent successes and
those used recently; `Kept` and `Candidates` are the plan's two sides with
`Pinned`, what an authority that nobody asked to remove still refers to; `IsPlan`
is the order in which candidates go until the estimate is below the watermark;
`NextWave` and `EndRun` are the loop. `Age` makes an entry old, `Corrupt` damages
one. Sizes are one unit per payload.

What older clean-ups left behind is a state that the code expects: certificates
without their packages, and topologies and capsules without what they refer to
(`MayLack`, `Orphaned`). These keep nothing and may go; a capsule that cannot be
read for another reason ends the run (`CollectFails`).

### SweepQuarantine

One wave: for each entry a marker is linked and synced, the tree renamed into the
quarantine, both directories synced, the tree compared with the plan, a verified
marker linked and synced; then each tree is unlinked, its markers dropped, and
the directories removed. `Scan`, `CompareNext`, `RefuseChanged` and `Admit` are
the recovery that every maintenance begins with. Every call that changes a
directory is an action, so a death (`Die`) or a power loss (`PowerLoss`) may come
between any two. After a power loss a directory contains what was synced and any
part of what was not. A rename is one change, which is undone or not: `kept` has
the places where a power loss may leave a tree, and it cannot come back under its
old name once the directory that it left is synced (`SyncSource`, and `Settled`
for the plan's directory). `Publish` is a build that publishes a key, with a
payload of its own or linked from an entry that shares it; `Alter` somebody who
changes a tree. `MaxDeaths`, `MaxPowerLosses`, `MaxAlterations` and `MaxLinks`
bound the faults of a run.

### MaterialSession

`Create` to `Undo` are the construction of a session and what it does when a
step of it fails; `Start` and `Return` a compilation; `StartSupport`,
`SupportFromToken`, `StartBase`, `Proceed` and `SettleWork` the work that
compilations start and leave behind; `EnsureSnapshot` and `SettleSnapshot` the
header snapshot with the retry of an ordinary consumer. `Finalize` to
`RemoveScratch` are the awaits of finalization in their order, on both the good
and the failing path; `ClaimStart` and `Claim` a graph build that takes over the
reports. `SettleObjects` to `Adopt` are the deployment's token, which is ahead of
the session and may be revoked at any time. `EndedSessionIsQuiet` says of an ended
session, failed or not, that no compilation is active, that its shared work and the
header-snapshot flight it awaited have settled, and that a claimed token is revoked
and its scratch gone; that no other flight goes on is claimed of a success only,
because after a failure a retry may (`snapshot_retry`).

Abstracted: all work of one kind is one promise; a piece of work ends well or
not. The engine probe of a token is seen only where the scratch of the token is
removed. Left out: the waits for idle schedulers in finalization (a scheduler is
idle between two commands of one piece of work too, so the end of the work does
not follow from them), and the retained archive, which is a file operation.

### OrchestratedMap

A bounded scheduler (admission, `idle`) and the calls of `mapWithScheduler` over it.
A worker of a map is the item it awaits. Reactions of different promises may run
between two of one promise, so a failed callback, the settlement in the
scheduler and the worker's reaction are three steps.

### PhysicalShardPlanner

The strongly connected components, eligibility, the placement of each component
with the quotient that merges keep up (`quotient`), and the final order are
operators that follow the code. `BuildComponents` finds and validates the
components, `Place` places one of them, `Finish` computes the order and checks the
plan. Identities and fingerprints, which are hashes, are reduced to
an order: a unit is a number and a component comes where its least unit does. No
two units have a binding in common. Left out: sums above the safe integers, checks
of identities, and units that depend on themselves. The references are
`Reached` (mutual reachability for components) and the quotient that a rebuild
from the placement gives. Every unit of the
instance may be shared (`shareable`): a component with one that may not is no
`Candidate`, as one with too few cohorts, and the two are treated alike.

### Compositions

`MCProcesses` (worker pool, command), `MCPublication` (registry, package),
`MCSweep` (what a wave takes, how it takes it) and `MCPipeline` (session, maps,
and a stage for its liveness) each check parts that share no state. A behaviour
is of one `subject`; the others stay in one of their initial states, so that
their steps are not interleaved for nothing. (The theorems about `Publications`
are about all interleavings.) The interactions that do matter are
in the modules: a session with the deployment and graph builds, a sweep with
builds and recoveries, a stage with nested processes and its prerequisite.

## 4. Runs

| Run | Shows | Bounds and why they are enough |
|---|---|---|
| `scheduler_safety` | budget, queue, overtaking, idle waiters, first failure; no starvation, `idle()` after a failure | 4 callers that never stop, 3 jobs, 4 units of memory: a blocked head with followers and a running command, a wave of two slots, an estimate above the budget, two failures in flight |
| `lock_safety` | `AuthorityMeansLock`, `NestedUnderLock` | 3 ids with 2 incarnations each, 2 acquisitions, crashes anywhere: an owner, its orphan, and a third process or the recycled id |
| `lock_prune_race` (violation) | `HolderRecorded` fails | 2 ids, 3 acquisitions: the fewest that show it, see the findings |
| `stage_safety` | coalescing, what each caller is told, refinement of `ImmutableEntry` | 3 calls, 2 read modes, limits and sizes 1 and 2: two flights at once, chains of two retries, a limit met exactly, a lost race |
| `processes` | each probe is answered once, by a worker that did not fail; what a command reports; nothing after the end; everything ends | 3 probes on the 2 workers of 3 jobs: both busy and one queued; a child and one descendant, chunks of 1 and 2, a limit of 3 that is met exactly or passed, 4 chunks |
| `publication` | whole or not at all, once; what is left beside the target and by whom; interrupted callers | 2 publishers, 3 lists of graphs (one graph twice, a shared artifact, two graphs that disagree), a power failure between any two calls; 3 checkouts of one package |
| `work` | leases, recovery period, sweeps; work is removed in the end | 2 builds, or 1 and one rollback, 2 faults; every period is 1, the interval of the schedule 2 |
| `sweep` | nothing partial is published, changed trees are kept, a quarantine drains; what a wave may take | 2 entries that share a payload, 2 deaths, 1 power loss, 1 alteration, 1 link: a recovery that dies and is recovered, with a power loss anywhere; 2 graphs of objects with one shared artifact, one shared payload and a watermark of 2 |
| `shard_plan` | cycles stay atomic, the quotient is right, no merge closes a cycle, placement follows the policy | all acyclic graphs of 4 units with weights below, at and above the target or with one unit's cohorts apart; all cyclic ones with one weight: chains, diamonds, a path through a third shard, a shard of three components |
| `entry_validation` | what reused digests, shared reads and memoized misses may tell | 2 callers, 3 attempts, 2 changes, 2 links: one caller joins the read or the authentication of the other, with a change before and after |
| `pipeline` | scratch outlives work, ended sessions are quiet, phases are reported once; no start after a failure; everything ends | a compilation, a warm-up and a graph build; 2 maps of 3 values over 2 places: an item queued behind each map's failure; 2 calls of a stage: chains of failed speculation and stricter limits |
| `snapshot_retry` (violation) | `EveryFlightDrained` fails | the same session, see the findings |

The planner's placement depends on comparisons of a weight with the target and
on paths between components; four units are the fewest for which a shard with
several components has a path through another shard to a third. The code makes
up to 4 validation attempts; three have a first one, one between and a last one.
`MaxValidations` is never reached.

Symmetry is used only in the lock, stage, publication and entry-validation runs,
which check no liveness. Only the scheduler run checks deadlock: in the others a
bounded number of acquisitions, calls, probes, placements or faults comes to an
end, and that is the end of the run.

Fairness. In the scheduler a handler that began ends (`drain()` has no await),
and a command that was admitted settles: it is a child process under a timeout
with SIGKILL at the end (`bounded-native-command.mjs`). Callers need not issue
requests. In `processes` a worker answers or ends, its events are delivered, and
restorations and presence checks, which are file operations, end; in a command
the timers fire and a process that is sent SIGKILL ends, and nothing obliges it
to end before. In `work` time passes, and maintenance is not passed over or
broken off for ever (`Fairness` of `BuildWork`); no build is obliged to do
anything. In `sweep` maintenance is started again and a run that is not
interrupted makes its next call; the faults are bounded. In `pipeline` work of a
session, callbacks of a map and flights of a stage settle, being bounded commands
and file operations, and the reactions to settled promises run; nobody is obliged
to compile, to finalize, to claim or to call. A single weak fairness over these
steps (`MCProgress`) suffices there, since a behaviour of the instance has only
finitely many of them. No fairness is assumed of the lock, and no liveness is
claimed for it: waiters poll a SQLite transaction and the code gives them no
order.

## 5. Findings

* `lock_prune_race`. The prune of stale records reads rowids in one statement
  and deletes them in later ones, outside a transaction. SQLite reuses the rowid
  of a deleted last row. So a process that read the record of a dead owner can
  delete the new record of another process that pruned the same record,
  inserted its own and has the lock. The owner's children are then refused, and
  a nested acquisition waits for its parent. Deleting by token would not do
  this.
* `snapshot_retry`. A comment in finalization says that speculative snapshot work
  is always drained before the scratch is removed. The code awaits the promise
  that is current at that moment. An ordinary stage that asked for the snapshot
  attached a retry to it; if the flight fails while it is awaited and
  finalization is already on its error path, the retry starts a second flight,
  and the scratch is removed under it. `ScratchOutlivesWork` is the property
  without that flight.

Limits that the models show and that no text of the repository contradicts:

* A nested process is checked once (`convex-wasm-cache-lock.mjs:298`). If its owner
  dies, it goes on beside the next owner; hence the restriction of
  `NestedUnderLock` to undisturbed owners.
* A failed record takes its update time from the clock
  (`convex-wasm-cache-retention.mjs:187`). After the clock was set back the record
  is updated before it started, which the validation of records rejects, and its
  root is kept for ever; `WorkReclaimed` excludes it.
* Recovery of a quarantine (`convex-wasm-cache-retention-immutable.mjs:2888` to
  `2937`) compares the link count and ctime of a payload that has no verified
  marker with the plan. If a build linked the payload in the meantime, recovery
  refuses the quarantine until somebody removes it by hand. It also relies on a
  verified marker that the process before it did not sync. After a death and a
  power loss a payload can so be gone with its marker, and recovery refuses what
  is left. `OwnWorkIsAccepted` therefore claims acceptance only without links,
  alterations and deaths, and `QuarantineDrains` allows a refusal. No number of
  deaths and power losses puts a partly removed tree back under its key: that is
  proved (`Wholeness`).

## 6. Proofs

The theorems hold for every value of the constants under the named assumptions:
any launch policy that `normalizeConvexWasmNativeLaunchPolicy` accepts and a
finite set of callers; any set of process ids and any bounds; any set of calls,
limits and sizes; any compilations and graph builds; any checkouts; any maps of
any length over a scheduler of any concurrency; any callers of a validation scope,
attempts, changes and links; any builds, maintenance policies and periods; any
entries, references, payloads and numbers of faults; any probes and job
limit; any process group, chunk sizes and output limit; any publishers and any
non-empty lists, of any length, of graphs with any artifacts.
`NoneIsNothing` and `NobodyAssumption` (the placeholder of an absent value is not
one of the values), `GraphsAssumption` (no list of graphs is empty, which the code
refuses, and no digest or stage is called as one of the registry's fixed files),
`SchedulerAssumption` (lengths are natural, the concurrency is positive, as
`normalizeConcurrency` demands), `WindowAssumption` (the window of the clock is as
long as any recovery period, so that the model can tell them apart) and
`ObjectAssumption` (entries refer to kinds that the readers of their kind accept, a
capsule refers to what its topology refers to, and a snapshot names certificates,
records and packages) are hypotheses of the theorems that need them. Each module of proofs shows that an inductive invariant holds
initially and is preserved by each action, one lemma or step per action, and
derives the properties from it.

* `NativePhaseSchedulerProofs`, invariant `IndInv`. `BoundedOvertaking` is not
  inductive: a request's allowance depends on the charge of the present head.
  `OvertakingByPlace` says that a request at place i that joined at place n has
  been passed by at most n - i full waves and the charge of the present one, and
  `BackfillTracksHead` that the recorded charge is the present head's and fits
  one wave. `RunLeavesWork` is what `QueueNeverStranded` needs of the loop. The
  totals are compared with the cardinality of the set of units that the running
  commands hold, so that admission and settlement are facts about disjoint
  unions and not about a recursive sum.
* `CacheLockProofs`, invariant `LockInv`. `AuthorityMeansLock` alone is not
  inductive, because a token could be in an environment already when its owner
  comes to life. `TokensFresh` and `ExposedOnlyWhileHeld` say that a record with a
  live owner is the lock holder's, or its token was never given to any
  environment, saved ones included. `NestInv` is for `NestedUnderLock`. An owner
  looks only at its own children before it releases, but a nested process may be
  a grandchild. `TokenFromParent` says that a process with the owner's token has
  a parent with the same token, and `Ancestry` that no set of processes is closed
  under parents; so an owner without children has no nested process. `SeenHolds`
  says that what a process read from a live record stays true while it works,
  and `OwnTokens` that a token belongs to one acquisition.
* `PublicationProofs`, invariant `StageInv`. The map holds exactly the flights
  that are not cleared (`ProducersTracked`, `MapTracked`), the waiters of a flight
  wait for it, once each (`WaitersWait`), and a flight's size and outcome agree
  with the disk, the prerequisite and the limit of its producer (`FlightFacts`).
  From it follow the safety properties and the step simulation of
  `ImmutableEntry`.
* `CacheEntryValidationProofs`, invariant `Inv`. The argument is that the physical
  state tells whether the bytes are right (`Bad`), for every state that anybody can
  have seen of the present payload (`Seen`). A step that changes the payload keeps
  `Seen` because a ctime does not come again. So it is enough that no
  authentication under a bad state succeeds (`Sound`), through whichever of the
  memo, a retained digest or a shared read it goes (`MemoInv`, `FlightInv`), and
  that a call returns only what it saw to be the same before and after (`CallInv`).
  That a published entry is not missed needs in addition that a call which began
  after the publication waits, from its first captured state on, for no read that
  looked before it.
* `CacheEntryValidationProofs`, invariant `ChurnInv`, beside `Inv`, for when a call
  gives up. Unless the payload is rewritten (`Sane`), its states follow one another
  in an order (`Version`), and every change moves its links and its ctime together
  (`Linked`), so of two states with the same number of links one is two changes
  older: an attempt that fails because two changes undid each other needs two. But
  they may have come before the call, whose first attempt joins an older read, and a
  second attempt could fail for those of the first. So attempts are counted in pairs
  (`Due`): after the first of a pair failed, what the second reads, which
  authentication it joins and which retained state it reuses are from after the
  changes that are already due (`Since`, `Late`, `Fresh`), and its failure takes two
  more. `PairInv` relates two calls, since one caller's authentication or retained
  state is what another reuses; it needs that a change wakes everybody who waits
  before anything else happens (`Quiet`).
* `PipelineProofs`, invariant `SessionInv` for the session. What finalization awaited
  stays settled: each stage carries what the stages before it drained, and work
  can only start while a compilation is active or something it waits for is
  pending, neither of which survives the drain (`activeCompilations` is compared
  with the cardinality of the active calls). For the reports, what finalization
  is about to attach is related to what graphs own at each stage from `verify` on.
* `PublicationProofs`, invariant `PackageInv` for the acquisition of a package.
  `ScratchInv` says what a call knows of its scratch at each await, and `PlaceInv`
  that what is at the package's place was verified and that every call about to
  read or return it finds one. From it follow that a call that returned or failed
  left no scratch, unless the removal of the scratch is what it failed with, that an
  interrupted call does not succeed, and the step simulation of `AtomicPublication`.
* `PublicationProofs`, invariant `RegistryInv` for the publication of registries. The
  first half is about the program alone. A `Stretch` is a sequence of calls with
  what it makes, what directories it relies on and what it leaves to be synced;
  stretches can be put one after the other (`Follow`, `FollowAll`), and the program
  of any list of graphs is one (`BodyStretch`): every call that makes something has
  its directory made before it, and after it the verification of what it copied and
  the syncs of file, entry and directory, and what all calls make is what a reader
  expects (`ProgramIs`), also when an artifact is shared and so copied for its first
  graph only. The lists are folded by a recursive function; what that computes is
  proved by its least counterexample (`LeastNat`), since the library's induction
  theorems are out of reach. The second half is about behaviours. `Staged` says
  what a publisher has made, what of it may differ from its record and what is on
  disk after n calls; at the rename nothing is left unverified or unsynced
  (`StagedIsSafe`), and a power failure then takes nothing (`OnDiskFacts`). So what
  is at the target is `Whole`, and the step simulation of `AtomicPublication`
  follows. `PublicationInvariance` puts both publications together.
* `PipelineProofs`, invariants `OrchestrationInv` and `SlotsInv` for the maps. The
  values of a map that are in flight and its workers that returned add up to its
  workers (`MapInv`), so that a map that ended has nothing queued or running and, if
  it succeeded, mapped every value. `FailureInv` says that a failure is on record
  before the scheduler can react to it, which is why operations that are admitted
  afterwards skip their callback (`FailureStopsStarts`). `Slots` relates a count, a
  queue and the states of the operations by value, so that the lemmas `DrainCounts`
  and `RunCounts` can be used for the states half-way through a handler:
  `activeCount` is what holds a slot, what is queued is in the queue, once, and
  nothing waits beside a free slot. `PipelineInv` puts both together for the
  specification that the run checks.
* `SweepQuarantineProofs`, in three layers. `Sound` relates what is in memory to
  what a power loss may leave: a tree with something missing may be in the
  quarantine or gone and nowhere else (`WholeInv`), the directories of a plan with
  markers are durable (`DirInv`), and each step of a process knows where the tree
  at hand is and which markers it has (`StepInv`, `CurInv`, `BatchInv`). It gives
  `EntriesAreWhole`. `AlteredInv` adds that an altered tree has no verified marker
  and is not as planned, while the tree whose second marker is being written is.
  `AcceptedInv` is about behaviours without links and alterations: the trees of a
  wave that are still to be compared are as planned, because nothing is unlinked
  before all are verified (`WaveHolds`), and every tree that a recovery would have
  to compare is too (`RecoverableHolds`, `RunHolds`).
* `SweepQuarantineProofs`, invariant `RetentionInv` for what is retained. That a wave
  may break off anywhere follows from `Pins`: an entry that is there, can be read and
  has what it refers to pins all of that, so a plan takes none of it. The rest says
  that the run knows those entries: its inventory is what is there (`InventoryInv`)
  and everything that can be read with what is under it was authenticated
  (`AuthInv`). During a wave the plan is no longer the one that the present
  inventory gives; `TakenInv` says that what is doomed is outside of what every
  later inventory of the run keeps too. `NeedsMet` and `SnapshotInv` say that only
  what older clean-ups left lacks something, and no success does: so nothing ends
  a run while nothing is damaged. That an exhausted run leaves only what is kept for
  itself goes by kinds, from the roots down: with no candidates left every
  certificate is kept by roots, hence every package, and so on to the artifacts.
* `BuildWorkProofs`, invariant `Inv`. `LeaseInv` says that a build at work has the
  lock and its own record, which is why no inspection meets it. `RunInv` says that
  the roots that a run inspected and left are concluded, or the run knows that it is
  blocked; it gives `SweepOnlyOverConcludedWork`. For the recovery periods, `Kept`
  says of each record that its deadline is a whole period after the time it counts
  from (`Later`): for an interrupted build, the run that marked it (`Abandoned`). A
  window that has slid leaves that only for times above 0, and for those at 0 that
  the clock is at its end (`Slid`), which is where `WindowAssumption` is needed; a
  clock that is set back moves no deadline.
* `ProcessesProofs`. For the command, `CommandInv`: as long as nothing was refused,
  what was written is what is kept and what is in the pipe (`OutputInv`); a refused
  chunk fires a guard, and a guard sends one SIGTERM (`GuardInv`); a settled call
  has neither timers nor processes (`ResultInv`). For the pool, `PoolInv`: the
  handlers are built from `Settle`, `rejectPool`, `assign` and `Finish`, and a lemma
  says of each what it keeps of `Owned`, which relates queue, workers and pending
  probes. Between the settlement of a task and the finally block its worker still
  has it, so `Owned` has that worker as a parameter. `WorkerOK` says that a message,
  its answer and the restoration of that are there one at a time, and `Busy` why
  `assign` may leave a queue behind.

Model-checked only: the liveness properties, since fairness is out of the proof
system's reach, and `PlanIsSound`, since the shard planner is a recursive
search that the proof system cannot reason about.

## 7. Not modelled

`components` in `PROJECT.json` has the status of every part. To come are the parts
of the plan in section 2. Identities, command lines and manifests of the pipeline
are data; its per-function and per-unit stages are instances of the artifact
stage with other inputs, whose protocol is `ArtifactStage`. The physical-unit
authorities, the source-authority and snapshot caches and the module graph
package are not modelled yet. Windows' way of ending a process tree is left out
of `BoundedCommand`. The source compiler, lowering, context-reuse analysis and
guest runtime transform programs, and a faithful model would be the program
again. Command-line scripts, packaging, experiments, benchmarks and vendored code
have no protocol of their own. Checks of ownership, mode and symbolic links are
input validation without state.
