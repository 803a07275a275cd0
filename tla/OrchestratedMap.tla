-------------------------- MODULE OrchestratedMap --------------------------
(***************************************************************************)
(* Maps over lists of work that share one bounded scheduler                *)
(* (createBoundedAsyncScheduler and mapWithScheduler in                    *)
(* scripts/lib/convex-wasm-artifact-pipeline.mjs), as the C-bundle members *)
(* of several artifact stages do.  The failure of one map must not stop    *)
(* the scheduler for the others, must keep the map's queued callbacks from *)
(* starting, and must not end the map before its started callbacks ended.  *)
(*                                                                         *)
(* A worker of a map is a loop that takes the next index, hands it to      *)
(* scheduler.run() and awaits it.  It is represented by the item it awaits *)
(* and, once it returned, by a unit of `exited'.  The reactions of one     *)
(* promise run in order; other reactions may run between two of them.      *)
(***************************************************************************)
EXTENDS Integers, FiniteSets, Sequences, Functions

CONSTANTS
    Maps,          \* concurrent calls of mapWithScheduler
    Length,        \* values of each map
    Concurrency    \* operations the scheduler runs at a time

Indices == 1 .. Length
Items == Maps \X Indices

VARIABLES
    stopOnError,   \* option of the scheduler
    stopped,       \* no operation is taken any more
    item,          \* where each value's operation is, see ItemStates
    queue,         \* operations the scheduler has not admitted
    activeCount,
    nextIndex, failed, failures,    \* per map, see mapWithScheduler
    exited,        \* workers of each map that returned
    outcome,       \* of each map: "new", "pending", "ok" or "failed"
    idling         \* somebody waits in idle()

vars == <<stopOnError, stopped, item, queue, activeCount, nextIndex, failed, failures,
          exited, outcome, idling>>

\* "returned" and "thrown": the callback ended, the scheduler has not reacted;
\* "ok", "error" and "refused": run()'s promise settled, the worker has not reacted;
\* "done": the worker went on.
ItemStates == {"new", "queued", "admitted", "running", "skipped", "returned", "thrown",
               "ok", "error", "refused", "done"}
Holding == {"admitted", "running", "skipped", "returned", "thrown"}

Workers == IF Concurrency < Length THEN Concurrency ELSE Length

Init ==
    /\ stopOnError \in BOOLEAN /\ stopped = FALSE
    /\ item = [x \in Items |-> "new"]
    /\ queue = <<>> /\ activeCount = 0
    /\ nextIndex = [m \in Maps |-> 1]
    /\ failed = [m \in Maps |-> FALSE]
    /\ failures = [m \in Maps |-> {}]
    /\ exited = [m \in Maps |-> 0]
    /\ outcome = [m \in Maps |-> "new"]
    /\ idling = FALSE

\* drain(), with `waiting' queued, `active' operations running and the states `states':
\* the oldest operations that the concurrency allows are admitted.
Drain(waiting, active, states) ==
    LET room == Concurrency - active
        count == IF room < Len(waiting) THEN room ELSE Len(waiting) IN
    /\ queue' = SubSeq(waiting, count + 1, Len(waiting))
    /\ activeCount' = active + count
    /\ item' = [x \in Items |->
                  IF \E k \in 1 .. count : waiting[k] = x THEN "admitted" ELSE states[x]]

\* run() for the items of `new': refused after stop(), queued and drained before it.
Run(new, states) ==
    IF stopped
    THEN /\ item' = [x \in Items |->
                       IF \E k \in 1 .. Len(new) : new[k] = x THEN "refused" ELSE states[x]]
         /\ UNCHANGED <<queue, activeCount>>
    ELSE Drain(queue \o new, activeCount,
               [x \in Items |->
                  IF \E k \in 1 .. Len(new) : new[k] = x THEN "queued" ELSE states[x]])

\* mapWithScheduler is called: every worker takes its first index before any awaits.
Start(m) ==
    /\ outcome[m] = "new"
    /\ outcome' = [outcome EXCEPT ![m] = "pending"]
    /\ nextIndex' = [nextIndex EXCEPT ![m] = Workers + 1]
    /\ Run([k \in 1 .. Workers |-> <<m, k>>], item)
    /\ UNCHANGED <<stopOnError, stopped, failed, failures, exited, idling>>

\* The operation of an admitted item runs: the callback is skipped after a failure of its map.
Begin(x) ==
    /\ item[x] = "admitted"
    /\ item' = [item EXCEPT ![x] = IF failed[x[1]] THEN "skipped" ELSE "running"]
    /\ UNCHANGED <<stopOnError, stopped, queue, activeCount, nextIndex, failed, failures,
                   exited, outcome, idling>>

Return(x) ==
    /\ item[x] = "running"
    /\ item' = [item EXCEPT ![x] = "returned"]
    /\ UNCHANGED <<stopOnError, stopped, queue, activeCount, nextIndex, failed, failures,
                   exited, outcome, idling>>

RecordFailure(m, i) ==
    /\ failures' = [failures EXCEPT ![m] = @ \cup {i}]
    /\ failed' = [failed EXCEPT ![m] = TRUE]

\* Mutant: the failure is recorded only where the worker awaits the operation.
ThrowUnrecorded(x) ==
    /\ item[x] = "running"
    /\ item' = [item EXCEPT ![x] = "thrown"]
    /\ UNCHANGED <<stopOnError, stopped, queue, activeCount, nextIndex, failed, failures,
                   exited, outcome, idling>>

\* The callback throws: the failure is recorded inside the operation, so before the
\* scheduler reacts to it.
Throw(x) ==
    /\ item[x] = "running"
    /\ item' = [item EXCEPT ![x] = "thrown"]
    /\ RecordFailure(x[1], x[2])
    /\ UNCHANGED <<stopOnError, stopped, queue, activeCount, nextIndex, exited, outcome, idling>>

\* The scheduler reacts to the end of an operation.  With stopOnError a failure refuses
\* everything that is queued; then the slot is free, and either way idle() is looked at.
Settle(x) ==
    /\ item[x] \in {"skipped", "returned", "thrown"}
    /\ LET settled == [item EXCEPT ![x] = IF item[x] = "thrown" THEN "error" ELSE "ok"]
           stops == stopOnError /\ item[x] = "thrown"
           refused == [y \in Items |-> IF settled[y] = "queued" THEN "refused" ELSE settled[y]]
       IN IF stops
          THEN Drain(<<>>, activeCount - 1, refused) /\ stopped' = TRUE
          ELSE Drain(queue, activeCount - 1, settled) /\ UNCHANGED stopped
    /\ idling' = (idling /\ (activeCount' # 0 \/ queue' # <<>>))
    /\ UNCHANGED <<stopOnError, nextIndex, failed, failures, exited, outcome>>

WorkerExits(m) == exited' = [exited EXCEPT ![m] = @ + 1]

\* The worker goes on after an operation that succeeded or was skipped.
Continue(x) ==
    /\ item[x] = "ok"
    /\ LET m == x[1]
           settled == [item EXCEPT ![x] = "done"] IN
       IF failed[m] \/ nextIndex[m] > Length
       THEN /\ WorkerExits(m)
            /\ item' = settled
            /\ nextIndex' = [nextIndex EXCEPT ![m] = IF failed[m] THEN @ ELSE @ + 1]
            /\ UNCHANGED <<queue, activeCount>>
       ELSE /\ nextIndex' = [nextIndex EXCEPT ![m] = @ + 1]
            /\ Run(<< <<m, nextIndex[m]>> >>, settled)
            /\ UNCHANGED exited
    /\ UNCHANGED <<stopOnError, stopped, failed, failures, outcome, idling>>

\* The operation was refused or threw: the worker records the failure and returns.
Abandon(x) ==
    /\ item[x] \in {"error", "refused"}
    /\ item' = [item EXCEPT ![x] = "done"]
    /\ RecordFailure(x[1], x[2])
    /\ WorkerExits(x[1])
    /\ UNCHANGED <<stopOnError, stopped, queue, activeCount, nextIndex, outcome, idling>>

\* Mutant: as Promise.all does for workers that reject, the first failure ends the map.
EndAtFirstFailure(m) ==
    /\ outcome[m] = "pending" /\ (exited[m] = Workers \/ failed[m])
    /\ outcome' = [outcome EXCEPT ![m] = IF failed[m] THEN "failed" ELSE "ok"]
    /\ UNCHANGED <<stopOnError, stopped, item, queue, activeCount, nextIndex, failed, failures,
                   exited, idling>>

\* Every worker returned: the map ends, if it failed with the failure of the lowest
\* index in `failures'.
End(m) ==
    /\ outcome[m] = "pending" /\ exited[m] = Workers
    /\ outcome' = [outcome EXCEPT ![m] = IF failed[m] THEN "failed" ELSE "ok"]
    /\ UNCHANGED <<stopOnError, stopped, item, queue, activeCount, nextIndex, failed, failures,
                   exited, idling>>

Idle ==
    /\ ~idling /\ (activeCount # 0 \/ queue # <<>>)
    /\ idling' = TRUE
    /\ UNCHANGED <<stopOnError, stopped, item, queue, activeCount, nextIndex, failed, failures,
                   exited, outcome>>

\* What is bound to happen: reactions run, and callbacks end, being native commands under a
\* timeout and file operations.
Progress ==
    \/ \E x \in Items : Begin(x)
    \/ \E x \in Items : Return(x)
    \/ \E x \in Items : Throw(x)
    \/ \E x \in Items : Settle(x)
    \/ \E x \in Items : Continue(x)
    \/ \E x \in Items : Abandon(x)
    \/ \E m \in Maps : End(m)

Next ==
    \/ \E m \in Maps : Start(m)
    \/ Progress
    \/ Idle

-----------------------------------------------------------------------------
(* Properties.                                                             *)

TypeOK ==
    /\ stopOnError \in BOOLEAN /\ stopped \in BOOLEAN /\ idling \in BOOLEAN
    /\ item \in [Items -> ItemStates]
    /\ IsInjective(queue) /\ \A k \in DOMAIN queue : item[queue[k]] = "queued"
    /\ Len(queue) = Cardinality({x \in Items : item[x] = "queued"})
    /\ nextIndex \in [Maps -> 1 .. Length + 1 + Workers]
    /\ failed \in [Maps -> BOOLEAN] /\ failures \in [Maps -> SUBSET Indices]
    /\ exited \in [Maps -> 0 .. Workers]
    /\ outcome \in [Maps -> {"new", "pending", "ok", "failed"}]

\* The scheduler counts what runs, never runs more than it may, never leaves an operation
\* queued while it could run, and forgets nobody who waits for it to be idle.
SchedulerIsSound ==
    /\ activeCount = Cardinality({x \in Items : item[x] \in Holding})
    /\ activeCount <= Concurrency
    /\ queue # <<>> => activeCount = Concurrency
    /\ idling => activeCount # 0

\* A map ends only after every operation it handed to the scheduler ended, so that its
\* caller may remove what they use; and it succeeds only if every value was mapped.
EndedMeansDrained ==
    \A m \in Maps : outcome[m] \notin {"new", "pending"} =>
        /\ \A i \in Indices : item[<<m, i>>] \in {"new", "done"}
        /\ outcome[m] = "ok" => \A i \in Indices : item[<<m, i>>] = "done"

\* Once a callback of a map threw, no other callback of the map starts, although the
\* scheduler that they share goes on admitting.
NoStartAfterFailure ==
    [][\A x, y \in Items :
          x[1] = y[1] /\ item[x] \in {"thrown", "error"} /\ item[y] # "running"
            => item'[y] # "running"]_vars

\* No map is under way, and nobody waits for an idle scheduler.
MapsSettled == ~idling /\ \A m \in Maps : outcome[m] # "pending"

=============================================================================
