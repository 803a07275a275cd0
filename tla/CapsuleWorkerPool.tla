------------------------- MODULE CapsuleWorkerPool -------------------------
(***************************************************************************)
(* The pool of worker threads that admit cohort capsules                   *)
(* (scripts/lib/convex-wasm-cohort-capsule-worker.mjs).  probe() looks for *)
(* a capsule; one that is present is read by a worker, and the parent      *)
(* restores what the worker found before the probe resolves.  One failing  *)
(* worker fails the pool.                                                  *)
(*                                                                         *)
(* The parent is one event loop: an action is one callback up to its next  *)
(* await.  A worker thread runs beside it; its answer travels on `wire`,   *)
(* its error and exit events are separate deliveries.  Node drains the     *)
(* messages of a worker before it reports the exit, but not before it      *)
(* reports an error.                                                       *)
(***************************************************************************)
EXTENDS Integers, Sequences, FiniteSets

CONSTANTS
    Tasks,      \* calls of probe()
    Jobs,       \* the launch job limit
    None

ASSUME PoolAssumption == Jobs \in Nat \ {0} /\ None \notin Tasks

VARIABLES
    status,     \* each probe: new, checking, waiting, or how it settled
    queue,      \* queued
    failure,    \* whether the pool has a failure
    worker,     \* records of the started workers, in the order of starting
    closing     \* open, draining, stopping (terminating the workers) or closed

vars == <<status, queue, failure, worker, closing>>

limit == IF Jobs < 2 THEN Jobs ELSE 2

Settled == {"refused", "absent", "miss", "hit", "failed"}
Answers == {"miss", "hit", "error"}
Message == [task : Tasks, status : Answers]
WorkerType ==
    [task : Tasks \cup {None}, restoring : Tasks \cup {None}, failed : BOOLEAN,
     inbox : Tasks \cup {None}, wire : Message \cup {None},
     life : {"running", "erring", "exiting", "gone"}]

ASSUME MessageAssumption == None \notin Message

NewWorker ==
    [task |-> None, restoring |-> None, failed |-> FALSE,
     inbox |-> None, wire |-> None, life |-> "running"]

Init ==
    /\ status = [t \in Tasks |-> "new"]
    /\ queue = <<>> /\ failure = FALSE
    /\ worker = <<>> /\ closing = "open"

-----------------------------------------------------------------------------
(* The state that callbacks change, as a record, and its updates.          *)

Pool == [status |-> status, queue |-> queue, failure |-> failure, worker |-> worker]

Become(p) ==
    /\ status' = p.status /\ queue' = p.queue
    /\ failure' = p.failure /\ worker' = p.worker

\* task.resolve and task.reject: a promise settles once.
Settle(p, t, outcome) ==
    IF t # None /\ p.status[t] = "waiting" THEN [p EXCEPT !.status[t] = outcome] ELSE p

rejectPool(p) ==
    [p EXCEPT !.failure = TRUE, !.queue = <<>>,
              !.status = [t \in Tasks |->
                  IF \E i \in 1..Len(p.queue) : p.queue[i] = t THEN "failed" ELSE p.status[t]]]

\* assign(record): `posted` says whether postMessage could clone the arguments.
assign(p, w, posted) ==
    IF p.worker[w].task # None \/ p.failure \/ p.queue = <<>> THEN p
    ELSE LET t == Head(p.queue)
             q == [p EXCEPT !.queue = Tail(@)]
         IN IF posted THEN [q EXCEPT !.worker[w].task = t, !.worker[w].inbox = t]
            ELSE rejectPool(Settle(q, t, "failed"))

\* The finally block of the message handler.
\* Mutant: the worker is not given the next task.
FinishIdly(p, w, posted) ==
    [p EXCEPT !.worker[w].restoring = None, !.worker[w].task = None]
Finish(p, w, posted) ==
    assign([p EXCEPT !.worker[w].restoring = None, !.worker[w].task = None], w, posted)

-----------------------------------------------------------------------------
(* probe and close.                                                        *)

Probe(t) ==
    /\ status[t] = "new"
    /\ status' = [status EXCEPT
           ![t] = IF closing # "open" \/ failure THEN "refused" ELSE "checking"]
    /\ UNCHANGED <<queue, failure, worker, closing>>

\* The presence check ends without a capsule, or it throws.
NotPresent(t, outcome) ==
    /\ status[t] = "checking"
    /\ status' = [status EXCEPT ![t] = outcome]
    /\ UNCHANGED <<queue, failure, worker, closing>>

\* The capsule is present: queue the task, and give the head of the queue to an idle worker
\* or to a new one.
Present(t, posted, started) ==
    /\ status[t] = "checking"
    /\ IF failure THEN Become([Pool EXCEPT !.status[t] = "failed"])
       ELSE LET p == [Pool EXCEPT !.status[t] = "waiting", !.queue = Append(@, t)]
                idle == {w \in DOMAIN worker : worker[w].task = None}
                first == CHOOSE w \in idle : \A v \in idle : w <= v
            IN Become(IF idle # {} THEN assign(p, first, posted)
                      ELSE IF Len(worker) = limit THEN p
                      ELSE IF ~started THEN rejectPool(p)
                      ELSE assign([p EXCEPT !.worker = Append(@, NewWorker)],
                                  Len(worker) + 1, posted))
    /\ UNCHANGED closing

Close ==
    /\ closing = "open"
    /\ closing' = "draining"
    /\ UNCHANGED <<status, queue, failure, worker>>

\* Every operation pending at the close has settled: the workers are told to terminate.
Stop ==
    /\ closing = "draining"
    /\ \A t \in Tasks : status[t] \notin {"checking", "waiting"}
    /\ closing' = "stopping"
    /\ UNCHANGED <<status, queue, failure, worker>>

\* worker.terminate(): whatever the thread was doing, its exit event is all that follows.
Terminate(w) ==
    /\ closing = "stopping" /\ worker[w].life \in {"running", "erring"}
    /\ worker' = [worker EXCEPT ![w].life = "exiting"]
    /\ UNCHANGED <<status, queue, failure, closing>>

Closed ==
    /\ closing = "stopping"
    /\ \A w \in DOMAIN worker : worker[w].life = "gone"
    /\ closing' = "closed"
    /\ UNCHANGED <<status, queue, failure, worker>>

-----------------------------------------------------------------------------
(* The worker thread: it answers the message it has, or dies of an         *)
(* uncaught error or by exiting.                                           *)

Reply(w, answer) ==
    /\ worker[w].life = "running" /\ worker[w].inbox # None
    /\ worker' = [worker EXCEPT ![w].inbox = None,
                      ![w].wire = [task |-> worker[w].inbox, status |-> answer]]
    /\ UNCHANGED <<status, queue, failure, closing>>

Die(w, how) ==
    /\ worker[w].life = "running"
    /\ worker' = [worker EXCEPT ![w].life = how]
    /\ UNCHANGED <<status, queue, failure, closing>>

-----------------------------------------------------------------------------
(* The parent's handlers.                                                  *)

\* The part that the error and exit handlers share: a restoration keeps its task.
WorkerFailed(w, life) ==
    LET p == [Pool EXCEPT !.worker[w].failed = TRUE, !.worker[w].life = life]
    IN rejectPool(IF worker[w].restoring # None THEN p
                  ELSE [Settle(p, worker[w].task, "failed") EXCEPT !.worker[w].task = None])

ErrorEvent(w) ==
    /\ worker[w].life = "erring"
    /\ Become(WorkerFailed(w, "exiting"))
    /\ UNCHANGED closing

ExitEvent(w) ==
    /\ worker[w].life = "exiting"
    /\ worker[w].wire = None \/ closing = "stopping"
    /\ IF closing = "stopping" THEN Become([Pool EXCEPT !.worker[w].life = "gone"])
       ELSE Become(WorkerFailed(w, "gone"))
    /\ UNCHANGED closing

\* The message handler up to its end or, for a hit, up to the restoration.
Receive(w, posted) ==
    /\ worker[w].wire # None /\ worker[w].life # "gone"
    /\ LET m == worker[w].wire
           t == worker[w].task
           p == [Pool EXCEPT !.worker[w].wire = None]
       IN Become(IF t # m.task THEN Finish(rejectPool(Settle(p, t, "failed")), w, posted)
                 ELSE IF m.status = "hit" THEN [p EXCEPT !.worker[w].restoring = t]
                 ELSE Finish(Settle(p, t, IF m.status = "miss" THEN "miss" ELSE "failed"),
                             w, posted))
    /\ UNCHANGED closing

\* The restoration ends.
\* Mutant: the failure of the worker is not looked at again.
RestoredAnyway(p, w, ok) ==
    IF ok THEN Settle(p, p.worker[w].restoring, "hit")
    ELSE rejectPool(Settle(p, p.worker[w].restoring, "failed"))
Restored(p, w, ok) ==
    IF ok /\ ~p.worker[w].failed THEN Settle(p, p.worker[w].restoring, "hit")
    ELSE rejectPool(Settle(p, p.worker[w].restoring, "failed"))

Restore(w, ok, posted) ==
    /\ worker[w].restoring # None
    /\ Become(Finish(Restored(Pool, w, ok), w, posted))
    /\ UNCHANGED closing

-----------------------------------------------------------------------------
Calls == Close \/ \E t \in Tasks : Probe(t)

Presence(t) ==
    \/ \E outcome \in {"absent", "failed"} : NotPresent(t, outcome)
    \/ \E posted, started \in BOOLEAN : Present(t, posted, started)

Thread(w) ==
    \/ \E answer \in Answers : Reply(w, answer)
    \/ \E how \in {"erring", "exiting"} : Die(w, how)

Events(w) ==
    \/ ErrorEvent(w) \/ ExitEvent(w)
    \/ \E posted \in BOOLEAN : Receive(w, posted)
    \/ \E ok, posted \in BOOLEAN : Restore(w, ok, posted)

Next ==
    \/ Calls \/ Stop \/ Closed
    \/ \E t \in Tasks : Presence(t)
    \/ \E w \in DOMAIN worker : Terminate(w) \/ Thread(w) \/ Events(w)

Spec == Init /\ [][Next]_vars

(***************************************************************************)
(* Fairness: the whole does not stand still while a file read or a         *)
(* restoration can end, a worker that has a message can answer it, one     *)
(* that is dying can end, or the event loop can deliver what has happened. *)
(* Each probe is made once and a worker dies once, so nothing can be       *)
(* passed for ever.  Nothing makes a caller probe or close.                *)
(***************************************************************************)
Progress ==
    \/ Stop \/ Closed
    \/ \E t \in Tasks : Presence(t)
    \/ \E w \in DOMAIN worker :
          Terminate(w) \/ Events(w) \/ \E answer \in Answers : Reply(w, answer)

Fairness == WF_vars(Progress)

-----------------------------------------------------------------------------
(* Properties.                                                             *)

TypeOK ==
    /\ status \in [Tasks -> {"new", "checking", "waiting"} \cup Settled]
    /\ queue \in Seq(Tasks) /\ failure \in BOOLEAN
    /\ worker \in Seq(WorkerType) /\ Len(worker) <= 2
    /\ closing \in {"open", "draining", "stopping", "closed"}

\* A task waits in the queue only while every worker the limit allows has a task of its own,
\* and a failed pool has no queue: the handlers' finally block, the idle search of probe()
\* and rejectPool together forget nobody.
QueueOnlyBehindBusyWorkers ==
    queue # <<>> =>
        /\ ~failure /\ Len(worker) = limit
        /\ \A w \in DOMAIN worker : worker[w].task # None

\* A task that waits is queued once or with exactly one worker, never both.
WaitingIsOwned ==
    \A t \in Tasks : status[t] = "waiting" =>
        LET queued == {i \in DOMAIN queue : queue[i] = t}
            owners == {w \in DOMAIN worker : worker[w].task = t}
        IN Cardinality(queued) + Cardinality(owners) = 1

\* close() stops the workers only when no answer is being restored: the error and exit events
\* of a worker leave the task of a running restoration pending, so that close waits for it.
CloseLosesNothing ==
    closing \in {"stopping", "closed"} =>
        \A w \in DOMAIN worker : worker[w].restoring = None /\ worker[w].task = None

\* A worker that the parent trusts works for one task at a time: the message it has, its
\* answer and the restoration of that answer are all for the task it is assigned, so no
\* probe is settled with what was found for another.
OneTaskAtATime ==
    \A w \in DOMAIN worker :
        /\ worker[w].restoring # None => worker[w].restoring = worker[w].task
        /\ ~worker[w].failed =>
              /\ worker[w].inbox # None => worker[w].inbox = worker[w].task
              /\ worker[w].wire # None => worker[w].wire.task = worker[w].task

\* Once the parent knows that a worker failed, nothing the worker found is delivered:
\* a probe that this worker serves can only fail.
NoHitFromFailedWorker ==
    [][\A w \in DOMAIN worker : \A t \in Tasks :
          worker[w].failed /\ worker[w].task = t => status'[t] \in {"waiting", "failed"}]_vars

\* Every probe settles, whichever workers fail and in whatever order their answers, errors,
\* exits and restorations are delivered.
EveryProbeSettles == \A t \in Tasks : status[t] = "checking" ~> status[t] \in Settled

\* close() ends.
CloseEnds == closing = "draining" ~> closing = "closed"

=============================================================================
