---------------------------- MODULE MCProcesses ----------------------------
(***************************************************************************)
(* Model-checking instance of the two drivers of other processes and       *)
(* threads, the pool of capsule workers and the bounded command.  They     *)
(* share no state, so every behaviour is one of either.                    *)
(***************************************************************************)
EXTENDS CapsuleWorkerPool

CONSTANTS
    t1, t2, t3, child, helper,
    Group, Child, ChunkSizes, maxOutputBytes, MaxChunks

MCTasks == {t1, t2, t3}
MCGroup == {child, helper}
MCChunkSizes == {1, 2}

VARIABLES
    stubborn, alive, doomed, code, written, pipe, kept, keptBytes, outputBytes, termination,
    timers, aborted, sent, result, subject

Command == INSTANCE BoundedCommand

command == <<stubborn, alive, doomed, code, written, pipe, kept, keptBytes, outputBytes,
             termination, timers, aborted, sent, result>>

ASSUME CommandAssumption == Command!CommandAssumption

MCInit ==
    /\ Init /\ Command!Init /\ subject \in {"pool", "command"}
    /\ subject = "pool" => stubborn = {}

MCNext ==
    /\ UNCHANGED subject
    /\ \/ subject = "pool" /\ Next /\ UNCHANGED command
       \/ subject = "command" /\ Command!Next /\ UNCHANGED vars

MCSpec ==
    /\ MCInit /\ [][MCNext]_<<vars, command, subject>>
    /\ Fairness /\ Command!Fairness

\* The pool forgets no task, and no task is with two workers.
PoolIsSound ==
    TypeOK /\ QueueOnlyBehindBusyWorkers /\ WaitingIsOwned /\ OneTaskAtATime /\ CloseLosesNothing
\* Output, success and end of a command.
CommandIsSound ==
    Command!TypeOK /\ Command!SuccessIsComplete /\ Command!OutputIsPrefix /\ Command!NothingLeft
\* Nothing comes after the end: no hit from a worker that failed, no signal to the group of a
\* command that settled.
NothingAfterTheEnd == NoHitFromFailedWorker /\ Command!NoSignalAfterSettle
\* Every probe of a worker settles, close() ends, and so does every command.
ProcessesEnd == EveryProbeSettles /\ CloseEnds /\ Command!Settles

=============================================================================
