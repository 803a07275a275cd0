----------------------------- MODULE MCPipeline -----------------------------
(***************************************************************************)
(* Model-checking instance of the artifact pipeline: a material session,   *)
(* two maps over one scheduler, and, for its liveness, one artifact stage. *)
(* They share no state here, so every behaviour is one of the three.       *)
(***************************************************************************)
EXTENDS MaterialSession

CONSTANTS
    c1, c2, g1,
    Maps, Length, Concurrency   \* concurrent maps, their values, what a scheduler runs at a time

\* normalizeConcurrency accepts positive integers.
ASSUME SchedulerAssumption == Length \in Nat /\ Concurrency \in Nat \ {0}

MCCompilations == {c1, c2}
MCSpeculative == {c2}
MCGraphs == {g1}

VARIABLES
    subject,
    stopOnError, stopped, item, queue, activeCount, nextIndex, failed, failures, exited, outcome,
    idling,
    disk, authority, options, pc, joined, got, flight, current

WorkMap == INSTANCE OrchestratedMap

\* Two calls of one read mode, with two limits, and builds of two sizes.
Stage == INSTANCE ArtifactStage WITH
    Callers <- {c1, c2}, Modes <- {"hash"}, Limits <- {1, 2}, Sizes <- {1, 2}

maps == <<stopOnError, stopped, item, queue, activeCount, nextIndex, failed, failures, exited,
          outcome, idling>>
stage == <<disk, authority, options, pc, joined, got, flight, current>>

\* The initial states of a subject that is not the one of the behaviour are one.
MCInit ==
    /\ Init /\ WorkMap!Init /\ Stage!Init
    /\ subject \in {"session", "maps", "stage"}
    /\ subject # "maps" => ~stopOnError
    /\ subject # "stage" => disk = None

MCNext ==
    /\ UNCHANGED subject
    /\ \/ subject = "session" /\ Next /\ UNCHANGED <<maps, stage>>
       \/ subject = "maps" /\ WorkMap!Next /\ UNCHANGED <<vars, stage>>
       \/ subject = "stage" /\ Stage!Next /\ UNCHANGED <<vars, maps>>

MCProgress ==
    /\ UNCHANGED subject
    /\ \/ subject = "session" /\ Progress /\ UNCHANGED <<maps, stage>>
       \/ subject = "maps" /\ WorkMap!Progress /\ UNCHANGED <<vars, stage>>
       \/ subject = "stage" /\ Stage!Progress /\ UNCHANGED <<vars, maps>>

\* Every behaviour is finite but for waits in idle(), so that what is bound to happen
\* happens if something of it does.
MCSpec ==
    /\ MCInit /\ [][MCNext]_<<vars, maps, stage, subject>>
    /\ WF_<<vars, maps, stage, subject>>(MCProgress)

\* The state of the session and of the maps, the scheduler that the maps share, and what a
\* map leaves running when it ends.
PipelineIsSound ==
    TypeOK /\ WorkMap!TypeOK /\ WorkMap!SchedulerIsSound /\ WorkMap!EndedMeansDrained
NoStartAfterFailure == WorkMap!NoStartAfterFailure
\* Every construction, finalization, claim, map and call of the artifact stage ends, through
\* all fallbacks and retries: none of them starts again, so that it is enough that time and
\* again none is under way.
PipelineEnds == []<>(SessionSettled /\ WorkMap!MapsSettled /\ Stage!StageSettled)

=============================================================================
