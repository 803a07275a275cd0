--------------------------- MODULE BoundedCommand ---------------------------
(***************************************************************************)
(* One native command (scripts/lib/bounded-native-command.mjs, and what    *)
(* convex-wasm-native-command-runner.mjs makes of its result): a process   *)
(* group whose output is collected up to a limit, ended by its own exit,   *)
(* a timeout, an abort signal or the output limit; SIGTERM first, SIGKILL  *)
(* after a grace period.                                                   *)
(*                                                                         *)
(* The group is the child and what it spawns; any of them holds the output *)
(* pipe open and may ignore SIGTERM.  Standard output and error are one    *)
(* pipe here: they share the limit.                                        *)
(***************************************************************************)
EXTENDS Integers, Sequences, SequencesExt

CONSTANTS
    Group,          \* processes of the group
    Child,          \* the one that was spawned
    ChunkSizes,
    maxOutputBytes,
    MaxChunks,      \* bound: chunks the group writes
    None

Kinds == {"outputLimit", "timeout", "aborted"}

CommandAssumption ==
    /\ Child \in Group /\ None \notin {"zero", "other", "signal", "unstarted"} \cup Kinds
    /\ ChunkSizes \subseteq Nat \ {0} /\ maxOutputBytes \in Nat \ {0}

VARIABLES
    stubborn,       \* processes that ignore SIGTERM
    alive,          \* processes of the group that run
    doomed,         \* those that a signal will end
    code,           \* how the child ended: with code 0, another one, by a signal, or None
    written,        \* chunk sizes written so far (history)
    pipe,           \* those the parent has not read yet
    kept, keptBytes,    \* the chunks of the output, and their size (history)
    outputBytes, termination,
    timers,         \* armed timers: "timeout", "forced"
    aborted,        \* the caller's signal
    sent,           \* signals sent to the group (history)
    result          \* None until the call settles

vars == <<stubborn, alive, doomed, code, written, pipe, kept, keptBytes, outputBytes,
          termination, timers, aborted, sent, result>>
group == <<stubborn, alive, doomed, code, written>>
guards == <<termination, timers, sent>>

output == <<kept, keptBytes>>

Init ==
    /\ stubborn \in SUBSET Group
    /\ alive = {} /\ doomed = {} /\ code = None
    /\ written = <<>> /\ pipe = <<>> /\ kept = <<>> /\ keptBytes = 0 /\ outputBytes = 0
    /\ termination = None /\ timers = {} /\ aborted = FALSE /\ sent = <<>>
    /\ result = None

Result(c, t, chunks) == [code |-> c, termination |-> t, output |-> chunks]

\* The call with a signal that is already aborted, a spawn that fails, or a command that runs.
Started == alive # {} \/ code # None
StartAborted ==
    /\ ~Started /\ result = None
    /\ aborted' = TRUE
    /\ result' = Result(None, "aborted", <<>>)
    /\ UNCHANGED <<group, pipe, output, outputBytes, guards>>

SpawnFails ==
    /\ ~Started /\ result = None
    /\ result' = Result("unstarted", None, <<>>)
    /\ UNCHANGED <<group, pipe, output, outputBytes, guards, aborted>>

Start ==
    /\ ~Started /\ result = None
    /\ alive' = Group
    /\ timers' = {"timeout"}
    /\ UNCHANGED <<stubborn, doomed, code, written, pipe, output, outputBytes, termination,
                   aborted, sent, result>>

-----------------------------------------------------------------------------
(* The process group.                                                      *)

Write(n) ==
    /\ alive # {} /\ Len(written) < MaxChunks
    /\ written' = Append(written, n) /\ pipe' = Append(pipe, n)
    /\ UNCHANGED <<stubborn, alive, doomed, code, output, outputBytes, guards, aborted, result>>

End(p, c) ==
    /\ p \in alive
    /\ c = "signal" => p \in doomed
    /\ alive' = alive \ {p} /\ doomed' = doomed \ {p}
    /\ code' = IF p = Child THEN c ELSE code
    /\ UNCHANGED <<stubborn, written, pipe, output, outputBytes, guards, aborted, result>>

-----------------------------------------------------------------------------
(* Signals and guards.                                                     *)

kill(signal) ==
    /\ sent' = Append(sent, signal)
    /\ doomed' = IF signal = "SIGKILL" THEN alive ELSE alive \ stubborn

\* `armed` are the timers that are armed apart from the one that stop() arms.
\* Mutant: nothing follows the SIGTERM.
StopPolitely(kind, armed) ==
    IF termination # None THEN timers' = armed /\ UNCHANGED <<termination, sent, doomed>>
    ELSE termination' = kind /\ kill("SIGTERM") /\ timers' = armed
stop(kind, armed) ==
    IF termination # None THEN timers' = armed /\ UNCHANGED <<termination, sent, doomed>>
    ELSE termination' = kind /\ kill("SIGTERM") /\ timers' = armed \cup {"forced"}

\* Mutant: the bytes of a refused chunk are not counted.
CountKept(n) == keptBytes + n
Count(n) == outputBytes + n

Data ==
    /\ pipe # <<>> /\ result = None
    /\ pipe' = Tail(pipe)
    /\ outputBytes' = Count(Head(pipe))
    /\ IF outputBytes' > maxOutputBytes
       THEN stop("outputLimit", timers) /\ UNCHANGED output
       ELSE /\ kept' = Append(kept, Head(pipe)) /\ keptBytes' = keptBytes + Head(pipe)
            /\ UNCHANGED <<guards, doomed>>
    /\ UNCHANGED <<stubborn, alive, code, written, aborted, result>>

Abort ==
    /\ Started /\ ~aborted
    /\ aborted' = TRUE
    /\ IF result = None THEN stop("aborted", timers) ELSE UNCHANGED <<guards, doomed>>
    /\ UNCHANGED <<stubborn, alive, code, written, pipe, output, outputBytes, result>>

Timeout ==
    /\ "timeout" \in timers
    /\ stop("timeout", timers \ {"timeout"})
    /\ UNCHANGED <<stubborn, alive, code, written, pipe, output, outputBytes, aborted, result>>

Force ==
    /\ "forced" \in timers
    /\ kill("SIGKILL")
    /\ timers' = timers \ {"forced"}
    /\ UNCHANGED <<stubborn, alive, code, written, pipe, output, outputBytes, termination,
                   aborted, result>>

\* Mutant: the timer of the forced termination is left armed.
ClearTimeout == timers' = timers \ {"timeout"}
ClearTimers == timers' = {}

\* The "close" event: the child has ended and nothing holds its pipes.
Close ==
    /\ Started /\ alive = {} /\ pipe = <<>> /\ result = None
    /\ result' = Result(code, termination, kept)
    /\ ClearTimers
    /\ UNCHANGED <<group, pipe, output, outputBytes, termination, sent, aborted>>

-----------------------------------------------------------------------------
Codes == {"zero", "other", "signal"}

Next ==
    \/ StartAborted \/ SpawnFails \/ Start
    \/ \E n \in ChunkSizes : Write(n)
    \/ \E p \in Group, c \in Codes : End(p, c)
    \/ Data \/ Abort \/ Timeout \/ Force \/ Close

Spec == Init /\ [][Next]_vars

(***************************************************************************)
(* Fairness: the whole does not stand still while data can be read, a      *)
(* timer can fire, a process that a signal ends can be gone or an event be *)
(* delivered.  No process ends by itself.                                  *)
(***************************************************************************)
Progress == Data \/ Timeout \/ Force \/ Close \/ \E p \in Group : End(p, "signal")

Fairness == WF_vars(Progress)

-----------------------------------------------------------------------------
(* What the command runner reports.                                        *)

Report(r) ==
    IF r.code = "unstarted" THEN "command-start"
    ELSE IF r.termination # None THEN "guard-termination"
    ELSE IF r.code # "zero" THEN "command-exit" ELSE "ok"

(***************************************************************************)
(* Properties.                                                             *)
(***************************************************************************)
TypeOK ==
    /\ stubborn \subseteq Group /\ alive \subseteq Group /\ doomed \subseteq alive
    /\ code \in Codes \cup {None}
    /\ written \in Seq(ChunkSizes) /\ pipe \in Seq(ChunkSizes) /\ kept \in Seq(ChunkSizes)
    /\ outputBytes \in Nat /\ keptBytes \in Nat /\ termination \in Kinds \cup {None}
    /\ timers \subseteq {"timeout", "forced"} /\ aborted \in BOOLEAN
    /\ sent \in {<<>>, <<"SIGTERM">>, <<"SIGTERM", "SIGKILL">>}

\* A command that the runner calls a success was not stopped by any guard, not even one that
\* fired after its exit and before its pipes closed, and all that its process group wrote,
\* what descendants wrote after the child ended included, is in the output.
SuccessIsComplete ==
    result # None /\ Report(result) = "ok" =>
        /\ code = "zero" /\ sent = <<>>
        /\ result.output = written

\* What is kept is the beginning of what was written, without a gap and within the limit:
\* once a chunk was refused, no later and smaller one slips in.
OutputIsPrefix ==
    /\ IsPrefix(kept, written)
    /\ keptBytes <= maxOutputBytes

\* The group is signalled only while the call waits for it: afterwards its number may belong
\* to other processes.
NoSignalAfterSettle == [][result # None => sent' = sent]_vars

\* When the call settles, no process that could write to the output is left, and no timer that
\* could still end or signal anything is armed.
NothingLeft == result # None => alive = {} /\ timers = {}

\* A command always settles, although its processes may run for ever and ignore SIGTERM.
\* The scheduler's progress rests on this.
Settles == Started ~> result # None

=============================================================================
