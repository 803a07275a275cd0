-------------------------- MODULE ProcessesProofs --------------------------
(***************************************************************************)
(* What the two drivers of MCProcesses promise, proved for every number of *)
(* tasks and jobs, every process group, every sizes of chunks and every    *)
(* output limit.                                                           *)
(***************************************************************************)
EXTENDS MCProcesses, SequenceTheorems, FiniteSetTheorems, TLAPS

(***************************************************************************)
(* The bounded command.                                                    *)
(***************************************************************************)

\* As long as nothing was refused, what was written is what is kept and what is in the pipe.
OutputInv ==
    /\ keptBytes <= maxOutputBytes
    /\ Len(kept) <= Len(written) /\ \A i \in 1..Len(kept) : kept[i] = written[i]
    /\ outputBytes <= maxOutputBytes => keptBytes = outputBytes /\ written = kept \o pipe

\* A guard fires once, and a refused chunk is one that fires it.
GuardInv ==
    /\ termination = None <=> sent = <<>>
    /\ outputBytes > maxOutputBytes => termination # None
    /\ "forced" \in timers => sent = <<"SIGTERM">>

\* A settled call has no timer and no process.
ResultInv ==
    result # None =>
        /\ timers = {} /\ alive = {}
        /\ Command!Report(result) = "ok" =>
              code = "zero" /\ termination = None /\ result.output = written

\* The child's end is known, and there are timers only after the start.
StartInv ==
    /\ code = None /\ alive # {} => Child \in alive
    /\ ~Command!Started => timers = {} /\ pipe = <<>>

CommandInv == Command!TypeOK /\ OutputInv /\ GuardInv /\ ResultInv /\ StartInv

\* What stop() does, whoever calls it: the first guard sends the SIGTERM and arms what follows.
LEMMA StopGuards ==
    ASSUME Command!TypeOK, GuardInv, NEW kind \in Command!Kinds, NEW armed,
           armed \subseteq timers, Command!stop(kind, armed), alive' = alive
    PROVE  /\ termination' \in Command!Kinds /\ (termination # None => termination' = termination)
           /\ sent' \in {<<"SIGTERM">>, <<"SIGTERM", "SIGKILL">>}
           /\ doomed' \subseteq alive
           /\ timers' \subseteq {"timeout", "forced"}
           /\ "forced" \in timers' => sent' = <<"SIGTERM">>
<1> USE DEF Command!TypeOK, GuardInv, Command!stop, Command!kill
<1>1. CASE termination # None
  BY <1>1
<1>2. CASE termination = None
  <2>1. sent = <<>> /\ "forced" \notin timers
    BY <1>2
  <2>2. Append(sent, "SIGTERM") = <<"SIGTERM">>
    BY <2>1
  <2> QED
    BY <1>2, <2>1, <2>2
<1> QED
  BY <1>1, <1>2

LEMMA PairIsAppended ==
    ASSUME NEW S, NEW a \in S, NEW b \in S
    PROVE  Append(<<a>>, b) = <<a, b>>
<1>1. <<a>> \in Seq(S) /\ <<a, b>> \in Seq(S) /\ Len(<<a, b>>) = 2
  OBVIOUS
<1>2. Append(<<a>>, b) \in Seq(S) /\ Len(Append(<<a>>, b)) = 2
  BY <1>1, AppendProperties
<1>3. \A i \in 1..2 : Append(<<a>>, b)[i] = <<a, b>>[i]
  BY <1>1
<1> QED
  BY <1>1, <1>2, <1>3, SeqEqual

LEMMA BothSignals == Append(<<"SIGTERM">>, "SIGKILL") = <<"SIGTERM", "SIGKILL">>
<1>1. \A S : \A a, b \in S : Append(<<a>>, b) = <<a, b>>
  BY PairIsAppended
<1>2. "SIGTERM" \in {"SIGTERM", "SIGKILL"} /\ "SIGKILL" \in {"SIGTERM", "SIGKILL"}
  OBVIOUS
<1> QED
  BY ONLY <1>1, <1>2, Zenon

\* ... and what the timer does that stop() armed: the group is killed.
LEMMA ForceGuards ==
    ASSUME Command!TypeOK, GuardInv, Command!Force
    PROVE  sent' = <<"SIGTERM", "SIGKILL">> /\ doomed' = alive /\ termination # None
<1>1. sent = <<"SIGTERM">>
  BY DEF GuardInv, Command!Force
<1>2. Append(sent, "SIGKILL") = <<"SIGTERM", "SIGKILL">>
  BY <1>1, BothSignals
<1> QED
  BY <1>1, <1>2 DEF GuardInv, Command!Force, Command!kill

LEMMA CommandTypeStep ==
    ASSUME CommandInv, [Command!Next]_(Command!vars)
    PROVE  Command!TypeOK'
<1> USE CommandAssumption
    DEF CommandInv, Command!CommandAssumption, Command!TypeOK, GuardInv, ResultInv, Command!group,
        Command!guards, Command!output, Command!Kinds, Command!Codes, Command!Started
<1>1. CASE Command!StartAborted  BY <1>1 DEF Command!StartAborted
<1>2. CASE Command!SpawnFails  BY <1>2 DEF Command!SpawnFails
<1>3. CASE Command!Start  BY <1>3 DEF Command!Start
<1>4. ASSUME NEW n \in ChunkSizes, Command!Write(n)  PROVE Command!TypeOK'
  BY <1>4 DEF Command!Write
<1>5. ASSUME NEW p \in Group, NEW c \in Command!Codes, Command!End(p, c)  PROVE Command!TypeOK'
  BY <1>5 DEF Command!End
<1>6. CASE Command!Data
  <2>1. Head(pipe) \in ChunkSizes /\ Tail(pipe) \in Seq(ChunkSizes) /\ Head(pipe) \in Nat
    BY <1>6, HeadTailProperties DEF Command!Data
  <2>2. CASE outputBytes' > maxOutputBytes
    <3>1. Command!stop("outputLimit", timers) /\ alive' = alive
      BY <1>6, <2>2 DEF Command!Data
    <3> QED  BY <1>6, <2>1, <2>2, <3>1, StopGuards, SMTT(20) DEF Command!Data, Command!Count
  <2>3. CASE ~(outputBytes' > maxOutputBytes)
    <3>1. kept' = Append(kept, Head(pipe)) /\ keptBytes' = keptBytes + Head(pipe)
          /\ outputBytes' = outputBytes + Head(pipe)
      BY <1>6, <2>3 DEF Command!Data, Command!Count
    <3>2. kept' \in Seq(ChunkSizes)
      BY <2>1, <3>1, AppendProperties
    <3>3. outputBytes' \in Nat /\ keptBytes' \in Nat
      BY <2>1, <3>1
    <3> QED  BY <1>6, <2>1, <2>3, <3>2, <3>3 DEF Command!Data
  <2> QED  BY <2>2, <2>3
<1>7. CASE Command!Abort
  <2>1. CASE result = None
    <3>1. Command!stop("aborted", timers) /\ alive' = alive
      BY <1>7, <2>1 DEF Command!Abort
    <3> QED  BY <1>7, <2>1, <3>1, StopGuards DEF Command!Abort
  <2>2. CASE result # None  BY <1>7, <2>2 DEF Command!Abort
  <2> QED  BY <2>1, <2>2
<1>8. CASE Command!Timeout
  <2>1. Command!stop("timeout", timers \ {"timeout"}) /\ alive' = alive
    BY <1>8 DEF Command!Timeout
  <2> QED  BY <1>8, <2>1, StopGuards DEF Command!Timeout
<1>9. CASE Command!Force  BY <1>9, ForceGuards DEF Command!Force
<1>10. CASE Command!Close  BY <1>10 DEF Command!Close, Command!ClearTimers
<1>11. CASE UNCHANGED Command!vars  BY <1>11 DEF Command!vars
<1> QED
  BY <1>1, <1>2, <1>3, <1>4, <1>5, <1>6, <1>7, <1>8, <1>9, <1>10, <1>11 DEF Command!Next

LEMMA AppendToConcat ==
    ASSUME NEW S, NEW s \in Seq(S), NEW t \in Seq(S), NEW n \in S
    PROVE  Append(s \o t, n) = s \o Append(t, n)
<1>1. s \o t \in Seq(S) /\ Append(t, n) \in Seq(S)
  BY ConcatProperties, AppendProperties
<1>2. Append(s \o t, n) \in Seq(S) /\ s \o Append(t, n) \in Seq(S)
  BY <1>1, ConcatProperties, AppendProperties
<1>3. Len(Append(s \o t, n)) = Len(s) + Len(t) + 1 /\ Len(s \o Append(t, n)) = Len(s) + Len(t) + 1
  BY <1>1, ConcatProperties, AppendProperties
<1>4. \A i \in 1..(Len(s) + Len(t) + 1) : Append(s \o t, n)[i] = (s \o Append(t, n))[i]
  BY <1>1
<1> QED
  BY <1>2, <1>3, <1>4, SeqEqual

LEMMA MoveHead ==
    ASSUME NEW S, NEW s \in Seq(S), NEW t \in Seq(S), t # <<>>
    PROVE  Append(s, Head(t)) \o Tail(t) = s \o t
<1>1. Head(t) \in S /\ Tail(t) \in Seq(S) /\ Len(Tail(t)) = Len(t) - 1 /\ Len(t) \in Nat \ {0}
  BY HeadTailProperties, EmptySeq
<1>2. Append(s, Head(t)) \in Seq(S) /\ Len(Append(s, Head(t))) = Len(s) + 1
  BY <1>1, AppendProperties
<1>3. Append(s, Head(t)) \o Tail(t) \in Seq(S) /\ s \o t \in Seq(S)
  BY <1>1, <1>2, ConcatProperties
<1>4. Len(Append(s, Head(t)) \o Tail(t)) = Len(s) + Len(t) /\ Len(s \o t) = Len(s) + Len(t)
  BY <1>1, <1>2, ConcatProperties
<1>5. \A i \in 1..(Len(s) + Len(t)) : (Append(s, Head(t)) \o Tail(t))[i] = (s \o t)[i]
  BY <1>1, <1>2
<1> QED
  BY <1>3, <1>4, <1>5, SeqEqual

LEMMA OutputStep ==
    ASSUME CommandInv, [Command!Next]_(Command!vars)
    PROVE  OutputInv'
<1> USE CommandAssumption
    DEF CommandInv, Command!CommandAssumption, Command!TypeOK, OutputInv, Command!group,
        Command!guards, Command!output, Command!Started
<1>1. CASE Command!StartAborted  BY <1>1 DEF Command!StartAborted
<1>2. CASE Command!SpawnFails  BY <1>2 DEF Command!SpawnFails
<1>3. CASE Command!Start  BY <1>3 DEF Command!Start
<1>4. ASSUME NEW n \in ChunkSizes, Command!Write(n)  PROVE OutputInv'
  <2>1. written' = Append(written, n) /\ pipe' = Append(pipe, n)
        /\ UNCHANGED <<kept, keptBytes, outputBytes>>
    BY <1>4 DEF Command!Write
  <2>2. Len(written') = Len(written) + 1 /\ \A i \in 1..Len(written) : written'[i] = written[i]
    BY <2>1, AppendProperties
  <2>3. written = kept \o pipe => written' = kept \o pipe'
    <3>1. Append(kept \o pipe, n) = kept \o Append(pipe, n)
      BY AppendToConcat, SMTT(20)
    <3> QED  BY <2>1, <3>1
  <2>4. Len(kept) <= Len(written') /\ \A i \in 1..Len(kept) : kept[i] = written'[i]
    BY <2>2
  <2> QED
    BY <2>1, <2>3, <2>4
<1>5. ASSUME NEW p \in Group, NEW c \in Command!Codes, Command!End(p, c)  PROVE OutputInv'
  BY <1>5 DEF Command!End
<1>6. CASE Command!Data
  <2>1. /\ pipe # <<>> /\ Head(pipe) \in ChunkSizes /\ Tail(pipe) \in Seq(ChunkSizes)
        /\ Head(pipe) \in Nat /\ pipe' = Tail(pipe) /\ written' = written
        /\ outputBytes' = outputBytes + Head(pipe)
    BY <1>6, HeadTailProperties DEF Command!Data, Command!Count
  <2>2. CASE outputBytes' > maxOutputBytes
    BY <1>6, <2>1, <2>2 DEF Command!Data
  <2>3. CASE ~(outputBytes' > maxOutputBytes)
    <3>1. kept' = Append(kept, Head(pipe)) /\ keptBytes' = keptBytes + Head(pipe)
      BY <1>6, <2>3 DEF Command!Data
    <3>2. keptBytes = outputBytes /\ written = kept \o pipe
      BY <2>1, <2>3
    <3>3. written' = kept' \o pipe' /\ kept' \in Seq(ChunkSizes) /\ pipe' \in Seq(ChunkSizes)
      BY <2>1, <3>1, <3>2, MoveHead, AppendProperties
    <3>4. Len(kept') <= Len(written') /\ \A i \in 1..Len(kept') : kept'[i] = written'[i]
      BY <3>3, ConcatProperties
    <3>5. keptBytes' = outputBytes' /\ keptBytes' <= maxOutputBytes
      BY <2>1, <2>3, <3>1, <3>2
    <3> QED
      BY <3>3, <3>4, <3>5
  <2> QED
    BY <2>2, <2>3
<1>7. CASE Command!Abort  BY <1>7 DEF Command!Abort
<1>8. CASE Command!Timeout  BY <1>8 DEF Command!Timeout
<1>9. CASE Command!Force  BY <1>9 DEF Command!Force
<1>10. CASE Command!Close  BY <1>10 DEF Command!Close
<1>11. CASE UNCHANGED Command!vars  BY <1>11 DEF Command!vars
<1> QED
  BY <1>1, <1>2, <1>3, <1>4, <1>5, <1>6, <1>7, <1>8, <1>9, <1>10, <1>11 DEF Command!Next

LEMMA GuardStep ==
    ASSUME CommandInv, [Command!Next]_(Command!vars)
    PROVE  GuardInv'
<1> USE DEF CommandInv, Command!TypeOK, GuardInv, ResultInv, StartInv, Command!group,
        Command!guards
<1>0. ASSUME NEW kind \in Command!Kinds, NEW armed, armed \subseteq timers,
             Command!stop(kind, armed), alive' = alive
      PROVE  GuardInv'
  <2>1. /\ termination' \in Command!Kinds /\ sent' \in {<<"SIGTERM">>, <<"SIGTERM", "SIGKILL">>}
        /\ "forced" \in timers' => sent' = <<"SIGTERM">>
    BY <1>0, StopGuards
  <2>2. termination' # None
    BY <2>1, CommandAssumption DEF Command!CommandAssumption
  <2>3. sent' # <<>>
    <3>1. <<"SIGTERM">> # <<>> /\ <<"SIGTERM", "SIGKILL">> # <<>>
      OBVIOUS
    <3> QED  BY ONLY <2>1, <3>1, Zenon
  <2> QED  BY <2>1, <2>2, <2>3
<1>1. CASE Command!StartAborted  BY <1>1 DEF Command!StartAborted
<1>2. CASE Command!SpawnFails  BY <1>2 DEF Command!SpawnFails
<1>3. CASE Command!Start  BY <1>3 DEF Command!Start
<1>4. CASE \E n \in ChunkSizes : Command!Write(n)  BY <1>4 DEF Command!Write
<1>5. CASE \E p \in Group, c \in Command!Codes : Command!End(p, c)  BY <1>5 DEF Command!End
<1>6. CASE Command!Data
  <2>1. CASE outputBytes' > maxOutputBytes
    <3>1. Command!stop("outputLimit", timers) /\ alive' = alive
      BY <1>6, <2>1 DEF Command!Data
    <3> QED  BY <3>1, <1>0 DEF Command!Kinds
  <2>2. CASE ~(outputBytes' > maxOutputBytes)
    BY <1>6, <2>2 DEF Command!Data
  <2> QED  BY <2>1, <2>2
<1>7. CASE Command!Abort
  <2>1. CASE result = None
    <3>1. Command!stop("aborted", timers) /\ alive' = alive
      BY <1>7, <2>1 DEF Command!Abort
    <3> QED  BY <3>1, <1>0 DEF Command!Kinds
  <2>2. CASE result # None  BY <1>7, <2>2 DEF Command!Abort
  <2> QED  BY <2>1, <2>2
<1>8. CASE Command!Timeout
  <2>1. Command!stop("timeout", timers \ {"timeout"}) /\ alive' = alive
    BY <1>8 DEF Command!Timeout
  <2> QED  BY <2>1, <1>0 DEF Command!Kinds
<1>9. CASE Command!Force
  <2>1. "forced" \notin timers' /\ sent' # <<>> /\ termination' # None
    BY <1>9, ForceGuards DEF Command!Force
  <2> QED  BY <2>1
<1>10. CASE Command!Close  BY <1>10 DEF Command!Close, Command!ClearTimers
<1>11. CASE UNCHANGED Command!vars  BY <1>11 DEF Command!vars
<1> QED
  BY <1>1, <1>2, <1>3, <1>4, <1>5, <1>6, <1>7, <1>8, <1>9, <1>10, <1>11 DEF Command!Next

LEMMA ResultStep ==
    ASSUME CommandInv, [Command!Next]_(Command!vars)
    PROVE  ResultInv' /\ StartInv'
<1> USE CommandAssumption
    DEF CommandInv, Command!CommandAssumption, Command!TypeOK, ResultInv, StartInv,
        Command!group, Command!guards, Command!output, Command!Kinds, Command!Codes,
        Command!Started, Command!Report, Command!Result
<1>1. CASE Command!StartAborted  BY <1>1 DEF Command!StartAborted
<1>2. CASE Command!SpawnFails  BY <1>2 DEF Command!SpawnFails
<1>3. CASE Command!Start  BY <1>3 DEF Command!Start
<1>4. CASE \E n \in ChunkSizes : Command!Write(n)  BY <1>4 DEF Command!Write
<1>5. CASE \E p \in Group, c \in Command!Codes : Command!End(p, c)  BY <1>5 DEF Command!End
<1>6. CASE Command!Data
  <2>1. pipe # <<>> /\ result = None /\ result' = None /\ alive' = alive /\ code' = code
    BY <1>6 DEF Command!Data
  <2> QED  BY <2>1
<1>7. CASE Command!Abort  BY <1>7 DEF Command!Abort
<1>8. CASE Command!Timeout  BY <1>8 DEF Command!Timeout
<1>9. CASE Command!Force  BY <1>9 DEF Command!Force
<1>10. CASE Command!Close
  <2>1. /\ result' = Command!Result(code, termination, kept)
        /\ timers' = {} /\ alive' = {} /\ alive = {} /\ pipe = <<>>
        /\ UNCHANGED <<code, termination, written, kept, outputBytes>>
    BY <1>10 DEF Command!Close, Command!ClearTimers
  <2>2. termination = None => written = kept
    BY <2>1, ConcatEmptySeq DEF GuardInv, OutputInv
  <2>3. result'.code = code /\ result'.termination = termination /\ result'.output = kept
    BY <2>1
  <2>4. ResultInv'
    BY <2>1, <2>2, <2>3
  <2>5. StartInv'
    BY <1>10, <2>1 DEF Command!Close
  <2> QED
    BY <2>4, <2>5
<1>11. CASE UNCHANGED Command!vars  BY <1>11 DEF Command!vars
<1> HIDE DEF CommandInv, Command!TypeOK, ResultInv, StartInv
<1> QED
  BY <1>1, <1>2, <1>3, <1>4, <1>5, <1>6, <1>7, <1>8, <1>9, <1>10, <1>11 DEF Command!Next

LEMMA CommandInit == Command!Init => CommandInv
<1> SUFFICES ASSUME Command!Init  PROVE CommandInv
  OBVIOUS
<1> USE CommandAssumption DEF Command!Init, Command!CommandAssumption
<1>1. Command!TypeOK
  <2>1. <<>> \in Seq(ChunkSizes) /\ sent \in {<<>>, <<"SIGTERM">>, <<"SIGTERM", "SIGKILL">>}
    OBVIOUS
  <2> HIDE DEF Command!CommandAssumption
  <2> QED  BY <2>1 DEF Command!TypeOK
<1>2. OutputInv
  <2>1. <<>> \o <<>> = <<>>
    OBVIOUS
  <2> QED  BY <2>1 DEF OutputInv
<1>3. GuardInv /\ ResultInv /\ StartInv
  BY DEF GuardInv, ResultInv, StartInv
<1> QED
  BY <1>1, <1>2, <1>3 DEF CommandInv

LEMMA CommandStep ==
    ASSUME CommandInv, [Command!Next]_(Command!vars)
    PROVE  CommandInv'
BY CommandTypeStep, OutputStep, GuardStep, ResultStep DEF CommandInv

\* A command that is reported as a success was stopped by nothing and its output is all that its
\* group wrote; any other output is the beginning of that and within the limit; and no process of
\* the group and no timer outlives the call.
THEOREM CommandOutput == Command!Spec => []CommandIsSound
<1>1. ASSUME CommandInv
      PROVE  CommandIsSound
  <2>1. Command!SuccessIsComplete
    BY <1>1 DEF CommandInv, ResultInv, GuardInv, Command!SuccessIsComplete
  <2>2. Command!IsPrefix(kept, written)
    <3>1. kept \in Seq(ChunkSizes) /\ written \in Seq(ChunkSizes)
          /\ Len(kept) <= Len(written) /\ \A i \in 1..Len(kept) : kept[i] = written[i]
      BY <1>1 DEF CommandInv, Command!TypeOK, OutputInv
    <3>2. SubSeq(kept, 1, Len(kept)) = SubSeq(written, 1, Len(kept))
      BY <3>1
    <3> QED
      BY <3>1, <3>2 DEF Command!IsPrefix
  <2>3. Command!OutputIsPrefix
    BY <1>1, <2>2 DEF CommandInv, OutputInv, Command!OutputIsPrefix
  <2>4. Command!NothingLeft
    BY <1>1 DEF CommandInv, ResultInv, Command!NothingLeft
  <2> QED
    BY <1>1, <2>1, <2>3, <2>4 DEF CommandInv, CommandIsSound
<1> QED
  BY <1>1, CommandInit, CommandStep, PTL DEF Command!Spec

\* The group of a command that settled gets no signal any more.
LEMMA Signalling == Command!Spec => Command!NoSignalAfterSettle
<1>1. ASSUME CommandInv, [Command!Next]_(Command!vars)
      PROVE  [result # None => sent' = sent]_(Command!vars)
  <2> SUFFICES ASSUME result # None  PROVE sent' = sent
    OBVIOUS
  <2>1. timers = {} /\ alive = {}
    BY <1>1 DEF CommandInv, ResultInv
  <2> QED
    BY <1>1, <2>1
    DEF Command!Next, Command!StartAborted, Command!SpawnFails, Command!Start, Command!Write,
        Command!End, Command!Data, Command!Abort, Command!Timeout, Command!Force, Command!Close,
        Command!guards, Command!vars
<1> QED
  BY <1>1, CommandInit, CommandStep, PTL DEF Command!Spec, Command!NoSignalAfterSettle

-----------------------------------------------------------------------------
(***************************************************************************)
(* The pool of capsule workers.  The handlers build their result from the  *)
(* pool's record, step by step; the lemmas below say of each of those      *)
(* steps what it keeps.                                                    *)
(***************************************************************************)
Statuses == {"new", "checking", "waiting"} \cup Settled
PoolType == [status : [Tasks -> Statuses], queue : Seq(Tasks), failure : BOOLEAN,
             worker : Seq(WorkerType)]

\* A message, its answer or the restoration of that: one at a time, and for the task at hand
\* unless the worker has failed.
WorkerOK(r) ==
    /\ r.restoring # None => r.restoring = r.task /\ r.inbox = None /\ r.wire = None
    /\ r.inbox # None => r.wire = None
    /\ ~r.failed => /\ r.inbox # None => r.inbox = r.task
                    /\ r.wire # None => r.wire.task = r.task
    /\ r.failed /\ r.task # None => r.restoring = r.task

\* Who has which task.  The task of the worker x may have settled already.
QueueOwns(p) ==
    /\ \A i, j \in DOMAIN p.queue : p.queue[i] = p.queue[j] => i = j
    /\ \A i \in DOMAIN p.queue :
          /\ p.status[p.queue[i]] = "waiting"
          /\ \A w \in DOMAIN p.worker : p.worker[w].task # p.queue[i]
    /\ p.failure => p.queue = <<>>
WorkersOwn(p, x) ==
    /\ \A w \in DOMAIN p.worker : p.worker[w].task # None =>
          /\ w = x \/ p.status[p.worker[w].task] = "waiting"
          /\ \A v \in DOMAIN p.worker : p.worker[v].task = p.worker[w].task => v = w
    /\ \A w \in DOMAIN p.worker : WorkerOK(p.worker[w])
NobodyIsForgotten(p) ==
    \A t \in Tasks : p.status[t] = "waiting" =>
        \/ \E i \in DOMAIN p.queue : p.queue[i] = t
        \/ \E w \in DOMAIN p.worker : p.worker[w].task = t
Owned(p, x) == QueueOwns(p) /\ WorkersOwn(p, x) /\ NobodyIsForgotten(p)

\* A worker that failed has failed the pool.
FailuresCount(p) == \A w \in DOMAIN p.worker : p.worker[w].failed => p.failure

Busy(p) ==
    p.queue # <<>> => Len(p.worker) = limit /\ \A w \in DOMAIN p.worker : p.worker[w].task # None

\* A pool like p, but with the failure and without the queue, whose tasks have failed.
LEMMA Rejected ==
    ASSUME NEW p \in PoolType, NEW x \in Nat, Owned(p, x), NEW q \in PoolType,
           q.queue = <<>>, q.failure, q.worker = p.worker,
           q.status = [t \in Tasks |->
               IF \E i \in 1..Len(p.queue) : p.queue[i] = t THEN "failed" ELSE p.status[t]]
    PROVE  /\ Owned(q, x)
           /\ \A t \in Tasks : q.status[t] \in {p.status[t], "failed"}
           /\ \A w \in DOMAIN p.worker : p.worker[w].task # None =>
                 q.status[p.worker[w].task] = p.status[p.worker[w].task]
<1> DEFINE failed(t) == \E i \in 1..Len(p.queue) : p.queue[i] = t
<1>1. \A t \in Tasks : failed(t) => \A w \in DOMAIN p.worker : p.worker[w].task # t
  BY DEF Owned, QueueOwns, PoolType
<1>2. \A w \in DOMAIN p.worker : p.worker[w] \in WorkerType
  BY DEF PoolType
<1>3. \A w \in DOMAIN p.worker :
         p.worker[w].task # None => q.status[p.worker[w].task] = p.status[p.worker[w].task]
  BY <1>1, <1>2, PoolAssumption DEF WorkerType
<1>4. QueueOwns(q)
  BY DEF QueueOwns
<1>5. WorkersOwn(q, x)
  <2>1. WorkersOwn(p, x) /\ q.worker = p.worker
    BY DEF Owned
  <2> QED
    BY ONLY <1>3, <2>1 DEF WorkersOwn
<1>6. NobodyIsForgotten(q)
  <2>1. \A t \in Tasks : q.status[t] = "waiting" => p.status[t] = "waiting" /\ ~failed(t)
    OBVIOUS
  <2>2. NobodyIsForgotten(p) /\ q.worker = p.worker /\ DOMAIN p.queue = 1..Len(p.queue)
    BY DEF Owned, PoolType
  <2> QED
    BY ONLY <2>1, <2>2 DEF NobodyIsForgotten
<1> QED
  BY <1>3, <1>4, <1>5, <1>6 DEF Owned

LEMMA RejectedType == ASSUME NEW p \in PoolType PROVE rejectPool(p) \in PoolType
<1>1. [t \in Tasks |-> IF \E i \in 1..Len(p.queue) : p.queue[i] = t THEN "failed"
                       ELSE p.status[t]] \in [Tasks -> Statuses]
  BY DEF PoolType, Statuses, Settled
<1>2. <<>> \in Seq(Tasks)
  OBVIOUS
<1> QED
  BY <1>1, <1>2 DEF rejectPool, PoolType

LEMMA RejectPool ==
    ASSUME NEW p \in PoolType, NEW x \in Nat, Owned(p, x)
    PROVE  /\ rejectPool(p) \in PoolType /\ Owned(rejectPool(p), x)
           /\ rejectPool(p).queue = <<>> /\ rejectPool(p).failure
           /\ rejectPool(p).worker = p.worker
           /\ \A t \in Tasks : rejectPool(p).status[t] \in {p.status[t], "failed"}
           /\ \A w \in DOMAIN p.worker :
                 p.worker[w].task # None =>
                    rejectPool(p).status[p.worker[w].task] = p.status[p.worker[w].task]
<1> DEFINE q == rejectPool(p)
<1>1. q.queue = <<>> /\ q.failure = TRUE /\ q.worker = p.worker
  BY DEF rejectPool, PoolType
<1>2. q.status = [t \in Tasks |->
          IF \E i \in 1..Len(p.queue) : p.queue[i] = t THEN "failed" ELSE p.status[t]]
  BY DEF rejectPool, PoolType
<1>3. q \in PoolType
  BY RejectedType
<1> HIDE DEF q
<1>4. /\ Owned(q, x)
      /\ \A t \in Tasks : q.status[t] \in {p.status[t], "failed"}
      /\ \A w \in DOMAIN p.worker : p.worker[w].task # None =>
            q.status[p.worker[w].task] = p.status[p.worker[w].task]
  BY <1>1, <1>2, <1>3, Rejected
<1> QED
  BY <1>1, <1>3, <1>4 DEF q

\* The task of the worker settles.
LEMMA SettleTask ==
    ASSUME NEW p \in PoolType, Owned(p, 0), NEW w \in DOMAIN p.worker, NEW outcome \in Settled
    PROVE  LET q == Settle(p, p.worker[w].task, outcome) IN
           /\ q \in PoolType /\ Owned(q, w)
           /\ q.queue = p.queue /\ q.failure = p.failure /\ q.worker = p.worker
           /\ p.worker[w].task # None => q.status[p.worker[w].task] = outcome
           /\ \A t \in Tasks : t # p.worker[w].task => q.status[t] = p.status[t]
<1> DEFINE t == p.worker[w].task
           q == Settle(p, t, outcome)
<1>1. p.worker[w] \in WorkerType /\ DOMAIN p.worker = 1..Len(p.worker) /\ Len(p.worker) \in Nat
  BY DEF PoolType
<1> t \in Tasks \cup {None}
  BY <1>1 DEF WorkerType
<1>2. CASE t = None
  <2>1. q = p
    BY <1>2 DEF Settle
  <2>2. Owned(p, w)
    BY <1>1 DEF Owned, WorkersOwn
  <2> QED
    BY <1>2, <2>1, <2>2, PoolAssumption
<1>3. CASE t # None
  <2>1. t \in Tasks /\ p.status[t] = "waiting"
    BY <1>1, <1>3, PoolAssumption DEF Owned, WorkersOwn, PoolType
  <2>2. q = [status |-> [p.status EXCEPT ![t] = outcome], queue |-> p.queue,
             failure |-> p.failure, worker |-> p.worker]
    BY <1>3, <2>1 DEF Settle, PoolType
  <2> HIDE DEF q
  <2>3. q \in PoolType
    BY <2>1, <2>2 DEF PoolType, Statuses
  <2>4. q.status[t] = outcome /\ outcome # "waiting"
    BY <2>1, <2>2 DEF PoolType, Settled
  <2>5. \A s \in Tasks : s # t => q.status[s] = p.status[s]
    BY <2>2 DEF PoolType
  <2>6. \A v \in DOMAIN p.worker : p.worker[v] \in WorkerType /\ (p.worker[v].task = t => v = w)
    BY <1>3 DEF Owned, WorkersOwn, PoolType
  <2>7. QueueOwns(q)
    BY <2>1, <2>2, <2>5 DEF Owned, QueueOwns, PoolType
  <2>8. WorkersOwn(q, w)
    <3>1. \A v \in DOMAIN p.worker : p.worker[v].task # None =>
             v = w \/ q.status[p.worker[v].task] = "waiting"
      BY <1>1, <2>5, <2>6, PoolAssumption DEF Owned, WorkersOwn, WorkerType
    <3> QED
      BY <2>2, <3>1 DEF Owned, WorkersOwn
  <2>9. NobodyIsForgotten(q)
    BY <2>2, <2>4, <2>5 DEF Owned, NobodyIsForgotten
  <2> QED
    BY <2>2, <2>3, <2>4, <2>5, <2>7, <2>8, <2>9 DEF Owned, q
<1> QED
  BY <1>2, <1>3

PoolIsSafe(p) ==
    p \in PoolType /\ Len(p.worker) <= limit /\ Owned(p, 0) /\ FailuresCount(p) /\ Busy(p)

ClosingInv ==
    /\ closing \in {"open", "draining", "stopping", "closed"}
    /\ closing \in {"stopping", "closed"} =>
          \A t \in Tasks : status[t] \notin {"checking", "waiting"}

PoolInv == PoolIsSafe(Pool) /\ ClosingInv

LEMMA LimitType == limit \in Nat \ {0} /\ limit <= 2
BY PoolAssumption DEF limit

\* A status that does not concern who waits, and a record of a worker that keeps its task.
LEMMA ChangeWorker ==
    ASSUME NEW p \in PoolType, NEW q \in PoolType, NEW x \in Nat, Owned(p, x),
           NEW w \in DOMAIN p.worker, NEW r \in WorkerType, WorkerOK(r),
           r.task = p.worker[w].task,
           \A t \in Tasks : q.status[t] = "waiting" <=> p.status[t] = "waiting",
           q.queue = p.queue, q.failure = p.failure,
           q.worker = [p.worker EXCEPT ![w] = r]
    PROVE  Owned(q, x)
<1>1. /\ DOMAIN q.worker = DOMAIN p.worker
      /\ \A v \in DOMAIN p.worker : q.worker[v].task = p.worker[v].task /\ p.worker[v] \in WorkerType
      /\ \A v \in DOMAIN p.worker : v # w => q.worker[v] = p.worker[v]
      /\ q.worker[w] = r
  BY DEF PoolType
<1>2. QueueOwns(q)
  BY <1>1 DEF Owned, QueueOwns, PoolType
<1>3. WorkersOwn(q, x)
  <2>1. \A v \in DOMAIN q.worker : q.worker[v].task # None =>
           /\ v = x \/ q.status[q.worker[v].task] = "waiting"
           /\ \A u \in DOMAIN q.worker : q.worker[u].task = q.worker[v].task => u = v
    BY <1>1 DEF Owned, WorkersOwn, WorkerType
  <2>2. \A v \in DOMAIN q.worker : WorkerOK(q.worker[v])
    BY <1>1 DEF Owned, WorkersOwn
  <2> QED
    BY <2>1, <2>2 DEF WorkersOwn
<1>4. NobodyIsForgotten(q)
  BY <1>1 DEF Owned, NobodyIsForgotten
<1> QED
  BY <1>2, <1>3, <1>4 DEF Owned

\* The finally block lets go of a task that has settled.
LEMMA ReleaseWorker ==
    ASSUME NEW p \in PoolType, NEW q \in PoolType, NEW w \in DOMAIN p.worker, Owned(p, w),
           NEW r \in WorkerType, WorkerOK(r), r.task = None,
           p.worker[w].task # None => p.status[p.worker[w].task] # "waiting",
           q.status = p.status, q.queue = p.queue, q.failure = p.failure,
           q.worker = [p.worker EXCEPT ![w] = r]
    PROVE  Owned(q, 0)
<1>1. /\ DOMAIN q.worker = DOMAIN p.worker
      /\ \A v \in DOMAIN p.worker : p.worker[v] \in WorkerType
      /\ \A v \in DOMAIN p.worker : v # w => q.worker[v] = p.worker[v]
      /\ q.worker[w] = r
  BY DEF PoolType
<1>2. QueueOwns(q)
  BY <1>1, PoolAssumption DEF Owned, QueueOwns, PoolType
<1>3. WorkersOwn(q, 0)
  <2>1. \A v \in DOMAIN q.worker : q.worker[v].task # None =>
           /\ q.status[q.worker[v].task] = "waiting"
           /\ \A u \in DOMAIN q.worker : q.worker[u].task = q.worker[v].task => u = v
    BY <1>1 DEF Owned, WorkersOwn
  <2>2. \A v \in DOMAIN q.worker : WorkerOK(q.worker[v])
    BY <1>1 DEF Owned, WorkersOwn
  <2> QED
    BY <2>1, <2>2 DEF WorkersOwn
<1>4. NobodyIsForgotten(q)
  <2> SUFFICES ASSUME NEW t \in Tasks, q.status[t] = "waiting"
               PROVE  \/ \E i \in DOMAIN q.queue : q.queue[i] = t
                      \/ \E v \in DOMAIN q.worker : q.worker[v].task = t
    BY DEF NobodyIsForgotten
  <2>1. \/ \E i \in DOMAIN p.queue : p.queue[i] = t
        \/ \E v \in DOMAIN p.worker : p.worker[v].task = t
    BY DEF Owned, NobodyIsForgotten
  <2>2. p.worker[w].task # t
    BY PoolAssumption
  <2> QED
    BY <1>1, <2>1, <2>2
<1> QED
  BY <1>2, <1>3, <1>4 DEF Owned

\* Every worker but w, which is about to be given a task, is busy when the queue is not empty.
BusyBut(p, w) ==
    p.queue # <<>> =>
        /\ Len(p.worker) = limit
        /\ \A v \in DOMAIN p.worker : v # w => p.worker[v].task # None

\* What assign does with the head of the queue.
LEMMA Assign ==
    ASSUME NEW p \in PoolType, Owned(p, 0), FailuresCount(p), NEW w \in DOMAIN p.worker,
           p.worker[w].task = None, NEW posted \in BOOLEAN
    PROVE  LET q == assign(p, w, posted) IN
           /\ q \in PoolType /\ Owned(q, 0) /\ FailuresCount(q)
           /\ Len(q.worker) = Len(p.worker)
           /\ \A t \in Tasks : q.status[t] \in {p.status[t], "failed"}
           /\ \/ q.queue = <<>>
              \/ /\ p.queue # <<>> /\ q.queue = Tail(p.queue) /\ q.worker[w].task # None
                 /\ \A v \in DOMAIN p.worker : v # w => q.worker[v] = p.worker[v]
<1> DEFINE q == assign(p, w, posted)
           t == Head(p.queue)
<1>0. /\ DOMAIN p.worker = 1..Len(p.worker) /\ Len(p.worker) \in Nat
      /\ DOMAIN p.queue = 1..Len(p.queue) /\ Len(p.queue) \in Nat
      /\ \A v \in DOMAIN p.worker : p.worker[v] \in WorkerType
  BY DEF PoolType
<1>1. CASE p.failure \/ p.queue = <<>>
  <2>1. q = p /\ q.queue = <<>>
    BY <1>1 DEF assign, Owned, QueueOwns, PoolType
  <2> QED
    BY <2>1
<1>2. CASE ~p.failure /\ p.queue # <<>> /\ ~posted
  <2>1. q = rejectPool(Settle([p EXCEPT !.queue = Tail(@)], t, "failed"))
    BY <1>2 DEF assign
  <2>2. 1 \in DOMAIN p.queue /\ t = p.queue[1] /\ t \in Tasks /\ t # None /\ p.status[t] = "waiting"
    BY <1>0, <1>2, PoolAssumption DEF Owned, QueueOwns, PoolType
  <2>3. /\ Len(Tail(p.queue)) = Len(p.queue) - 1
        /\ \A i \in 1..Len(p.queue) - 1 : Tail(p.queue)[i] = p.queue[i + 1]
    BY <1>2 DEF PoolType
  <2>4. \A u \in Tasks :
           (\E i \in 1..Len(p.queue) : p.queue[i] = u)
           <=> u = t \/ \E i \in 1..Len(Tail(p.queue)) : Tail(p.queue)[i] = u
    <3> SUFFICES ASSUME NEW u \in Tasks
                 PROVE  (\E i \in 1..Len(p.queue) : p.queue[i] = u)
                        <=> u = t \/ \E i \in 1..Len(Tail(p.queue)) : Tail(p.queue)[i] = u
      OBVIOUS
    <3>1. ASSUME NEW i \in 1..Len(p.queue), p.queue[i] = u
          PROVE  u = t \/ \E j \in 1..Len(Tail(p.queue)) : Tail(p.queue)[j] = u
      <4>1. CASE i = 1
        BY <2>2, <3>1, <4>1
      <4>2. CASE i # 1
        BY <1>0, <2>3, <3>1, <4>2, i - 1 \in 1..Len(p.queue) - 1
      <4> QED
        BY <4>1, <4>2
    <3>2. ASSUME NEW j \in 1..Len(Tail(p.queue)), Tail(p.queue)[j] = u
          PROVE  \E i \in 1..Len(p.queue) : p.queue[i] = u
      BY <1>0, <2>3, <3>2, j + 1 \in 1..Len(p.queue)
    <3>3. 1 \in 1..Len(p.queue) /\ p.queue[1] = t
      BY <1>0, <2>2
    <3> QED
      BY <3>1, <3>2, <3>3
  <2>5. Settle([p EXCEPT !.queue = Tail(@)], t, "failed")
          = [status |-> [p.status EXCEPT ![t] = "failed"], queue |-> Tail(p.queue),
             failure |-> p.failure, worker |-> p.worker]
    BY <2>2 DEF Settle, PoolType
  <2>6. [u \in Tasks |-> IF \E i \in 1..Len(Tail(p.queue)) : Tail(p.queue)[i] = u THEN "failed"
                         ELSE [p.status EXCEPT ![t] = "failed"][u]]
          = [u \in Tasks |-> IF \E i \in 1..Len(p.queue) : p.queue[i] = u THEN "failed"
                             ELSE p.status[u]]
    <3>1. \A u \in Tasks : u # t => [p.status EXCEPT ![t] = "failed"][u] = p.status[u]
      BY DEF PoolType
    <3>2. [p.status EXCEPT ![t] = "failed"][t] = "failed"
      BY <2>2 DEF PoolType
    <3> HIDE DEF t
    <3> QED
      BY <2>4, <3>1, <3>2
  <2>7. q = rejectPool([status |-> [p.status EXCEPT ![t] = "failed"], queue |-> Tail(p.queue),
                        failure |-> p.failure, worker |-> p.worker])
    BY <2>1, <2>5
  <2>8. q.queue = <<>> /\ q.failure = TRUE /\ q.worker = p.worker
    BY <2>7 DEF rejectPool
  <2>9. q.status = [u \in Tasks |-> IF \E i \in 1..Len(p.queue) : p.queue[i] = u THEN "failed"
                                    ELSE p.status[u]]
    BY <2>6, <2>7 DEF rejectPool
  <2>10. q \in PoolType
    <3>1. [p.status EXCEPT ![t] = "failed"] \in [Tasks -> Statuses]
      BY <2>2 DEF PoolType, Statuses, Settled
    <3>2. Tail(p.queue) \in Seq(Tasks)
      BY <1>2 DEF PoolType
    <3>3. [status |-> [p.status EXCEPT ![t] = "failed"], queue |-> Tail(p.queue),
           failure |-> p.failure, worker |-> p.worker] \in PoolType
      BY <3>1, <3>2 DEF PoolType
    <3> QED
      BY <2>7, <3>3, RejectedType
  <2> HIDE DEF q
  <2>11. Owned(q, 0) /\ \A u \in Tasks : q.status[u] \in {p.status[u], "failed"}
    BY <2>8, <2>9, <2>10, Rejected, 0 \in Nat
  <2>12. FailuresCount(q)
    BY <2>8 DEF FailuresCount
  <2> QED
    BY <2>8, <2>10, <2>11, <2>12 DEF q
<1>3. CASE ~p.failure /\ p.queue # <<>> /\ posted
  <2> DEFINE r == [p.worker[w] EXCEPT !.task = t, !.inbox = t]
  <2>1. 1 \in DOMAIN p.queue /\ t = p.queue[1] /\ t \in Tasks /\ t # None /\ p.status[t] = "waiting"
    BY <1>0, <1>3, PoolAssumption DEF Owned, QueueOwns, PoolType
  <2>2. /\ Tail(p.queue) \in Seq(Tasks) /\ Len(Tail(p.queue)) = Len(p.queue) - 1
        /\ \A i \in 1..Len(p.queue) - 1 : Tail(p.queue)[i] = p.queue[i + 1]
    BY <1>3 DEF PoolType
  <2>3. q = [status |-> p.status, queue |-> Tail(p.queue), failure |-> p.failure,
             worker |-> [p.worker EXCEPT ![w] = r]]
    BY <1>3 DEF assign, PoolType
  <2>4. r \in WorkerType /\ r.task = t
    BY <1>0, <2>1 DEF WorkerType
  <2>5. WorkerOK(r) /\ ~r.failed
    <3>1. ~p.worker[w].failed
      BY <1>3 DEF FailuresCount
    <3>2. WorkerOK(p.worker[w]) /\ p.worker[w] \in WorkerType
      BY <1>0 DEF Owned, WorkersOwn
    <3>3. p.worker[w].wire = None /\ p.worker[w].restoring = None
      <4>1. p.worker[w].restoring = None
        BY <3>2 DEF WorkerOK
      <4>2. p.worker[w].wire # None => p.worker[w].wire \in Message
        BY <3>2 DEF WorkerType
      <4> QED
        BY <3>1, <3>2, <4>1, <4>2, PoolAssumption DEF WorkerOK, Message
    <3>4. /\ r.inbox = t /\ r.task = t /\ r.wire = None /\ r.restoring = None /\ ~r.failed
      BY <3>1, <3>2, <3>3 DEF WorkerType
    <3> HIDE DEF r
    <3> QED
      BY <3>4 DEF WorkerOK
  <2> HIDE DEF r, q
  <2>6. q \in PoolType
    BY <2>2, <2>3, <2>4 DEF PoolType
  <2>7. /\ DOMAIN q.worker = DOMAIN p.worker /\ Len(q.worker) = Len(p.worker)
        /\ q.worker[w] = r
        /\ \A v \in DOMAIN p.worker : v # w => q.worker[v] = p.worker[v]
    BY <1>0, <2>3 DEF PoolType
  <2>8. QueueOwns(q)
    <3>1. DOMAIN q.queue = 1..Len(p.queue) - 1
      BY <2>2, <2>3
    <3>2. \A i \in DOMAIN q.queue : i + 1 \in DOMAIN p.queue /\ q.queue[i] = p.queue[i + 1]
      BY <1>0, <2>2, <2>3, <3>1
    <3>3. \A i, j \in DOMAIN q.queue : q.queue[i] = q.queue[j] => i = j
      <4> SUFFICES ASSUME NEW i \in DOMAIN q.queue, NEW j \in DOMAIN q.queue, q.queue[i] = q.queue[j]
                   PROVE  i = j
        OBVIOUS
      <4>1. i + 1 = j + 1
        BY <3>2 DEF Owned, QueueOwns
      <4> QED
        BY <1>0, <3>1, <4>1
    <3>4. \A i \in DOMAIN q.queue : q.queue[i] # t
      BY <1>0, <2>1, <3>1, <3>2 DEF Owned, QueueOwns
    <3>5. \A i \in DOMAIN q.queue :
             /\ q.status[q.queue[i]] = "waiting"
             /\ \A v \in DOMAIN p.worker : p.worker[v].task # q.queue[i]
      BY <2>3, <3>2 DEF Owned, QueueOwns
    <3>6. \A i \in DOMAIN q.queue : \A v \in DOMAIN q.worker : q.worker[v].task # q.queue[i]
      BY <2>4, <2>7, <3>4, <3>5
    <3> QED
      BY <1>3, <2>3, <3>3, <3>5, <3>6 DEF QueueOwns
  <2>9. WorkersOwn(q, 0)
    <3>1. \A v \in DOMAIN p.worker : p.worker[v].task # t
      BY <2>1 DEF Owned, QueueOwns
    <3>2. \A v \in DOMAIN q.worker : q.worker[v].task # None =>
             /\ q.status[q.worker[v].task] = "waiting"
             /\ \A u \in DOMAIN q.worker : q.worker[u].task = q.worker[v].task => u = v
      <4> SUFFICES ASSUME NEW v \in DOMAIN p.worker, q.worker[v].task # None
                   PROVE  /\ q.status[q.worker[v].task] = "waiting"
                          /\ \A u \in DOMAIN p.worker : q.worker[u].task = q.worker[v].task => u = v
        BY <2>7
      <4>1. CASE v = w
        BY <2>1, <2>3, <2>4, <2>7, <3>1, <4>1
      <4>2. CASE v # w
        <5>1. /\ v # 0 /\ q.worker[v] = p.worker[v]
              /\ p.status[p.worker[v].task] = "waiting"
              /\ \A u \in DOMAIN p.worker : p.worker[u].task = p.worker[v].task => u = v
          BY <1>0, <2>7, <4>2 DEF Owned, WorkersOwn
        <5> QED
          BY <2>3, <2>4, <2>7, <3>1, <4>2, <5>1
      <4> QED
        BY <4>1, <4>2
    <3>3. \A v \in DOMAIN q.worker : WorkerOK(q.worker[v])
      BY <2>5, <2>7 DEF Owned, WorkersOwn
    <3> QED
      BY <3>2, <3>3 DEF WorkersOwn
  <2>10. NobodyIsForgotten(q)
    <3> SUFFICES ASSUME NEW u \in Tasks, q.status[u] = "waiting"
                 PROVE  \/ \E i \in DOMAIN q.queue : q.queue[i] = u
                        \/ \E v \in DOMAIN q.worker : q.worker[v].task = u
      BY DEF NobodyIsForgotten
    <3>1. \/ \E i \in DOMAIN p.queue : p.queue[i] = u
          \/ \E v \in DOMAIN p.worker : p.worker[v].task = u
      BY <2>3 DEF Owned, NobodyIsForgotten
    <3>2. ASSUME NEW v \in DOMAIN p.worker, p.worker[v].task = u
          PROVE  v # w
      BY <3>2, PoolAssumption
    <3>3. ASSUME NEW i \in DOMAIN p.queue, p.queue[i] = u, i # 1
          PROVE  \E j \in DOMAIN q.queue : q.queue[j] = u
      <4>1. i - 1 \in 1..Len(p.queue) - 1 /\ q.queue[i - 1] = p.queue[i]
        BY <1>0, <2>2, <2>3, <3>3
      <4>2. i - 1 \in DOMAIN q.queue
        BY <2>2, <2>3, <4>1
      <4> QED
        BY <3>3, <4>1, <4>2
    <3>4. u = t => q.worker[w].task = u /\ w \in DOMAIN q.worker
      BY <2>4, <2>7
    <3> QED
      BY <2>1, <2>7, <3>1, <3>2, <3>3, <3>4
  <2>11. FailuresCount(q)
    BY <2>3, <2>5, <2>7 DEF FailuresCount
  <2>12. \A u \in Tasks : q.status[u] = p.status[u]
    BY <2>3
  <2>13. q.queue = Tail(p.queue) /\ q.worker[w].task # None
    BY <2>1, <2>3, <2>4, <2>7
  <2> QED
    BY <1>3, <2>6, <2>7, <2>8, <2>9, <2>10, <2>11, <2>12, <2>13 DEF Owned, q
<1> QED
  BY <1>1, <1>2, <1>3

\* A status that does not concern who waits.
LEMMA ChangeStatus ==
    ASSUME NEW p \in PoolType, NEW q \in PoolType, PoolIsSafe(p),
           \A t \in Tasks : q.status[t] = "waiting" <=> p.status[t] = "waiting",
           q.queue = p.queue, q.failure = p.failure, q.worker = p.worker
    PROVE  PoolIsSafe(q)
<1>1. \A i \in DOMAIN p.queue : p.queue[i] \in Tasks
  BY DEF PoolType
<1>2. QueueOwns(q)
  BY <1>1 DEF PoolIsSafe, Owned, QueueOwns
<1>3. WorkersOwn(q, 0)
  <2>1. WorkersOwn(p, 0) /\ 0 \notin DOMAIN p.worker
    BY DEF PoolIsSafe, Owned, PoolType
  <2>2. \A w \in DOMAIN p.worker : p.worker[w].task # None => p.worker[w].task \in Tasks
    <3>1. \A w \in DOMAIN p.worker : p.worker[w] \in WorkerType
      BY DEF PoolType
    <3> QED
      BY <3>1 DEF WorkerType
  <2>3. \A w \in DOMAIN q.worker : q.worker[w].task # None =>
           q.status[q.worker[w].task] = "waiting"
    BY <2>1, <2>2 DEF WorkersOwn
  <2> QED
    BY <2>1, <2>3 DEF WorkersOwn
<1>4. NobodyIsForgotten(q)
  BY DEF PoolIsSafe, Owned, NobodyIsForgotten
<1> QED
  BY <1>2, <1>3, <1>4 DEF PoolIsSafe, Owned, Busy, FailuresCount

\* The finally block: the worker lets go of its task, which has settled, and is given the next.
LEMMA FinishTask ==
    ASSUME NEW p \in PoolType, NEW w \in DOMAIN p.worker, Owned(p, w), FailuresCount(p),
           BusyBut(p, w), Len(p.worker) <= limit,
           p.worker[w].task # None => p.status[p.worker[w].task] # "waiting",
           ~p.worker[w].failed => p.worker[w].inbox = None /\ p.worker[w].wire = None,
           NEW posted \in BOOLEAN
    PROVE  LET q == Finish(p, w, posted) IN
           PoolIsSafe(q) /\ \A t \in Tasks : q.status[t] \in {p.status[t], "failed"}
<1> DEFINE r == [p.worker[w] EXCEPT !.restoring = None, !.task = None]
           s == [p EXCEPT !.worker[w].restoring = None, !.worker[w].task = None]
           q == assign(s, w, posted)
<1>1. /\ DOMAIN p.worker = 1..Len(p.worker) /\ Len(p.worker) \in Nat
      /\ \A v \in DOMAIN p.worker : p.worker[v] \in WorkerType
      /\ p.worker[w] \in WorkerType /\ WorkerOK(p.worker[w])
  BY DEF PoolType, Owned, WorkersOwn
<1>2. /\ r \in WorkerType /\ r.task = None /\ r.restoring = None
      /\ r.inbox = p.worker[w].inbox /\ r.wire = p.worker[w].wire /\ r.failed = p.worker[w].failed
  BY <1>1 DEF WorkerType
<1>3. s.status = p.status /\ s.queue = p.queue /\ s.failure = p.failure
  BY DEF PoolType
<1>4. s.worker = [p.worker EXCEPT ![w] = r]
  BY <1>1 DEF PoolType
<1> HIDE DEF r
<1>5. s \in PoolType
  <2>1. [p.worker EXCEPT ![w] = r] \in Seq(WorkerType)
    BY <1>1, <1>2 DEF PoolType
  <2>2. s = [p EXCEPT !.worker = [p.worker EXCEPT ![w] = r]]
    BY DEF PoolType, WorkerType, r
  <2> QED
    BY <2>1, <2>2 DEF PoolType
<1> HIDE DEF s
<1>6. WorkerOK(r)
  BY <1>1, <1>2 DEF WorkerOK
<1>7. Owned(s, 0)
  BY <1>2, <1>3, <1>4, <1>5, <1>6, ReleaseWorker
<1>8. /\ DOMAIN s.worker = DOMAIN p.worker /\ Len(s.worker) = Len(p.worker)
      /\ s.worker[w].task = None
      /\ \A v \in DOMAIN p.worker : v # w => s.worker[v] = p.worker[v]
      /\ \A v \in DOMAIN p.worker : s.worker[v].failed = p.worker[v].failed
  BY <1>1, <1>2, <1>4
<1>9. FailuresCount(s)
  BY <1>3, <1>8 DEF FailuresCount
<1>10. /\ q \in PoolType /\ Owned(q, 0) /\ FailuresCount(q)
       /\ Len(q.worker) = Len(s.worker)
       /\ \A t \in Tasks : q.status[t] \in {s.status[t], "failed"}
       /\ \/ q.queue = <<>>
          \/ /\ s.queue # <<>> /\ q.queue = Tail(s.queue) /\ q.worker[w].task # None
             /\ \A v \in DOMAIN s.worker : v # w => q.worker[v] = s.worker[v]
  BY <1>5, <1>7, <1>8, <1>9, Assign
<1> HIDE DEF q
<1>11. Busy(q)
  <2>1. DOMAIN q.worker = DOMAIN p.worker
    BY <1>1, <1>8, <1>10 DEF PoolType
  <2> QED
    BY <1>3, <1>8, <1>10, <2>1 DEF Busy, BusyBut
<1> QED
  BY <1>3, <1>8, <1>10, <1>11 DEF PoolIsSafe, Finish, q, s

\* A handler ends in the state it has put together.
LEMMA BecomePool == ASSUME NEW p \in PoolType, Become(p) PROVE Pool' = p
BY DEF Become, Pool, PoolType

LEMMA PoolFields ==
    /\ Pool.status = status /\ Pool.queue = queue
    /\ Pool.failure = failure /\ Pool.worker = worker
BY DEF Pool

\* What a step of the pool keeps: who owns what, the settled probes, and the distrust of a
\* worker that failed.
Kept(p, q) ==
    /\ PoolIsSafe(q)
    /\ \A t \in Tasks : q.status[t] = p.status[t] \/ q.status[t] \in Settled
    /\ \A w \in DOMAIN p.worker : p.worker[w].failed /\ p.worker[w].task # None =>
          q.status[p.worker[w].task] \in {"waiting", "failed"}

\* A worker's record changes, and not its task, and it is not given a failure.
LEMMA WorkerStep ==
    ASSUME NEW p, PoolIsSafe(p), NEW w \in DOMAIN p.worker, NEW r \in WorkerType, WorkerOK(r),
           r.task = p.worker[w].task, r.failed = p.worker[w].failed,
           NEW q, q = [p EXCEPT !.worker = [p.worker EXCEPT ![w] = r]]
    PROVE  /\ Kept(p, q)
           /\ q.status = p.status /\ q.worker = [p.worker EXCEPT ![w] = r]
<1>1. /\ DOMAIN p.worker = 1..Len(p.worker) /\ Len(p.worker) \in Nat
      /\ \A v \in DOMAIN p.worker : p.worker[v] \in WorkerType
      /\ p \in PoolType
  BY DEF PoolType, PoolIsSafe
<1>2. /\ q \in PoolType
      /\ q.status = p.status /\ q.queue = p.queue /\ q.failure = p.failure
      /\ q.worker = [p.worker EXCEPT ![w] = r]
  <2>1. [p.worker EXCEPT ![w] = r] \in Seq(WorkerType)
    BY <1>1 DEF PoolType
  <2>2. q = [status |-> p.status, queue |-> p.queue, failure |-> p.failure,
             worker |-> [p.worker EXCEPT ![w] = r]]
    BY <1>1 DEF PoolType
  <2> QED
    BY <1>1, <2>1, <2>2 DEF PoolType
<1>3. Owned(q, 0)
  BY ZenonT(60), <1>1, <1>2, ChangeWorker, 0 \in Nat DEF PoolIsSafe
<1>4. /\ DOMAIN q.worker = DOMAIN p.worker /\ Len(q.worker) = Len(p.worker)
      /\ \A v \in DOMAIN p.worker :
            q.worker[v].task = p.worker[v].task /\ q.worker[v].failed = p.worker[v].failed
  BY <1>1, <1>2
<1>5. FailuresCount(q) /\ Busy(q) /\ Len(q.worker) <= limit
  BY <1>2, <1>4 DEF PoolIsSafe, FailuresCount, Busy
<1>6. \A v \in DOMAIN p.worker : p.worker[v].task # None =>
         q.status[p.worker[v].task] = "waiting"
  BY <1>1 DEF PoolIsSafe, Owned, WorkersOwn
<1> QED
  BY <1>2, <1>3, <1>5, <1>6 DEF Kept, PoolIsSafe

\* The end of a task that a worker had: it settles, and the worker goes on to the next.
LEMMA SettleAndFinish ==
    ASSUME NEW p, PoolIsSafe(p), NEW w \in DOMAIN p.worker,
           p.worker[w].inbox = None, p.worker[w].wire = None, NEW outcome \in Settled,
           p.worker[w].failed /\ p.worker[w].task # None => outcome = "failed",
           NEW posted \in BOOLEAN
    PROVE  LET z == Settle(p, p.worker[w].task, outcome) IN
           /\ Kept(p, Finish(z, w, posted))
           /\ outcome = "failed" => Kept(p, Finish(rejectPool(z), w, posted))
<1> DEFINE t == p.worker[w].task
           z == Settle(p, t, outcome)
           y == rejectPool(z)
<1>1. /\ DOMAIN p.worker = 1..Len(p.worker) /\ Len(p.worker) \in Nat
      /\ \A v \in DOMAIN p.worker : p.worker[v] \in WorkerType
      /\ p \in PoolType /\ Owned(p, 0) /\ w \in Nat
  BY DEF PoolType, PoolIsSafe
<1>2. /\ z \in PoolType /\ Owned(z, w)
      /\ z.queue = p.queue /\ z.failure = p.failure /\ z.worker = p.worker
      /\ t # None => z.status[t] = outcome
      /\ \A u \in Tasks : u # t => z.status[u] = p.status[u]
  BY <1>1, SettleTask
<1> HIDE DEF z
<1>3. /\ y \in PoolType /\ Owned(y, w) /\ y.queue = <<>> /\ y.failure /\ y.worker = z.worker
      /\ \A u \in Tasks : y.status[u] \in {z.status[u], "failed"}
      /\ t # None => y.status[t] = z.status[t]
  BY <1>1, <1>2, RejectPool
<1> HIDE DEF y
<1>4. \A u \in Tasks : z.status[u] = p.status[u] \/ z.status[u] \in Settled
  BY <1>2, PoolAssumption
<1>5. \A v \in DOMAIN p.worker : p.worker[v].task # None =>
         /\ p.worker[v].task \in Tasks /\ p.status[p.worker[v].task] = "waiting"
         /\ v # w => p.worker[v].task # t
  BY <1>1 DEF Owned, WorkersOwn, WorkerType
<1>6. \A v \in DOMAIN p.worker : p.worker[v].failed /\ p.worker[v].task # None =>
         z.status[p.worker[v].task] \in {"waiting", "failed"}
  BY <1>2, <1>5
<1>7. outcome # "waiting" /\ "failed" \in Settled
  BY DEF Settled
<1>8. Kept(p, Finish(z, w, posted))
  <2>1. FailuresCount(z) /\ BusyBut(z, w) /\ Len(z.worker) <= limit
    BY <1>2 DEF PoolIsSafe, FailuresCount, Busy, BusyBut
  <2>2. PoolIsSafe(Finish(z, w, posted))
        /\ \A u \in Tasks : Finish(z, w, posted).status[u] \in {z.status[u], "failed"}
    BY <1>2, <1>7, <2>1, FinishTask
  <2> QED
    BY <1>4, <1>5, <1>6, <1>7, <2>2 DEF Kept
<1>9. ASSUME outcome = "failed" PROVE Kept(p, Finish(y, w, posted))
  <2>1. FailuresCount(y) /\ BusyBut(y, w) /\ Len(y.worker) <= limit
    BY <1>2, <1>3 DEF PoolIsSafe, FailuresCount, BusyBut
  <2>2. PoolIsSafe(Finish(y, w, posted))
        /\ \A u \in Tasks : Finish(y, w, posted).status[u] \in {y.status[u], "failed"}
    BY <1>2, <1>3, <1>7, <2>1, FinishTask
  <2> QED
    BY <1>3, <1>4, <1>5, <1>6, <1>7, <2>2 DEF Kept
<1> QED
  BY <1>8, <1>9 DEF z, y

LEMMA ReceiveStep ==
    ASSUME PoolIsSafe(Pool), NEW w \in DOMAIN worker, NEW posted \in BOOLEAN, Receive(w, posted)
    PROVE  Kept(Pool, Pool')
<1> DEFINE m == worker[w].wire
           t == worker[w].task
           p == [Pool EXCEPT !.worker[w].wire = None]
           r == [worker[w] EXCEPT !.wire = None]
<1>1. /\ worker \in Seq(WorkerType) /\ Pool.worker = worker /\ worker[w] \in WorkerType
      /\ WorkerOK(worker[w])
  BY PoolFields DEF PoolIsSafe, PoolType, Owned, WorkersOwn
<1>2. /\ r \in WorkerType /\ r.task = t /\ r.failed = worker[w].failed /\ r.wire = None
      /\ r.inbox = worker[w].inbox /\ r.restoring = worker[w].restoring
  BY <1>1 DEF WorkerType
<1>3. /\ worker[w].wire # None /\ worker[w].inbox = None /\ worker[w].restoring = None
      /\ worker[w].failed => t = None
  BY <1>1 DEF Receive, WorkerOK
<1>4. p = [Pool EXCEPT !.worker = [Pool.worker EXCEPT ![w] = r]]
  BY <1>1 DEF PoolIsSafe, PoolType
<1>5. WorkerOK(r)
  BY <1>1, <1>2, <1>3 DEF WorkerOK
<1>6. m.task \in Tasks
  BY <1>1, <1>3 DEF WorkerType, Message
<1>7. Become(IF t # m.task THEN Finish(rejectPool(Settle(p, t, "failed")), w, posted)
             ELSE IF m.status = "hit" THEN [p EXCEPT !.worker[w].restoring = t]
             ELSE Finish(Settle(p, t, IF m.status = "miss" THEN "miss" ELSE "failed"), w, posted))
  BY DEF Receive
<1> HIDE DEF r, p, m, t
<1>8. Kept(Pool, p) /\ p.status = Pool.status /\ p.worker = [Pool.worker EXCEPT ![w] = r]
  BY <1>1, <1>2, <1>4, <1>5, WorkerStep DEF t
<1>9. PoolIsSafe(p) /\ p.status = Pool.status
  BY <1>8 DEF Kept
<1>10. p.worker[w] = r /\ w \in DOMAIN p.worker /\ DOMAIN p.worker = DOMAIN worker
  BY <1>1, <1>8
<1>11. \A v \in DOMAIN worker : p.worker[v].task = worker[v].task
                                /\ p.worker[v].failed = worker[v].failed
  BY <1>1, <1>2, <1>8 DEF t
<1>12. ASSUME NEW q, Kept(p, q) PROVE Kept(Pool, q)
  BY <1>1, <1>9, <1>10, <1>11, <1>12 DEF Kept
<1>13. ASSUME NEW q, Kept(p, q), Become(q) PROVE Kept(Pool, Pool')
  BY <1>12, <1>13, BecomePool DEF Kept, PoolIsSafe
<1>14. CASE t # m.task
  <2>1. Kept(p, Finish(rejectPool(Settle(p, t, "failed")), w, posted))
    <3>1. p.worker[w].task = t /\ p.worker[w].inbox = None /\ p.worker[w].wire = None
          /\ "failed" \in Settled
      BY <1>2, <1>3, <1>10 DEF Settled
    <3> QED
      BY <1>9, <1>10, <3>1, SettleAndFinish
  <2> QED
    BY <1>7, <1>13, <1>14, <2>1
<1>15. CASE t = m.task /\ m.status = "hit"
  <2> DEFINE h == [p EXCEPT !.worker[w].restoring = t]
             s == [r EXCEPT !.restoring = t]
  <2>1. s \in WorkerType /\ WorkerOK(s) /\ s.task = r.task /\ s.failed = r.failed
    <3>1. /\ s \in WorkerType /\ s.task = t /\ s.failed = r.failed /\ s.restoring = t
          /\ s.inbox = None /\ s.wire = None
      BY <1>2, <1>3, <1>6, <1>15 DEF WorkerType
    <3> HIDE DEF s
    <3> QED
      BY <1>2, <3>1 DEF WorkerOK
  <2>2. h = [p EXCEPT !.worker = [p.worker EXCEPT ![w] = s]]
    <3>1. p \in PoolType
      BY <1>9 DEF PoolIsSafe
    <3> QED
      BY ONLY <1>10, <3>1 DEF PoolType
  <2> HIDE DEF h, s
  <2>3. Kept(p, h)
    BY <1>9, <1>10, <2>1, <2>2, WorkerStep
  <2> QED
    BY <1>7, <1>13, <1>15, <2>3 DEF h
<1>16. CASE t = m.task /\ m.status # "hit"
  <2> DEFINE o == IF m.status = "miss" THEN "miss" ELSE "failed"
  <2>1. Kept(p, Finish(Settle(p, t, o), w, posted))
    <3>1. /\ p.worker[w].task = t /\ p.worker[w].inbox = None /\ p.worker[w].wire = None
          /\ o \in Settled
          /\ p.worker[w].failed => p.worker[w].task = None
      BY <1>2, <1>3, <1>10 DEF Settled
    <3> HIDE DEF o
    <3> QED
      BY <1>9, <1>10, <3>1, SettleAndFinish
  <2> QED
    BY <1>7, <1>13, <1>16, <2>1
<1> QED
  BY <1>14, <1>15, <1>16

LEMMA RestoreStep ==
    ASSUME PoolIsSafe(Pool), NEW w \in DOMAIN worker, NEW ok \in BOOLEAN, NEW posted \in BOOLEAN,
           Restore(w, ok, posted)
    PROVE  Kept(Pool, Pool')
<1> DEFINE t == worker[w].task
<1>1. /\ worker \in Seq(WorkerType) /\ Pool.worker = worker /\ worker[w] \in WorkerType
      /\ WorkerOK(worker[w])
  BY PoolFields DEF PoolIsSafe, PoolType, Owned, WorkersOwn
<1>2. /\ worker[w].restoring = t /\ worker[w].inbox = None /\ worker[w].wire = None
  BY <1>1 DEF Restore, WorkerOK
<1>3. {"hit", "failed"} \subseteq Settled
  BY DEF Settled
<1>4. ASSUME NEW q, Kept(Pool, q), Become(q) PROVE Kept(Pool, Pool')
  BY <1>4, BecomePool DEF Kept, PoolIsSafe
<1>5. CASE ok /\ ~worker[w].failed
  <2>1. Kept(Pool, Finish(Settle(Pool, t, "hit"), w, posted))
    BY <1>1, <1>2, <1>3, <1>5, SettleAndFinish
  <2>2. Become(Finish(Settle(Pool, t, "hit"), w, posted))
    BY <1>1, <1>2, <1>5 DEF Restore, Restored
  <2> QED
    BY <1>4, <2>1, <2>2
<1>6. CASE ~(ok /\ ~worker[w].failed)
  <2>1. Kept(Pool, Finish(rejectPool(Settle(Pool, t, "failed")), w, posted))
    BY <1>1, <1>2, <1>3, SettleAndFinish
  <2>2. Become(Finish(rejectPool(Settle(Pool, t, "failed")), w, posted))
    BY <1>1, <1>2, <1>6 DEF Restore, Restored
  <2> QED
    BY <1>4, <2>1, <2>2
<1> QED
  BY <1>5, <1>6

\* The error and exit handlers: the worker has failed, and so has the pool.
LEMMA FailedStep ==
    ASSUME PoolIsSafe(Pool), NEW w \in DOMAIN worker, NEW life \in {"exiting", "gone"},
           Become(WorkerFailed(w, life))
    PROVE  Kept(Pool, Pool')
<1> DEFINE t == worker[w].task
           g == [Pool EXCEPT !.worker[w].failed = TRUE, !.worker[w].life = life]
           r == [worker[w] EXCEPT !.failed = TRUE, !.life = life]
           restores == worker[w].restoring # None
           z == Settle(g, t, "failed")
           h == [z EXCEPT !.worker[w].task = None]
<1>1. /\ Pool \in PoolType /\ worker \in Seq(WorkerType) /\ worker[w] \in WorkerType
      /\ WorkerOK(worker[w]) /\ DOMAIN worker = 1..Len(worker) /\ w \in Nat
  BY PoolFields DEF PoolIsSafe, PoolType, Owned, WorkersOwn
<1>2. /\ r \in WorkerType /\ r.task = t /\ r.restoring = worker[w].restoring
      /\ r.inbox = worker[w].inbox /\ r.wire = worker[w].wire /\ r.failed
  BY <1>1 DEF WorkerType
<1>3. g = [Pool EXCEPT !.worker = [worker EXCEPT ![w] = r]]
  BY <1>1, PoolFields DEF PoolType
<1>4. /\ g \in PoolType
      /\ g.status = status /\ g.queue = queue /\ g.failure = failure
      /\ g.worker = [worker EXCEPT ![w] = r]
  <2>1. [worker EXCEPT ![w] = r] \in Seq(WorkerType)
    BY <1>1, <1>2
  <2>2. g = [status |-> status, queue |-> queue, failure |-> failure,
             worker |-> [worker EXCEPT ![w] = r]]
    BY <1>3, PoolFields DEF Pool
  <2> QED
    BY <1>1, <2>1, <2>2, PoolFields DEF PoolType
<1>5. Become(rejectPool(IF restores THEN g ELSE h))
  BY DEF WorkerFailed
<1> HIDE DEF r, g
<1>6. \A v \in DOMAIN worker : worker[v].task # None =>
         /\ worker[v].task \in Tasks /\ status[worker[v].task] = "waiting"
         /\ v # w => worker[v].task # t
  <2>1. \A v \in DOMAIN worker : worker[v] \in WorkerType
    BY <1>1
  <2> QED
    BY <1>1, <2>1, PoolFields DEF PoolIsSafe, Owned, WorkersOwn, WorkerType
\* What both branches end with.
<1>7. ASSUME NEW s \in PoolType, Owned(s, 0), Len(s.worker) = Len(worker),
             Become(rejectPool(s)),
             \A u \in Tasks : s.status[u] = status[u] \/ s.status[u] = "failed"
      PROVE  Kept(Pool, Pool')
  <2> DEFINE y == rejectPool(s)
  <2>1. /\ y \in PoolType /\ Owned(y, 0) /\ y.queue = <<>> /\ y.failure /\ y.worker = s.worker
        /\ \A u \in Tasks : y.status[u] \in {s.status[u], "failed"}
    BY <1>7, RejectPool, 0 \in Nat
  <2>2. Pool' = y
    BY <1>7, <2>1, BecomePool
  <2> HIDE DEF y
  <2>3. PoolIsSafe(y)
    BY <1>7, <2>1, PoolFields DEF PoolIsSafe, FailuresCount, Busy
  <2>4. "failed" \in Settled
    BY DEF Settled
  <2> QED
    BY <1>6, <1>7, <2>1, <2>2, <2>3, <2>4, PoolFields DEF Kept
<1>8. CASE restores
  <2>1. WorkerOK(r)
    BY <1>1, <1>2, <1>8 DEF WorkerOK
  <2>2. Owned(g, 0)
    <3>1. Owned(Pool, 0) /\ w \in DOMAIN Pool.worker /\ r.task = Pool.worker[w].task
      BY <1>2, PoolFields DEF PoolIsSafe
    <3>2. /\ g.queue = Pool.queue /\ g.failure = Pool.failure
          /\ g.worker = [Pool.worker EXCEPT ![w] = r]
          /\ \A u \in Tasks : g.status[u] = "waiting" <=> Pool.status[u] = "waiting"
      BY <1>4, PoolFields
    <3> QED
      BY ONLY <1>1, <1>2, <1>4, <2>1, <3>1, <3>2, ChangeWorker, 0 \in Nat
  <2>3. Len(g.worker) = Len(worker)
    BY <1>1, <1>4
  <2> QED
    BY <1>4, <1>5, <1>7, <1>8, <2>2, <2>3
<1>9. CASE ~restores
  <2> DEFINE s == Settle(Pool, t, "failed")
             n == [r EXCEPT !.task = None]
  <2>1. /\ s \in PoolType /\ Owned(s, w)
        /\ s.queue = queue /\ s.failure = failure /\ s.worker = worker
        /\ t # None => s.status[t] = "failed"
        /\ \A u \in Tasks : u # t => s.status[u] = status[u]
    BY <1>1, PoolFields, SettleTask, "failed" \in Settled DEF PoolIsSafe, Settled
  <2>2. /\ z.status = s.status /\ z.queue = queue /\ z.failure = failure /\ z.worker = g.worker
        /\ z \in PoolType
    <3>1. CASE t # None /\ status[t] = "waiting"
      <4>1. z = [g EXCEPT !.status = [g.status EXCEPT ![t] = "failed"]]
        BY <1>4, <3>1 DEF Settle
      <4>2. s.status = [status EXCEPT ![t] = "failed"]
        BY <3>1, PoolFields DEF Settle, Pool
      <4>3. z = [status |-> s.status, queue |-> queue, failure |-> failure, worker |-> g.worker]
        BY <1>4, <4>1, <4>2 DEF PoolType
      <4> HIDE DEF s, z
      <4> QED
        BY <1>4, <2>1, <4>3 DEF PoolType
    <3>2. CASE ~(t # None /\ status[t] = "waiting")
      BY <1>4, <3>2, PoolFields DEF Settle
    <3> QED
      BY <3>1, <3>2
  <2>3. /\ n \in WorkerType /\ n.task = None /\ n.restoring = None
        /\ n.inbox = worker[w].inbox /\ n.wire = worker[w].wire /\ n.failed
    BY <1>2, <1>9 DEF WorkerType
  <2>4. WorkerOK(n)
    <3> HIDE DEF n
    <3> QED
      BY <1>1, <2>3 DEF WorkerOK
  <2> HIDE DEF z, s
  <2>5. h = [z EXCEPT !.worker = [z.worker EXCEPT ![w] = [z.worker[w] EXCEPT !.task = None]]]
    BY <1>1, <1>4, <2>2 DEF PoolType
  <2>6. z.worker[w] = r /\ [z.worker EXCEPT ![w] = n] = [worker EXCEPT ![w] = n]
    BY <1>1, <1>4, <2>2
  <2> HIDE DEF h
  <2>7. /\ h \in PoolType
        /\ h.status = s.status /\ h.queue = queue /\ h.failure = failure
        /\ h.worker = [worker EXCEPT ![w] = n]
    <3>1. [worker EXCEPT ![w] = n] \in Seq(WorkerType)
      BY <1>1, <2>3
    <3>2. h = [z EXCEPT !.worker = [worker EXCEPT ![w] = n]]
      BY <2>5, <2>6
    <3>3. h = [status |-> s.status, queue |-> queue, failure |-> failure,
               worker |-> [worker EXCEPT ![w] = n]]
      BY <2>2, <3>2 DEF PoolType
    <3> HIDE DEF n
    <3> QED
      BY <2>1, <3>1, <3>3 DEF PoolType
  <2> HIDE DEF n
  <2>8. t # None => s.status[t] # "waiting"
    BY <2>1
  <2>9. Owned(h, 0)
    <3>1. /\ w \in DOMAIN s.worker /\ h.queue = s.queue /\ h.failure = s.failure
          /\ h.worker = [s.worker EXCEPT ![w] = n]
          /\ s.worker[w].task # None => s.status[s.worker[w].task] # "waiting"
      BY <2>1, <2>7, <2>8
    <3> QED
      BY ONLY <2>1, <2>3, <2>4, <2>7, <3>1, ReleaseWorker
  <2>10. \A u \in Tasks : h.status[u] = status[u] \/ h.status[u] = "failed"
    BY <2>1, <2>7, PoolAssumption
  <2>11. Len(h.worker) = Len(worker)
    BY <1>1, <2>7
  <2> QED
    BY <1>5, <1>7, <1>9, <2>7, <2>9, <2>10, <2>11
<1> QED
  BY <1>8, <1>9

LEMMA PoolUpdates ==
    ASSUME NEW p \in PoolType, NEW a, NEW b, NEW c
    PROVE  /\ [p EXCEPT !.status = a, !.queue = b]
                = [status |-> a, queue |-> b, failure |-> p.failure, worker |-> p.worker]
           /\ [p EXCEPT !.worker = c]
                = [status |-> p.status, queue |-> p.queue, failure |-> p.failure, worker |-> c]
<1>1. [p EXCEPT !.status = a, !.queue = b]
         = [status |-> a, queue |-> b, failure |-> p.failure, worker |-> p.worker]
  <2> DEFINE r == [p EXCEPT !.status = a]
             q == [r EXCEPT !.queue = b]
  <2>1. r = [status |-> a, queue |-> p.queue, failure |-> p.failure, worker |-> p.worker]
    BY DEF PoolType
  <2>2. [p EXCEPT !.status = a, !.queue = b] = q
    BY DEF PoolType
  <2> HIDE DEF r
  <2>3. q = [status |-> a, queue |-> b, failure |-> p.failure, worker |-> p.worker]
    BY <2>1
  <2> HIDE DEF q
  <2> QED
    BY <2>2, <2>3
<1>2. [p EXCEPT !.worker = c]
         = [status |-> p.status, queue |-> p.queue, failure |-> p.failure, worker |-> c]
  BY DEF PoolType
<1> QED
  BY <1>1, <1>2

\* probe() queues its task, and gives the head of the queue to a worker that is idle or new.
LEMMA PresentStep ==
    ASSUME PoolIsSafe(Pool), NEW t \in Tasks, NEW posted \in BOOLEAN, NEW started \in BOOLEAN,
           Present(t, posted, started)
    PROVE  /\ PoolIsSafe(Pool')
           /\ \A u \in Tasks : u # t => status'[u] = status[u] \/ status'[u] = "failed"
           /\ \A w \in DOMAIN worker : worker[w].failed /\ worker[w].task # None =>
                 status'[worker[w].task] \in {"waiting", "failed"}
<1> DEFINE p == [Pool EXCEPT !.status[t] = "waiting", !.queue = Append(@, t)]
           idle == {w \in DOMAIN worker : worker[w].task = None}
           first == CHOOSE w \in idle : \A v \in idle : w <= v
<1>1. /\ Pool \in PoolType /\ worker \in Seq(WorkerType) /\ DOMAIN worker = 1..Len(worker)
      /\ Len(worker) \in Nat /\ Len(worker) <= limit
      /\ queue \in Seq(Tasks) /\ DOMAIN queue = 1..Len(queue) /\ Len(queue) \in Nat
      /\ status \in [Tasks -> Statuses] /\ failure \in BOOLEAN /\ status[t] = "checking"
  BY PoolFields DEF PoolIsSafe, PoolType, Present
<1>2. \A w \in DOMAIN worker : worker[w].task # None =>
         worker[w].task \in Tasks /\ status[worker[w].task] = "waiting"
  <2>1. \A v \in DOMAIN worker : worker[v] \in WorkerType
    BY <1>1
  <2> QED
    BY <1>1, <2>1, PoolFields DEF PoolIsSafe, Owned, WorkersOwn, WorkerType
<1>3. CASE failure
  <2> DEFINE q == [Pool EXCEPT !.status[t] = "failed"]
  <2>1. q = [status |-> [status EXCEPT ![t] = "failed"], queue |-> queue, failure |-> failure,
             worker |-> worker]
    BY DEF Pool
  <2>2. q \in PoolType
    BY <1>1, <2>1, "failed" \in Statuses DEF PoolType, Statuses, Settled
  <2>3. Become(q)
    BY <1>3 DEF Present
  <2> HIDE DEF q
  <2>4. /\ q.status[t] = "failed" /\ \A u \in Tasks : u # t => q.status[u] = status[u]
        /\ q.queue = queue /\ q.failure = failure /\ q.worker = worker
    BY <1>1, <2>1
  <2>5. \A u \in Tasks : q.status[u] = "waiting" <=> Pool.status[u] = "waiting"
    BY <1>1, <2>4, PoolFields
  <2>6. PoolIsSafe(q)
    BY <1>1, <2>2, <2>4, <2>5, PoolFields, ChangeStatus
  <2>7. Pool' = q /\ status' = q.status
    BY <2>2, <2>3, BecomePool DEF Become
  <2> QED
    BY <1>1, <1>2, <2>4, <2>6, <2>7
<1>4. CASE ~failure
  <2>1. p = [status |-> [status EXCEPT ![t] = "waiting"], queue |-> Append(queue, t),
             failure |-> failure, worker |-> worker]
    <3>1. p = [Pool EXCEPT !.status = [Pool.status EXCEPT ![t] = "waiting"],
                           !.queue = Append(Pool.queue, t)]
      BY <1>1 DEF PoolType
    <3> DEFINE a == [status EXCEPT ![t] = "waiting"]
               b == Append(queue, t)
    <3>2. p = [Pool EXCEPT !.status = a, !.queue = b]
      BY <3>1, PoolFields
    <3> HIDE DEF a, b, p
    <3>3. p = [status |-> a, queue |-> b, failure |-> Pool.failure, worker |-> Pool.worker]
      BY ZenonT(60), <1>1, <3>2, PoolUpdates
    <3> QED
      BY <3>3, PoolFields DEF a, b
  <2>2. Become(IF idle # {} THEN assign(p, first, posted)
               ELSE IF Len(worker) = limit THEN p
               ELSE IF ~started THEN rejectPool(p)
               ELSE assign([p EXCEPT !.worker = Append(@, NewWorker)], Len(worker) + 1, posted))
    BY <1>4 DEF Present
  <2> HIDE DEF p
  <2>3. p \in PoolType
    <3>1. Append(queue, t) \in Seq(Tasks)
      BY <1>1
    <3>2. [status EXCEPT ![t] = "waiting"] \in [Tasks -> Statuses]
      BY <1>1 DEF Statuses
    <3> QED
      BY <1>1, <2>1, <3>1, <3>2 DEF PoolType
  <2>4. /\ p.status[t] = "waiting" /\ \A u \in Tasks : u # t => p.status[u] = status[u]
        /\ p.queue = Append(queue, t) /\ ~p.failure /\ p.worker = worker
    BY <1>1, <1>4, <2>1
  <2>5. /\ Len(p.queue) = Len(queue) + 1 /\ DOMAIN p.queue = 1..Len(queue) + 1
        /\ p.queue[Len(queue) + 1] = t
        /\ \A i \in DOMAIN queue : p.queue[i] = queue[i] /\ queue[i] # t
    <3>1. \A i \in DOMAIN queue : status[queue[i]] = "waiting"
      BY PoolFields DEF PoolIsSafe, Owned, QueueOwns
    <3> QED
      BY <1>1, <2>4, <3>1
  <2>6. Owned(p, 0)
    <3>1. QueueOwns(p)
      <4>1. \A i, j \in DOMAIN p.queue : p.queue[i] = p.queue[j] => i = j
        <5>1. \A i, j \in DOMAIN queue : queue[i] = queue[j] => i = j
          BY PoolFields DEF PoolIsSafe, Owned, QueueOwns
        <5>2. \A i \in DOMAIN p.queue : i \in DOMAIN queue \/ i = Len(queue) + 1
          BY <1>1, <2>5
        <5> QED
          BY <2>5, <5>1, <5>2
      <4>2. \A i \in DOMAIN p.queue :
               /\ p.status[p.queue[i]] = "waiting"
               /\ \A w \in DOMAIN p.worker : p.worker[w].task # p.queue[i]
        <5> SUFFICES ASSUME NEW i \in DOMAIN p.queue
                     PROVE  /\ p.status[p.queue[i]] = "waiting"
                            /\ \A w \in DOMAIN worker : worker[w].task # p.queue[i]
          BY <2>4
        <5>1. CASE i = Len(queue) + 1
          BY <1>1, <1>2, <2>4, <2>5, <5>1, PoolAssumption
        <5>2. CASE i \in DOMAIN queue
          <6>1. /\ queue[i] \in Tasks /\ status[queue[i]] = "waiting"
                /\ \A w \in DOMAIN worker : worker[w].task # queue[i]
            BY <1>1, <5>2, PoolFields DEF PoolIsSafe, Owned, QueueOwns
          <6> QED
            BY <2>4, <2>5, <5>2, <6>1
        <5> QED
          BY <1>1, <2>5, <5>1, <5>2
      <4> QED
        BY <2>4, <4>1, <4>2 DEF QueueOwns
    <3>2. WorkersOwn(p, 0)
      <4>1. WorkersOwn(Pool, 0) /\ Pool.worker = p.worker
        BY <2>4, PoolFields DEF PoolIsSafe, Owned
      <4>2. \A w \in DOMAIN p.worker : p.worker[w].task # None =>
               p.status[p.worker[w].task] = "waiting"
        BY <1>2, <2>4
      <4> QED
        BY ONLY <4>1, <4>2 DEF WorkersOwn
    <3>3. NobodyIsForgotten(p)
      <4>1. \A u \in Tasks : status[u] = "waiting" =>
               \/ \E i \in DOMAIN queue : queue[i] = u
               \/ \E w \in DOMAIN worker : worker[w].task = u
        BY PoolFields DEF PoolIsSafe, Owned, NobodyIsForgotten
      <4>2. DOMAIN queue \subseteq DOMAIN p.queue /\ Len(queue) + 1 \in DOMAIN p.queue
        BY <1>1, <2>5
      <4> QED
        BY <2>4, <2>5, <4>1, <4>2 DEF NobodyIsForgotten
    <3> QED
      BY <3>1, <3>2, <3>3 DEF Owned
  <2>7. \A w \in DOMAIN worker : ~worker[w].failed
    BY <1>4, PoolFields DEF PoolIsSafe, FailuresCount
  <2>8. FailuresCount(p)
    BY <2>4, <2>7 DEF FailuresCount
  <2>9. idle # {} \/ Len(worker) # limit => queue = <<>>
    BY PoolFields DEF PoolIsSafe, Busy
  \* What every branch comes to.
  <2>10. ASSUME NEW q, PoolIsSafe(q), Become(q),
                \A u \in Tasks : q.status[u] \in {p.status[u], "failed"}
         PROVE  /\ PoolIsSafe(Pool')
                /\ \A u \in Tasks : u # t => status'[u] = status[u] \/ status'[u] = "failed"
                /\ \A w \in DOMAIN worker : worker[w].failed /\ worker[w].task # None =>
                      status'[worker[w].task] \in {"waiting", "failed"}
    <3>1. Pool' = q /\ status' = q.status
      BY <2>10, BecomePool DEF PoolIsSafe, Become
    <3> QED
      BY <2>4, <2>7, <2>10, <3>1
  <2>11. ASSUME NEW s \in PoolType, Owned(s, 0), FailuresCount(s), NEW w \in DOMAIN s.worker,
                s.worker[w].task = None, Len(s.worker) <= limit, Len(s.queue) = 1
         PROVE  /\ PoolIsSafe(assign(s, w, posted))
                /\ \A u \in Tasks : assign(s, w, posted).status[u] \in {s.status[u], "failed"}
    <3> DEFINE q == assign(s, w, posted)
    <3>1. /\ q \in PoolType /\ Owned(q, 0) /\ FailuresCount(q)
          /\ Len(q.worker) = Len(s.worker)
          /\ \A u \in Tasks : q.status[u] \in {s.status[u], "failed"}
          /\ q.queue = <<>> \/ q.queue = Tail(s.queue)
      BY <2>11, Assign
    <3>2. Tail(s.queue) = <<>>
      <4>1. s.queue \in Seq(Tasks) /\ s.queue # <<>>
        <5>1. s.queue \in Seq(Tasks) /\ Len(<<>>) = 0
          BY DEF PoolType
        <5>2. Len(s.queue) # Len(<<>>)
          BY <2>11, <5>1
        <5> QED
          BY <5>1, <5>2, Zenon
      <4>2. Tail(s.queue) \in Seq(Tasks) /\ Len(Tail(s.queue)) = 0
        BY <2>11, <4>1
      <4> QED
        BY <4>2, EmptySeq
    <3> HIDE DEF q
    <3>3. PoolIsSafe(q)
      BY <2>11, <3>1, <3>2 DEF PoolIsSafe, Busy
    <3> QED
      BY <3>1, <3>3 DEF q
  <2>12. CASE idle # {}
    <3>1. first \in idle
      <4>1. idle \subseteq {1, 2}
        BY <1>1, LimitType
      <4>2. \E w \in idle : \A v \in idle : w <= v
        <5>1. CASE 1 \in idle
          BY <4>1, <5>1
        <5>2. CASE 1 \notin idle
          BY <2>12, <4>1, <5>2
        <5> QED
          BY <5>1, <5>2
      <4> HIDE DEF idle
      <4> QED
        BY <4>2
    <3>2. first \in DOMAIN p.worker /\ p.worker[first].task = None
      BY <2>4, <3>1
    <3>3. Len(p.queue) = 1
      BY <2>5, <2>9, <2>12
    <3> HIDE DEF first, idle
    <3>4. /\ PoolIsSafe(assign(p, first, posted))
          /\ \A u \in Tasks : assign(p, first, posted).status[u] \in {p.status[u], "failed"}
      BY <1>1, <2>3, <2>4, <2>6, <2>8, <2>11, <3>2, <3>3
    <3> QED
      BY <2>2, <2>10, <2>12, <3>4
  <2>13. CASE idle = {} /\ Len(worker) = limit
    <3>1. PoolIsSafe(p)
      BY <1>1, <2>3, <2>4, <2>6, <2>8, <2>13 DEF PoolIsSafe, Busy
    <3> QED
      BY <2>2, <2>10, <2>13, <3>1
  <2>14. CASE idle = {} /\ Len(worker) # limit /\ ~started
    <3> DEFINE q == rejectPool(p)
    <3>1. /\ q \in PoolType /\ Owned(q, 0) /\ q.queue = <<>> /\ q.failure /\ q.worker = p.worker
          /\ \A u \in Tasks : q.status[u] \in {p.status[u], "failed"}
      BY <2>3, <2>6, RejectPool, 0 \in Nat
    <3>2. Become(q)
      BY <2>2, <2>14
    <3> HIDE DEF q
    <3>3. PoolIsSafe(q)
      BY <1>1, <2>4, <3>1 DEF PoolIsSafe, FailuresCount, Busy
    <3> QED
      BY <2>10, <3>1, <3>2, <3>3
  <2>15. CASE idle = {} /\ Len(worker) # limit /\ started
    <3> DEFINE s == [p EXCEPT !.worker = Append(@, NewWorker)]
               n == Len(worker) + 1
    <3>1. NewWorker \in WorkerType /\ WorkerOK(NewWorker) /\ NewWorker.task = None
          /\ NewWorker.failed = FALSE
      BY DEF NewWorker, WorkerType, WorkerOK
    <3>2. s = [status |-> p.status, queue |-> p.queue, failure |-> p.failure,
               worker |-> Append(worker, NewWorker)]
      <4>1. s = [p EXCEPT !.worker = Append(worker, NewWorker)]
        BY <2>4
      <4> HIDE DEF s
      <4> QED
        BY <2>3, <4>1, PoolUpdates
    <3>3. Become(assign(s, n, posted))
      BY <2>2, <2>15
    <3> HIDE DEF s, NewWorker
    <3>4. s \in PoolType
      <4>1. Append(worker, NewWorker) \in Seq(WorkerType)
        BY <1>1, <3>1
      <4> QED
        BY <2>3, <3>2, <4>1 DEF PoolType
    <3>5. /\ s.status = p.status /\ s.queue = p.queue /\ ~s.failure
          /\ DOMAIN s.worker = 1..n /\ Len(s.worker) = n /\ s.worker[n] = NewWorker
          /\ \A w \in DOMAIN worker : s.worker[w] = worker[w]
          /\ \A w \in 1..n : w \in DOMAIN worker \/ w = n
          /\ n \in 1..n
      BY <1>1, <2>4, <3>2
    <3>6. QueueOwns(s)
      <4>1. \A i \in DOMAIN p.queue : p.queue[i] # None
        BY <2>3, PoolAssumption DEF PoolType
      <4> QED
        BY <2>4, <2>6, <3>1, <3>5, <4>1 DEF Owned, QueueOwns
    <3>7. WorkersOwn(s, 0)
      <4>1. \A w \in DOMAIN s.worker : s.worker[w].task # None =>
               /\ s.status[s.worker[w].task] = "waiting"
               /\ \A v \in DOMAIN s.worker : s.worker[v].task = s.worker[w].task => v = w
        <5>1. \A w \in DOMAIN worker : worker[w].task # None =>
                 /\ p.status[worker[w].task] = "waiting"
                 /\ \A v \in DOMAIN worker : worker[v].task = worker[w].task => v = w
          BY <1>1, <2>4, <2>6 DEF Owned, WorkersOwn
        <5> QED
          BY <3>1, <3>5, <5>1
      <4>2. \A w \in DOMAIN s.worker : WorkerOK(s.worker[w])
        BY <2>4, <2>6, <3>1, <3>5 DEF Owned, WorkersOwn
      <4> QED
        BY <4>1, <4>2 DEF WorkersOwn
    <3>8. NobodyIsForgotten(s)
      <4>1. DOMAIN worker \subseteq DOMAIN s.worker
        BY <1>1, <3>5
      <4>2. \A u \in Tasks : p.status[u] = "waiting" =>
               \/ \E i \in DOMAIN p.queue : p.queue[i] = u
               \/ \E w \in DOMAIN worker : worker[w].task = u
        BY <2>4, <2>6 DEF Owned, NobodyIsForgotten
      <4> QED
        BY <3>5, <4>1, <4>2 DEF NobodyIsForgotten
    <3>9. FailuresCount(s)
      BY <2>7, <3>1, <3>5 DEF FailuresCount
    <3>10. Len(s.worker) <= limit /\ Len(s.queue) = 1 /\ n \in DOMAIN s.worker
           /\ s.worker[n].task = None
      BY <1>1, <2>4, <2>5, <2>9, <2>15, <3>1, <3>5, LimitType
    <3>11. Owned(s, 0)
      BY <3>6, <3>7, <3>8 DEF Owned
    <3> HIDE DEF n
    <3>12. /\ PoolIsSafe(assign(s, n, posted))
           /\ \A u \in Tasks : assign(s, n, posted).status[u] \in {s.status[u], "failed"}
      BY <2>11, <3>4, <3>9, <3>10, <3>11
    <3> QED
      BY <2>10, <3>3, <3>5, <3>12
  <2> QED
    BY <2>12, <2>13, <2>14, <2>15
<1> QED
  BY <1>1, <1>3, <1>4

LEMMA PoolFieldsNext ==
    /\ Pool'.status = status' /\ Pool'.queue = queue'
    /\ Pool'.failure = failure' /\ Pool'.worker = worker'
BY DEF Pool

\* A probe that a failed worker serves stays pending or fails.
Distrust ==
    \A w \in DOMAIN worker : \A t \in Tasks :
        worker[w].failed /\ worker[w].task = t => status'[t] \in {"waiting", "failed"}

LEMMA PoolStep ==
    ASSUME PoolInv, [Next]_vars
    PROVE  PoolIsSafe(Pool') /\ ClosingInv' /\ Distrust
<1> USE DEF PoolInv
<1>1. /\ Pool \in PoolType /\ worker \in Seq(WorkerType) /\ DOMAIN worker = 1..Len(worker)
      /\ status \in [Tasks -> Statuses] /\ queue \in Seq(Tasks) /\ failure \in BOOLEAN
      /\ \A w \in DOMAIN worker : worker[w] \in WorkerType /\ WorkerOK(worker[w])
  BY PoolFields DEF PoolIsSafe, PoolType, Owned, WorkersOwn
<1>2. \A w \in DOMAIN worker : worker[w].task # None =>
         worker[w].task \in Tasks /\ status[worker[w].task] = "waiting"
  BY <1>1, PoolFields DEF PoolIsSafe, Owned, WorkersOwn, WorkerType
<1>3. \A t \in Tasks : t # None
  BY PoolAssumption
<1> DEFINE Goal == PoolIsSafe(Pool') /\ ClosingInv' /\ Distrust
<1>4. ASSUME Kept(Pool, Pool'), UNCHANGED closing PROVE Goal
  BY <1>3, <1>4, PoolFields, PoolFieldsNext DEF Kept, ClosingInv, Distrust, Settled
\* The worker w changes, but not what the parent knows of it.
<1>5. ASSUME NEW w \in DOMAIN worker, NEW r \in WorkerType, WorkerOK(r),
             r.task = worker[w].task, r.failed = worker[w].failed,
             worker' = [worker EXCEPT ![w] = r], UNCHANGED <<status, queue, failure, closing>>
      PROVE  Goal
  <2>1. Pool' = [Pool EXCEPT !.worker = [Pool.worker EXCEPT ![w] = r]]
    BY <1>5 DEF Pool
  <2> HIDE DEF PoolInv
  <2>2. Kept(Pool, Pool')
    <3>1. w \in DOMAIN Pool.worker /\ r.task = Pool.worker[w].task /\ r.failed = Pool.worker[w].failed
          /\ PoolIsSafe(Pool)
      BY <1>5, PoolFields DEF PoolInv
    <3> QED
      BY ONLY <1>5, <2>1, <3>1, WorkerStep
  <2> QED
    BY <1>4, <1>5, <2>2
\* Only statuses of tasks that nobody has change.
<1>6. ASSUME NEW t \in Tasks, NEW s \in Statuses \ {"waiting"}, status[t] # "waiting",
             status' = [status EXCEPT ![t] = s], UNCHANGED <<queue, failure, worker, closing>>,
             closing # "open" => s \notin {"checking", "waiting"}
      PROVE  Goal
  <2>1. Pool' \in PoolType
    BY <1>1, <1>6 DEF Pool, PoolType
  <2>2. \A u \in Tasks : u # t => status'[u] = status[u]
    BY <1>1, <1>6
  <2>3. status'[t] = s
    BY <1>1, <1>6
  <2>4. PoolIsSafe(Pool')
    BY ZenonT(60), <1>1, <1>6, <2>1, <2>2, <2>3, PoolFields, PoolFieldsNext, ChangeStatus
  <2>5. ClosingInv'
    BY <1>6, <2>2, <2>3 DEF ClosingInv
  <2>6. Distrust
    BY <1>2, <1>3, <1>6, <2>2 DEF Distrust
  <2> QED
    BY <2>4, <2>5, <2>6
\* Only the closing goes on.
<1>7. ASSUME UNCHANGED <<status, queue, failure, worker>>, ClosingInv' PROVE Goal
  <2>1. Pool' = Pool
    BY <1>7 DEF Pool
  <2>2. Distrust
    BY <1>2, <1>3, <1>7 DEF Distrust
  <2> QED
    BY <1>7, <2>1, <2>2
<1>8. ASSUME NEW t \in Tasks, Probe(t) PROVE Goal
  <2> DEFINE s == IF closing # "open" \/ failure THEN "refused" ELSE "checking"
  <2>1. /\ s \in Statuses \ {"waiting"} /\ status[t] # "waiting"
        /\ status' = [status EXCEPT ![t] = s] /\ UNCHANGED <<queue, failure, worker, closing>>
        /\ closing # "open" => s \notin {"checking", "waiting"}
    BY <1>8 DEF Probe, Statuses, Settled
  <2> HIDE DEF s
  <2> QED
    BY <1>6, <2>1
<1>9. ASSUME NEW t \in Tasks, NEW outcome \in {"absent", "failed"}, NotPresent(t, outcome)
      PROVE  Goal
  <2>1. outcome \in Statuses \ {"waiting"} /\ outcome \notin {"checking", "waiting"}
    BY <1>9 DEF Statuses, Settled
  <2>2. /\ status[t] # "waiting"
        /\ status' = [status EXCEPT ![t] = outcome] /\ UNCHANGED <<queue, failure, worker, closing>>
    BY <1>9 DEF NotPresent
  <2> QED
    BY <1>6, <2>1, <2>2
<1>10. ASSUME NEW t \in Tasks, NEW posted \in BOOLEAN, NEW started \in BOOLEAN,
              Present(t, posted, started)
       PROVE  Goal
  <2>1. /\ PoolIsSafe(Pool')
        /\ \A u \in Tasks : u # t => status'[u] = status[u] \/ status'[u] = "failed"
        /\ \A w \in DOMAIN worker : worker[w].failed /\ worker[w].task # None =>
              status'[worker[w].task] \in {"waiting", "failed"}
    BY <1>10, PresentStep
  <2>2. ClosingInv'
    BY <1>10 DEF Present, ClosingInv
  <2>3. Distrust
    BY <1>3, <2>1 DEF Distrust
  <2> QED
    BY <2>1, <2>2, <2>3
<1>11. ASSUME Close PROVE Goal
  BY <1>7, <1>11 DEF Close, ClosingInv
<1>12. ASSUME Stop PROVE Goal
  BY <1>7, <1>12 DEF Stop, ClosingInv
<1>13. ASSUME Closed PROVE Goal
  BY <1>7, <1>13 DEF Closed, ClosingInv
<1>14. ASSUME NEW w \in DOMAIN worker, Terminate(w) PROVE Goal
  <2> DEFINE r == [worker[w] EXCEPT !.life = "exiting"]
  <2>1. /\ r \in WorkerType /\ r.task = worker[w].task /\ r.failed = worker[w].failed
        /\ r.restoring = worker[w].restoring /\ r.inbox = worker[w].inbox /\ r.wire = worker[w].wire
    BY <1>1 DEF WorkerType
  <2>2. worker' = [worker EXCEPT ![w] = r] /\ UNCHANGED <<status, queue, failure, closing>>
    BY <1>14 DEF Terminate
  <2> HIDE DEF r
  <2>3. WorkerOK(r)
    BY <1>1, <2>1 DEF WorkerOK
  <2> QED
    BY <1>5, <2>1, <2>2, <2>3
<1>15. ASSUME NEW w \in DOMAIN worker, NEW how \in {"erring", "exiting"}, Die(w, how) PROVE Goal
  <2> DEFINE r == [worker[w] EXCEPT !.life = how]
  <2>1. /\ r \in WorkerType /\ r.task = worker[w].task /\ r.failed = worker[w].failed
        /\ r.restoring = worker[w].restoring /\ r.inbox = worker[w].inbox /\ r.wire = worker[w].wire
    BY <1>1 DEF WorkerType
  <2>2. worker' = [worker EXCEPT ![w] = r] /\ UNCHANGED <<status, queue, failure, closing>>
    BY <1>15 DEF Die
  <2> HIDE DEF r
  <2>3. WorkerOK(r)
    BY <1>1, <2>1 DEF WorkerOK
  <2> QED
    BY <1>5, <2>1, <2>2, <2>3
<1>16. ASSUME NEW w \in DOMAIN worker, NEW answer \in Answers, Reply(w, answer) PROVE Goal
  <2> DEFINE m == [task |-> worker[w].inbox, status |-> answer]
             r == [worker[w] EXCEPT !.inbox = None, !.wire = m]
  <2>1. worker[w].inbox # None /\ worker[w].inbox \in Tasks
    BY <1>1, <1>16 DEF Reply, WorkerType
  <2>2. m \in Message /\ m.task = worker[w].inbox
    BY <2>1 DEF Message
  <2>3. worker' = [worker EXCEPT ![w] = r] /\ UNCHANGED <<status, queue, failure, closing>>
    BY <1>1, <1>16 DEF Reply, WorkerType
  <2> HIDE DEF m
  <2>4. /\ r \in WorkerType /\ r.task = worker[w].task /\ r.failed = worker[w].failed
        /\ r.restoring = worker[w].restoring /\ r.inbox = None /\ r.wire = m
    BY <1>1, <2>2 DEF WorkerType
  <2> HIDE DEF r
  <2>5. WorkerOK(r)
    BY <1>1, <2>1, <2>2, <2>4 DEF WorkerOK
  <2> QED
    BY <1>5, <2>3, <2>4, <2>5
<1>17. ASSUME NEW w \in DOMAIN worker, ErrorEvent(w) PROVE Goal
  BY <1>4, <1>17, FailedStep DEF ErrorEvent
<1>18. ASSUME NEW w \in DOMAIN worker, ExitEvent(w) PROVE Goal
  <2>1. CASE closing # "stopping"
    BY <1>4, <1>18, <2>1, FailedStep DEF ExitEvent
  <2>2. CASE closing = "stopping"
    <3> DEFINE r == [worker[w] EXCEPT !.life = "gone"]
    <3>1. /\ r \in WorkerType /\ r.task = worker[w].task /\ r.failed = worker[w].failed
          /\ r.restoring = worker[w].restoring /\ r.inbox = worker[w].inbox
          /\ r.wire = worker[w].wire
      BY <1>1 DEF WorkerType
    <3>2. worker' = [worker EXCEPT ![w] = r] /\ UNCHANGED <<status, queue, failure, closing>>
      BY <1>18, <2>2 DEF ExitEvent, Become, Pool
    <3> HIDE DEF r
    <3>3. WorkerOK(r)
      BY <1>1, <3>1 DEF WorkerOK
    <3> QED
      BY <1>5, <3>1, <3>2, <3>3
  <2> QED
    BY <2>1, <2>2
<1>19. ASSUME NEW w \in DOMAIN worker, NEW posted \in BOOLEAN, Receive(w, posted) PROVE Goal
  <2>1. UNCHANGED closing
    BY <1>19 DEF Receive
  <2> QED
    BY <1>4, <1>19, <2>1, ReceiveStep
<1>20. ASSUME NEW w \in DOMAIN worker, NEW ok \in BOOLEAN, NEW posted \in BOOLEAN,
              Restore(w, ok, posted)
       PROVE  Goal
  <2>1. UNCHANGED closing
    BY <1>20 DEF Restore
  <2> QED
    BY <1>4, <1>20, <2>1, RestoreStep
<1>21. ASSUME UNCHANGED vars PROVE Goal
  BY <1>7, <1>21 DEF vars, ClosingInv
<1> HIDE DEF Goal, PoolInv
<1>22. ASSUME NEW t \in Tasks, Presence(t) PROVE Goal
  BY <1>9, <1>10, <1>22 DEF Presence
<1>23. ASSUME NEW w \in DOMAIN worker, Thread(w) PROVE Goal
  BY <1>15, <1>16, <1>23 DEF Thread
<1>24. ASSUME NEW w \in DOMAIN worker, Events(w) PROVE Goal
  BY <1>17, <1>18, <1>19, <1>20, <1>24 DEF Events
<1>25. ASSUME Calls PROVE Goal
  BY <1>8, <1>11, <1>25 DEF Calls
<1>26. ASSUME Next PROVE Goal
  BY <1>12, <1>13, <1>14, <1>22, <1>23, <1>24, <1>25, <1>26 DEF Next
<1>27. Goal
  BY <1>21, <1>26
<1> QED
  BY <1>27 DEF Goal

LEMMA PoolInit == Init => PoolInv
<1> SUFFICES ASSUME Init PROVE PoolInv
  OBVIOUS
<1>1. Pool = [status |-> status, queue |-> <<>>, failure |-> FALSE, worker |-> <<>>]
  BY DEF Init, Pool
<1>2. status \in [Tasks -> Statuses] /\ \A t \in Tasks : status[t] = "new"
  BY DEF Init, Statuses
<1>3. Pool \in PoolType
  <2>1. <<>> \in Seq(Tasks) /\ <<>> \in Seq(WorkerType)
    OBVIOUS
  <2> QED
    BY <1>1, <1>2, <2>1 DEF PoolType
<1>4. Len(Pool.worker) = 0 /\ DOMAIN Pool.worker = {} /\ DOMAIN Pool.queue = {}
  BY <1>1
<1>5. PoolIsSafe(Pool)
  BY <1>1, <1>2, <1>3, <1>4, LimitType
  DEF PoolIsSafe, Owned, QueueOwns, WorkersOwn, NobodyIsForgotten, FailuresCount, Busy
<1>6. ClosingInv
  BY DEF Init, ClosingInv
<1> QED
  BY <1>5, <1>6 DEF PoolInv

LEMMA PoolInductive == PoolInv /\ [Next]_vars => PoolInv'
<1> SUFFICES ASSUME PoolInv, [Next]_vars PROVE PoolInv'
  OBVIOUS
<1>1. PoolIsSafe(Pool') /\ ClosingInv'
  BY PoolStep
<1> QED
  BY <1>1 DEF PoolInv

\* TypeOK and the ownership of the waiting tasks follow from the invariant.
LEMMA PoolInvSound == PoolInv => PoolIsSound
<1> SUFFICES ASSUME PoolInv PROVE PoolIsSound
  OBVIOUS
<1>1. /\ Pool \in PoolType /\ worker \in Seq(WorkerType) /\ DOMAIN worker = 1..Len(worker)
      /\ status \in [Tasks -> Statuses] /\ queue \in Seq(Tasks) /\ failure \in BOOLEAN
      /\ \A w \in DOMAIN worker : worker[w] \in WorkerType /\ WorkerOK(worker[w])
      /\ Len(worker) <= limit /\ Busy(Pool) /\ QueueOwns(Pool)
  BY PoolFields DEF PoolInv, PoolIsSafe, PoolType, Owned, WorkersOwn
<1>2. \A w \in DOMAIN worker : worker[w].task # None =>
         /\ worker[w].task \in Tasks /\ status[worker[w].task] = "waiting"
         /\ \A v \in DOMAIN worker : worker[v].task = worker[w].task => v = w
  BY <1>1, PoolFields DEF PoolInv, PoolIsSafe, Owned, WorkersOwn, WorkerType
<1>3. TypeOK
  <2>1. Len(worker) <= 2
    BY <1>1, LimitType
  <2> QED
    BY <1>1, <2>1 DEF TypeOK, Statuses, PoolInv, ClosingInv
<1>4. QueueOnlyBehindBusyWorkers
  BY <1>1, PoolFields DEF QueueOnlyBehindBusyWorkers, Busy, QueueOwns
<1>5. WaitingIsOwned
  <2> SUFFICES ASSUME NEW t \in Tasks, status[t] = "waiting"
               PROVE  Cardinality({i \in DOMAIN queue : queue[i] = t})
                      + Cardinality({w \in DOMAIN worker : worker[w].task = t}) = 1
    BY DEF WaitingIsOwned
  <2> DEFINE queued == {i \in DOMAIN queue : queue[i] = t}
             owners == {w \in DOMAIN worker : worker[w].task = t}
  <2>1. /\ \A i, j \in DOMAIN queue : queue[i] = queue[j] => i = j
        /\ \A i \in DOMAIN queue : \A w \in DOMAIN worker : worker[w].task # queue[i]
    BY <1>1, PoolFields DEF QueueOwns
  <2>2. \/ \E i \in DOMAIN queue : queue[i] = t
        \/ \E w \in DOMAIN worker : worker[w].task = t
    BY PoolFields DEF PoolInv, PoolIsSafe, Owned, NobodyIsForgotten
  <2>3. CASE \E i \in DOMAIN queue : queue[i] = t
    <3>1. PICK i \in DOMAIN queue : queue[i] = t
      BY <2>3
    <3>2. queued = {i} /\ owners = {}
      BY <2>1, <3>1
    <3> HIDE DEF queued, owners
    <3>3. Cardinality(queued) = 1 /\ Cardinality(owners) = 0
      BY <3>2, FS_Singleton, FS_EmptySet
    <3> QED
      BY <3>3 DEF queued, owners
  <2>4. CASE \A i \in DOMAIN queue : queue[i] # t
    <3>1. PICK w \in DOMAIN worker : worker[w].task = t
      BY <2>2, <2>4
    <3>2. queued = {} /\ owners = {w}
      BY <1>2, <2>4, <3>1, PoolAssumption
    <3> HIDE DEF queued, owners
    <3>3. Cardinality(queued) = 0 /\ Cardinality(owners) = 1
      BY <3>2, FS_Singleton, FS_EmptySet
    <3> QED
      BY <3>3 DEF queued, owners
  <2> QED
    BY <2>3, <2>4
<1>6. OneTaskAtATime
  BY <1>1 DEF OneTaskAtATime, WorkerOK
<1>7. CloseLosesNothing
  <2> SUFFICES ASSUME closing \in {"stopping", "closed"}, NEW w \in DOMAIN worker
               PROVE  worker[w].restoring = None /\ worker[w].task = None
    BY DEF CloseLosesNothing
  <2>1. \A t \in Tasks : status[t] # "waiting"
    BY DEF PoolInv, ClosingInv
  <2>2. worker[w].task = None
    BY <1>2, <2>1
  <2> QED
    BY <1>1, <2>2 DEF WorkerOK
<1> QED
  BY <1>3, <1>4, <1>5, <1>6, <1>7 DEF PoolIsSound

\* However many probes are made, whichever workers fail and in whatever order their messages,
\* errors, exits and restorations are delivered: a waiting task is queued once or with one
\* worker, the queue waits only for busy workers, a worker has one task at a time, and close()
\* stops the workers only when none of them has one.
THEOREM PoolForgetsNobody == Spec => []PoolIsSound
BY PoolInit, PoolInductive, PoolInvSound, PTL DEF Spec

LEMMA Distrusts == Spec => NoHitFromFailedWorker
<1>1. PoolInv /\ [Next]_vars =>
         [\A w \in DOMAIN worker : \A t \in Tasks :
             worker[w].failed /\ worker[w].task = t => status'[t] \in {"waiting", "failed"}]_vars
  BY PoolStep DEF Distrust
<1> QED
  BY <1>1, PoolInit, PoolInductive, PTL DEF Spec, NoHitFromFailedWorker

\* Nothing that a worker found is delivered once the parent knows that the worker failed, and
\* no signal is sent to the group of a command that has settled.
THEOREM EndIsFinal == Spec /\ Command!Spec => NothingAfterTheEnd
BY Distrusts, Signalling DEF NothingAfterTheEnd

=============================================================================
