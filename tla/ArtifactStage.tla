--------------------------- MODULE ArtifactStage ---------------------------
(***************************************************************************)
(* Artifact stages of one build process                                    *)
(* (scripts/lib/convex-wasm-artifact-stage.mjs), for one stage and one     *)
(* content key: concurrent callers that want the artifact share a flight,  *)
(* whose producer validates the immutable cache entry or builds and        *)
(* publishes it.  Callers differ in their byte limit, in whether they are  *)
(* speculative and in their read mode, and only callers of one read mode   *)
(* share a flight.                                                         *)
(*                                                                         *)
(* A call produces at most one flight (ProducesOnce), so a flight is named *)
(* by the call that produced it.  Every await is a step boundary.  The     *)
(* reactions to a flight's promise run in the order in which they were     *)
(* registered: clearFlight first, then the waiting calls.                  *)
(***************************************************************************)
EXTENDS Integers, Sequences

CONSTANTS
    Callers,    \* calls of ensureArtifactStage and its variants
    Limits,     \* the byte limits callers use (maxArtifactBytes)
    Modes,      \* read modes: the part of the flight key that calls differ in
    Sizes,      \* sizes of the artifacts that builds produce
    None

ASSUME StageAssumption ==
    /\ None \notin Callers
    /\ Limits \subseteq Nat \ {0} /\ Sizes \subseteq Nat \ {0}
    /\ None \notin Sizes /\ None \notin Limits

VARIABLES
    disk,       \* the immutable cache entry: its size, or None
    authority,  \* the publication prerequisite: pending, published or failed
    options,    \* each call's options
    pc,         \* each call: new, observed, waiting, or how it ended
    joined,     \* the flight a call waits for or ended with
    got,        \* size of the entry it got, or the size it was refused for
    flight,     \* flights by producer
    current     \* immutableArtifactStageFlights

vars == <<disk, authority, options, pc, joined, got, flight, current>>

Options == [limit : Limits, speculative : BOOLEAN, mode : Modes]
Ended == {"resolved", "toolarge", "failed"}
Phases == {"validate", "hit", "build", "prerequisite", "publish", "winner",
           "cleanup", "settled"}
Flight == [speculative : BOOLEAN, phase : Phases,
           outcome : {"none", "entry", "failed", "limit"},
           size : Sizes \cup {None}, cleared : BOOLEAN, waiters : Seq(Callers)]

ASSUME RecordsAssumption == None \notin Options /\ None \notin Flight

Init ==
    /\ disk = None /\ authority = "pending"
    /\ options = [c \in Callers |-> None]
    /\ pc = [c \in Callers |-> "new"]
    /\ joined = [c \in Callers |-> None]
    /\ got = [c \in Callers |-> None]
    /\ flight = [c \in Callers |-> None]
    /\ current = [m \in Modes |-> None]

(***************************************************************************)
(* External: the record that the prerequisite waits for is published or    *)
(* fails, and a nested process publishes the same entry.                   *)
(***************************************************************************)
SettleAuthority ==
    /\ authority = "pending"
    /\ authority' \in {"published", "failed"}
    /\ UNCHANGED <<disk, options, pc, joined, got, flight, current>>

ForeignPublish ==
    /\ disk = None
    /\ disk' \in Sizes
    /\ UNCHANGED <<authority, options, pc, joined, got, flight, current>>

-----------------------------------------------------------------------------
(* ensureArtifactStageInternal.                                            *)

NewFlight(c, o, skip) ==
    [speculative |-> o.speculative, phase |-> IF skip THEN "build" ELSE "validate",
     outcome |-> "none", size |-> None, cleared |-> FALSE, waiters |-> <<c>>]

\* Updates of a flight.
WithWaiters(f, waiters) == [f EXCEPT !.waiters = waiters]
WithCleared(f) == [f EXCEPT !.cleared = TRUE]
WithProgress(f, phase, size) == [f EXCEPT !.phase = phase, !.size = size]
WithOutcome(f, phase, outcome, size) ==
    [f EXCEPT !.phase = phase, !.outcome = outcome, !.size = size]

\* Mutant: an ordinary call does not join a speculative flight.
EnterUnshared(c, o, skip, flights, map) ==
    LET p == map[o.mode] IN
    /\ IF p = None \/ (flights[p].speculative /\ ~o.speculative)
       THEN /\ flight' = [flights EXCEPT ![c] = NewFlight(c, o, skip)]
            /\ current' = [map EXCEPT ![o.mode] = c]
            /\ joined' = [joined EXCEPT ![c] = c]
       ELSE /\ flight' = [flights EXCEPT ![p] = WithWaiters(@, Append(@.waiters, c))]
            /\ current' = map
            /\ joined' = [joined EXCEPT ![c] = p]
    /\ pc' = [pc EXCEPT ![c] = "waiting"]

\* Join the current flight or produce one, given the flights and their map.
Enter(c, o, skip, flights, map) ==
    LET p == map[o.mode] IN
    /\ IF p = None
       THEN /\ flight' = [flights EXCEPT ![c] = NewFlight(c, o, skip)]
            /\ current' = [map EXCEPT ![o.mode] = c]
            /\ joined' = [joined EXCEPT ![c] = c]
       ELSE /\ flight' = [flights EXCEPT ![p] = WithWaiters(@, Append(@.waiters, c))]
            /\ current' = map
            /\ joined' = [joined EXCEPT ![c] = p]
    /\ pc' = [pc EXCEPT ![c] = "waiting"]

\* ensureArtifactStage and ensureSpeculativeArtifactStage.
Ensure(c, o) ==
    /\ pc[c] = "new"
    /\ options' = [options EXCEPT ![c] = o]
    /\ Enter(c, o, FALSE, flight, current)
    /\ UNCHANGED <<disk, authority, got>>

\* observeArtifactCacheMiss that finds no entry: the call has a one-use token.
Observe(c, o) ==
    /\ pc[c] = "new" /\ disk = None
    /\ ~o.speculative
    /\ options' = [options EXCEPT ![c] = o]
    /\ pc' = [pc EXCEPT ![c] = "observed"]
    /\ UNCHANGED <<disk, authority, joined, got, flight, current>>

\* ensureArtifactStageAfterObservedMiss: a producer does not look at the cache again,
\* whatever happened since.
EnsureAfterMiss(c) ==
    /\ pc[c] = "observed"
    /\ Enter(c, options[c], TRUE, flight, current)
    /\ UNCHANGED <<disk, authority, options, got>>

(***************************************************************************)
(* ensureArtifactStageUnshared, run by the producer p.                     *)
(***************************************************************************)
In(p, phase) == flight[p] # None /\ flight[p].phase = phase

Goto(p, phase, size) ==
    /\ flight' = [flight EXCEPT ![p] = WithProgress(@, phase, size)]
    /\ UNCHANGED <<authority, options, pc, joined, got, current>>

Finish(p, phase, outcome, size) ==
    /\ flight' = [flight EXCEPT ![p] = WithOutcome(@, phase, outcome, size)]
    /\ UNCHANGED <<authority, options, pc, joined, got, current>>

TooLarge(p, size) == size > options[p].limit

\* The entry is absent, or it is authenticated.
Validate(p) ==
    /\ In(p, "validate")
    /\ disk # None => ~TooLarge(p, disk)
    /\ Goto(p, IF disk = None THEN "build" ELSE "hit", disk)
    /\ UNCHANGED disk

\* A validation that an observed miss began before the entry appeared is still
\* pending: calls of one read mode and limit share it, and with it the miss.
ValidateSharedMiss(p) ==
    /\ In(p, "validate") /\ disk # None
    /\ \E c \in Callers : /\ pc[c] = "observed"
                          /\ options[c].limit = options[p].limit
                          /\ options[c].mode = options[p].mode
    /\ Goto(p, "build", None)
    /\ UNCHANGED disk

\* Every validation refuses an entry above the caller's limit.
ValidateTooLarge(p) ==
    /\ In(p, "validate") /\ disk # None
    /\ TooLarge(p, disk)
    /\ Finish(p, "settled", "limit", disk)
    /\ UNCHANGED disk


\* A hit waits for the prerequisite, then checks the limit.
Hit(p) ==
    /\ In(p, "hit") /\ authority = "published"
    /\ Finish(p, "settled", IF TooLarge(p, flight[p].size) THEN "limit" ELSE "entry",
              flight[p].size)
    /\ UNCHANGED disk

Build(p) ==
    /\ In(p, "build")
    /\ \E s \in Sizes : Goto(p, "prerequisite", s)
    /\ UNCHANGED disk

Prerequisite(p) ==
    /\ In(p, "prerequisite") /\ authority = "published"
    /\ Goto(p, "publish", flight[p].size)
    /\ UNCHANGED disk

\* Mutant: the rename replaces an entry that is there.
PublishOver(p) ==
    /\ In(p, "publish")
    /\ IF TooLarge(p, flight[p].size)
       THEN Finish(p, "cleanup", "limit", flight[p].size) /\ UNCHANGED disk
       ELSE Finish(p, "cleanup", "entry", flight[p].size) /\ disk' = flight[p].size


\* publishArtifactCacheEntry: the limit, then the rename of the completed copy, which
\* fails when there is an entry.
Publish(p) ==
    /\ In(p, "publish")
    /\ IF TooLarge(p, flight[p].size)
       THEN Finish(p, "cleanup", "limit", flight[p].size) /\ UNCHANGED disk
       ELSE IF disk = None
       THEN Finish(p, "cleanup", "entry", flight[p].size) /\ disk' = flight[p].size
       ELSE Goto(p, "winner", flight[p].size) /\ UNCHANGED disk

\* Mutant: the loser returns its own bytes.
WinnerUnchecked(p) ==
    /\ In(p, "winner")
    /\ Finish(p, "cleanup", "entry", flight[p].size)
    /\ UNCHANGED disk

\* The loser of the race reads the entry that won; it must have the same bytes.
Winner(p) ==
    /\ In(p, "winner")
    /\ IF TooLarge(p, disk) THEN Finish(p, "cleanup", "limit", disk)
       ELSE Finish(p, "cleanup", IF disk = flight[p].size THEN "entry" ELSE "failed",
                   flight[p].size)
    /\ UNCHANGED disk

\* A validation, a build, a prerequisite or a file operation rejects.
Reject(p) ==
    /\ flight[p] # None /\ flight[p].phase \notin {"cleanup", "settled"}
    /\ flight[p].phase \in {"hit", "prerequisite"} => authority # "pending"
    /\ Finish(p, IF flight[p].phase \in {"validate", "hit"} THEN "settled" ELSE "cleanup",
              "failed", flight[p].size)
    /\ UNCHANGED disk


\* The scratch directory is removed; a failure to do so replaces the outcome.
Cleanup(p) ==
    /\ In(p, "cleanup")
    /\ \E outcome \in {flight[p].outcome, "failed"} :
          Finish(p, "settled", outcome, flight[p].size)
    /\ UNCHANGED disk

-----------------------------------------------------------------------------
(* The reactions to a settled flight.                                      *)


\* The map without flight p, if p is still in it.
Forget(p) == [m \in Modes |-> IF current[m] = p THEN None ELSE current[m]]

\* clearFlight.
Clear(p) ==
    /\ In(p, "settled") /\ ~flight[p].cleared
    /\ flight' = [flight EXCEPT ![p] = WithCleared(@)]
    /\ current' = Forget(p)
    /\ UNCHANGED <<disk, authority, options, pc, joined, got>>

\* Mutant: every caller shares the producer's failure.
InheritedVerdict(c, p) ==
    CASE flight[p].outcome = "failed" -> "failed"
      [] flight[p].outcome # "failed" /\ TooLarge(c, flight[p].size) -> "toolarge"
      [] flight[p].outcome = "entry" /\ ~TooLarge(c, flight[p].size) -> "resolved"
      [] OTHER -> "retry"


\* What the outcome of flight p means to call c: a byte-limit failure counts only if
\* the size is above c's own limit, and an ordinary follower does not inherit the
\* failure of a speculative producer.
Verdict(c, p) ==
    CASE flight[p].outcome = "failed" ->
           IF c # p /\ ~options[c].speculative /\ flight[p].speculative
           THEN "retry" ELSE "failed"
      [] flight[p].outcome # "failed" /\ TooLarge(c, flight[p].size) -> "toolarge"
      [] flight[p].outcome = "entry" /\ ~TooLarge(c, flight[p].size) -> "resolved"
      [] OTHER -> "retry"

Reacts(p) ==
    /\ In(p, "settled") /\ flight[p].cleared /\ flight[p].waiters # <<>>

Deliver(p) ==
    /\ Reacts(p)
    /\ LET c == Head(flight[p].waiters) IN
       /\ Verdict(c, p) # "retry"
       /\ pc' = [pc EXCEPT ![c] = Verdict(c, p)]
       /\ got' = [got EXCEPT ![c] =
                    IF Verdict(c, p) = "failed" THEN None ELSE flight[p].size]
    /\ flight' = [flight EXCEPT ![p] = WithWaiters(@, Tail(@.waiters))]
    /\ UNCHANGED <<disk, authority, options, joined, current>>

\* The settled flight is removed if it is still current, and the call starts again in
\* the same reaction, with validation.
Retry(p) ==
    /\ Reacts(p)
    /\ LET c == Head(flight[p].waiters) IN
       /\ Verdict(c, p) = "retry"
       /\ Enter(c, options[c], FALSE,
                [flight EXCEPT ![p] = WithWaiters(@, Tail(@.waiters))], Forget(p))
    /\ UNCHANGED <<disk, authority, options, got>>

Step(p) ==
    \/ Validate(p) \/ ValidateSharedMiss(p) \/ ValidateTooLarge(p) \/ Hit(p)
    \/ Build(p) \/ Prerequisite(p) \/ Publish(p) \/ Winner(p) \/ Reject(p) \/ Cleanup(p)
    \/ Clear(p) \/ Deliver(p) \/ Retry(p)

Next ==
    \/ SettleAuthority
    \/ ForeignPublish
    \/ \E c \in Callers, o \in Options : Ensure(c, o)
    \/ \E c \in Callers, o \in Options : Observe(c, o)
    \/ \E c \in Callers : EnsureAfterMiss(c)
    \/ \E p \in Callers : Validate(p)
    \/ \E p \in Callers : ValidateSharedMiss(p)
    \/ \E p \in Callers : ValidateTooLarge(p)
    \/ \E p \in Callers : Hit(p)
    \/ \E p \in Callers : Build(p)
    \/ \E p \in Callers : Prerequisite(p)
    \/ \E p \in Callers : Publish(p)
    \/ \E p \in Callers : Winner(p)
    \/ \E p \in Callers : Reject(p)
    \/ \E p \in Callers : Cleanup(p)
    \/ \E p \in Callers : Clear(p)
    \/ \E p \in Callers : Deliver(p)
    \/ \E p \in Callers : Retry(p)

Spec == Init /\ [][Next]_vars

(***************************************************************************)
(* What is bound to happen: reactions run, builds are native commands      *)
(* under a timeout, file operations end, and the prerequisite settles.     *)
(* Nothing obliges a call to be made.                                      *)
(***************************************************************************)
Progress == SettleAuthority \/ \E p \in Callers : Step(p)

-----------------------------------------------------------------------------
(* Properties.                                                             *)

\* Type invariant; a flight has an outcome once its work is over, and a call has
\* options once it is made.
TypeOK ==
    /\ disk \in Sizes \cup {None}
    /\ authority \in {"pending", "published", "failed"}
    /\ options \in [Callers -> Options \cup {None}]
    /\ pc \in [Callers -> {"new", "observed", "waiting"} \cup Ended]
    /\ joined \in [Callers -> Callers \cup {None}]
    /\ got \in [Callers -> Sizes \cup {None}]
    /\ flight \in [Callers -> Flight \cup {None}]
    /\ current \in [Modes -> Callers \cup {None}]
    /\ \A c \in Callers : pc[c] = "new" <=> options[c] = None
    /\ \A p \in Callers : flight[p] # None =>
          (flight[p].outcome = "none" <=> flight[p].phase \notin {"cleanup", "settled"})

\* Single flight: two producers of one read mode are never at work at the same time,
\* however flights settle, are cleared and retried.
SingleFlight ==
    \A p, q \in Callers :
        /\ flight[p] # None /\ flight[p].phase # "settled"
        /\ flight[q] # None /\ flight[q].phase # "settled"
        /\ options[p].mode = options[q].mode
        => p = q

\* A call that produced a flight ends with it: it is never sent to wait for another
\* flight and never builds the artifact twice.
ProducesOnce ==
    \A c \in Callers : flight[c] # None /\ pc[c] = "waiting" => joined[c] = c

\* Every call that resolves, in whichever flight, by a hit, a publication or a lost
\* race, has the one published entry, within its own limit and after the prerequisite
\* was authenticated.
ResolvedIsPublished ==
    \A c \in Callers :
        pc[c] = "resolved" => /\ got[c] = disk /\ disk # None
                              /\ got[c] <= options[c].limit
                              /\ authority = "published"

\* A call is refused for its size only by its own limit, never by the limit of the
\* producer whose flight it shared.
RefusedByOwnLimit ==
    \A c \in Callers : pc[c] = "toolarge" => got[c] > options[c].limit

\* An ordinary call never fails with the failure of a speculative producer.
OrdinaryFailure ==
    \A c \in Callers :
        pc[c] = "failed" /\ ~options[c].speculative
          => ~options[joined[c]].speculative

\* What makes these properties inductive.  The map holds exactly the flights that are
\* not cleared, each under the read mode of its producer, and calls join flights:
ProducersTracked ==
    \A p \in Callers :
        flight[p] # None =>
          /\ pc[p] \notin {"new", "observed"}
          /\ flight[p].speculative = options[p].speculative
          /\ IF flight[p].cleared THEN flight[p].phase = "settled"
             ELSE current[options[p].mode] = p
MapTracked ==
    \A m \in Modes :
        current[m] # None => /\ flight[current[m]] # None
                            /\ ~flight[current[m]].cleared
                            /\ options[current[m]].mode = m
JoinedTracked ==
    \A c \in Callers :
        pc[c] \notin {"new", "observed"} =>
            joined[c] \in Callers /\ flight[joined[c]] # None

\* the calls that a flight has yet to answer wait for it:
WaitersWait ==
    \A p \in Callers :
        flight[p] # None =>
          /\ \A i \in 1 .. Len(flight[p].waiters) :
                /\ pc[flight[p].waiters[i]] = "waiting"
                /\ joined[flight[p].waiters[i]] = p
          /\ \A i, j \in 1 .. Len(flight[p].waiters) :
                flight[p].waiters[i] = flight[p].waiters[j] => i = j

\* and what a flight found or built is what its phase and its outcome say.
FlightFacts ==
    \A p \in Callers :
        flight[p] # None =>
          /\ flight[p].phase \in {"prerequisite", "publish", "winner"} =>
                flight[p].size # None
          /\ flight[p].phase \in {"publish", "winner"} => authority = "published"
          /\ flight[p].phase = "winner" => disk # None
          /\ flight[p].phase = "hit" => flight[p].size = disk /\ disk # None
          /\ flight[p].outcome = "entry" =>
                flight[p].size = disk /\ disk # None /\ authority = "published"
          /\ flight[p].outcome = "limit" =>
                flight[p].size # None /\ flight[p].size > options[p].limit

StageInv ==
    /\ TypeOK /\ ProducersTracked /\ MapTracked /\ JoinedTracked /\ WaitersWait /\ FlightFacts
    /\ ProducesOnce /\ ResolvedIsPublished /\ RefusedByOwnLimit /\ OrdinaryFailure

\* No call is under way.
StageSettled == \A c \in Callers : pc[c] # "waiting"

\* The stage implements ImmutableEntry: one entry is published once and never
\* replaced, and every call ends at most once, with that entry, with a refusal by its
\* own limit or with a failure.
Promise == INSTANCE ImmutableEntry WITH
    entry   <- disk,
    limit   <- [c \in Callers |-> IF options[c] = None THEN None ELSE options[c].limit],
    outcome <- [c \in Callers |-> IF pc[c] \in Ended THEN pc[c] ELSE "pending"],
    bytes   <- [c \in Callers |-> IF pc[c] = "resolved" THEN got[c] ELSE None]
ImplementsPromise == Promise!Spec

=============================================================================
