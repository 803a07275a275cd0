------------------------- MODULE PublicationProofs -------------------------
(***************************************************************************)
(* What a build publishes once, and whole.                                 *)
(*                                                                         *)
(* StageInv is an inductive invariant of ArtifactStage, for any calls,     *)
(* limits, read modes and artifact sizes.  Two lemmas carry most of it.    *)
(* WorkStep: a step of a producer changes the phase, the outcome and the   *)
(* size of its own flight, and perhaps publishes the entry.  EnterStep: a  *)
(* call that has no flight of its own joins the current flight or produces *)
(* one.                                                                    *)
(*                                                                         *)
(* The other sections are about Publications: PackageInv is an inductive   *)
(* invariant of the acquisition of a package, for any checkouts, and       *)
(* RegistryInv of the publication of registries, for any publishers and    *)
(* any lists of module graphs.  RegistryInv rests on what the program of a *)
(* publisher is (ProgramIs), whose length and order depend on its graphs:  *)
(* every directory and file is made in a directory that is there, and      *)
(* what is made is verified and synced further on.                         *)
(***************************************************************************)
EXTENDS ArtifactStage, Publications, WellFoundedInduction, SequenceTheorems, TLAPS

USE DEF Ended

LEMMA InitInv == Init => StageInv
  BY StageAssumption
     DEF Init, StageInv, TypeOK, ProducersTracked, MapTracked, JoinedTracked, WaitersWait,
         FlightFacts,
         ProducesOnce, ResolvedIsPublished, RefusedByOwnLimit, OrdinaryFailure

(* Updates of a flight, field by field.                                    *)

LEMMA WaitersUpdate ==
  ASSUME NEW r \in Flight, NEW w \in Seq(Callers)
  PROVE  LET g == WithWaiters(r, w) IN
         /\ g \in Flight /\ g.speculative = r.speculative /\ g.phase = r.phase
         /\ g.outcome = r.outcome /\ g.size = r.size /\ g.cleared = r.cleared
         /\ g.waiters = w
  BY DEF Flight, WithWaiters

LEMMA ClearedUpdate ==
  ASSUME NEW r \in Flight
  PROVE  LET g == WithCleared(r) IN
         /\ g \in Flight /\ g.speculative = r.speculative /\ g.phase = r.phase
         /\ g.outcome = r.outcome /\ g.size = r.size /\ g.cleared
         /\ g.waiters = r.waiters
  BY DEF Flight, WithCleared

LEMMA ProgressUpdate ==
  ASSUME NEW r \in Flight, NEW phase \in Phases, NEW size \in Sizes \cup {None}
  PROVE  LET g == WithProgress(r, phase, size) IN
         /\ g \in Flight /\ g.speculative = r.speculative /\ g.phase = phase
         /\ g.outcome = r.outcome /\ g.size = size /\ g.cleared = r.cleared
         /\ g.waiters = r.waiters
  BY DEF Flight, WithProgress

\* What a flight's fields say when its work is at phase f.phase.
FlightSays(p, f, entry) ==
    /\ f.outcome = "none" <=> f.phase \notin {"cleanup", "settled"}
    /\ f.phase \in {"prerequisite", "publish", "winner"} => f.size # None
    /\ f.phase \in {"publish", "winner"} => authority = "published"
    /\ f.phase = "winner" => entry # None
    /\ f.phase = "hit" => f.size = entry /\ entry # None
    /\ f.outcome = "entry" => f.size = entry /\ entry # None /\ authority = "published"
    /\ f.outcome = "limit" => f.size # None /\ f.size > options[p].limit

LEMMA WorkStep ==
  ASSUME StageInv, NEW p \in Callers, flight[p] # None, flight[p].phase # "settled",
         NEW f \in Flight,
         f.speculative = flight[p].speculative,
         f.cleared = flight[p].cleared,
         f.waiters = flight[p].waiters,
         flight' = [flight EXCEPT ![p] = f],
         disk' \in Sizes \cup {None}, disk # None => disk' = disk,
         FlightSays(p, f, disk'),
         UNCHANGED <<authority, options, pc, joined, got, current>>
  PROVE  StageInv'
<1> USE DEF StageInv
<1>1. f # None BY RecordsAssumption
<1>2. TypeOK' BY <1>1 DEF TypeOK, FlightSays
<1>3a. ProducersTracked'
  BY <1>1 DEF TypeOK, ProducersTracked, MapTracked
<1>3b. MapTracked'
  BY <1>1 DEF TypeOK, ProducersTracked, MapTracked
<1>3c. JoinedTracked'
  BY <1>1 DEF TypeOK, JoinedTracked
<1>4. WaitersWait' BY <1>1 DEF TypeOK, WaitersWait
<1>5. FlightFacts' BY <1>1 DEF TypeOK, FlightFacts, FlightSays
<1>6. ProducesOnce' BY <1>1 DEF TypeOK, ProducesOnce
<1>7. ResolvedIsPublished' BY DEF ResolvedIsPublished
<1>8. RefusedByOwnLimit' BY DEF RefusedByOwnLimit
<1>9. OrdinaryFailure' BY DEF OrdinaryFailure
<1> QED BY <1>2, <1>3a, <1>3b, <1>3c, <1>4, <1>5, <1>6, <1>7, <1>8, <1>9

\* Flights that agree with the present ones but for waiters, none of which is c.
FlightsWithout(flights, c) ==
    \A q \in Callers :
        /\ flights[q] = None <=> flight[q] = None
        /\ flight[q] # None =>
             /\ flights[q].speculative = flight[q].speculative
             /\ flights[q].phase = flight[q].phase
             /\ flights[q].outcome = flight[q].outcome
             /\ flights[q].size = flight[q].size
             /\ flights[q].cleared = flight[q].cleared
             /\ \A i \in 1 .. Len(flights[q].waiters) :
                   /\ pc[flights[q].waiters[i]] = "waiting"
                   /\ joined[flights[q].waiters[i]] = q
                   /\ flights[q].waiters[i] # c
             /\ \A i, j \in 1 .. Len(flights[q].waiters) :
                   flights[q].waiters[i] = flights[q].waiters[j] => i = j

LEMMA EnterStep ==
  ASSUME StageInv, NEW c \in Callers, NEW o \in Options, NEW skip \in BOOLEAN,
         NEW flights \in [Callers -> Flight \cup {None}],
         FlightsWithout(flights, c),
         flight[c] = None, pc[c] \notin Ended,
         options' = [options EXCEPT ![c] = o],
         Enter(c, o, skip, flights, current),
         UNCHANGED <<disk, authority, got>>
  PROVE  StageInv'
<1> USE DEF StageInv, FlightsWithout
<1> DEFINE p == current[o.mode]
           f == NewFlight(c, o, skip)
           g == WithWaiters(flights[p], Append(flights[p].waiters, c))
<1>o. o # None /\ o.mode \in Modes /\ o.speculative \in BOOLEAN
  BY RecordsAssumption DEF Options
<1>pc. pc' = [pc EXCEPT ![c] = "waiting"] BY DEF Enter
<1>fl. f \in Flight
  <2>1. <<c>> \in Seq(Callers) OBVIOUS
  <2> QED BY <1>o, <2>1 DEF NewFlight, Flight, Phases
<1>f. /\ f \in Flight /\ f # None
      /\ f.speculative = o.speculative /\ f.phase \in {"build", "validate"}
      /\ f.outcome = "none" /\ f.size = None /\ ~f.cleared /\ f.waiters = <<c>>
  BY <1>fl, RecordsAssumption DEF NewFlight
<1>p. p \in Callers \cup {None} BY <1>o DEF TypeOK
<1>1. CASE p = None
  <2>1. /\ flight' = [flights EXCEPT ![c] = f]
        /\ current' = [current EXCEPT ![o.mode] = c]
        /\ joined' = [joined EXCEPT ![c] = c]
    BY <1>1 DEF Enter
  <2> HIDE DEF f, p
  <2>2. TypeOK' BY <1>o, <1>pc, <1>f, <2>1 DEF TypeOK
  <2>3a. ProducersTracked'
    BY <1>1, <1>o, <1>pc, <1>f, <2>1, StageAssumption DEF TypeOK, ProducersTracked, MapTracked, p
  <2>3b. MapTracked'
    BY <1>1, <1>o, <1>pc, <1>f, <2>1, StageAssumption DEF TypeOK, ProducersTracked, MapTracked, p
  <2>3c. JoinedTracked'
    BY <1>1, <1>o, <1>pc, <1>f, <2>1, StageAssumption DEF TypeOK, JoinedTracked, p
  <2>4. WaitersWait' BY <1>o, <1>pc, <1>f, <2>1 DEF TypeOK, WaitersWait
  <2>5. FlightFacts' BY <1>o, <1>pc, <1>f, <2>1 DEF TypeOK, FlightFacts
  <2>6. ProducesOnce' BY <1>pc, <2>1 DEF TypeOK, ProducesOnce
  <2>7. ResolvedIsPublished' BY <1>pc DEF TypeOK, ResolvedIsPublished
  <2>8. RefusedByOwnLimit' BY <1>pc DEF TypeOK, RefusedByOwnLimit
  <2>9. OrdinaryFailure'
    BY <1>pc, <2>1 DEF TypeOK, JoinedTracked, OrdinaryFailure
  <2> QED BY <2>2, <2>3a, <2>3b, <2>3c, <2>4, <2>5, <2>6, <2>7, <2>8, <2>9
<1>2. CASE p # None
  <2>p. p \in Callers /\ flight[p] # None /\ p # c /\ flights[p] \in Flight
    BY <1>2, <1>p, <1>o DEF MapTracked
  <2>1. current' = current /\ joined' = [joined EXCEPT ![c] = p] BY <1>2 DEF Enter
  <2> HIDE DEF f, p
  <2>w. flights[p].waiters \in Seq(Callers) /\ Append(flights[p].waiters, c) \in Seq(Callers)
    BY <2>p DEF Flight
  <2>g. /\ g \in Flight /\ g # None
        /\ g.speculative = flights[p].speculative /\ g.phase = flights[p].phase
        /\ g.outcome = flights[p].outcome /\ g.size = flights[p].size
        /\ g.cleared = flights[p].cleared /\ g.waiters = Append(flights[p].waiters, c)
    <3>1. PICK w \in Seq(Callers) : w = Append(flights[p].waiters, c) BY <2>w
    <3>2. g = WithWaiters(flights[p], w) BY <3>1
    <3> HIDE DEF g
    <3>3. /\ g \in Flight
          /\ g.speculative = flights[p].speculative /\ g.phase = flights[p].phase
          /\ g.outcome = flights[p].outcome /\ g.size = flights[p].size
          /\ g.cleared = flights[p].cleared /\ g.waiters = w
      BY <2>p, <3>2, WaitersUpdate
    <3> QED BY <3>1, <3>3, RecordsAssumption
  <2>f. flight' = [flights EXCEPT ![p] = g] BY <1>2 DEF Enter, p
  <2> HIDE DEF g
  <2>2. TypeOK' BY <1>o, <1>pc, <2>p, <2>1, <2>g, <2>f DEF TypeOK
  <2>3a. ProducersTracked'
    BY <1>o, <1>pc, <2>p, <2>1, <2>g, <2>f, StageAssumption DEF TypeOK, ProducersTracked, MapTracked
  <2>3b. MapTracked'
    BY <1>o, <1>pc, <2>p, <2>1, <2>g, <2>f, StageAssumption DEF TypeOK, ProducersTracked, MapTracked
  <2>3c. JoinedTracked'
    BY <1>o, <1>pc, <2>p, <2>1, <2>g, <2>f, StageAssumption DEF TypeOK, JoinedTracked
  <2>4. WaitersWait'
    <3>1. flights[p].waiters \in Seq(Callers) BY <2>p DEF Flight
    <3> QED BY <1>o, <1>pc, <2>p, <2>1, <2>g, <2>f, <3>1 DEF TypeOK, WaitersWait
  <2>5. FlightFacts' BY <1>o, <1>pc, <2>p, <2>1, <2>g, <2>f DEF TypeOK, FlightFacts
  <2>6. ProducesOnce' BY <1>pc, <2>p, <2>1, <2>g, <2>f DEF TypeOK, ProducesOnce
  <2>7. ResolvedIsPublished' BY <1>pc DEF TypeOK, ResolvedIsPublished
  <2>8. RefusedByOwnLimit' BY <1>pc DEF TypeOK, RefusedByOwnLimit
  <2>9. OrdinaryFailure'
    BY <1>pc, <2>1 DEF TypeOK, JoinedTracked, OrdinaryFailure
  <2> QED BY <2>2, <2>3a, <2>3b, <2>3c, <2>4, <2>5, <2>6, <2>7, <2>8, <2>9
<1> QED BY <1>1, <1>2

(* The steps of a producer.                                                *)

LEMMA GotoStep ==
  ASSUME StageInv, NEW p \in Callers, flight[p] # None,
         flight[p].phase \notin {"cleanup", "settled"},
         NEW phase \in Phases \ {"cleanup", "settled"}, NEW size \in Sizes \cup {None},
         phase \in {"prerequisite", "publish", "winner"} => size # None,
         phase \in {"publish", "winner"} => authority = "published",
         phase = "winner" => disk # None,
         phase = "hit" => size = disk /\ disk # None,
         Goto(p, phase, size), disk' = disk
  PROVE  StageInv'
<1> DEFINE f == WithProgress(flight[p], phase, size)
<1>1. flight[p] \in Flight /\ flight[p].outcome = "none" BY DEF StageInv, TypeOK
<1>2. /\ f \in Flight /\ f.speculative = flight[p].speculative /\ f.phase = phase
      /\ f.outcome = flight[p].outcome /\ f.size = size
      /\ f.cleared = flight[p].cleared /\ f.waiters = flight[p].waiters
  BY <1>1, ProgressUpdate
<1>3. flight' = [flight EXCEPT ![p] = f] BY DEF Goto
<1>4. UNCHANGED <<authority, options, pc, joined, got, current>> BY DEF Goto
<1> HIDE DEF f
<1>5. FlightSays(p, f, disk') BY <1>1, <1>2 DEF FlightSays
<1>6. disk' \in Sizes \cup {None} BY DEF StageInv, TypeOK
<1> QED BY <1>2, <1>3, <1>4, <1>5, <1>6, WorkStep

LEMMA FinishStep ==
  ASSUME StageInv, NEW p \in Callers, flight[p] # None, flight[p].phase # "settled",
         NEW phase \in {"cleanup", "settled"}, NEW size \in Sizes \cup {None},
         NEW outcome \in {"entry", "failed", "limit"},
         disk' \in Sizes \cup {None}, disk # None => disk' = disk,
         outcome = "entry" => size = disk' /\ disk' # None /\ authority = "published",
         outcome = "limit" => size # None /\ size > options[p].limit,
         Finish(p, phase, outcome, size)
  PROVE  StageInv'
<1>0. phase \in Phases BY DEF Phases
<1>1. flight[p] \in Flight BY DEF StageInv, TypeOK
<1> DEFINE f == WithOutcome(flight[p], phase, outcome, size)
<1>2. /\ f \in Flight /\ f.speculative = flight[p].speculative /\ f.phase = phase
      /\ f.outcome = outcome /\ f.size = size
      /\ f.cleared = flight[p].cleared /\ f.waiters = flight[p].waiters
  BY <1>0, <1>1 DEF Flight, WithOutcome
<1>3. flight' = [flight EXCEPT ![p] = f] BY Zenon DEF Finish
<1>4. UNCHANGED <<authority, options, pc, joined, got, current>> BY DEF Finish
<1> HIDE DEF f
<1>5. FlightSays(p, f, disk') BY <1>1, <1>2 DEF FlightSays
<1> QED BY <1>2, <1>3, <1>4, <1>5, WorkStep

LEMMA ProducerStep ==
  ASSUME StageInv, NEW p \in Callers,
         \/ Validate(p) \/ ValidateSharedMiss(p) \/ ValidateTooLarge(p) \/ Hit(p)
         \/ Build(p) \/ Prerequisite(p)
         \/ Publish(p) \/ Winner(p) \/ Reject(p) \/ Cleanup(p)
  PROVE  StageInv'
<1>t. disk \in Sizes \cup {None} BY DEF StageInv, TypeOK
<1>s. ASSUME flight[p] # None
      PROVE  /\ flight[p] \in Flight
             /\ flight[p].size \in Sizes \cup {None}
             /\ flight[p].phase \in Phases
             /\ flight[p].outcome \in {"none", "entry", "failed", "limit"}
  <2>1. flight[p] \in Flight BY <1>s DEF StageInv, TypeOK
  <2> QED BY <2>1 DEF Flight
<1>1. CASE Validate(p)
  <2>1. flight[p] # None /\ flight[p].phase = "validate" BY <1>1 DEF Validate, In
  <2> QED BY <1>1, <1>t, <2>1, GotoStep DEF Validate, Phases
<1>10. CASE ValidateSharedMiss(p)
  <2>1. flight[p] # None /\ flight[p].phase = "validate"
    BY <1>10 DEF ValidateSharedMiss, In
  <2> QED BY <1>10, <1>t, <2>1, GotoStep DEF ValidateSharedMiss, Phases
<1>2. CASE ValidateTooLarge(p)
  <2>1. flight[p] # None /\ flight[p].phase = "validate" BY <1>2 DEF ValidateTooLarge, In
  <2> QED BY <1>2, <1>t, <2>1, FinishStep DEF ValidateTooLarge, TooLarge
<1>3. CASE Hit(p)
  <2>1. flight[p] # None /\ flight[p].phase = "hit" BY <1>3 DEF Hit, In
  <2>2. flight[p].size = disk /\ disk # None BY <2>1 DEF StageInv, FlightFacts
  <2> QED BY <1>3, <1>t, <1>s, <2>1, <2>2, FinishStep DEF Hit, TooLarge
<1>4. CASE Build(p)
  <2>1. flight[p] # None /\ flight[p].phase = "build" BY <1>4 DEF Build, In
  <2>2. PICK s \in Sizes : Goto(p, "prerequisite", s) BY <1>4 DEF Build
  <2> QED BY <1>4, <2>1, <2>2, StageAssumption, GotoStep DEF Build, Phases
<1>5. CASE Prerequisite(p)
  <2>1. flight[p] # None /\ flight[p].phase = "prerequisite" BY <1>5 DEF Prerequisite, In
  <2>2. flight[p].size # None BY <2>1 DEF StageInv, FlightFacts
  <2> QED BY <1>5, <1>s, <2>1, <2>2, GotoStep DEF Prerequisite, Phases
<1>6. CASE Publish(p)
  <2>1. flight[p] # None /\ flight[p].phase = "publish" BY <1>6 DEF Publish, In
  <2>2. flight[p].size # None /\ authority = "published"
    BY <2>1 DEF StageInv, FlightFacts
  <2>3. CASE TooLarge(p, flight[p].size)
    BY <1>6, <1>s, <1>t, <2>1, <2>2, <2>3, FinishStep DEF Publish, TooLarge
  <2>4. CASE ~TooLarge(p, flight[p].size) /\ disk = None
    BY <1>6, <1>s, <1>t, <2>1, <2>2, <2>4, FinishStep DEF Publish
  <2>5. CASE ~TooLarge(p, flight[p].size) /\ disk # None
    BY <1>6, <1>s, <1>t, <2>1, <2>2, <2>5, GotoStep DEF Publish, Phases
  <2> QED BY <2>3, <2>4, <2>5
<1>7. CASE Winner(p)
  <2>1. flight[p] # None /\ flight[p].phase = "winner" BY <1>7 DEF Winner, In
  <2>2. disk # None /\ authority = "published" BY <2>1 DEF StageInv, FlightFacts
  <2>3. CASE TooLarge(p, disk)
    BY <1>7, <1>t, <2>1, <2>2, <2>3, FinishStep DEF Winner, TooLarge
  <2>4. CASE ~TooLarge(p, disk)
    BY <1>7, <1>s, <1>t, <2>1, <2>2, <2>4, FinishStep DEF Winner
  <2> QED BY <2>3, <2>4
<1>8. CASE Reject(p)
  BY <1>8, <1>s, <1>t, FinishStep DEF Reject
<1>9. CASE Cleanup(p)
  <2>1. flight[p] # None /\ flight[p].phase = "cleanup" BY <1>9 DEF Cleanup, In
  <2>2. flight[p].outcome # "none" BY <2>1 DEF StageInv, TypeOK
  <2>3. PICK outcome \in {flight[p].outcome, "failed"} :
          Finish(p, "settled", outcome, flight[p].size) BY <1>9 DEF Cleanup
  <2> QED BY <1>9, <1>s, <1>t, <2>1, <2>2, <2>3, FinishStep
          DEF Cleanup, StageInv, FlightFacts
<1> QED BY <1>1, <1>2, <1>3, <1>4, <1>5, <1>6, <1>7, <1>8, <1>9, <1>10

(* The reactions to a settled flight.                                      *)

LEMMA ClearStep ==
  ASSUME StageInv, NEW p \in Callers, Clear(p)
  PROVE  StageInv'
<1> USE DEF StageInv
<1> DEFINE f == WithCleared(flight[p])
<1>1. flight[p] # None /\ flight[p].phase = "settled" /\ ~flight[p].cleared
  BY DEF Clear, In
<1>2. flight[p] \in Flight BY <1>1 DEF TypeOK
<1>3. /\ f \in Flight /\ f.speculative = flight[p].speculative
      /\ f.phase = flight[p].phase /\ f.outcome = flight[p].outcome
      /\ f.size = flight[p].size /\ f.cleared /\ f.waiters = flight[p].waiters
  BY <1>2, ClearedUpdate
<1>4. f # None BY <1>3, RecordsAssumption
<1>5. flight' = [flight EXCEPT ![p] = f] BY DEF Clear
<1> HIDE DEF f
<1>6. current' = [m \in Modes |-> IF current[m] = p THEN None ELSE current[m]]
  BY DEF Clear, Forget
<1>7. UNCHANGED <<disk, authority, options, pc, joined, got>> BY DEF Clear
<1> USE <1>1, <1>3, <1>4, <1>5, <1>7
<1>8. TypeOK' BY <1>6 DEF TypeOK
<1>9. ProducersTracked'
  <2>1. ASSUME NEW q \in Callers, flight[q] # None PROVE options[q].mode \in Modes
    BY <2>1 DEF TypeOK, ProducersTracked, Options
  <2> QED BY <1>6, <2>1, StageAssumption DEF TypeOK, ProducersTracked
<1>10. MapTracked' BY <1>6 DEF TypeOK, MapTracked
<1>11. JoinedTracked' BY DEF TypeOK, JoinedTracked
<1>12. WaitersWait' BY DEF TypeOK, WaitersWait
<1>13. FlightFacts' BY DEF TypeOK, FlightFacts
<1>14. ProducesOnce' BY DEF TypeOK, ProducesOnce
<1>15. ResolvedIsPublished' /\ RefusedByOwnLimit' /\ OrdinaryFailure'
  BY DEF ResolvedIsPublished, RefusedByOwnLimit, OrdinaryFailure
<1> QED BY <1>8, <1>9, <1>10, <1>11, <1>12, <1>13, <1>14, <1>15

\* The flights once the first waiter of p is taken off its list.
Answered(p) == [flight EXCEPT ![p] = WithWaiters(@, Tail(@.waiters))]

LEMMA AnsweredFlights ==
  ASSUME StageInv, NEW p \in Callers, Reacts(p)
  PROVE  /\ Answered(p) \in [Callers -> Flight \cup {None}]
         /\ Head(flight[p].waiters) \in Callers
         /\ pc[Head(flight[p].waiters)] = "waiting"
         /\ joined[Head(flight[p].waiters)] = p
         /\ FlightsWithout(Answered(p), Head(flight[p].waiters))
<1> USE DEF StageInv
<1>1. flight[p] # None /\ flight[p].waiters # <<>> BY DEF Reacts, In
<1>2. flight[p] \in Flight BY <1>1 DEF TypeOK
<1>3. flight[p].waiters \in Seq(Callers) BY <1>2 DEF Flight
<1>5. PICK old \in Seq(Callers) : old = flight[p].waiters BY <1>3
<1>4. PICK w \in Seq(Callers) : w = Tail(flight[p].waiters)
  <2>1. old # <<>> BY <1>1, <1>5
  <2>2. Tail(old) \in Seq(Callers) BY <2>1
  <2> QED BY <1>5, <2>2
<1>6. /\ old # <<>> /\ Len(old) >= 1 /\ Head(old) = old[1] /\ old[1] \in Callers
      /\ Len(w) = Len(old) - 1
      /\ \A i \in 1 .. Len(w) : w[i] = old[i + 1] /\ i + 1 \in 1 .. Len(old)
  BY <1>1, <1>4, <1>5
<1>7. /\ \A i \in 1 .. Len(old) : pc[old[i]] = "waiting" /\ joined[old[i]] = p
      /\ \A i, j \in 1 .. Len(old) : old[i] = old[j] => i = j
  BY <1>1, <1>5 DEF WaitersWait
<1>8. /\ \A i \in 1 .. Len(w) : pc[w[i]] = "waiting" /\ joined[w[i]] = p /\ w[i] # old[1]
      /\ \A i, j \in 1 .. Len(w) : w[i] = w[j] => i = j
  <2>1. 1 \in 1 .. Len(old) /\ Len(w) \in Nat BY <1>6
  <2>2. ASSUME NEW i \in 1 .. Len(w)
        PROVE  pc[w[i]] = "waiting" /\ joined[w[i]] = p /\ w[i] # old[1]
    <3>1. w[i] = old[i + 1] /\ i + 1 \in 1 .. Len(old) /\ i + 1 # 1 BY <1>6, <2>1
    <3> QED BY <1>7, <2>1, <3>1
  <2>3. ASSUME NEW i \in 1 .. Len(w), NEW j \in 1 .. Len(w), w[i] = w[j] PROVE i = j
    <3>1. old[i + 1] = old[j + 1] /\ i + 1 \in 1 .. Len(old) /\ j + 1 \in 1 .. Len(old)
      BY <1>6, <2>3
    <3>2. i + 1 = j + 1 BY <1>7, <3>1
    <3> QED BY <2>1, <3>2
  <2> QED BY <2>2, <2>3
<1>9. PICK f : f = WithWaiters(flight[p], w) OBVIOUS
<1>10. /\ f \in Flight /\ f.speculative = flight[p].speculative
       /\ f.phase = flight[p].phase /\ f.outcome = flight[p].outcome
       /\ f.size = flight[p].size /\ f.cleared = flight[p].cleared /\ f.waiters = w
  BY <1>2, <1>9, WaitersUpdate
<1>11. f # None BY <1>10, RecordsAssumption
<1>12. Answered(p) = [flight EXCEPT ![p] = f]
  <2>1. f = WithWaiters(flight[p], Tail(flight[p].waiters)) BY <1>4, <1>9
  <2> QED BY <2>1 DEF Answered
<1>13. /\ Answered(p) \in [Callers -> Flight \cup {None}]
       /\ Answered(p)[p] = f
       /\ \A q \in Callers : q # p => Answered(p)[q] = flight[q]
  BY <1>10, <1>12 DEF TypeOK
<1>14. /\ old[1] \in Callers /\ pc[old[1]] = "waiting" /\ joined[old[1]] = p
       /\ Head(flight[p].waiters) = old[1]
  BY <1>5, <1>6, <1>7
<1>15. ASSUME NEW q \in Callers, q # p, flight[q] # None
       PROVE  /\ \A i \in 1 .. Len(flight[q].waiters) :
                    /\ pc[flight[q].waiters[i]] = "waiting"
                    /\ joined[flight[q].waiters[i]] = q
                    /\ flight[q].waiters[i] # old[1]
              /\ \A i, j \in 1 .. Len(flight[q].waiters) :
                    flight[q].waiters[i] = flight[q].waiters[j] => i = j
  BY <1>14, <1>15 DEF WaitersWait
<1>16. ASSUME NEW q \in Callers
       PROVE  /\ Answered(p)[q] = None <=> flight[q] = None
              /\ flight[q] # None =>
                 /\ Answered(p)[q].speculative = flight[q].speculative
                 /\ Answered(p)[q].phase = flight[q].phase
                 /\ Answered(p)[q].outcome = flight[q].outcome
                 /\ Answered(p)[q].size = flight[q].size
                 /\ Answered(p)[q].cleared = flight[q].cleared
                 /\ \A i \in 1 .. Len(Answered(p)[q].waiters) :
                       /\ pc[Answered(p)[q].waiters[i]] = "waiting"
                       /\ joined[Answered(p)[q].waiters[i]] = q
                       /\ Answered(p)[q].waiters[i] # Head(flight[p].waiters)
                 /\ \A i, j \in 1 .. Len(Answered(p)[q].waiters) :
                       Answered(p)[q].waiters[i] = Answered(p)[q].waiters[j] => i = j
  <2>1. CASE q = p BY <2>1, <1>1, <1>8, <1>10, <1>11, <1>13, <1>14
  <2>2. CASE q # p BY <2>2, <1>13, <1>14, <1>15
  <2> QED BY <2>1, <2>2
<1> QED BY <1>13, <1>14, <1>16 DEF FlightsWithout

LEMMA DeliverStep ==
  ASSUME StageInv, NEW p \in Callers, Deliver(p)
  PROVE  StageInv'
<1> USE DEF StageInv
<1> DEFINE c == Head(flight[p].waiters)
           F == Answered(p)
<1>r. Reacts(p) BY DEF Deliver
<1>a. /\ F \in [Callers -> Flight \cup {None}] /\ c \in Callers
      /\ pc[c] = "waiting" /\ joined[c] = p
  BY <1>r, AnsweredFlights
<1>b. \A q \in Callers :
        /\ F[q] = None <=> flight[q] = None
        /\ flight[q] # None =>
           /\ F[q].speculative = flight[q].speculative /\ F[q].phase = flight[q].phase
           /\ F[q].outcome = flight[q].outcome /\ F[q].size = flight[q].size
           /\ F[q].cleared = flight[q].cleared
           /\ \A i \in 1 .. Len(F[q].waiters) :
                 /\ pc[F[q].waiters[i]] = "waiting" /\ joined[F[q].waiters[i]] = q
                 /\ F[q].waiters[i] # c
           /\ \A i, j \in 1 .. Len(F[q].waiters) :
                 F[q].waiters[i] = F[q].waiters[j] => i = j
  BY <1>r, AnsweredFlights DEF FlightsWithout
<1>1. /\ flight' = F
      /\ pc' = [pc EXCEPT ![c] = Verdict(c, p)]
      /\ got' = [got EXCEPT ![c] =
                    IF Verdict(c, p) = "failed" THEN None ELSE flight[p].size]
      /\ Verdict(c, p) # "retry"
      /\ UNCHANGED <<disk, authority, options, joined, current>>
  BY DEF Deliver, Answered
<1>2. flight[p] # None /\ flight[p].phase = "settled" BY <1>r DEF Reacts, In
<1>3. flight[p] \in Flight /\ flight[p].outcome # "none" BY <1>2 DEF TypeOK
<1>4. /\ flight[p].outcome \in {"entry", "failed", "limit"}
      /\ flight[p].size \in Sizes \cup {None}
  BY <1>3 DEF Flight
<1>5. options[c] \in Options /\ options[p] \in Options
  BY <1>2, <1>a DEF TypeOK, ProducersTracked
<1>6. /\ flight[p].outcome = "entry" =>
            flight[p].size = disk /\ disk # None /\ authority = "published"
      /\ flight[p].outcome = "limit" =>
            flight[p].size # None /\ flight[p].size > options[p].limit
  BY <1>2 DEF FlightFacts
<1> HIDE DEF c, F
<1>7. /\ Verdict(c, p) \in Ended
      /\ Verdict(c, p) = "resolved" =>
            flight[p].outcome = "entry" /\ ~(flight[p].size > options[c].limit)
      /\ Verdict(c, p) = "toolarge" =>
            flight[p].outcome \in {"entry", "limit"} /\ flight[p].size > options[c].limit
      /\ Verdict(c, p) = "failed" =>
            \/ options[c].speculative \/ c = p \/ ~flight[p].speculative
  BY <1>1, <1>4 DEF Verdict, TooLarge
<1>8. TypeOK' BY <1>a, <1>b, <1>1, <1>4, <1>7 DEF TypeOK
<1>9. ProducersTracked' BY <1>a, <1>b, <1>1, <1>7 DEF TypeOK, ProducersTracked
<1>10. MapTracked' BY <1>a, <1>b, <1>1 DEF TypeOK, MapTracked
<1>11. JoinedTracked' BY <1>a, <1>b, <1>1 DEF TypeOK, JoinedTracked
<1>12. WaitersWait' BY <1>a, <1>b, <1>1 DEF TypeOK, WaitersWait
<1>13. FlightFacts' BY <1>a, <1>b, <1>1 DEF TypeOK, FlightFacts
<1>14. ProducesOnce' BY <1>a, <1>b, <1>1, <1>7 DEF TypeOK, ProducesOnce
<1>15. ResolvedIsPublished'
  <2>1. Verdict(c, p) = "resolved" =>
          flight[p].size \in Nat /\ options[c].limit \in Nat
    BY <1>4, <1>5, <1>6, <1>7, StageAssumption DEF Options
  <2> QED BY <1>a, <1>1, <1>6, <1>7, <2>1 DEF TypeOK, ResolvedIsPublished
<1>16. RefusedByOwnLimit' BY <1>a, <1>1, <1>7 DEF TypeOK, RefusedByOwnLimit
<1>17. OrdinaryFailure'
  <2>1. flight[p].speculative = options[p].speculative BY <1>2 DEF ProducersTracked
  <2>2. Verdict(c, p) = "failed" /\ ~options[c].speculative => ~options[p].speculative
    BY <1>7, <2>1
  <2> QED BY <1>a, <1>1, <2>2 DEF TypeOK, OrdinaryFailure
<1> QED BY <1>8, <1>9, <1>10, <1>11, <1>12, <1>13, <1>14, <1>15, <1>16, <1>17

LEMMA RetryStep ==
  ASSUME StageInv, NEW p \in Callers, Retry(p)
  PROVE  StageInv'
<1> DEFINE c == Head(flight[p].waiters)
           F == Answered(p)
<1>r. Reacts(p) /\ Verdict(c, p) = "retry" BY DEF Retry
<1>1. flight[p] # None /\ flight[p].phase = "settled" /\ flight[p].cleared
  BY <1>r DEF Reacts, In
<1>2. flight[p] \in Flight /\ flight[p].outcome # "none" BY <1>1 DEF StageInv, TypeOK
<1>3. /\ F \in [Callers -> Flight \cup {None}] /\ c \in Callers
      /\ pc[c] = "waiting" /\ joined[c] = p
  BY <1>r, AnsweredFlights
\* A cleared flight is not in the map.
<1>4. Forget(p) = current
  BY <1>1, StageAssumption DEF StageInv, TypeOK, MapTracked, Forget
\* The retrying call is not the producer, which the outcome always concerns, and so it
\* has no flight of its own.
<1>5. c # p
  <2>1. flight[p].outcome = "limit" => flight[p].size > options[p].limit
    BY <1>1 DEF StageInv, FlightFacts
  <2>2. flight[p].outcome \in {"entry", "failed", "limit"} BY <1>2 DEF Flight
  <2> QED BY <1>r, <2>1, <2>2 DEF Verdict, TooLarge
<1>6. flight[c] = None BY <1>3, <1>5 DEF StageInv, ProducesOnce
<1>7. options[c] \in Options BY <1>3 DEF StageInv, TypeOK
<1>8. Enter(c, options[c], FALSE, F, current) BY <1>4 DEF Retry, Answered
<1>9. options' = [options EXCEPT ![c] = options[c]] /\ UNCHANGED <<disk, authority, got>>
  BY <1>3 DEF StageInv, TypeOK, Retry
<1>10. pc[c] \notin Ended BY <1>3
<1>11. FlightsWithout(F, c) BY <1>r, AnsweredFlights
<1> HIDE DEF c, F
<1> QED BY <1>3, <1>6, <1>7, <1>8, <1>9, <1>10, <1>11, EnterStep

(* New calls.                                                              *)

LEMMA NewCallStep ==
  ASSUME StageInv, NEW c \in Callers, NEW o \in Options, NEW skip \in BOOLEAN,
         pc[c] \in {"new", "observed"},
         options' = [options EXCEPT ![c] = o],
         Enter(c, o, skip, flight, current), UNCHANGED <<disk, authority, got>>
  PROVE  StageInv'
<1>1. flight[c] = None BY DEF StageInv, ProducersTracked
<1>2. flight \in [Callers -> Flight \cup {None}] /\ pc[c] \notin Ended
  BY DEF StageInv, TypeOK
<1>3. FlightsWithout(flight, c) BY DEF StageInv, WaitersWait, FlightsWithout
<1> QED BY <1>1, <1>2, <1>3, EnterStep

LEMMA ObserveStep ==
  ASSUME StageInv, NEW c \in Callers, NEW o \in Options, Observe(c, o)
  PROVE  StageInv'
<1> USE DEF StageInv
<1>1. /\ pc[c] = "new" /\ o # None
      /\ options' = [options EXCEPT ![c] = o]
      /\ pc' = [pc EXCEPT ![c] = "observed"]
      /\ UNCHANGED <<disk, authority, joined, got, flight, current>>
  BY RecordsAssumption DEF Observe
<1>2. flight[c] = None BY <1>1 DEF ProducersTracked
<1>3. \A d \in Callers : pc[d] \notin {"new", "observed"} => joined[d] # c
  BY <1>2 DEF JoinedTracked
<1>4. TypeOK' BY <1>1 DEF TypeOK
<1>5. ProducersTracked' BY <1>1, <1>2 DEF TypeOK, ProducersTracked
<1>6. MapTracked' BY <1>1, <1>2 DEF TypeOK, MapTracked
<1>7. JoinedTracked' BY <1>1 DEF TypeOK, JoinedTracked
<1>8. WaitersWait' BY <1>1 DEF TypeOK, WaitersWait
<1>9. FlightFacts' BY <1>1, <1>2 DEF TypeOK, FlightFacts
<1>10. ProducesOnce' BY <1>1 DEF TypeOK, ProducesOnce
<1>11. ResolvedIsPublished' BY <1>1 DEF TypeOK, ResolvedIsPublished
<1>12. RefusedByOwnLimit' BY <1>1 DEF TypeOK, RefusedByOwnLimit
<1>13. OrdinaryFailure' BY <1>1, <1>3 DEF TypeOK, OrdinaryFailure
<1> QED BY <1>4, <1>5, <1>6, <1>7, <1>8, <1>9, <1>10, <1>11, <1>12, <1>13

(* The environment.                                                        *)

LEMMA EnvironmentStep ==
  ASSUME StageInv, SettleAuthority \/ ForeignPublish
  PROVE  StageInv'
<1> USE DEF StageInv
<1>1. /\ disk' \in Sizes \cup {None}
      /\ disk # None => disk' = disk
      /\ authority' \in {"pending", "published", "failed"}
      /\ authority = "published" => authority' = authority
      /\ UNCHANGED <<options, pc, joined, got, flight, current>>
  BY DEF TypeOK, SettleAuthority, ForeignPublish
<1>2. TypeOK' BY <1>1 DEF TypeOK
<1>3. ProducersTracked' /\ MapTracked' /\ JoinedTracked' /\ WaitersWait'
  BY <1>1 DEF ProducersTracked, MapTracked, JoinedTracked, WaitersWait
<1>4. FlightFacts' BY <1>1 DEF FlightFacts
<1>5. ProducesOnce' /\ RefusedByOwnLimit' /\ OrdinaryFailure'
  BY <1>1 DEF ProducesOnce, RefusedByOwnLimit, OrdinaryFailure
<1>6. ResolvedIsPublished' BY <1>1 DEF ResolvedIsPublished
<1> QED BY <1>2, <1>3, <1>4, <1>5, <1>6

LEMMA NextInv == StageInv /\ [Next]_vars => StageInv'
<1> SUFFICES ASSUME StageInv, [Next]_vars PROVE StageInv' OBVIOUS
<1>1. CASE SettleAuthority \/ ForeignPublish BY <1>1, EnvironmentStep
<1>2. ASSUME NEW c \in Callers, NEW o \in Options, Ensure(c, o) PROVE StageInv'
  BY <1>2, NewCallStep DEF Ensure
<1>3. ASSUME NEW c \in Callers, NEW o \in Options, Observe(c, o) PROVE StageInv'
  BY <1>3, ObserveStep
<1>4. ASSUME NEW c \in Callers, EnsureAfterMiss(c) PROVE StageInv'
  <2>1. options[c] \in Options /\ options' = [options EXCEPT ![c] = options[c]]
    BY <1>4 DEF StageInv, TypeOK, EnsureAfterMiss
  <2> QED BY <1>4, <2>1, NewCallStep DEF EnsureAfterMiss
<1>5. ASSUME NEW p \in Callers,
             \/ Validate(p) \/ ValidateSharedMiss(p) \/ ValidateTooLarge(p) \/ Hit(p)
             \/ Build(p)
             \/ Prerequisite(p) \/ Publish(p) \/ Winner(p) \/ Reject(p) \/ Cleanup(p)
      PROVE  StageInv'
  BY <1>5, ProducerStep
<1>6. ASSUME NEW p \in Callers, Clear(p) PROVE StageInv' BY <1>6, ClearStep
<1>7. ASSUME NEW p \in Callers, Deliver(p) PROVE StageInv' BY <1>7, DeliverStep
<1>8. ASSUME NEW p \in Callers, Retry(p) PROVE StageInv' BY <1>8, RetryStep
<1>9. CASE UNCHANGED vars
  BY <1>9 DEF vars, StageInv, TypeOK, ProducersTracked, MapTracked, JoinedTracked,
              WaitersWait, FlightFacts, ProducesOnce, ResolvedIsPublished,
              RefusedByOwnLimit, OrdinaryFailure
<1> QED BY <1>1, <1>2, <1>3, <1>4, <1>5, <1>6, <1>7, <1>8, <1>9 DEF Next

-----------------------------------------------------------------------------
(* Theorems.                                                               *)

\* StageInv holds in every reachable state.
THEOREM Invariance == Spec => []StageInv
  BY InitInv, NextInv, PTL DEF Spec

\* The type invariant.
THEOREM TypeCorrect == Spec => []TypeOK
<1>1. StageInv => TypeOK BY DEF StageInv
<1> QED BY <1>1, Invariance, PTL

\* Two producers of one read mode are never at work at the same time: a flight at work
\* is not cleared, and the map has room for one flight per read mode.
THEOREM Coalescing == Spec => []SingleFlight
<1>1. StageInv => SingleFlight
  BY DEF StageInv, ProducersTracked, SingleFlight
<1> QED BY <1>1, Invariance, PTL

\* A producer ends with the flight it produced.
THEOREM ProducerEnds == Spec => []ProducesOnce
<1>1. StageInv => ProducesOnce BY DEF StageInv
<1> QED BY <1>1, Invariance, PTL

\* Every call that resolves has the one published entry, within its own limit and after
\* the prerequisite.
THEOREM OneEntry == Spec => []ResolvedIsPublished
<1>1. StageInv => ResolvedIsPublished BY DEF StageInv
<1> QED BY <1>1, Invariance, PTL

\* A call is refused by its own limit only.
THEOREM OwnLimit == Spec => []RefusedByOwnLimit
<1>1. StageInv => RefusedByOwnLimit BY DEF StageInv
<1> QED BY <1>1, Invariance, PTL

\* A speculative failure never reaches an ordinary call.
THEOREM SpeculationContained == Spec => []OrdinaryFailure
<1>1. StageInv => OrdinaryFailure BY DEF StageInv
<1> QED BY <1>1, Invariance, PTL

-----------------------------------------------------------------------------
(* The stage implements ImmutableEntry.                                    *)

\* A step that makes no call, publishes nothing and ends no call is a stutter.
LEMMA StutterStep ==
  ASSUME UNCHANGED <<disk, options, got>>,
         \A d \in Callers : pc[d] \in Ended \/ pc'[d] \in Ended => pc'[d] = pc[d]
  PROVE  UNCHANGED Promise!vars
<1>1. [d \in Callers |-> IF pc[d] \in Ended THEN pc[d] ELSE "pending"]'
        = [d \in Callers |-> IF pc[d] \in Ended THEN pc[d] ELSE "pending"]
  OBVIOUS
<1>2. [d \in Callers |-> IF pc[d] = "resolved" THEN got[d] ELSE None]'
        = [d \in Callers |-> IF pc[d] = "resolved" THEN got[d] ELSE None]
  <2>1. \A d \in Callers : pc'[d] = "resolved" <=> pc[d] = "resolved" OBVIOUS
  <2> QED BY <2>1
<1> QED BY <1>1, <1>2 DEF Promise!vars

\* A call is made.
LEMMA CallStep ==
  ASSUME StageInv, NEW c \in Callers, NEW o \in Options,
         pc[c] = "new", options' = [options EXCEPT ![c] = o],
         pc' = [pc EXCEPT ![c] = "waiting"] \/ pc' = [pc EXCEPT ![c] = "observed"],
         UNCHANGED <<disk, got>>
  PROVE  Promise!Call(c)
<1>1. options[c] = None /\ options \in [Callers -> Options \cup {None}]
      /\ pc \in [Callers -> {"new", "observed", "waiting"} \cup Ended]
  BY DEF StageInv, TypeOK
<1>2. o # None /\ o.limit \in Limits BY RecordsAssumption DEF Options
<1>3. [d \in Callers |-> IF options[d] = None THEN None ELSE options[d].limit]'
        = [[d \in Callers |-> IF options[d] = None THEN None ELSE options[d].limit]
             EXCEPT ![c] = o.limit]
  BY <1>1, <1>2
<1>4. [d \in Callers |-> IF pc[d] \in Ended THEN pc[d] ELSE "pending"]'
        = [d \in Callers |-> IF pc[d] \in Ended THEN pc[d] ELSE "pending"]
  BY <1>1
<1>5. [d \in Callers |-> IF pc[d] = "resolved" THEN got[d] ELSE None]'
        = [d \in Callers |-> IF pc[d] = "resolved" THEN got[d] ELSE None]
  <2>1. \A d \in Callers : pc'[d] = "resolved" <=> pc[d] = "resolved" BY <1>1
  <2> QED BY <2>1
<1> QED BY <1>1, <1>2, <1>3, <1>4, <1>5 DEF Promise!Call

\* The entry is published.
LEMMA PublishStep ==
  ASSUME disk = None, disk' \in Sizes, UNCHANGED <<options, pc, got>>
  PROVE  Promise!Publish
  BY DEF Promise!Publish

\* A call ends.
LEMMA EndStep ==
  ASSUME StageInv, NEW p \in Callers, Deliver(p)
  PROVE  \E c \in Callers : Promise!Resolve(c) \/ Promise!Refuse(c) \/ Promise!Fail(c)
<1>r. Reacts(p) BY DEF Deliver
<1>c. PICK c \in Callers : c = Head(flight[p].waiters) BY <1>r, AnsweredFlights
<1>1. c \in Callers /\ pc[c] = "waiting" BY <1>c, <1>r, AnsweredFlights
<1>v. PICK v : v = Verdict(c, p) OBVIOUS
<1>2. /\ pc' = [pc EXCEPT ![c] = v]
      /\ got' = [got EXCEPT ![c] = IF v = "failed" THEN None ELSE flight[p].size]
      /\ v # "retry"
      /\ UNCHANGED <<disk, options>>
  BY <1>c, <1>v DEF Deliver
<1>3. /\ options[c] \in Options /\ options[c] # None
      /\ pc \in [Callers -> {"new", "observed", "waiting"} \cup Ended]
      /\ got \in [Callers -> Sizes \cup {None}]
  BY <1>1, RecordsAssumption DEF StageInv, TypeOK
<1>4. options[c].limit \in Limits /\ options[c].limit # None
  BY <1>3, StageAssumption DEF Options
<1>5. flight[p] # None /\ flight[p].phase = "settled" BY <1>r DEF Reacts, In
<1>6. flight[p] \in Flight /\ flight[p].outcome # "none" BY <1>5 DEF StageInv, TypeOK
<1>7. /\ flight[p].outcome \in {"entry", "failed", "limit"}
      /\ flight[p].size \in Sizes \cup {None}
  BY <1>6 DEF Flight
<1>8. /\ flight[p].outcome = "entry" => flight[p].size = disk /\ disk # None
      /\ flight[p].outcome = "limit" => flight[p].size # None
  BY <1>5 DEF StageInv, FlightFacts
<1>9. /\ v \in Ended
      /\ v = "resolved" =>
            flight[p].outcome = "entry" /\ ~(flight[p].size > options[c].limit)
      /\ v = "toolarge" =>
            flight[p].outcome \in {"entry", "limit"} /\ flight[p].size > options[c].limit
  BY <1>2, <1>7, <1>v DEF Verdict, TooLarge
<1> DEFINE outcomes == [d \in Callers |-> IF pc[d] \in Ended THEN pc[d] ELSE "pending"]
           limits == [d \in Callers |-> IF options[d] = None THEN None ELSE options[d].limit]
           given == [d \in Callers |-> IF pc[d] = "resolved" THEN got[d] ELSE None]
<1>10. /\ outcomes' = [outcomes EXCEPT ![c] = v] /\ outcomes[c] = "pending"
       /\ limits' = limits /\ limits[c] = options[c].limit
  BY <1>1, <1>2, <1>3, <1>9
<1>11. v = "resolved" => given' = [given EXCEPT ![c] = disk]
  <2>1. v = "resolved" => got'[c] = disk BY <1>1, <1>2, <1>3, <1>8, <1>9
  <2>2. \A d \in Callers : d # c => pc'[d] = pc[d] /\ got'[d] = got[d]
    BY <1>2, <1>3
  <2>3. pc'[c] = v BY <1>1, <1>2, <1>3
  <2> QED BY <1>1, <2>1, <2>2, <2>3
<1>12. v # "resolved" => given' = given
  <2>1. \A d \in Callers : d # c => pc'[d] = pc[d] /\ got'[d] = got[d]
    BY <1>2, <1>3
  <2>2. pc'[c] = v BY <1>1, <1>2, <1>3
  <2> QED BY <1>1, <2>1, <2>2
<1>13. CASE v = "resolved"
  <2>1. disk \in Nat /\ options[c].limit \in Nat /\ disk # None
    BY <1>4, <1>7, <1>8, <1>9, <1>13, StageAssumption
  <2>3. disk <= options[c].limit BY <1>8, <1>9, <1>13, <2>1
  <2>2. Promise!Resolve(c)
    BY <1>2, <1>4, <1>10, <1>11, <1>13, <2>1, <2>3 DEF Promise!Resolve, Promise!Ends
  <2> QED BY <1>1, <2>2
<1>14. CASE v = "toolarge"
  <2>1. flight[p].size \in Sizes /\ flight[p].size > options[c].limit
    BY <1>7, <1>8, <1>9, <1>14
  <2>2. Promise!Refuse(c)
    BY <1>2, <1>4, <1>10, <1>12, <1>14, <2>1 DEF Promise!Refuse, Promise!Ends
  <2> QED BY <1>1, <2>2
<1>15. CASE v = "failed"
  <2>1. Promise!Fail(c)
    BY <1>2, <1>4, <1>10, <1>12, <1>15 DEF Promise!Fail, Promise!Ends
  <2> QED BY <1>1, <2>1
<1> QED BY <1>9, <1>13, <1>14, <1>15

LEMMA NextImplements == StageInv /\ [Next]_vars => [Promise!Next]_Promise!vars
<1> SUFFICES ASSUME StageInv, [Next]_vars PROVE [Promise!Next]_Promise!vars OBVIOUS
<1>t. pc \in [Callers -> {"new", "observed", "waiting"} \cup Ended]
      /\ disk \in Sizes \cup {None}
  BY DEF StageInv, TypeOK
<1>1. CASE SettleAuthority BY <1>1, StutterStep DEF SettleAuthority
<1>2. CASE ForeignPublish
  BY <1>2, PublishStep DEF ForeignPublish, Promise!Next
<1>3. ASSUME NEW c \in Callers, NEW o \in Options, Ensure(c, o) \/ Observe(c, o)
      PROVE  Promise!Next
  <2>1. Promise!Call(c) BY <1>3, CallStep DEF Ensure, Observe, Enter
  <2> QED BY <2>1 DEF Promise!Next
<1>4. ASSUME NEW c \in Callers, EnsureAfterMiss(c) PROVE UNCHANGED Promise!vars
  BY <1>4, <1>t, StutterStep DEF EnsureAfterMiss, Enter
<1>5. ASSUME NEW p \in Callers, disk' = disk,
             \/ Validate(p) \/ ValidateSharedMiss(p) \/ ValidateTooLarge(p) \/ Hit(p)
             \/ Build(p)
             \/ Prerequisite(p) \/ Publish(p) \/ Winner(p) \/ Reject(p) \/ Cleanup(p)
      PROVE  UNCHANGED Promise!vars
  BY <1>5, StutterStep DEF Validate, ValidateSharedMiss, ValidateTooLarge, Hit, Build, Prerequisite,
         Publish, Winner, Reject, Cleanup, Goto, Finish
<1>6. ASSUME NEW p \in Callers, Publish(p), disk' # disk PROVE Promise!Next
  <2>1. flight[p] # None /\ flight[p].phase = "publish" BY <1>6 DEF Publish, In
  <2>2. flight[p] \in Flight /\ flight[p].size # None
    BY <2>1 DEF StageInv, TypeOK, FlightFacts
  <2>3. flight[p].size \in Sizes BY <2>2 DEF Flight
  <2>4. disk = None /\ disk' = flight[p].size /\ UNCHANGED <<options, pc, got>>
    BY <1>6 DEF Publish, Goto, Finish
  <2>5. Promise!Publish BY <2>3, <2>4, PublishStep
  <2> QED BY <2>5 DEF Promise!Next
<1>7. ASSUME NEW p \in Callers, Clear(p) PROVE UNCHANGED Promise!vars
  BY <1>7, StutterStep DEF Clear
<1>8. ASSUME NEW p \in Callers, Deliver(p) PROVE Promise!Next
  BY <1>8, EndStep DEF Promise!Next
<1>9. ASSUME NEW p \in Callers, Retry(p) PROVE UNCHANGED Promise!vars
  <2>1. PICK c \in Callers : c = Head(flight[p].waiters) /\ pc[c] = "waiting"
    BY <1>9, AnsweredFlights DEF Retry
  <2>2. Enter(c, options[c], FALSE,
              [flight EXCEPT ![p] = WithWaiters(@, Tail(@.waiters))], Forget(p))
    BY <1>9, <2>1 DEF Retry
  <2>3. pc' = [pc EXCEPT ![c] = "waiting"] BY <2>2 DEF Enter
  <2> QED BY <1>9, <1>t, <2>1, <2>3, StutterStep DEF Retry
<1>10. CASE UNCHANGED vars BY <1>10, StutterStep DEF vars
<1>11. ASSUME NEW p \in Callers,
             \/ Validate(p) \/ ValidateSharedMiss(p) \/ ValidateTooLarge(p) \/ Hit(p)
             \/ Build(p)
             \/ Prerequisite(p) \/ Winner(p) \/ Reject(p) \/ Cleanup(p)
       PROVE  disk' = disk
  BY <1>11 DEF Validate, ValidateSharedMiss, ValidateTooLarge, Hit, Build, Prerequisite,
               Winner, Reject, Cleanup
<1> QED BY <1>1, <1>2, <1>3, <1>4, <1>5, <1>6, <1>7, <1>8, <1>9, <1>10, <1>11 DEF Next

\* The artifact stage, with its flights, retries, prerequisite and publication races,
\* implements the publish-once entry that its callers rely on.
THEOREM Refinement == Spec => ImplementsPromise
<1>1. Init => Promise!Init BY DEF Init, Promise!Init
<1> QED BY <1>1, NextImplements, Invariance, PTL DEF Spec, ImplementsPromise, Promise!Spec

-----------------------------------------------------------------------------
(***************************************************************************)
(* The acquisition of a native package, by any number of checkouts, with   *)
(* calls that are interrupted and processes that die at any point.  Its    *)
(* package is published as an entry of the cache is: once, and whole.      *)
(***************************************************************************)
PackageTypes ==
    /\ at \in [Checkouts -> {"new"} \cup Package!Awaits \cup Package!Ended]
    /\ aborted \in [Checkouts -> BOOLEAN]
    /\ scratch \in [Checkouts -> Package!Files \cup {Nobody}]
    /\ place \in Package!Files \cup {Nobody} /\ installer \in Checkouts \cup {Nobody}

\* There is scratch only between mkdtemp and the finally block.
Unstaged == {"new", "look", "load", "mkdtemp", "finally", "finallyFailed", "returned", "failed"}

\* What each call knows of its scratch by its place in the function.
ScratchInv ==
    \A c \in Checkouts :
        /\ at[c] \in Unstaged => scratch[c] = Nobody
        /\ at[c] \in {"manifest", "binary", "verify", "rename"} => scratch[c] # Nobody
        /\ at[c] \in {"manifest", "binary"} => scratch[c].binary = "absent"
        /\ at[c] \in {"binary", "verify", "rename"} => scratch[c].manifest = "good"
        /\ at[c] = "rename" => scratch[c].binary = "good"
        /\ at[c] # "littered" /\ scratch[c] # Nobody /\ scratch[c].binary # "absent" =>
              scratch[c].manifest = "good"

\* A call that needs a package at the place, to read it or to return it.
WithPackage == {"load", "winner", "leave", "finally", "returned"}

\* What is at the place was verified, and stays there.
PlaceInv ==
    /\ place # Nobody => /\ place.manifest = "good" /\ place.binary = "good"
                       /\ installer \in Checkouts
    /\ \A c \in Checkouts : at[c] \in WithPackage => place # Nobody

PackageInv == PackageTypes /\ ScratchInv /\ PlaceInv

LEMMA PackageInitInv ==
    ASSUME Package!Init
    PROVE  PackageInv
BY NobodyAssumption
DEF Package!Init, PackageInv, PackageTypes, ScratchInv, PlaceInv, Package!Awaits,
       Package!Ended, Unstaged,
       WithPackage

LEMMA PackageTypesStep ==
    ASSUME PackageInv, [Package!Next]_(Package!vars)
    PROVE  PackageTypes'
<1> USE NobodyAssumption DEF PackageInv, PackageTypes, Package!Goto, Package!Awaits, Package!Ended
<1>1. ASSUME NEW c \in Checkouts,
             Package!Abort(c) \/ Package!Crash(c) \/ Package!Call(c) \/ Package!Look(c)
               \/ Package!Load(c) \/ Package!ReadError(c) \/ Package!StageError(c)
               \/ Package!Verify(c)
               \/ Package!LoadWinner(c) \/ Package!Finally(c)
      PROVE  PackageTypes'
  BY <1>1 DEF Package!Abort, Package!Crash, Package!Call, Package!Look, Package!Load,
              Package!ReadError, Package!StageError, Package!Verify, Package!LoadWinner,
              Package!Finally
<1>2. ASSUME NEW c \in Checkouts, Package!Mkdtemp(c) \/ Package!Rename(c) \/ Package!Leave(c)
      PROVE  PackageTypes'
  <2>1. Package!NoFiles \in Package!Files
    BY DEF Package!NoFiles, Package!Files
  <2>2. CASE Package!Mkdtemp(c)
    BY <2>1, <2>2 DEF Package!Mkdtemp
  <2>3. CASE Package!Rename(c)
    BY <2>1, <2>3 DEF Package!Rename, ScratchInv
  <2>4. CASE Package!Leave(c)
    <3>1. PICK left \in Package!Files \cup {Nobody} : scratch' = [scratch EXCEPT ![c] = left]
      BY <2>4 DEF Package!Leave, Package!LeaveFails
    <3>2. /\ at' \in [Checkouts -> {"new"} \cup Package!Awaits \cup Package!Ended]
          /\ UNCHANGED <<aborted, place, installer>>
      BY <2>4 DEF Package!Leave, Package!LeaveFails
    <3> QED
      BY <3>1, <3>2
  <2> QED
    BY <1>2, <2>2, <2>3, <2>4
<1>3. ASSUME NEW c \in Checkouts, Package!DownloadManifest(c)
      PROVE  PackageTypes'
  <2>1. scratch[c] \in Package!Files
    BY <1>3 DEF Package!DownloadManifest, ScratchInv
  <2> QED
    BY <1>3, <2>1 DEF Package!DownloadManifest, Package!Files
<1>4. ASSUME NEW c \in Checkouts, Package!DownloadBinary(c)
      PROVE  PackageTypes'
  <2>1. scratch[c] \in Package!Files
    BY <1>4 DEF Package!DownloadBinary, ScratchInv
  <2> QED
    BY <1>4, <2>1 DEF Package!DownloadBinary, Package!Files
<1>5. ASSUME NEW c \in Checkouts, Package!DownloadError(c)
      PROVE  PackageTypes'
  <2>1. scratch[c] \in Package!Files
    BY <1>5 DEF Package!DownloadError, ScratchInv
  <2> QED
    BY <1>5, <2>1 DEF Package!DownloadError, Package!DownloadFails, Package!Files
<1>6. CASE UNCHANGED Package!vars
  BY <1>6 DEF Package!vars
<1> QED
  BY <1>1, <1>2, <1>3, <1>4, <1>5, <1>6 DEF Package!Next

LEMMA ScratchStep ==
    ASSUME PackageInv, [Package!Next]_(Package!vars)
    PROVE  ScratchInv'
<1> USE NobodyAssumption DEF PackageInv, PackageTypes, Package!Goto, Unstaged
<1>1. ASSUME NEW c \in Checkouts,
             Package!Abort(c) \/ Package!Call(c) \/ Package!Look(c) \/ Package!Load(c)
               \/ Package!ReadError(c) \/ Package!StageError(c)
               \/ Package!LoadWinner(c) \/ Package!Finally(c)
      PROVE  ScratchInv'
  BY <1>1 DEF Package!Abort, Package!Call, Package!Look, Package!Load, Package!ReadError,
              Package!StageError, Package!LoadWinner, Package!Finally, ScratchInv
<1>2. ASSUME NEW c \in Checkouts, Package!Crash(c)
      PROVE  ScratchInv'
  BY <1>2 DEF Package!Crash, Package!Awaits, ScratchInv
<1>3. ASSUME NEW c \in Checkouts, Package!Mkdtemp(c)
      PROVE  ScratchInv'
  BY <1>3 DEF Package!Mkdtemp, ScratchInv, Package!NoFiles, Package!Files
<1>4. ASSUME NEW c \in Checkouts, Package!Verify(c) \/ Package!Rename(c)
      PROVE  ScratchInv'
  BY <1>4 DEF Package!Verify, Package!Rename, Package!Loads, Package!Selects,
              Package!NoFiles, Package!Files, ScratchInv
<1>9. ASSUME NEW c \in Checkouts, Package!Leave(c)
      PROVE  ScratchInv'
  <2>1. CASE scratch' = [scratch EXCEPT ![c] = Nobody]
    BY <1>9, <2>1 DEF Package!Leave, Package!LeaveFails, Package!Files, ScratchInv
  <2>2. CASE Package!LeaveFails(c)
    BY <2>2 DEF Package!LeaveFails, ScratchInv
  <2> QED
    BY <1>9, <2>1, <2>2 DEF Package!Leave
<1>5. ASSUME NEW c \in Checkouts, Package!DownloadManifest(c)
      PROVE  ScratchInv'
  <2>1. scratch[c] \in Package!Files /\ scratch[c].binary = "absent"
    BY <1>5 DEF Package!DownloadManifest, ScratchInv
  <2>2. PICK file \in {"good", "bad", "foreign"} :
          /\ scratch' = [scratch EXCEPT ![c].manifest = file]
          /\ at' = [at EXCEPT ![c] = IF file # "bad" /\ Package!Selects(c, scratch'[c])
                                     THEN "binary"
                                     ELSE "leaveFailed"]
    BY <1>5 DEF Package!DownloadManifest
  <2>3. /\ scratch'[c] \in Package!Files
        /\ scratch'[c].binary = "absent" /\ scratch'[c].manifest = file
    BY <2>1, <2>2 DEF Package!Files
  <2>4. at'[c] = "leaveFailed" \/ (at'[c] = "binary" /\ file = "good")
    BY <2>2, <2>3 DEF Package!Selects
  <2> QED
    BY <2>2, <2>3, <2>4 DEF ScratchInv
<1>6. ASSUME NEW c \in Checkouts, Package!DownloadBinary(c)
      PROVE  ScratchInv'
  <2>1. scratch[c] \in Package!Files /\ scratch[c].manifest = "good"
    BY <1>6 DEF Package!DownloadBinary, ScratchInv
  <2>2. PICK file \in {"good", "bad"} :
          /\ scratch' = [scratch EXCEPT ![c].binary = file]
          /\ at' = [at EXCEPT ![c] = "verify"]
    BY <1>6 DEF Package!DownloadBinary
  <2>3. scratch'[c] \in Package!Files /\ scratch'[c].manifest = "good"
    BY <2>1, <2>2 DEF Package!Files
  <2> QED
    BY <2>2, <2>3 DEF ScratchInv
<1>7. ASSUME NEW c \in Checkouts, Package!DownloadError(c)
      PROVE  ScratchInv'
  <2>1. PICK file \in {"manifest", "binary"} : at[c] = file /\ Package!DownloadFails(c, file)
    BY <1>7 DEF Package!DownloadError
  <2>2. scratch[c] \in Package!Files /\ scratch[c].binary = "absent"
    BY <2>1 DEF ScratchInv
  <2>3. file = "binary" => scratch[c].manifest = "good"
    BY <2>1 DEF ScratchInv
  <2>4. /\ scratch'[c].binary # "absent" => scratch'[c].manifest = "good"
        /\ \A d \in Checkouts \ {c} : scratch'[d] = scratch[d]
    BY <2>1, <2>2, <2>3 DEF Package!DownloadFails, Package!Files
  <2>5. at' = [at EXCEPT ![c] = "leaveFailed"]
    BY <1>7 DEF Package!DownloadError
  <2> QED
    BY <2>4, <2>5 DEF ScratchInv
<1>8. CASE UNCHANGED Package!vars
  BY <1>8 DEF Package!vars, ScratchInv
<1> QED
  BY <1>1, <1>2, <1>3, <1>4, <1>5, <1>6, <1>7, <1>8, <1>9 DEF Package!Next

LEMMA PlaceStep ==
    ASSUME PackageInv, [Package!Next]_(Package!vars)
    PROVE  PlaceInv'
<1> USE NobodyAssumption DEF PackageInv, PackageTypes, Package!Goto
<1>1. ASSUME NEW c \in Checkouts,
             \/ Package!Abort(c) \/ Package!Crash(c) \/ Package!Call(c) \/ Package!Look(c)
             \/ Package!Load(c) \/ Package!Mkdtemp(c)
             \/ Package!DownloadManifest(c) \/ Package!DownloadBinary(c) \/ Package!Verify(c)
             \/ Package!ReadError(c) \/ Package!StageError(c) \/ Package!DownloadError(c)
             \/ Package!LoadWinner(c) \/ Package!Leave(c) \/ Package!Finally(c)
      PROVE  PlaceInv'
  <2>1. UNCHANGED <<place, installer>>
    BY <1>1 DEF Package!Abort, Package!Crash, Package!Call, Package!Look, Package!Load,
                Package!Mkdtemp, Package!DownloadManifest, Package!DownloadBinary, Package!Verify,
                Package!ReadError, Package!StageError, Package!DownloadError,
                Package!LoadWinner, Package!Leave, Package!LeaveFails, Package!Finally
  <2>2. \/ UNCHANGED at
        \/ \E next \in Package!Awaits \cup Package!Ended :
              /\ at' = [at EXCEPT ![c] = next]
              /\ next \in WithPackage => place # Nobody
    <3>1. CASE Package!Look(c) \/ Package!Load(c) \/ Package!LoadWinner(c) \/ Package!Leave(c)
                 \/ Package!Finally(c)
      BY <3>1 DEF Package!Look, Package!Load, Package!LoadWinner, Package!Leave,
                  Package!LeaveFails, Package!Finally, PlaceInv, WithPackage,
                  Package!Awaits, Package!Ended
    <3>2. CASE Package!Abort(c) \/ Package!Crash(c) \/ Package!Call(c) \/ Package!Mkdtemp(c)
                 \/ Package!DownloadManifest(c)
                 \/ Package!DownloadBinary(c) \/ Package!Verify(c) \/ Package!ReadError(c)
                 \/ Package!StageError(c) \/ Package!DownloadError(c)
      BY <3>2 DEF Package!Abort, Package!Crash, Package!Call, Package!Mkdtemp,
                  Package!DownloadManifest, Package!DownloadBinary, Package!Verify,
                  Package!ReadError, Package!StageError, Package!DownloadError, WithPackage,
                  Package!Awaits, Package!Ended
    <3> QED
      BY <1>1, <3>1, <3>2
  <2>3. ASSUME NEW d \in Checkouts, at'[d] \in WithPackage
        PROVE  place # Nobody
    BY <2>2, <2>3 DEF PlaceInv
  <2> QED
    BY <2>1, <2>3 DEF PlaceInv
<1>2. ASSUME NEW c \in Checkouts, Package!Rename(c)
      PROVE  PlaceInv'
  BY <1>2 DEF Package!Rename, PlaceInv, ScratchInv, WithPackage
<1>3. CASE UNCHANGED Package!vars
  BY <1>3 DEF Package!vars, PlaceInv
<1> QED
  BY <1>1, <1>2, <1>3 DEF Package!Next

LEMMA PackageNextInv ==
    ASSUME PackageInv, [Package!Next]_(Package!vars)
    PROVE  PackageInv'
BY PackageTypesStep, ScratchStep, PlaceStep DEF PackageInv

\* Every step of a call, and every interrupt and death, keeps the invariant.
THEOREM PackageInvariance ==
    Package!Spec => []PackageInv
<1> QED
  BY PackageNextInv, PackageInitInv, PTL DEF Package!Spec

LEMMA PackageIsSound == PackageInv => Package!TypeOK /\ Package!NoScratchLeft
BY DEF PackageInv, PackageTypes, ScratchInv, Package!TypeOK, Package!NoScratchLeft, Unstaged

\* acquireNativePackage leaves scratch behind only where its process died or the removal of the
\* scratch is what failed: whatever else fails or is interrupted, a call that ended has removed
\* its own, and a call that could not has not returned the package.
THEOREM ScratchGoes ==
    Package!Spec => []Package!NoScratchLeft
<1> QED
  BY PackageIsSound, PackageInvariance, PTL

LEMMA InterruptionStep ==
    ASSUME PackageInv, [Package!Next]_(Package!vars)
    PROVE  [\A c \in Checkouts :
              aborted[c] /\ at[c] # "returned" => at'[c] # "returned"]_(Package!vars)
<1> USE DEF PackageInv, PackageTypes, Package!Goto
<1>1. ASSUME NEW c \in Checkouts, Package!Load(c) \/ Package!Finally(c)
      PROVE  \A d \in Checkouts : aborted[d] /\ at[d] # "returned" => at'[d] # "returned"
  BY <1>1 DEF Package!Load, Package!Finally, Package!Selects
<1>2. ASSUME NEW c \in Checkouts,
             \/ Package!Abort(c) \/ Package!Crash(c) \/ Package!Call(c) \/ Package!Look(c)
             \/ Package!Mkdtemp(c)
             \/ Package!DownloadManifest(c) \/ Package!DownloadBinary(c) \/ Package!Verify(c)
             \/ Package!ReadError(c) \/ Package!StageError(c) \/ Package!DownloadError(c)
             \/ Package!Rename(c) \/ Package!LoadWinner(c) \/ Package!Leave(c)
      PROVE  \A d \in Checkouts : aborted[d] /\ at[d] # "returned" => at'[d] # "returned"
  BY <1>2 DEF Package!Abort, Package!Crash, Package!Call, Package!Look, Package!Mkdtemp,
              Package!DownloadManifest, Package!DownloadBinary, Package!Verify,
              Package!ReadError, Package!StageError, Package!DownloadError,
              Package!Rename, Package!LoadWinner, Package!Leave, Package!LeaveFails
<1> QED
  BY <1>1, <1>2 DEF Package!Next

\* "Do not turn an interrupt during cache verification into a successful acquisition": an
\* interrupted call never returns a package, wherever the interrupt caught it.
THEOREM Interruption ==
    Package!Spec => Package!InterruptedNeverReturns
<1> QED
  BY InterruptionStep, PackageInvariance, PTL DEF Package!Spec, Package!InterruptedNeverReturns

\* What a call was told, and what a reader finds.
CallAnswer(c) ==
    IF at[c] = "returned" THEN "success"
    ELSE IF at[c] \in {"failed", "littered"} THEN "failure" ELSE "none"
PlaceContent ==
    IF place = Nobody THEN Nobody
    ELSE IF Package!Loads(place) /\ place.manifest = "good" THEN installer ELSE "damaged"

\* A call that goes on without touching the place is not seen until it ends.
LEMMA AnswerStep ==
    ASSUME PackageInv, NEW c \in Checkouts, NEW next,
           at' = [at EXCEPT ![c] = next], UNCHANGED <<place, installer>>,
           at[c] \in {"new"} \cup Package!Awaits, next \in Package!Awaits \cup Package!Ended,
           next = "returned" => place # Nobody
    PROVE  [Package!Publication!Next]_(Package!Publication!vars)
<1> USE NobodyAssumption DEF PackageInv, PackageTypes
<1> DEFINE answer == [d \in Checkouts |-> CallAnswer(d)]
<1>1. /\ \A d \in Checkouts \ {c} : CallAnswer(d)' = CallAnswer(d)
      /\ CallAnswer(c) = "none"
      /\ CallAnswer(c)' = IF next = "returned" THEN "success"
                      ELSE IF next \in {"failed", "littered"} THEN "failure" ELSE "none"
  BY DEF CallAnswer, Package!Awaits, Package!Ended
<1>2. PlaceContent' = PlaceContent
  BY DEF PlaceContent, Package!Loads
<1>3. answer' = [answer EXCEPT ![c] = CallAnswer(c)']
  BY <1>1
<1>4. CASE next \notin {"returned", "failed", "littered"}
  <2>1. answer' = answer
    BY <1>1, <1>4
  <2> QED
    BY <1>2, <2>1 DEF Package!Publication!vars, PlaceContent, CallAnswer
<1>5. CASE next \in {"failed", "littered"}
  <2>1. Package!Publication!Fail(c)
    BY <1>1, <1>2, <1>3, <1>5 DEF Package!Publication!Fail, PlaceContent, CallAnswer
  <2> QED
    BY <2>1 DEF Package!Publication!Next
<1>6. CASE next = "returned"
  <2>1. PlaceContent \in Checkouts
    BY <1>6 DEF PlaceContent, Package!Loads, PlaceInv
  <2>2. Package!Publication!Succeed(c)
    BY <1>1, <1>2, <1>3, <1>6, <2>1 DEF Package!Publication!Succeed, PlaceContent, CallAnswer
  <2> QED
    BY <2>2 DEF Package!Publication!Next
<1> QED
  BY <1>4, <1>5, <1>6

\* Every step is one of the abstract publication, or is not seen by callers and readers.
LEMMA AcquisitionImplements ==
    ASSUME PackageInv, [Package!Next]_(Package!vars)
    PROVE  [Package!Publication!Next]_(Package!Publication!vars)
<1> USE NobodyAssumption DEF PackageInv, PackageTypes, Package!Goto
<1>1. ASSUME NEW c \in Checkouts,
             \/ Package!Crash(c) \/ Package!Call(c) \/ Package!Look(c) \/ Package!Load(c)
             \/ Package!Mkdtemp(c)
             \/ Package!DownloadManifest(c) \/ Package!DownloadBinary(c) \/ Package!Verify(c)
             \/ Package!ReadError(c) \/ Package!StageError(c) \/ Package!DownloadError(c)
             \/ Package!LoadWinner(c) \/ Package!Leave(c) \/ Package!Finally(c)
      PROVE  [Package!Publication!Next]_(Package!Publication!vars)
  <2>1. UNCHANGED <<place, installer>> /\ at[c] \in {"new"} \cup Package!Awaits
    BY <1>1 DEF Package!Crash, Package!Call, Package!Look, Package!Load, Package!Mkdtemp,
                Package!DownloadManifest, Package!DownloadBinary, Package!Verify,
                Package!ReadError, Package!StageError, Package!DownloadError,
                Package!LoadWinner, Package!Leave, Package!LeaveFails, Package!Finally,
                Package!Awaits
  <2>2. \E next \in Package!Awaits \cup Package!Ended :
           /\ at' = [at EXCEPT ![c] = next]
           /\ next = "returned" => at[c] \in {"load", "finally"}
    BY <1>1 DEF Package!Crash, Package!Call, Package!Look, Package!Load, Package!Mkdtemp,
                Package!DownloadManifest, Package!DownloadBinary, Package!Verify,
                Package!ReadError, Package!StageError, Package!DownloadError,
                Package!LoadWinner, Package!Leave, Package!LeaveFails, Package!Finally,
                Package!Awaits, Package!Ended
  <2>3. at[c] \in {"load", "finally"} => place # Nobody
    BY DEF PlaceInv, WithPackage
  <2> QED
    BY <2>1, <2>2, <2>3, AnswerStep
<1>2. ASSUME NEW c \in Checkouts, Package!Rename(c), place # Nobody
      PROVE  [Package!Publication!Next]_(Package!Publication!vars)
  <2>1. /\ at[c] = "rename" /\ at' = [at EXCEPT ![c] = "winner"]
        /\ UNCHANGED <<place, installer>>
    BY <1>2 DEF Package!Rename
  <2> QED
    BY <2>1, AnswerStep DEF Package!Awaits
<1>3. ASSUME NEW c \in Checkouts, Package!Rename(c), place = Nobody
      PROVE  Package!Publication!Appear(c)
  <2>1. /\ at[c] = "rename" /\ at' = [at EXCEPT ![c] = "leave"]
        /\ place' = scratch[c] /\ installer' = c
    BY <1>3 DEF Package!Rename
  <2>2. scratch[c] # Nobody /\ scratch[c].manifest = "good" /\ scratch[c].binary = "good"
    BY <2>1 DEF ScratchInv
  <2>3. PlaceContent = Nobody /\ PlaceContent' = c
    BY <1>3, <2>1, <2>2 DEF PlaceContent, Package!Loads
  <2>4. /\ CallAnswer(c) = "none"
        /\ \A d \in Checkouts : CallAnswer(d)' = CallAnswer(d)
    BY <2>1 DEF CallAnswer
  <2> QED
    BY <2>3, <2>4 DEF Package!Publication!Appear, PlaceContent, CallAnswer
<1>4. ASSUME NEW c \in Checkouts, Package!Abort(c)
      PROVE  UNCHANGED Package!Publication!vars
  BY <1>4 DEF Package!Abort, Package!Publication!vars, Package!Loads
<1>5. CASE UNCHANGED Package!vars
  BY <1>5 DEF Package!vars, Package!Publication!vars, Package!Loads
<1> QED
  BY <1>1, <1>2, <1>3, <1>4, <1>5 DEF Package!Next, Package!Publication!Next

LEMMA PackageInitImplements == Package!Init => Package!Publication!Init
  BY NobodyAssumption DEF Package!Init, Package!Publication!Init

\* Checkouts find one complete and verified copy of the selected package or none, it never
\* changes, and a call that succeeded has it: the acquisition implements the abstract
\* publication, whatever is interrupted, fails or dies.
THEOREM PackageRefinement ==
    Package!Spec => Package!ImplementsPublication
<1> QED
  BY PackageInitImplements, AcquisitionImplements, PackageInvariance, PTL
                                        DEF Package!Spec, Package!ImplementsPublication,
                                            Package!Publication!Spec

-----------------------------------------------------------------------------
(***************************************************************************)
(* The publication of registries, by any number of publishers, with steps  *)
(* that fail or are refused and the power that fails.                      *)
(*                                                                         *)
(* A recursive definition is proved about by its least counterexample.     *)
(***************************************************************************)

LEMMA LeastNat ==
    ASSUME NEW T, T \subseteq Nat, T # {}
    PROVE  \E x \in T : \A y \in T : x <= y
<1> DEFINE R == OpToRel(<, Nat)
<1>1. IsWellFoundedOn(R, Nat)
  BY NatLessThanWellFounded
<1>2. \A x, y \in Nat : <<x, y>> \in R <=> x < y
  BY DEF OpToRel
<1> HIDE DEF R
<1>3. PICK x \in T : \A y \in T : ~(<<y, x>> \in R)
  BY <1>1, WFMin
<1>4. ASSUME NEW y \in T PROVE x <= y
  <2>1. x \in Nat /\ y \in Nat
    OBVIOUS
  <2>2. ~(<<y, x>> \in R)
    BY <1>3
  <2>3. ~(y < x)
    BY <1>2, <2>1, <2>2
  <2> QED BY <2>1, <2>3
<1> QED BY <1>4

\* The function that FlattenSeq computes with.
IsFlatten(f, s, n) == f = [i \in 1..n |-> IF i = 1 THEN s[i] ELSE f[i - 1] \o s[i]]

LEMMA FlattenExists ==
    ASSUME NEW s, NEW n \in Nat
    PROVE  \E f : IsFlatten(f, s, n)
<1> DEFINE T == {m \in Nat : ~\E f : IsFlatten(f, s, m)}
<1> SUFFICES ASSUME T # {} PROVE FALSE OBVIOUS
<1>1. PICK x \in T : \A y \in T : x <= y
  BY LeastNat
<1>2. x # 0
  <2>1. IsFlatten([i \in 1..0 |-> s[i]], s, 0)
    BY DEF IsFlatten
  <2> QED BY <2>1, <1>1
<1>3. PICK g : IsFlatten(g, s, x - 1)
  BY <1>1, <1>2
<1> DEFINE h == [i \in 1..x |-> IF i < x THEN g[i] ELSE IF i = 1 THEN s[i] ELSE g[i - 1] \o s[i]]
<1>4. x \in Nat /\ x >= 1
  BY <1>1, <1>2
<1>5. \A i \in 1..(x - 1) : g[i] = IF i = 1 THEN s[i] ELSE g[i - 1] \o s[i]
  BY <1>3, <1>4 DEF IsFlatten
<1> HIDE DEF T
<1>6. \A i \in 1..x : h[i] = IF i = 1 THEN s[i] ELSE h[i - 1] \o s[i]
  BY <1>4, <1>5
<1>7. h = [i \in 1..x |-> IF i = 1 THEN s[i] ELSE h[i - 1] \o s[i]]
  BY <1>6
<1>8. IsFlatten(h, s, x)
  BY <1>7 DEF IsFlatten
<1> QED BY <1>8, <1>1 DEF T

LEMMA FlattenIs ==
    ASSUME NEW S, NEW s \in Seq(S), s # <<>>
    PROVE  \E f : /\ Registry!FlattenSeq(s) = f[Len(s)]
                  /\ \A i \in 1..Len(s) : f[i] = IF i = 1 THEN s[i] ELSE f[i - 1] \o s[i]
<1> DEFINE F == CHOOSE f : IsFlatten(f, s, Len(s))
<1>1. IsFlatten(F, s, Len(s))
  <2>1. Len(s) \in Nat
    OBVIOUS
  <2>2. \E f : IsFlatten(f, s, Len(s))
    BY <2>1, FlattenExists
  <2> QED BY <2>2
<1>2. Registry!FlattenSeq(s) = F[Len(s)]
  BY DEF Registry!FlattenSeq, IsFlatten
<1>3. \A i \in 1..Len(s) : F[i] = IF i = 1 THEN s[i] ELSE F[i - 1] \o s[i]
  <2> HIDE DEF F
  <2> QED BY <1>1 DEF IsFlatten
<1> QED BY <1>2, <1>3

\* What concatenation preserves, and every sequence has, their flattening has.
LEMMA FlattenIn ==
    ASSUME NEW C, NEW s \in Seq(C), <<>> \in C, \A a, b \in C : a \o b \in C
    PROVE  Registry!FlattenSeq(s) \in C
<1>1. CASE s = <<>>
  BY <1>1 DEF Registry!FlattenSeq
<1>2. CASE s # <<>>
  <2>1. PICK f : /\ Registry!FlattenSeq(s) = f[Len(s)]
                 /\ \A i \in 1..Len(s) : f[i] = IF i = 1 THEN s[i] ELSE f[i - 1] \o s[i]
    BY <1>2, FlattenIs
  <2> DEFINE T == {m \in 1..Len(s) : f[m] \notin C}
  <2>2. T = {}
    <3> SUFFICES ASSUME T # {} PROVE FALSE OBVIOUS
    <3>0. T \subseteq Nat
      OBVIOUS
    <3>1. PICK x \in T : \A y \in T : x <= y
      <4> HIDE DEF T
      <4> QED BY <3>0, LeastNat
    <3>2. CASE x = 1
      BY <3>2, <2>1
    <3>3. CASE x # 1
      <4>1. x - 1 \in 1..Len(s) /\ x - 1 \notin T
        BY <3>1, <3>3
      <4> QED BY <4>1, <2>1, <3>3
    <3> QED BY <3>2, <3>3
  <2>3. Len(s) \in 1..Len(s)
    BY <1>2
  <2> QED BY <2>1, <2>2, <2>3
<1> QED BY <1>1, <1>2

LEMMA ToSetJoin ==
    ASSUME NEW E, NEW s \in Seq(E), NEW t \in Seq(E)
    PROVE  Registry!ToSet(s \o t) = Registry!ToSet(s) \cup Registry!ToSet(t)
<1>1. ASSUME NEW x
      PROVE  x \in Registry!ToSet(s) \cup Registry!ToSet(t) => x \in Registry!ToSet(s \o t)
  <2>1. CASE x \in Registry!ToSet(s)
    BY <2>1 DEF Registry!ToSet
  <2>2. CASE x \in Registry!ToSet(t)
    <3>1. PICK i \in 1..Len(t) : x = t[i]
      BY <2>2 DEF Registry!ToSet
    <3>2. Len(s) + i \in 1..Len(s \o t) /\ (s \o t)[Len(s) + i] = x
      BY <3>1
    <3> QED BY <3>2 DEF Registry!ToSet
  <2> QED BY <2>1, <2>2
<1>2. ASSUME NEW x \in Registry!ToSet(s \o t) PROVE x \in Registry!ToSet(s) \cup Registry!ToSet(t)
  <2>1. PICK i \in 1..Len(s \o t) : x = (s \o t)[i]
    BY DEF Registry!ToSet
  <2>2. CASE i <= Len(s)
    BY <2>1, <2>2 DEF Registry!ToSet
  <2>3. CASE i > Len(s)
    <3>1. i - Len(s) \in 1..Len(t) /\ x = t[i - Len(s)]
      BY <2>1, <2>3
    <3> QED BY <3>1 DEF Registry!ToSet
  <2> QED BY <2>2, <2>3
<1> QED BY <1>1, <1>2

Gathers(f, s, E, m) ==
    /\ f[m] \in Seq(E)
    /\ \A x : x \in Registry!ToSet(f[m]) <=> \E i \in 1..m : x \in Registry!ToSet(s[i])

\* The elements of a flattening are those of its sequences.
LEMMA FlattenToSet ==
    ASSUME NEW E, NEW s \in Seq(Seq(E))
    PROVE  /\ Registry!FlattenSeq(s) \in Seq(E)
           /\ \A x : x \in Registry!ToSet(Registry!FlattenSeq(s))
                       <=> \E i \in 1..Len(s) : x \in Registry!ToSet(s[i])
<1>0. Registry!FlattenSeq(s) \in Seq(E)
  <2>1. <<>> \in Seq(E) /\ \A a, b \in Seq(E) : a \o b \in Seq(E)
    OBVIOUS
  <2> QED BY <2>1, FlattenIn
<1>1. CASE s = <<>>
  BY <1>0, <1>1 DEF Registry!FlattenSeq, Registry!ToSet
<1>2. CASE s # <<>>
  <2>1. PICK f : /\ Registry!FlattenSeq(s) = f[Len(s)]
                 /\ \A i \in 1..Len(s) : f[i] = IF i = 1 THEN s[i] ELSE f[i - 1] \o s[i]
    BY <1>2, FlattenIs
  <2> DEFINE T == {m \in 1..Len(s) : ~Gathers(f, s, E, m)}
  <2>2. T = {}
    <3> SUFFICES ASSUME T # {} PROVE FALSE OBVIOUS
    <3>0. T \subseteq Nat
      OBVIOUS
    <3>1. PICK x \in T : \A y \in T : x <= y
      <4> HIDE DEF T
      <4> QED BY <3>0, LeastNat
    <3>2. CASE x = 1
      <4>1. f[1] = s[1] /\ s[1] \in Seq(E) /\ ~Gathers(f, s, E, 1)
        BY <3>2, <2>1
      <4> QED BY <4>1 DEF Gathers
    <3>3. CASE x # 1
      <4>1. x - 1 \in 1..Len(s) /\ x \in 1..Len(s)
        BY <3>3
      <4>6. Gathers(f, s, E, x - 1)
        BY <4>1, <3>1
      <4>2. f[x] = f[x - 1] \o s[x]
        <5> HIDE DEF T
        <5> QED BY <4>1, <2>1, <3>3
      <4>3. s[x] \in Seq(E)
        <5> HIDE DEF T
        <5> QED BY <4>1, ElementOfSeq
      <4>7. /\ f[x] \in Seq(E)
            /\ Registry!ToSet(f[x]) = Registry!ToSet(f[x - 1]) \cup Registry!ToSet(s[x])
        BY <4>6, <4>2, <4>3, ToSetJoin DEF Gathers
      <4>4. ASSUME NEW e
            PROVE  e \in Registry!ToSet(f[x]) <=> \E i \in 1..x : e \in Registry!ToSet(s[i])
        <5>1. e \in Registry!ToSet(f[x - 1]) <=> \E i \in 1..(x - 1) : e \in Registry!ToSet(s[i])
          BY <4>6 DEF Gathers
        <5>2. \A i \in 1..x : i \in 1..(x - 1) \/ i = x
          BY <4>1
        <5>3. \A i \in 1..(x - 1) : i \in 1..x
          BY <4>1
        <5>4. x \in 1..x
          BY <4>1
        <5> QED BY <5>1, <5>2, <5>3, <5>4, <4>7
      <4>5. ~Gathers(f, s, E, x)
        OBVIOUS
      <4> QED BY <4>7, <4>4, <4>5 DEF Gathers
    <3> QED BY <3>2, <3>3
  <2>3. Len(s) \in 1..Len(s)
    BY <1>2
  <2>4. Gathers(f, s, E, Len(s))
    BY <2>2, <2>3
  <2> QED BY <1>0, <2>1, <2>4 DEF Gathers
<1> QED BY <1>1, <1>2

-----------------------------------------------------------------------------
(* Paths, and the stretches of a publisher's program.                      *)

Fixed == {"generations", "deployment", "generation", "packages", "module-graph-cache",
          "immutable", "v6", "artifacts"}
Words == Names \cup Fixed \cup Registry!FileNames
Paths == Seq(Words)

LEMMA PathFacts ==
    ASSUME NEW d \in Paths, NEW w \in Words
    PROVE  /\ Append(d, w) \in Paths /\ Append(d, w) # <<>>
           /\ Len(Append(d, w)) = Len(d) + 1
           /\ Registry!Front(Append(d, w)) = d
           /\ Registry!Last(Append(d, w)) = w
BY DEF Paths, Registry!Front, Registry!Last

\* A path is a file's exactly when its last word is one of the file names.
IsFile(path) == Registry!Last(path) \in Registry!FileNames

LEMMA WordFacts ==
    /\ Fixed \subseteq Words /\ Names \subseteq Words /\ Registry!FileNames \subseteq Words
    /\ Fixed \cap Registry!FileNames = {} /\ Names \cap Registry!FileNames = {}
<1>1. Names \cap Registry!FileNames = {}
  BY GraphsAssumption DEF Registry!RegistryAssumption
<1> QED BY <1>1 DEF Words, Fixed, Registry!FileNames

Making == {"mkdir", "ensure", "write", "copy"}
Verbs == Making \cup {"verify", "syncFile", "sync", "fail"}
Steps == [verb : Verbs, path : Paths]

Made(s) == {s[k].path : k \in {k \in 1..Len(s) : s[k].verb \in Making}}
Later(s, k, verb, path) == \E i \in (k + 1)..Len(s) : s[i].verb = verb /\ s[i].path = path
Earlier(s, k, path) == \E i \in 1..(k - 1) : s[i].verb \in Making /\ s[i].path = path

\* What is made at step k is made in a directory that is there, is synced with its directory
\* later, and is synced and verified later if it is a file and a copy; `base' are directories
\* made before the stretch and `open' directories that are synced after it.
SoundAt(s, k, base, open) ==
    LET path == s[k].path  dir == Registry!Front(path) IN
    /\ path # <<>>
    /\ Len(path) > 1 => dir \in base \/ Earlier(s, k, dir)
    /\ dir \in open \/ Later(s, k, "sync", dir)
    /\ IsFile(path) => Later(s, k, "syncFile", path)
    /\ s[k].verb = "copy" => Later(s, k, "verify", path)
Sound(s, base, open) == \A k \in 1..Len(s) : s[k].verb \in Making => SoundAt(s, k, base, open)

LEMMA JoinIndex ==
    ASSUME NEW s \in Seq(Steps), NEW t \in Seq(Steps)
    PROVE  /\ s \o t \in Seq(Steps) /\ Len(s \o t) = Len(s) + Len(t)
           /\ \A i \in 1..Len(s) : i \in 1..Len(s \o t) /\ (s \o t)[i] = s[i]
           /\ \A i \in 1..Len(t) : Len(s) + i \in 1..Len(s \o t) /\ (s \o t)[Len(s) + i] = t[i]
           /\ \A i \in 1..Len(s \o t) : i \in 1..Len(s) \/ \E j \in 1..Len(t) : i = Len(s) + j
<1>1. \A i \in 1..Len(s \o t) : i \in 1..Len(s) \/ \E j \in 1..Len(t) : i = Len(s) + j
  <2> SUFFICES ASSUME NEW i \in 1..Len(s \o t), i > Len(s)
               PROVE  \E j \in 1..Len(t) : i = Len(s) + j
    OBVIOUS
  <2>1. i - Len(s) \in 1..Len(t) /\ i = Len(s) + (i - Len(s))
    OBVIOUS
  <2> QED BY <2>1
<1> QED BY <1>1

LEMMA MadeJoin ==
    ASSUME NEW s \in Seq(Steps), NEW t \in Seq(Steps)
    PROVE  Made(s \o t) = Made(s) \cup Made(t)
<1>1. Made(s \o t) \subseteq Made(s) \cup Made(t)
  <2> SUFFICES ASSUME NEW k \in 1..Len(s \o t), (s \o t)[k].verb \in Making
               PROVE  (s \o t)[k].path \in Made(s) \cup Made(t)
    BY DEF Made
  <2>1. CASE k \in 1..Len(s)
    BY <2>1, JoinIndex DEF Made
  <2>2. ASSUME NEW j \in 1..Len(t), k = Len(s) + j
        PROVE  (s \o t)[k].path \in Made(s) \cup Made(t)
    BY <2>2, JoinIndex DEF Made
  <2> QED BY <2>1, <2>2, JoinIndex
<1>2. ASSUME NEW k \in 1..Len(s), s[k].verb \in Making PROVE s[k].path \in Made(s \o t)
  <2>1. k \in 1..Len(s \o t) /\ (s \o t)[k] = s[k]
    BY JoinIndex
  <2> QED BY <1>2, <2>1 DEF Made
<1>3. ASSUME NEW k \in 1..Len(t), t[k].verb \in Making PROVE t[k].path \in Made(s \o t)
  <2>1. Len(s) + k \in 1..Len(s \o t) /\ (s \o t)[Len(s) + k] = t[k]
    BY JoinIndex
  <2> QED BY <1>3, <2>1 DEF Made
<1> QED BY <1>1, <1>2, <1>3 DEF Made

LEMMA LaterJoin ==
    ASSUME NEW s \in Seq(Steps), NEW t \in Seq(Steps), NEW verb, NEW path
    PROVE  /\ \A k \in 1..Len(s) :
                 Later(s, k, verb, path) \/ Later(t, 0, verb, path) => Later(s \o t, k, verb, path)
           /\ \A k \in 0..Len(t) :
                 Later(t, k, verb, path) => Later(s \o t, Len(s) + k, verb, path)
<1>1. ASSUME NEW k \in 1..Len(s), Later(s, k, verb, path)
      PROVE  Later(s \o t, k, verb, path)
  <2>1. PICK i \in (k + 1)..Len(s) : s[i].verb = verb /\ s[i].path = path
    BY <1>1 DEF Later
  <2>2. i \in (k + 1)..Len(s \o t) /\ (s \o t)[i] = s[i]
    BY JoinIndex
  <2> QED BY <2>1, <2>2 DEF Later
<1>2. ASSUME NEW k \in 0..Len(t), Later(t, k, verb, path)
      PROVE  Later(s \o t, Len(s) + k, verb, path)
  <2>1. PICK i \in (k + 1)..Len(t) : t[i].verb = verb /\ t[i].path = path
    BY <1>2 DEF Later
  <2>2. Len(s) + i \in (Len(s) + k + 1)..Len(s \o t) /\ (s \o t)[Len(s) + i] = t[i]
    BY JoinIndex
  <2> QED BY <2>1, <2>2 DEF Later
<1>3. ASSUME NEW k \in 1..Len(s), Later(t, 0, verb, path)
      PROVE  Later(s \o t, k, verb, path)
  <2>1. PICK i \in (Len(s) + 1)..Len(s \o t) : (s \o t)[i].verb = verb /\ (s \o t)[i].path = path
    <3>1. 0 \in 0..Len(t) /\ Len(s) + 0 = Len(s)
      OBVIOUS
    <3>2. Later(s \o t, Len(s), verb, path)
      BY <1>2, <1>3, <3>1
    <3> QED BY <3>2 DEF Later
  <2>2. i \in (k + 1)..Len(s \o t)
    OBVIOUS
  <2> QED BY <2>1, <2>2 DEF Later
<1> QED BY <1>1, <1>2, <1>3

LEMMA EarlierJoin ==
    ASSUME NEW s \in Seq(Steps), NEW t \in Seq(Steps), NEW path
    PROVE  /\ \A k \in 1..Len(s) : Earlier(s, k, path) => Earlier(s \o t, k, path)
           /\ \A k \in 1..Len(t) :
                 path \in Made(s) \/ Earlier(t, k, path) => Earlier(s \o t, Len(s) + k, path)
<1>1. ASSUME NEW k \in 1..Len(s), Earlier(s, k, path)
      PROVE  Earlier(s \o t, k, path)
  <2>1. PICK i \in 1..(k - 1) : s[i].verb \in Making /\ s[i].path = path
    BY <1>1 DEF Earlier
  <2>2. (s \o t)[i] = s[i]
    BY JoinIndex
  <2> QED BY <2>1, <2>2 DEF Earlier
<1>2. ASSUME NEW k \in 1..Len(t), Earlier(t, k, path)
      PROVE  Earlier(s \o t, Len(s) + k, path)
  <2>1. PICK i \in 1..(k - 1) : t[i].verb \in Making /\ t[i].path = path
    BY <1>2 DEF Earlier
  <2>2. Len(s) + i \in 1..(Len(s) + k - 1) /\ (s \o t)[Len(s) + i] = t[i]
    BY JoinIndex
  <2> QED BY <2>1, <2>2 DEF Earlier
<1>3. ASSUME NEW k \in 1..Len(t), path \in Made(s)
      PROVE  Earlier(s \o t, Len(s) + k, path)
  <2>1. PICK i \in 1..Len(s) : s[i].verb \in Making /\ s[i].path = path
    BY <1>3 DEF Made
  <2>2. i \in 1..(Len(s) + k - 1) /\ (s \o t)[i] = s[i]
    BY JoinIndex
  <2> QED BY <2>1, <2>2 DEF Earlier
<1> QED BY <1>1, <1>2, <1>3

\* Two stretches one after the other: the second may rely on what the first has made, and
\* syncs what the first has left open.
LEMMA Join ==
    ASSUME NEW s \in Seq(Steps), NEW t \in Seq(Steps), NEW base, NEW open,
           NEW base1, NEW open1, NEW base2, NEW open2,
           Sound(s, base1, open1), Sound(t, base2, open2),
           base1 \subseteq base, base2 \subseteq base \cup Made(s), open2 \subseteq open,
           \A dir \in open1 : dir \in open \/ Later(t, 0, "sync", dir)
    PROVE  Sound(s \o t, base, open)
<1> SUFFICES ASSUME NEW k \in 1..Len(s \o t), (s \o t)[k].verb \in Making
             PROVE  SoundAt(s \o t, k, base, open)
  BY DEF Sound
<1>1. CASE k \in 1..Len(s)
  <2>1. (s \o t)[k] = s[k]
    BY <1>1, JoinIndex
  <2>2. SoundAt(s, k, base1, open1)
    BY <1>1, <2>1 DEF Sound
  <2> QED BY <1>1, <2>1, <2>2, LaterJoin, EarlierJoin DEF SoundAt
<1>2. ASSUME NEW j \in 1..Len(t), k = Len(s) + j
      PROVE  SoundAt(s \o t, k, base, open)
  <2>1. (s \o t)[k] = t[j]
    BY <1>2, JoinIndex
  <2>2. SoundAt(t, j, base2, open2)
    BY <2>1 DEF Sound
  <2>3. j \in 0..Len(t)
    OBVIOUS
  <2> QED BY <1>2, <2>1, <2>2, <2>3, LaterJoin, EarlierJoin DEF SoundAt
<1> QED BY <1>1, <1>2, JoinIndex

Synced(s) == {s[k].path : k \in {k \in 1..Len(s) : s[k].verb = "sync"}}

\* All that the rest of the proof needs to know of a stretch.
Stretch(s, base, open, made, synced) ==
    /\ s \in Seq(Steps) /\ Sound(s, base, open)
    /\ Made(s) = made /\ synced \subseteq Synced(s)

LEMMA SyncedJoin ==
    ASSUME NEW s \in Seq(Steps), NEW t \in Seq(Steps)
    PROVE  Synced(s) \cup Synced(t) \subseteq Synced(s \o t)
<1>1. ASSUME NEW k \in 1..Len(s), s[k].verb = "sync" PROVE s[k].path \in Synced(s \o t)
  <2>1. k \in 1..Len(s \o t) /\ (s \o t)[k] = s[k]
    BY JoinIndex
  <2> QED BY <1>1, <2>1 DEF Synced
<1>2. ASSUME NEW k \in 1..Len(t), t[k].verb = "sync" PROVE t[k].path \in Synced(s \o t)
  <2>1. Len(s) + k \in 1..Len(s \o t) /\ (s \o t)[Len(s) + k] = t[k]
    BY JoinIndex
  <2> QED BY <1>2, <2>1 DEF Synced
<1> QED BY <1>1, <1>2 DEF Synced

\* One stretch after the other.
LEMMA Follow ==
    ASSUME NEW s, NEW base1, NEW open1, NEW made1, NEW synced1,
           NEW t, NEW base2, NEW open2, NEW made2, NEW synced2,
           NEW base, NEW open, NEW made, NEW synced,
           Stretch(s, base1, open1, made1, synced1), Stretch(t, base2, open2, made2, synced2),
           base1 \subseteq base, base2 \subseteq base \cup made1,
           open1 \subseteq open \cup synced2, open2 \subseteq open,
           made = made1 \cup made2, synced \subseteq synced1 \cup synced2
    PROVE  Stretch(s \o t, base, open, made, synced)
<1>1. /\ s \in Seq(Steps) /\ Sound(s, base1, open1) /\ Made(s) = made1
      /\ t \in Seq(Steps) /\ Sound(t, base2, open2) /\ Made(t) = made2
  BY DEF Stretch
<1>2. \A dir \in synced2 : Later(t, 0, "sync", dir)
  BY DEF Stretch, Synced, Later
<1>3. /\ base2 \subseteq base \cup Made(s)
      /\ \A dir \in open1 : dir \in open \/ Later(t, 0, "sync", dir)
  BY <1>1, <1>2
<1>4. Sound(s \o t, base, open)
  BY <1>1, <1>3, Join
<1>5. synced \subseteq Synced(s \o t)
  BY <1>1, SyncedJoin DEF Stretch
<1> QED BY <1>1, <1>4, <1>5, JoinIndex, MadeJoin DEF Stretch


-----------------------------------------------------------------------------
(* The fixed directories of a registry.                                    *)

LEMMA TupleFacts ==
    ASSUME NEW a \in Words, NEW b \in Words, NEW c \in Words
    PROVE  /\ <<a>> = Append(<<>>, a)
           /\ <<a, b>> = Append(<<a>>, b)
           /\ <<a, b, c>> = Append(<<a, b>>, c)
<1> DEFINE s1 == Append(<<>>, a)  t1 == <<a>>
           s2 == Append(<<a>>, b)  t2 == <<a, b>>
           s3 == Append(<<a, b>>, c)  t3 == <<a, b, c>>
<1>1. /\ s1 \in Seq(Words) /\ t1 \in Seq(Words) /\ Len(s1) = 1 /\ Len(t1) = 1
      /\ s1[1] = t1[1]
  OBVIOUS
<1>2. /\ s2 \in Seq(Words) /\ t2 \in Seq(Words) /\ Len(s2) = 2 /\ Len(t2) = 2
      /\ s2[1] = t2[1] /\ s2[2] = t2[2]
  OBVIOUS
<1>3. /\ s3 \in Seq(Words) /\ t3 \in Seq(Words) /\ Len(s3) = 3 /\ Len(t3) = 3
      /\ s3[1] = t3[1] /\ s3[2] = t3[2] /\ s3[3] = t3[3]
  OBVIOUS
<1> HIDE DEF s1, t1, s2, t2, s3, t3
<1>4. s1 = t1
  BY <1>1, SeqEqual
<1>5. s2 = t2
  BY <1>2, SeqEqual
<1>6. s3 = t3
  BY <1>3, SeqEqual
<1> QED BY <1>4, <1>5, <1>6 DEF s1, t1, s2, t2, s3, t3

generations == <<"generations">>
packages == <<"packages">>
graphCache == <<"module-graph-cache">>
deployment == Append(generations, "deployment")
immutables == Append(graphCache, "immutable")

LEMMA FixedPaths ==
    /\ <<>> \in Paths
    /\ generations = Append(<<>>, "generations") /\ packages = Append(<<>>, "packages")
    /\ graphCache = Append(<<>>, "module-graph-cache")
    /\ Registry!generationRoot = Append(deployment, "generation")
    /\ Registry!Front(Registry!generationRoot) = deployment
    /\ Registry!immutable = Append(immutables, "v6")
    /\ Registry!Front(Registry!immutable) = immutables
    /\ <<"source-catalog.json">> = Append(<<>>, "source-catalog.json")
    /\ <<"current">> = Append(<<>>, "current")
    /\ {generations, packages, graphCache, deployment, immutables, Registry!generationRoot,
        Registry!immutable, Registry!artifactRoot, Registry!packageRoot,
        <<"source-catalog.json">>, <<"current">>} \subseteq Paths \ {<<>>}
<1>0. /\ {"generations", "deployment", "generation", "packages", "module-graph-cache",
          "immutable", "v6", "artifacts", "source-catalog.json", "current"} \subseteq Words
      /\ <<>> \in Paths
  BY DEF Words, Fixed, Registry!FileNames, Paths
<1>1. generations = Append(<<>>, "generations") /\ packages = Append(<<>>, "packages")
      /\ graphCache = Append(<<>>, "module-graph-cache")
      /\ <<"source-catalog.json">> = Append(<<>>, "source-catalog.json")
      /\ <<"current">> = Append(<<>>, "current")
  BY <1>0, TupleFacts DEF generations, packages, graphCache
<1>2. Registry!generationRoot = Append(deployment, "generation")
  BY <1>0, TupleFacts DEF deployment, generations, Registry!generationRoot
<1>3. Registry!immutable = Append(immutables, "v6")
  BY <1>0, TupleFacts DEF immutables, graphCache, Registry!immutable
<1>4. /\ {generations, packages, graphCache, <<"source-catalog.json">>, <<"current">>}
            \subseteq Paths \ {<<>>}
  <2>1. \A w \in Words : <<w>> \in Paths /\ <<w>> # <<>>
    BY DEF Paths
  <2> QED BY <1>0, <2>1 DEF generations, packages, graphCache
<1>5. {deployment, immutables} \subseteq Paths \ {<<>>}
  BY <1>0, <1>4, PathFacts DEF deployment, immutables
<1>6. /\ {Registry!generationRoot, Registry!immutable} \subseteq Paths \ {<<>>}
      /\ Registry!Front(Registry!generationRoot) = deployment
      /\ Registry!Front(Registry!immutable) = immutables
  <2>1. deployment \in Paths /\ immutables \in Paths /\ "generation" \in Words /\ "v6" \in Words
    BY <1>0, <1>5
  <2>2. \A path \in Paths : \A w \in Words :
           Append(path, w) \in Paths \ {<<>>} /\ Registry!Front(Append(path, w)) = path
    BY PathFacts
  <2>3. /\ Registry!generationRoot \in Paths \ {<<>>}
        /\ Registry!Front(Registry!generationRoot) = deployment
    BY <1>2, <2>1, <2>2, Zenon
  <2>4. /\ Registry!immutable \in Paths \ {<<>>}
        /\ Registry!Front(Registry!immutable) = immutables
    BY <1>3, <2>1, <2>2, Zenon
  <2> QED BY <2>3, <2>4, Zenon
<1>7. {Registry!artifactRoot, Registry!packageRoot} \subseteq Paths \ {<<>>}
  <2>1. Registry!immutable \in Paths /\ "artifacts" \in Words /\ "packages" \in Words
    BY <1>0, <1>6
  <2> QED BY <2>1, PathFacts DEF Registry!artifactRoot, Registry!packageRoot
<1> QED BY <1>0, <1>1, <1>2, <1>3, <1>4, <1>5, <1>6, <1>7

-----------------------------------------------------------------------------
(* The stretches that a program consists of.                               *)

LEMMA SyncOne ==
    ASSUME NEW dir \in Paths
    PROVE  Stretch(<<Registry!Do("sync", dir)>>, {}, {}, {}, {dir})
<1> DEFINE s == <<Registry!Do("sync", dir)>>
<1>1. s \in Seq(Steps) /\ Len(s) = 1 /\ s[1].verb = "sync" /\ s[1].path = dir
  BY DEF Steps, Verbs, Registry!Do
<1> HIDE DEF s
<1>2. Sound(s, {}, {}) /\ Made(s) = {}
  BY <1>1 DEF Sound, Made, Making
<1>3. dir \in Synced(s)
  BY <1>1 DEF Synced
<1> QED BY <1>1, <1>2, <1>3 DEF s, Stretch

LEMMA MakeOne ==
    ASSUME NEW dir \in Paths, dir # <<>>, ~IsFile(dir), NEW verb \in {"mkdir", "ensure"}
    PROVE  Stretch(<<Registry!Do(verb, dir)>>, {Registry!Front(dir)}, {Registry!Front(dir)},
                   {dir}, {})
<1> DEFINE s == <<Registry!Do(verb, dir)>>
<1>1. s \in Seq(Steps) /\ Len(s) = 1 /\ s[1].verb = verb /\ s[1].path = dir
  BY DEF Steps, Verbs, Making, Registry!Do
<1> HIDE DEF s
<1>2. SoundAt(s, 1, {Registry!Front(dir)}, {Registry!Front(dir)})
  BY <1>1 DEF SoundAt
<1>3. Sound(s, {Registry!Front(dir)}, {Registry!Front(dir)})
  BY <1>1, <1>2 DEF Sound
<1>4. Made(s) = {dir}
  BY <1>1 DEF Made, Making
<1> QED BY <1>1, <1>3, <1>4 DEF s, Stretch

LEMMA FileWritten ==
    ASSUME NEW dir \in Paths, NEW file \in Registry!FileNames
    PROVE  Stretch(Registry!writeControlFile(Append(dir, file)), {dir} \ {<<>>}, {dir},
                   {Append(dir, file)}, {})
<1> DEFINE s == Registry!writeControlFile(Append(dir, file))  path == Append(dir, file)
<1>1. /\ path \in Paths /\ path # <<>> /\ Len(path) = Len(dir) + 1
      /\ Registry!Front(path) = dir
  BY WordFacts, PathFacts
<1>2. Len(path) > 1 => dir # <<>>
  BY <1>1 DEF Paths
<1> HIDE DEF path
<1>3. /\ s \in Seq(Steps) /\ Len(s) = 2
      /\ s[1].verb = "write" /\ s[1].path = path
      /\ s[2].verb = "syncFile" /\ s[2].path = path
  BY <1>1 DEF Steps, Verbs, Making, Registry!Do, Registry!writeControlFile, path
<1> HIDE DEF s
<1>4. Later(s, 1, "syncFile", path)
  BY <1>3 DEF Later
<1>5. SoundAt(s, 1, {dir} \ {<<>>}, {dir})
  BY <1>1, <1>2, <1>3, <1>4 DEF SoundAt
<1>6. Sound(s, {dir} \ {<<>>}, {dir})
  BY <1>3, <1>5 DEF Sound, Making
<1>7. Made(s) = {path}
  <2>1. \A k \in 1..Len(s) : s[k].verb \in Making => s[k].path = path
    BY <1>3
  <2>2. 1 \in 1..Len(s) /\ s[1].verb \in Making
    BY <1>3 DEF Making
  <2> QED BY <1>3, <2>1, <2>2 DEF Made
<1> QED BY <1>3, <1>6, <1>7 DEF s, path, Stretch

LEMMA FileCopied ==
    ASSUME NEW dir \in Paths, NEW file \in Registry!FileNames, NEW verb \in {"copy", "write"}
    PROVE  Stretch(Registry!copyVerified(dir, verb, file), {dir}, {dir}, {Append(dir, file)}, {})
<1> DEFINE s == Registry!copyVerified(dir, verb, file)  path == Append(dir, file)
<1>1. /\ path \in Paths /\ path # <<>> /\ Registry!Front(path) = dir
  BY WordFacts, PathFacts
<1> HIDE DEF path
<1>2. /\ s \in Seq(Steps) /\ Len(s) = 3
      /\ s[1].verb = verb /\ s[1].path = path
      /\ s[2].verb = "verify" /\ s[2].path = path
      /\ s[3].verb = "syncFile" /\ s[3].path = path
  BY <1>1 DEF Steps, Verbs, Making, Registry!Do, Registry!copyVerified, path
<1> HIDE DEF s
<1>3. Later(s, 1, "syncFile", path) /\ Later(s, 1, "verify", path)
  BY <1>2 DEF Later
<1>4. SoundAt(s, 1, {dir}, {dir})
  BY <1>1, <1>2, <1>3 DEF SoundAt
<1>5. Sound(s, {dir}, {dir})
  BY <1>2, <1>4 DEF Sound, Making
<1>6. Made(s) = {path}
  <2>1. \A k \in 1..Len(s) : s[k].verb \in Making => s[k].path = path
    BY <1>2
  <2>2. 1 \in 1..Len(s) /\ s[1].verb \in Making
    BY <1>2 DEF Making
  <2> QED BY <1>2, <2>1, <2>2 DEF Made
<1> QED BY <1>2, <1>5, <1>6 DEF s, path, Stretch

\* copyRecordedDirectory: the directory is made, filled and synced.
LEMMA PackageCopied ==
    ASSUME NEW dir \in Paths, dir # <<>>, ~IsFile(dir)
    PROVE  Stretch(Registry!copyPackage(dir), {Registry!Front(dir)}, {Registry!Front(dir)},
                   Registry!CopiedDirectory(dir, {"graph-manifest.json"}), {})
<1> DEFINE up == {Registry!Front(dir)}
           a == <<Registry!Do("mkdir", dir)>>
           b == Registry!copyVerified(dir, "copy", "graph-manifest.json")
           c == <<Registry!Do("sync", dir)>>
           file == {Append(dir, "graph-manifest.json")}
<1>1. Stretch(a, up, up, {dir}, {})
  BY MakeOne
<1>2. Stretch(b, {dir}, {dir}, file, {})
  BY FileCopied DEF Registry!FileNames
<1>3. Stretch(c, {}, {}, {}, {dir})
  BY SyncOne
<1>4. Registry!copyPackage(dir) = (a \o b) \o c
  BY DEF Registry!copyPackage
<1>5. Registry!CopiedDirectory(dir, {"graph-manifest.json"}) = {dir} \cup file
  BY DEF Registry!CopiedDirectory
<1> HIDE DEF a, b, c, file, up
<1>6. Stretch(a \o b, up, up \cup {dir}, {dir} \cup file, {})
  BY <1>1, <1>2, Follow
<1>7. Stretch((a \o b) \o c, up, up, {dir} \cup file, {})
  BY <1>3, <1>6, Follow
<1> QED BY <1>4, <1>5, <1>7 DEF up

LEMMA ArtifactCopied ==
    ASSUME NEW dir \in Paths, dir # <<>>, ~IsFile(dir)
    PROVE  Stretch(Registry!copyArtifact(dir), {Registry!Front(dir)}, {Registry!Front(dir)},
                   Registry!CopiedDirectory(dir, {"artifact", "entry.json"}), {})
<1> DEFINE up == {Registry!Front(dir)}
           a == <<Registry!Do("mkdir", dir)>>
           b == Registry!copyVerified(dir, "copy", "artifact")
           c == Registry!copyVerified(dir, "write", "entry.json")
           d == <<Registry!Do("sync", dir)>>
           file == {Append(dir, "artifact")}
           entry == {Append(dir, "entry.json")}
<1>1. Stretch(a, up, up, {dir}, {})
  BY MakeOne
<1>2. Stretch(b, {dir}, {dir}, file, {}) /\ Stretch(c, {dir}, {dir}, entry, {})
  BY FileCopied DEF Registry!FileNames
<1>3. Stretch(d, {}, {}, {}, {dir})
  BY SyncOne
<1>4. Registry!copyArtifact(dir) = ((a \o b) \o c) \o d
  BY DEF Registry!copyArtifact
<1>5. Registry!CopiedDirectory(dir, {"artifact", "entry.json"}) = {dir} \cup file \cup entry
  BY DEF Registry!CopiedDirectory
<1> HIDE DEF a, b, c, d, file, entry, up
<1>6. Stretch(a \o b, up, up \cup {dir}, {dir} \cup file, {})
  BY <1>1, <1>2, Follow
<1>7. Stretch((a \o b) \o c, up, up \cup {dir}, {dir} \cup file \cup entry, {})
  BY <1>2, <1>6, Follow
<1>8. Stretch(((a \o b) \o c) \o d, up, up, {dir} \cup file \cup entry, {})
  BY <1>3, <1>7, Follow
<1> QED BY <1>4, <1>5, <1>8 DEF up

\* Many stretches one after the other, each of which keeps to the same directories.
LEMMA FollowAll ==
    ASSUME NEW R, NEW s \in Seq(Seq(Steps)), \A i \in 1..Len(s) : Sound(s[i], R, R)
    PROVE  /\ Registry!FlattenSeq(s) \in Seq(Steps)
           /\ Sound(Registry!FlattenSeq(s), R, R)
           /\ \A q : q \in Made(Registry!FlattenSeq(s)) <=> \E i \in 1..Len(s) : q \in Made(s[i])
<1> DEFINE C == {t \in Seq(Steps) : Sound(t, R, R)}
<1>1. s \in Seq(C)
  <2>1. \A i \in 1..Len(s) : s[i] \in C
    BY ElementOfSeq
  <2>2. s \in [1..Len(s) -> C] /\ Len(s) \in Nat
    <3> HIDE DEF C
    <3> QED BY <2>1, LenProperties
  <2> HIDE DEF C
  <2>3. s \in UNION {[1..n -> C] : n \in Nat}
    BY <2>2
  <2>4. Seq(C) = UNION {[1..n -> C] : n \in Nat}
    BY SeqDef, Zenon
  <2> QED BY <2>3, <2>4
<1>2. <<>> \in C
  BY DEF Sound
<1>3. ASSUME NEW a \in C, NEW b \in C PROVE a \o b \in C
  <2>1. Sound(a \o b, R, R)
    BY Join
  <2> QED BY <2>1
<1>4. Registry!FlattenSeq(s) \in C
  <2> HIDE DEF C
  <2> QED BY <1>1, <1>2, <1>3, FlattenIn
<1>5. ASSUME NEW t \in Seq(Steps), NEW q
      PROVE  q \in Made(t) <=> \E x \in Registry!ToSet(t) : x.verb \in Making /\ q = x.path
  BY DEF Made, Registry!ToSet
<1>6. \A i \in 1..Len(s) : s[i] \in Seq(Steps)
  BY ElementOfSeq
<1>7. ASSUME NEW q
      PROVE  q \in Made(Registry!FlattenSeq(s)) <=> \E i \in 1..Len(s) : q \in Made(s[i])
  <2>1. \A x : x \in Registry!ToSet(Registry!FlattenSeq(s))
                  <=> \E i \in 1..Len(s) : x \in Registry!ToSet(s[i])
    BY FlattenToSet
  <2>2. q \in Made(Registry!FlattenSeq(s))
           <=> \E x \in Registry!ToSet(Registry!FlattenSeq(s)) : x.verb \in Making /\ q = x.path
    BY <1>4, <1>5
  <2>3. \A i \in 1..Len(s) : q \in Made(s[i])
           <=> \E x \in Registry!ToSet(s[i]) : x.verb \in Making /\ q = x.path
    BY <1>5, <1>6
  <2> QED BY <2>1, <2>2, <2>3
<1> QED BY <1>4, <1>7

\* What a reader finds of one artifact.
ArtifactTree(artifact) ==
    LET stageRoot == Append(Registry!artifactRoot, artifact.stage)
    IN {stageRoot}
         \cup Registry!CopiedDirectory(Append(stageRoot, artifact.key), {"artifact", "entry.json"})
PackageTree(package) ==
    Registry!CopiedDirectory(Append(Registry!packageRoot, package), {"graph-manifest.json"})
Roots == {Registry!artifactRoot, Registry!packageRoot}

LEMMA NamedPath ==
    ASSUME NEW dir \in Paths, NEW name \in Names
    PROVE  /\ Append(dir, name) \in Paths /\ Append(dir, name) # <<>>
           /\ ~IsFile(Append(dir, name)) /\ Registry!Front(Append(dir, name)) = dir
<1>1. name \in Words /\ name \notin Registry!FileNames
  BY WordFacts
<1> QED BY <1>1, PathFacts DEF IsFile

Alike(a, b) == a.stage = b.stage /\ a.key = b.key

LEMMA ArtifactPublished ==
    ASSUME NEW copied, NEW a \in Registry!Artifacts
    PROVE  LET s == Registry!PublishArtifact(copied, a) IN
           /\ s \in Seq(Steps) /\ Sound(s, Roots, Roots) /\ Made(s) \subseteq ArtifactTree(a)
           /\ (\A b \in copied : ~Alike(a, b)) => Made(s) = ArtifactTree(a)
<1> DEFINE stageRoot == Append(Registry!artifactRoot, a.stage)
           target == Append(stageRoot, a.key)
           previous == {b \in copied : b.stage = a.stage /\ b.key = a.key}
           s == Registry!PublishArtifact(copied, a)
<1>1. Registry!artifactRoot \in Paths
  BY FixedPaths
<1>2. a.stage \in Names /\ a.key \in Names
  BY DEF Registry!Artifacts
<1>3. /\ stageRoot \in Paths /\ stageRoot # <<>> /\ ~IsFile(stageRoot)
      /\ Registry!Front(stageRoot) = Registry!artifactRoot
  BY <1>1, <1>2, NamedPath
<1>4. /\ target \in Paths /\ target # <<>> /\ ~IsFile(target)
      /\ Registry!Front(target) = stageRoot
  BY <1>2, <1>3, NamedPath
<1>5. CASE previous = {}
  <2> DEFINE up == {Registry!artifactRoot}
             x == <<Registry!Do("ensure", stageRoot)>>
             y == Registry!copyArtifact(target)
             z == <<Registry!Do("sync", stageRoot)>>
             files == Registry!CopiedDirectory(target, {"artifact", "entry.json"})
  <2>1. s = (x \o y) \o z
    BY <1>5 DEF Registry!PublishArtifact
  <2>2. ArtifactTree(a) = {stageRoot} \cup files
    BY DEF ArtifactTree
  <2> HIDE DEF target
  <2>3. Stretch(x, up, up, {stageRoot}, {})
    BY <1>3, MakeOne
  <2>4. Stretch(y, {stageRoot}, {stageRoot}, files, {})
    BY <1>4, ArtifactCopied
  <2>5. Stretch(z, {}, {}, {}, {stageRoot})
    BY <1>3, SyncOne
  <2> HIDE DEF x, y, z, files, stageRoot, s
  <2>6. Stretch(x \o y, up, up \cup {stageRoot}, {stageRoot} \cup files, {})
    BY <2>3, <2>4, Follow
  <2>7. up \subseteq Roots
    BY DEF Roots
  <2> HIDE DEF up
  <2>8. Stretch((x \o y) \o z, Roots, Roots, {stageRoot} \cup files, {})
    BY <2>5, <2>6, <2>7, Follow
  <2> QED BY <2>1, <2>2, <2>8 DEF Stretch, s
<1>6. CASE previous # {}
  <2>1. s = <<Registry!Do("fail", <<>>)>> \/ s = <<>>
    BY <1>6 DEF Registry!PublishArtifact
  <2>2. <<>> \in Paths
    BY FixedPaths
  <2>3. s \in Seq(Steps) /\ \A k \in 1..Len(s) : s[k].verb = "fail"
    <3>1. CASE s = <<>>
      BY <3>1
    <3>2. CASE s = <<Registry!Do("fail", <<>>)>>
      BY <3>2, <2>2 DEF Registry!Do, Steps, Verbs
    <3> QED BY <2>1, <3>1, <3>2
  <2> HIDE DEF s
  <2>4. Sound(s, Roots, Roots) /\ Made(s) = {}
    BY <2>3 DEF Sound, Made, Making
  <2>5. ~ \A b \in copied : ~Alike(a, b)
    BY <1>6 DEF Alike
  <2> QED BY <2>3, <2>4, <2>5 DEF s
<1> QED BY <1>5, <1>6

\* The artifacts of one graph that no graph before has, and its package.
LEMMA GraphPublished ==
    ASSUME NEW gs \in Seq(Registry!Graphs), NEW i \in 1..Len(gs)
    PROVE  LET s == Registry!PublishGraph(gs, i)  artifacts == gs[i].artifacts IN
           /\ s \in Seq(Steps) /\ Sound(s, Roots, Roots)
           /\ PackageTree(gs[i].package) \subseteq Made(s)
           /\ \A q \in Made(s) : \/ q \in PackageTree(gs[i].package)
                                 \/ \E j \in 1..Len(artifacts) : q \in ArtifactTree(artifacts[j])
           /\ \A j \in 1..Len(artifacts) :
                 (\A b \in Registry!Before(gs, i, j) : ~Alike(artifacts[j], b))
                    => ArtifactTree(artifacts[j]) \subseteq Made(s)
<1> DEFINE artifacts == gs[i].artifacts
           part(j) == Registry!PublishArtifact(Registry!Before(gs, i, j), artifacts[j])
           parts == [j \in DOMAIN artifacts |-> part(j)]
           a == Registry!FlattenSeq(parts)
           b == Registry!copyPackage(Append(Registry!packageRoot, gs[i].package))
<1>1. gs[i] \in Registry!Graphs
  BY ElementOfSeq
<1>2. artifacts \in Seq(Registry!Artifacts) /\ gs[i].package \in Names
  BY <1>1 DEF Registry!Graphs
<1>3. Registry!PublishGraph(gs, i) = a \o b
  BY DEF Registry!PublishGraph
<1> HIDE DEF artifacts
<1>4. DOMAIN artifacts = 1..Len(artifacts) /\ Len(artifacts) \in Nat
  BY <1>2, LenProperties
<1>5. ASSUME NEW j \in 1..Len(artifacts)
      PROVE  /\ part(j) \in Seq(Steps) /\ Sound(part(j), Roots, Roots)
             /\ Made(part(j)) \subseteq ArtifactTree(artifacts[j])
             /\ (\A c \in Registry!Before(gs, i, j) : ~Alike(artifacts[j], c))
                   => Made(part(j)) = ArtifactTree(artifacts[j])
  <2>1. artifacts[j] \in Registry!Artifacts
    BY <1>2, ElementOfSeq
  <2> QED BY <2>1, ArtifactPublished
<1> HIDE DEF part
<1>6. /\ parts \in Seq(Seq(Steps)) /\ Len(parts) = Len(artifacts)
      /\ \A j \in 1..Len(artifacts) : parts[j] = part(j)
  BY <1>4, <1>5
<1> HIDE DEF parts
<1>7. /\ a \in Seq(Steps) /\ Sound(a, Roots, Roots)
      /\ \A q : q \in Made(a) <=> \E j \in 1..Len(parts) : q \in Made(parts[j])
  BY <1>5, <1>6, FollowAll
<1>8. Stretch(a, Roots, Roots, Made(a), {})
  BY <1>7 DEF Stretch
<1>9. Stretch(b, {Registry!packageRoot}, {Registry!packageRoot}, PackageTree(gs[i].package), {})
  <2>1. Registry!packageRoot \in Paths
    BY FixedPaths
  <2> QED BY <1>2, <2>1, NamedPath, PackageCopied DEF PackageTree
<1> HIDE DEF a, b
<1>10. Stretch(a \o b, Roots, Roots, Made(a) \cup PackageTree(gs[i].package), {})
  <2>1. {Registry!packageRoot} \subseteq Roots
    BY DEF Roots
  <2> QED BY <1>8, <1>9, <2>1, Follow
<1>11. /\ a \o b \in Seq(Steps) /\ Sound(a \o b, Roots, Roots)
       /\ Made(a \o b) = Made(a) \cup PackageTree(gs[i].package)
  BY <1>10 DEF Stretch
<1>12. \A q \in Made(a) : \E j \in 1..Len(artifacts) : q \in ArtifactTree(artifacts[j])
  BY <1>5, <1>6, <1>7
<1>13. ASSUME NEW j \in 1..Len(artifacts),
              \A c \in Registry!Before(gs, i, j) : ~Alike(artifacts[j], c)
       PROVE  ArtifactTree(artifacts[j]) \subseteq Made(a)
  BY <1>5, <1>6, <1>7, <1>13
<1> QED BY <1>3, <1>11, <1>12, <1>13 DEF artifacts

ArtifactsOf(gs) == Registry!ToSet(Registry!artifactsOf(gs))

LEMMA ArtifactsAre ==
    ASSUME NEW gs \in Seq(Registry!Graphs)
    PROVE  \A x : x \in ArtifactsOf(gs)
              <=> \E i \in 1..Len(gs) : \E j \in 1..Len(gs[i].artifacts) : x = gs[i].artifacts[j]
<1> DEFINE lists == [i \in DOMAIN gs |-> gs[i].artifacts]
<1>1. \A i \in 1..Len(gs) : gs[i].artifacts \in Seq(Registry!Artifacts)
  <2>1. \A i \in 1..Len(gs) : gs[i] \in Registry!Graphs
    BY ElementOfSeq
  <2> QED BY <2>1 DEF Registry!Graphs
<1>2. DOMAIN gs = 1..Len(gs) /\ Len(gs) \in Nat
  BY LenProperties
<1>3. /\ lists \in Seq(Seq(Registry!Artifacts)) /\ Len(lists) = Len(gs)
      /\ \A i \in 1..Len(gs) : lists[i] = gs[i].artifacts
  BY <1>1, <1>2
<1>4. ArtifactsOf(gs) = Registry!ToSet(Registry!FlattenSeq(lists))
  BY DEF ArtifactsOf, Registry!artifactsOf
<1> HIDE DEF lists
<1>5. \A x : x \in ArtifactsOf(gs) <=> \E i \in 1..Len(gs) : x \in Registry!ToSet(gs[i].artifacts)
  BY <1>3, <1>4, FlattenToSet
<1>6. ASSUME NEW i \in 1..Len(gs), NEW x
      PROVE  x \in Registry!ToSet(gs[i].artifacts)
                <=> \E j \in 1..Len(gs[i].artifacts) : x = gs[i].artifacts[j]
  <2>1. DOMAIN gs[i].artifacts = 1..Len(gs[i].artifacts)
    BY <1>1, LenProperties
  <2> QED BY <2>1 DEF Registry!ToSet
<1>7. ASSUME NEW x
      PROVE  x \in ArtifactsOf(gs)
                <=> \E i \in 1..Len(gs) : \E j \in 1..Len(gs[i].artifacts) : x = gs[i].artifacts[j]
  <2>1. x \in ArtifactsOf(gs) <=> \E i \in 1..Len(gs) : x \in Registry!ToSet(gs[i].artifacts)
    BY <1>5
  <2>2. \A i \in 1..Len(gs) :
           x \in Registry!ToSet(gs[i].artifacts)
              <=> \E j \in 1..Len(gs[i].artifacts) : x = gs[i].artifacts[j]
    BY <1>6
  <2> QED BY <2>1, <2>2
<1> QED BY <1>7

\* Of several graphs with one artifact, the first publishes it.
LEMMA FirstAlike ==
    ASSUME NEW gs \in Seq(Registry!Graphs), NEW a \in ArtifactsOf(gs)
    PROVE  \E i \in 1..Len(gs) : \E j \in 1..Len(gs[i].artifacts) :
              /\ Alike(gs[i].artifacts[j], a)
              /\ \A b \in Registry!Before(gs, i, j) : ~Alike(gs[i].artifacts[j], b)
<1> DEFINE Has(i) == \E j \in 1..Len(gs[i].artifacts) : Alike(gs[i].artifacts[j], a)
           I == {i \in 1..Len(gs) : Has(i)}
<1>1. I # {}
  <2>1. PICK i \in 1..Len(gs) : \E j \in 1..Len(gs[i].artifacts) : a = gs[i].artifacts[j]
    BY ArtifactsAre
  <2>2. Has(i)
    BY <2>1 DEF Alike
  <2> QED BY <2>2
<1>2. PICK i \in I : \A k \in I : i <= k
  <2>1. I \subseteq Nat
    OBVIOUS
  <2> HIDE DEF I
  <2> QED BY <1>1, <2>1, LeastNat
<1>3. i \in 1..Len(gs) /\ Has(i)
  OBVIOUS
<1>4. \A k \in 1..(i - 1) : k \in 1..Len(gs) /\ ~Has(k)
  <2> SUFFICES ASSUME NEW k \in 1..(i - 1), Has(k)
               PROVE  FALSE
    BY <1>3
  <2>1. k \in I
    BY <1>3
  <2> HIDE DEF I
  <2> QED BY <1>2, <1>3, <2>1
<1> HIDE DEF I
<1> DEFINE artifacts == gs[i].artifacts
           J == {j \in 1..Len(artifacts) : Alike(artifacts[j], a)}
<1>5. artifacts \in Seq(Registry!Artifacts)
  <2>1. gs[i] \in Registry!Graphs
    BY <1>3, ElementOfSeq
  <2> QED BY <2>1 DEF Registry!Graphs
<1>6. PICK j \in J : \A k \in J : j <= k
  <2>1. J \subseteq Nat /\ J # {}
    BY <1>3
  <2> HIDE DEF J
  <2> QED BY <2>1, LeastNat
<1>7. j \in 1..Len(artifacts) /\ Alike(artifacts[j], a)
  OBVIOUS
<1>8. \A k \in 1..(j - 1) : k \in 1..Len(artifacts) /\ ~Alike(artifacts[k], a)
  BY <1>6, <1>7
<1> HIDE DEF artifacts, J
<1>9. ASSUME NEW b \in Registry!Before(gs, i, j) PROVE ~Alike(b, a)
  <2>1. CASE b \in ArtifactsOf(SubSeq(gs, 1, i - 1))
    <3> DEFINE hs == SubSeq(gs, 1, i - 1)
    <3>1. /\ hs \in Seq(Registry!Graphs) /\ Len(hs) = i - 1
          /\ \A k \in 1..(i - 1) : hs[k] = gs[k]
      BY <1>3
    <3>2. b \in ArtifactsOf(hs)
      BY <2>1
    <3> HIDE DEF hs
    <3>3. PICK k \in 1..Len(hs) : \E m \in 1..Len(hs[k].artifacts) : b = hs[k].artifacts[m]
      BY <3>1, <3>2, ArtifactsAre
    <3>4. k \in 1..(i - 1) /\ hs[k] = gs[k]
      BY <3>1
    <3> QED BY <1>4, <3>3, <3>4
  <2>2. CASE b \in Registry!ToSet(SubSeq(artifacts, 1, j - 1))
    <3> DEFINE as == SubSeq(artifacts, 1, j - 1)
    <3>1. /\ DOMAIN as = 1..(j - 1)
          /\ \A k \in 1..(j - 1) : as[k] = artifacts[k]
      BY <1>5, <1>7
    <3>2. \E k \in 1..(j - 1) : b = as[k]
      BY <2>2, <3>1 DEF Registry!ToSet
    <3> QED BY <1>8, <3>1, <3>2
  <2> QED BY <2>1, <2>2 DEF Registry!Before, ArtifactsOf, artifacts
<1> QED BY <1>3, <1>7, <1>9 DEF Alike, artifacts

LEMMA GraphsPublished ==
    ASSUME NEW gs \in Seq(Registry!Graphs)
    PROVE  LET s == Registry!FlattenSeq([i \in DOMAIN gs |-> Registry!PublishGraph(gs, i)]) IN
           /\ s \in Seq(Steps) /\ Sound(s, Roots, Roots)
           /\ \A q : q \in Made(s)
                <=> \/ \E i \in 1..Len(gs) : q \in PackageTree(gs[i].package)
                    \/ \E a \in ArtifactsOf(gs) : q \in ArtifactTree(a)
<1> DEFINE parts == [i \in DOMAIN gs |-> Registry!PublishGraph(gs, i)]
           s == Registry!FlattenSeq(parts)
<1>1. DOMAIN gs = 1..Len(gs) /\ Len(gs) \in Nat
  BY LenProperties
<1>2. /\ parts \in Seq(Seq(Steps)) /\ Len(parts) = Len(gs)
      /\ \A i \in 1..Len(gs) : parts[i] = Registry!PublishGraph(gs, i)
  <2>1. \A i \in 1..Len(gs) : Registry!PublishGraph(gs, i) \in Seq(Steps)
    BY GraphPublished
  <2> QED BY <1>1, <2>1
<1> HIDE DEF parts
<1>3. \A i \in 1..Len(gs) : Sound(parts[i], Roots, Roots)
  BY <1>2, GraphPublished
<1>4. /\ s \in Seq(Steps) /\ Sound(s, Roots, Roots)
      /\ \A q : q \in Made(s) <=> \E i \in 1..Len(gs) : q \in Made(parts[i])
  BY <1>2, <1>3, FollowAll
<1> HIDE DEF s
<1>5. ASSUME NEW q \in Made(s)
      PROVE  \/ \E i \in 1..Len(gs) : q \in PackageTree(gs[i].package)
             \/ \E a \in ArtifactsOf(gs) : q \in ArtifactTree(a)
  <2>1. PICK i \in 1..Len(gs) : q \in Made(Registry!PublishGraph(gs, i))
    BY <1>2, <1>4
  <2>2. \/ q \in PackageTree(gs[i].package)
        \/ \E j \in 1..Len(gs[i].artifacts) : q \in ArtifactTree(gs[i].artifacts[j])
    BY <2>1, GraphPublished
  <2>3. \A j \in 1..Len(gs[i].artifacts) : gs[i].artifacts[j] \in ArtifactsOf(gs)
    BY ArtifactsAre
  <2> QED BY <2>2, <2>3
<1>6. ASSUME NEW i \in 1..Len(gs), NEW q \in PackageTree(gs[i].package)
      PROVE  q \in Made(s)
  BY <1>2, <1>4, GraphPublished
<1>7. ASSUME NEW a \in ArtifactsOf(gs), NEW q \in ArtifactTree(a)
      PROVE  q \in Made(s)
  <2>1. PICK i \in 1..Len(gs) : \E j \in 1..Len(gs[i].artifacts) :
              /\ Alike(gs[i].artifacts[j], a)
              /\ \A b \in Registry!Before(gs, i, j) : ~Alike(gs[i].artifacts[j], b)
    BY FirstAlike
  <2>2. PICK j \in 1..Len(gs[i].artifacts) :
              /\ Alike(gs[i].artifacts[j], a)
              /\ \A b \in Registry!Before(gs, i, j) : ~Alike(gs[i].artifacts[j], b)
    BY <2>1
  <2>3. ArtifactTree(gs[i].artifacts[j]) \subseteq Made(Registry!PublishGraph(gs, i))
    BY <2>2, GraphPublished
  <2>4. ArtifactTree(gs[i].artifacts[j]) = ArtifactTree(a)
    BY <2>2 DEF Alike, ArtifactTree
  <2> QED BY <1>2, <1>4, <2>3, <2>4
<1> QED BY <1>4, <1>5, <1>6, <1>7 DEF s, parts

-----------------------------------------------------------------------------
(* The program as a whole.                                                 *)

FixedDirs == {generations, deployment, Registry!generationRoot, packages, graphCache, immutables,
              Registry!immutable, Registry!artifactRoot, Registry!packageRoot}
SyncedLast == {deployment, generations, Registry!packageRoot, Registry!artifactRoot,
               Registry!immutable, immutables, graphCache, <<>>}

LEMMA FixedFacts ==
    /\ FixedDirs \subseteq Paths \ {<<>>} /\ SyncedLast \subseteq Paths
    /\ \A dir \in FixedDirs : ~IsFile(dir)
    /\ Registry!Front(generations) = <<>> /\ Registry!Front(deployment) = generations
    /\ Registry!Front(Registry!generationRoot) = deployment
    /\ Registry!Front(packages) = <<>> /\ Registry!Front(graphCache) = <<>>
    /\ Registry!Front(immutables) = graphCache /\ Registry!Front(Registry!immutable) = immutables
    /\ Registry!Front(Registry!artifactRoot) = Registry!immutable
    /\ Registry!Front(Registry!packageRoot) = Registry!immutable
    /\ Len(generations) = 1 /\ Len(packages) = 1 /\ Len(graphCache) = 1
<1>1. FixedDirs \subseteq Paths \ {<<>>} /\ SyncedLast \subseteq Paths
  BY FixedPaths DEF FixedDirs, SyncedLast
<1>2. ASSUME NEW w \in Fixed, NEW d \in Paths
      PROVE  ~IsFile(Append(d, w)) /\ Registry!Front(Append(d, w)) = d
  <2>1. w \in Words /\ w \notin Registry!FileNames
    BY WordFacts
  <2> QED BY <2>1, PathFacts DEF IsFile
<1>3. {"generations", "deployment", "generation", "packages", "module-graph-cache", "immutable",
       "v6", "artifacts"} \subseteq Fixed
  BY DEF Fixed
<1>4. <<>> \in Paths
  BY FixedPaths
<1>5. /\ ~IsFile(generations) /\ Registry!Front(generations) = <<>>
      /\ ~IsFile(packages) /\ Registry!Front(packages) = <<>>
      /\ ~IsFile(graphCache) /\ Registry!Front(graphCache) = <<>>
  BY <1>2, <1>3, <1>4, FixedPaths
<1>6. /\ ~IsFile(deployment) /\ Registry!Front(deployment) = generations
      /\ ~IsFile(immutables) /\ Registry!Front(immutables) = graphCache
  <2>1. generations \in Paths /\ graphCache \in Paths
    BY FixedPaths
  <2> QED BY <1>2, <1>3, <2>1 DEF deployment, immutables
<1>7. /\ ~IsFile(Registry!generationRoot) /\ Registry!Front(Registry!generationRoot) = deployment
      /\ ~IsFile(Registry!immutable) /\ Registry!Front(Registry!immutable) = immutables
  <2>1. /\ deployment \in Paths /\ immutables \in Paths
        /\ Registry!generationRoot = Append(deployment, "generation")
        /\ Registry!immutable = Append(immutables, "v6")
    BY FixedPaths
  <2> QED BY <1>2, <1>3, <2>1
<1>8. /\ ~IsFile(Registry!artifactRoot)
      /\ Registry!Front(Registry!artifactRoot) = Registry!immutable
      /\ ~IsFile(Registry!packageRoot) /\ Registry!Front(Registry!packageRoot) = Registry!immutable
  <2>1. Registry!immutable \in Paths
    BY FixedPaths
  <2> QED BY <1>2, <1>3, <2>1 DEF Registry!artifactRoot, Registry!packageRoot
<1>9. Len(generations) = 1 /\ Len(packages) = 1 /\ Len(graphCache) = 1
  BY DEF generations, packages, graphCache
<1> QED BY <1>1, <1>5, <1>6, <1>7, <1>8, <1>9 DEF FixedDirs

LEMMA MkdirsStretch ==
    /\ Stretch(Registry!Mkdirs, {}, SyncedLast, FixedDirs, {})
    /\ {Registry!Mkdirs[i].path : i \in DOMAIN Registry!Mkdirs} = FixedDirs
<1> DEFINE s == Registry!Mkdirs
<1>1. /\ Len(s) = 9 /\ DOMAIN s = 1..9
      /\ \A k \in 1..9 : s[k].verb = "mkdir"
      /\ s[1].path = generations /\ s[2].path = deployment /\ s[3].path = Registry!generationRoot
      /\ s[4].path = packages /\ s[5].path = graphCache /\ s[6].path = immutables
      /\ s[7].path = Registry!immutable /\ s[8].path = Registry!artifactRoot
      /\ s[9].path = Registry!packageRoot
  <2>1. /\ Registry!Front(Registry!generationRoot) = deployment
        /\ Registry!Front(Registry!immutable) = immutables
    BY FixedPaths
  <2> QED BY <2>1 DEF Registry!Mkdirs, Registry!Do, generations, packages, graphCache
<1>2. s \in Seq(Steps)
  <2>1. \A k \in 1..9 : s[k] \in Steps
    <3>1. {generations, deployment, Registry!generationRoot, packages, graphCache, immutables,
           Registry!immutable, Registry!artifactRoot, Registry!packageRoot} \subseteq Paths
      BY FixedPaths
    <3>2. /\ Registry!Front(Registry!generationRoot) = deployment
          /\ Registry!Front(Registry!immutable) = immutables
      BY FixedPaths
    <3>3. \A path \in Paths : Registry!Do("mkdir", path) \in Steps
      BY DEF Registry!Do, Steps, Verbs, Making
    <3> QED BY <3>1, <3>2, <3>3 DEF Registry!Mkdirs, generations, packages, graphCache
  <2>2. s = [k \in 1..9 |-> s[k]]
    BY DEF Registry!Mkdirs
  <2> HIDE DEF s
  <2> QED BY <2>1, <2>2
<1> HIDE DEF s
<1>3. Made(s) = FixedDirs /\ {s[i].path : i \in DOMAIN s} = FixedDirs
  <2>1. \A k \in 1..9 : s[k].path \in FixedDirs
    BY <1>1 DEF FixedDirs
  <2>2. \A dir \in FixedDirs : \E k \in 1..9 : s[k].path = dir
    BY <1>1 DEF FixedDirs
  <2>3. \A k \in 1..9 : s[k].verb \in Making
    BY <1>1 DEF Making
  <2> QED BY <1>1, <2>1, <2>2, <2>3 DEF Made
<1>4. ASSUME NEW k \in 1..9
      PROVE  /\ s[k].path # <<>> /\ ~IsFile(s[k].path)
             /\ Registry!Front(s[k].path) \in SyncedLast
             /\ Len(s[k].path) > 1 => Earlier(s, k, Registry!Front(s[k].path))
  <2>1. s[k].path # <<>> /\ ~IsFile(s[k].path)
    BY <1>1, FixedFacts DEF FixedDirs
  <2>2. Registry!Front(s[k].path) \in SyncedLast
    BY <1>1, FixedFacts DEF SyncedLast
  <2>3. \/ ~(Len(s[k].path) > 1)
        \/ \E i \in 1..9 : i < k /\ Registry!Front(s[k].path) = s[i].path
    <3>1. CASE k \in {1, 4, 5}
      <4>1. Len(s[k].path) = 1
        BY <1>1, <3>1, FixedFacts
      <4>2. \A n : n = 1 => ~(n > 1)
        OBVIOUS
      <4> QED BY <4>1, <4>2, Zenon
    <3>2. CASE k = 2
      BY <1>1, <3>2, FixedFacts, 1 \in 1..9
    <3>3. CASE k = 3
      BY <1>1, <3>3, FixedFacts, 2 \in 1..9
    <3>4. CASE k = 6
      BY <1>1, <3>4, FixedFacts, 5 \in 1..9
    <3>5. CASE k = 7
      BY <1>1, <3>5, FixedFacts, 6 \in 1..9
    <3>6. CASE k \in {8, 9}
      BY <1>1, <3>6, FixedFacts, 7 \in 1..9
    <3> QED BY <3>1, <3>2, <3>3, <3>4, <3>5, <3>6
  <2>4. ASSUME NEW i \in 1..9, i < k
        PROVE  Earlier(s, k, s[i].path)
    <3>1. i \in 1..(k - 1) /\ s[i].verb \in Making
      BY <1>1, <2>4 DEF Making
    <3> QED BY <3>1 DEF Earlier
  <2>5. ASSUME Len(s[k].path) > 1
        PROVE  Earlier(s, k, Registry!Front(s[k].path))
    <3>1. PICK i \in 1..9 : i < k /\ Registry!Front(s[k].path) = s[i].path
      BY <2>3, <2>5
    <3>2. Earlier(s, k, s[i].path)
      BY <2>4, <3>1
    <3> QED BY <3>1, <3>2
  <2> QED BY <2>1, <2>2, <2>5
<1>5. Sound(s, {}, SyncedLast)
  <2> SUFFICES ASSUME NEW k \in 1..9 PROVE SoundAt(s, k, {}, SyncedLast)
    BY <1>1 DEF Sound
  <2>1. s[k].verb # "copy"
    BY <1>1
  <2> QED BY <1>4, <2>1 DEF SoundAt
<1> QED BY <1>2, <1>3, <1>5 DEF Stretch, s

LEMMA SyncStretch ==
    Stretch(Registry!SyncDirectories, {}, {}, {}, SyncedLast)
<1> DEFINE s == Registry!SyncDirectories
<1>1. /\ Registry!Front(Registry!generationRoot) = deployment
      /\ Registry!Front(Registry!immutable) = immutables
  BY FixedPaths
<1>2. /\ Len(s) = 8 /\ DOMAIN s = 1..8
      /\ \A k \in 1..8 : s[k].verb = "sync"
      /\ s[1].path = deployment /\ s[2].path = generations /\ s[3].path = Registry!packageRoot
      /\ s[4].path = Registry!artifactRoot /\ s[5].path = Registry!immutable
      /\ s[6].path = immutables /\ s[7].path = graphCache /\ s[8].path = <<>>
  BY <1>1 DEF Registry!SyncDirectories, Registry!Do, generations, graphCache
<1>3. s \in Seq(Steps)
  <2>1. \A k \in 1..8 : s[k] \in Steps
    <3>1. SyncedLast \subseteq Paths
      BY FixedFacts
    <3>2. \A path \in Paths : Registry!Do("sync", path) \in Steps
      BY DEF Registry!Do, Steps, Verbs
    <3> QED BY <1>1, <3>1, <3>2 DEF SyncedLast, Registry!SyncDirectories, generations, graphCache
  <2>2. s = [k \in 1..8 |-> s[k]]
    BY DEF Registry!SyncDirectories
  <2> HIDE DEF s
  <2> QED BY <2>1, <2>2
<1> HIDE DEF s
<1>4. Sound(s, {}, {}) /\ Made(s) = {}
  BY <1>2 DEF Sound, Made, Making
<1>5. ASSUME NEW dir \in SyncedLast PROVE dir \in Synced(s)
  <2>1. \E k \in 1..8 : s[k].path = dir
    BY <1>2 DEF SyncedLast
  <2> QED BY <1>2, <2>1 DEF Synced
<1> QED BY <1>3, <1>4, <1>5 DEF Stretch, s

GenerationTree ==
    {Append(Registry!generationRoot, "deployment.json")}
      \cup {Append(Registry!generationRoot, "generation.json")}
      \cup {Append(Registry!generationRoot, "COMPLETE")}
      \cup {Append(<<>>, "source-catalog.json")} \cup {Append(<<>>, "current")}

LEMMA GenerationStretch ==
    Stretch(Registry!GenerationFiles, {Registry!generationRoot}, {<<>>}, GenerationTree, {})
<1> DEFINE dir == Registry!generationRoot
           f1 == Append(dir, "deployment.json")  w1 == Registry!writeControlFile(f1)
           f2 == Append(dir, "generation.json")  w2 == Registry!writeControlFile(f2)
           f3 == Append(dir, "COMPLETE")  w3 == Registry!writeControlFile(f3)
           f4 == Append(<<>>, "source-catalog.json")  w4 == Registry!writeControlFile(f4)
           f5 == Append(<<>>, "current")  w5 == Registry!writeControlFile(f5)
           z == <<Registry!Do("sync", dir)>>
<1>1. dir \in Paths /\ dir # <<>> /\ <<>> \in Paths
  BY FixedPaths
<1>2. /\ Stretch(w1, {dir} \ {<<>>}, {dir}, {f1}, {})
      /\ Stretch(w2, {dir} \ {<<>>}, {dir}, {f2}, {})
      /\ Stretch(w3, {dir} \ {<<>>}, {dir}, {f3}, {})
  BY <1>1, FileWritten DEF Registry!FileNames
<1>3. /\ Stretch(w4, {<<>>} \ {<<>>}, {<<>>}, {f4}, {})
      /\ Stretch(w5, {<<>>} \ {<<>>}, {<<>>}, {f5}, {})
  BY <1>1, FileWritten DEF Registry!FileNames
<1>4. Stretch(z, {}, {}, {}, {dir})
  BY <1>1, SyncOne
<1>5. Registry!GenerationFiles = ((((w1 \o w2) \o w3) \o z) \o w4) \o w5
  BY FixedPaths DEF Registry!GenerationFiles
<1>6. GenerationTree = {f1} \cup {f2} \cup {f3} \cup {f4} \cup {f5}
  BY DEF GenerationTree
<1> HIDE DEF w1, w2, w3, w4, w5, z, f1, f2, f3, f4, f5, dir
<1>7. Stretch(w1 \o w2, {dir}, {dir}, {f1} \cup {f2}, {})
  BY <1>2, Follow
<1>8. Stretch((w1 \o w2) \o w3, {dir}, {dir}, {f1} \cup {f2} \cup {f3}, {})
  BY <1>2, <1>7, Follow
<1>9. Stretch(((w1 \o w2) \o w3) \o z, {dir}, {}, {f1} \cup {f2} \cup {f3}, {})
  BY <1>4, <1>8, Follow
<1>10. Stretch((((w1 \o w2) \o w3) \o z) \o w4, {dir}, {<<>>},
               {f1} \cup {f2} \cup {f3} \cup {f4}, {})
  BY <1>3, <1>9, Follow
<1>11. Stretch(((((w1 \o w2) \o w3) \o z) \o w4) \o w5, {dir}, {<<>>},
               {f1} \cup {f2} \cup {f3} \cup {f4} \cup {f5}, {})
  BY <1>3, <1>10, Follow
<1> QED BY <1>5, <1>6, <1>11 DEF dir

LEMMA ExpectedIs ==
    ASSUME NEW gs \in Seq(Registry!Graphs)
    PROVE  \A q : q \in Registry!Expected(gs)
              <=> \/ q \in FixedDirs \/ q \in GenerationTree
                  \/ \E i \in 1..Len(gs) : q \in PackageTree(gs[i].package)
                  \/ \E a \in ArtifactsOf(gs) : q \in ArtifactTree(a)
<1>1. {Registry!Mkdirs[i].path : i \in DOMAIN Registry!Mkdirs} = FixedDirs
  BY MkdirsStretch
<1>2. /\ Registry!generationRoot \in FixedDirs
      /\ Registry!CopiedDirectory(Registry!generationRoot,
                                  {"deployment.json", "generation.json", "COMPLETE"})
            \cup {<<"source-catalog.json">>, <<"current">>}
           = {Registry!generationRoot} \cup GenerationTree
  <2>1. /\ <<"source-catalog.json">> = Append(<<>>, "source-catalog.json")
        /\ <<"current">> = Append(<<>>, "current")
    BY FixedPaths
  <2> QED BY <2>1 DEF Registry!CopiedDirectory, GenerationTree, FixedDirs
<1>3. DOMAIN gs = 1..Len(gs)
  BY LenProperties
<1>4. ASSUME NEW q
      PROVE  q \in UNION {Registry!CopiedDirectory(Append(Registry!packageRoot, gs[i].package),
                                                   {"graph-manifest.json"}) : i \in DOMAIN gs}
                <=> \E i \in 1..Len(gs) : q \in PackageTree(gs[i].package)
  BY <1>3 DEF PackageTree
<1>5. ASSUME NEW a \in ArtifactsOf(gs)
      PROVE  {Append(Registry!artifactRoot, a.stage)} \cup
                Registry!CopiedDirectory(Registry!artifactRoot \o <<a.stage, a.key>>,
                                         {"artifact", "entry.json"}) = ArtifactTree(a)
  <2>1. a.stage \in Words /\ a.key \in Words
    <3>1. PICK i \in 1..Len(gs) : \E j \in 1..Len(gs[i].artifacts) : a = gs[i].artifacts[j]
      BY ArtifactsAre
    <3>2. gs[i].artifacts \in Seq(Registry!Artifacts)
      <4>1. gs[i] \in Registry!Graphs
        BY ElementOfSeq
      <4> QED BY <4>1 DEF Registry!Graphs
    <3>3. a \in Registry!Artifacts
      BY <3>1, <3>2, ElementOfSeq
    <3> QED BY <3>3, WordFacts DEF Registry!Artifacts
  <2>2. Registry!artifactRoot \in Seq(Words)
    BY FixedPaths DEF Paths
  <2> DEFINE s == Registry!artifactRoot \o <<a.stage, a.key>>
             t == Append(Append(Registry!artifactRoot, a.stage), a.key)
  <2>3. s = t
    <3>1. /\ s \in Seq(Words) /\ t \in Seq(Words)
          /\ Len(s) = Len(Registry!artifactRoot) + 2 /\ Len(t) = Len(Registry!artifactRoot) + 2
      BY <2>1, <2>2
    <3>2. ASSUME NEW k \in 1..Len(s) PROVE s[k] = t[k]
      <4>1. CASE k <= Len(Registry!artifactRoot)
        BY <2>1, <2>2, <3>1, <4>1
      <4>2. CASE k = Len(Registry!artifactRoot) + 1
        BY <2>1, <2>2, <3>1, <4>2
      <4>3. CASE k = Len(Registry!artifactRoot) + 2
        BY <2>1, <2>2, <3>1, <4>3
      <4> QED BY <2>2, <3>1, <4>1, <4>2, <4>3
    <3> HIDE DEF s, t
    <3> QED BY <3>1, <3>2, SeqEqual
  <2> QED BY <2>3 DEF ArtifactTree
<1>6. ASSUME NEW q
      PROVE  q \in UNION {{Append(Registry!artifactRoot, a.stage)} \cup
                Registry!CopiedDirectory(Registry!artifactRoot \o <<a.stage, a.key>>,
                                         {"artifact", "entry.json"}) : a \in ArtifactsOf(gs)}
                <=> \E a \in ArtifactsOf(gs) : q \in ArtifactTree(a)
  BY <1>5
<1> QED BY <1>1, <1>2, <1>4, <1>6 DEF Registry!Expected, ArtifactsOf

Body(gs) == Registry!Stage(gs) \o Registry!SyncDirectories

\* Everything up to the rename: each path is made in its place, checked and synced, and the
\* paths are those that a reader expects.
LEMMA BodyStretch ==
    ASSUME NEW gs \in Seq(Registry!Graphs)
    PROVE  Stretch(Body(gs), {}, {}, Registry!Expected(gs), {})
<1> DEFINE a == Registry!Mkdirs
           b == Registry!FlattenSeq([i \in DOMAIN gs |-> Registry!PublishGraph(gs, i)])
           c == Registry!GenerationFiles
           d == Registry!SyncDirectories
<1>1. Stretch(a, {}, SyncedLast, FixedDirs, {})
  BY MkdirsStretch
<1>2. Stretch(b, Roots, Roots, Made(b), {})
  BY GraphsPublished DEF Stretch
<1>3. Stretch(c, {Registry!generationRoot}, {<<>>}, GenerationTree, {})
  BY GenerationStretch
<1>4. Stretch(d, {}, {}, {}, SyncedLast)
  BY SyncStretch
<1>5. Body(gs) = ((a \o b) \o c) \o d
  BY DEF Body, Registry!Stage
<1>6. FixedDirs \cup Made(b) \cup GenerationTree = Registry!Expected(gs)
  <2>1. ASSUME NEW q PROVE q \in Registry!Expected(gs)
                              <=> q \in FixedDirs \/ q \in GenerationTree \/ q \in Made(b)
    BY GraphsPublished, ExpectedIs
  <2> HIDE DEF b
  <2> QED BY <2>1
<1>7. /\ Roots \subseteq FixedDirs /\ Roots \subseteq SyncedLast
      /\ Registry!generationRoot \in FixedDirs /\ <<>> \in SyncedLast
  BY DEF Roots, FixedDirs, SyncedLast
<1> HIDE DEF a, b, c, d
<1>8. Stretch(a \o b, {}, SyncedLast, FixedDirs \cup Made(b), {})
  BY <1>1, <1>2, <1>7, Follow
<1>9. Stretch((a \o b) \o c, {}, SyncedLast, FixedDirs \cup Made(b) \cup GenerationTree, {})
  BY <1>3, <1>7, <1>8, Follow
<1>10. Stretch(((a \o b) \o c) \o d, {}, {}, FixedDirs \cup Made(b) \cup GenerationTree, {})
  BY <1>4, <1>9, Follow
<1> QED BY <1>5, <1>6, <1>10

\* The program: its body, the rename and the sync of the parent directory.
LEMMA ProgramIs ==
    ASSUME NEW gs \in GraphLists
    PROVE  /\ Body(gs) \in Seq(Steps) /\ Len(Body(gs)) \in Nat
           /\ Sound(Body(gs), {}, {}) /\ Made(Body(gs)) = Registry!Expected(gs)
           /\ Len(Registry!Program(gs)) = Len(Body(gs)) + 2
           /\ \A k \in 1..Len(Body(gs)) : Registry!Program(gs)[k] = Body(gs)[k]
           /\ Registry!Program(gs)[Len(Body(gs)) + 1].verb = "rename"
           /\ Registry!Program(gs)[Len(Body(gs)) + 2].verb = "syncParent"
<1>1. gs \in Seq(Registry!Graphs)
  BY GraphsAssumption DEF Registry!RegistryAssumption
<1>2. /\ Body(gs) \in Seq(Steps) /\ Len(Body(gs)) \in Nat
      /\ Sound(Body(gs), {}, {}) /\ Made(Body(gs)) = Registry!Expected(gs)
  BY <1>1, BodyStretch DEF Stretch
<1> DEFINE b == Body(gs)  c == Registry!Commit
           E == [verb : Verbs \cup {"rename", "syncParent"}, path : Paths]
<1>3. Registry!Program(gs) = b \o c
  BY DEF Registry!Program, Body
<1>4. c \in Seq(E) /\ Len(c) = 2 /\ c[1].verb = "rename" /\ c[2].verb = "syncParent"
  BY FixedPaths DEF Registry!Commit, Registry!Do
<1>5. b \in Seq(E)
  <2>1. Steps \subseteq E
    BY DEF Steps
  <2> HIDE DEF b, E
  <2> QED BY <1>2, <2>1, SeqMonotonic DEF b
<1> HIDE DEF b, c, E
<1>6. /\ Len(b \o c) = Len(b) + 2
      /\ \A k \in 1..Len(b) : (b \o c)[k] = b[k]
      /\ (b \o c)[Len(b) + 1] = c[1] /\ (b \o c)[Len(b) + 2] = c[2]
  <2>1. /\ Len(b \o c) = Len(b) + Len(c) /\ Len(b) \in Nat
        /\ \A i \in 1..(Len(b) + Len(c)) :
              (b \o c)[i] = IF i <= Len(b) THEN b[i] ELSE c[i - Len(b)]
    BY <1>4, <1>5, ConcatProperties, LenProperties
  <2>2. /\ Len(b \o c) = Len(b) + 2
        /\ \A k \in 1..Len(b) : (b \o c)[k] = b[k]
    BY <1>4, <2>1
  <2>3. (b \o c)[Len(b) + 1] = c[1]
    BY <1>4, <2>1
  <2>4. (b \o c)[Len(b) + 2] = c[2]
    BY <1>4, <2>1
  <2> QED BY <2>2, <2>3, <2>4
<1> QED BY <1>2, <1>3, <1>4, <1>6 DEF b

-----------------------------------------------------------------------------
(* What a publisher's tree is at each step, and what a power failure leaves *)
(* of it.                                                                  *)

Trees == [paths : SUBSET Paths, bad : SUBSET Paths]
Synchronised == {"entry", "contents"} \X Paths

\* The paths made before step n.
MadeTo(s, n) == {s[k].path : k \in {k \in 1..(n - 1) : s[k].verb \in Making}}

\* Every path is in a directory of the tree.
Shape(t) ==
    /\ t.bad \subseteq t.paths
    /\ \A q \in t.paths : q # <<>> /\ (Len(q) > 1 => Registry!Front(q) \in t.paths)

\* A copy that may differ from its record has not been verified since.
Unverified(s, n, bad) ==
    \A q \in bad : \E k \in 1..(n - 1) :
        /\ s[k].verb = "copy" /\ s[k].path = q
        /\ \A i \in (k + 1)..(n - 1) : s[i].verb = "verify" => s[i].path # q

\* What was synced before step n is on disk.
Synchronises(s, n, d) ==
    /\ \A i \in 1..(n - 1) : \A q \in MadeTo(s, i) :
          s[i].verb = "sync" /\ Registry!Front(q) = s[i].path => <<"entry", q>> \in d
    /\ \A i \in 1..(n - 1) : s[i].verb = "syncFile" => <<"contents", s[i].path>> \in d

Staged(s, n, t, d) ==
    /\ t.paths = MadeTo(s, n) /\ Unverified(s, n, t.bad) /\ Synchronises(s, n, d)

\* All of a tree is on disk.
Safe(t, d) ==
    \A q \in t.paths : <<"entry", q>> \in d /\ (IsFile(q) => <<"contents", q>> \in d)

LEMMA StagedIsSafe ==
    ASSUME NEW s \in Seq(Steps), Sound(s, {}, {}), NEW t, NEW d, t.bad \subseteq t.paths,
           Staged(s, Len(s) + 1, t, d)
    PROVE  t.paths = Made(s) /\ t.bad = {} /\ Safe(t, d)
<1>1. Len(s) \in Nat
  BY LenProperties
<1>2. t.paths = Made(s)
  BY <1>1 DEF Staged, MadeTo, Made
<1>3. ASSUME NEW q \in t.bad PROVE FALSE
  <2>1. PICK k \in 1..Len(s) :
              /\ s[k].verb = "copy" /\ s[k].path = q
              /\ \A i \in (k + 1)..Len(s) : s[i].verb = "verify" => s[i].path # q
    BY <1>1 DEF Staged, Unverified
  <2>2. SoundAt(s, k, {}, {})
    BY <2>1 DEF Sound, Making
  <2>3. Later(s, k, "verify", q)
    BY <2>1, <2>2 DEF SoundAt
  <2> QED BY <2>1, <2>3 DEF Later
<1>4. ASSUME NEW q \in t.paths
      PROVE  <<"entry", q>> \in d /\ (IsFile(q) => <<"contents", q>> \in d)
  <2>1. PICK k \in 1..Len(s) : s[k].verb \in Making /\ s[k].path = q
    BY <1>2 DEF Made
  <2>2. SoundAt(s, k, {}, {})
    BY <2>1 DEF Sound
  <2>3. Later(s, k, "sync", Registry!Front(q)) /\ (IsFile(q) => Later(s, k, "syncFile", q))
    BY <2>1, <2>2 DEF SoundAt
  <2>4. <<"entry", q>> \in d
    <3>1. PICK i \in (k + 1)..Len(s) : s[i].verb = "sync" /\ s[i].path = Registry!Front(q)
      BY <2>3 DEF Later
    <3>2. q \in MadeTo(s, i) /\ i \in 1..(Len(s) + 1 - 1)
      BY <1>1, <2>1 DEF MadeTo
    <3>3. Synchronises(s, Len(s) + 1, d)
      BY DEF Staged
    <3> QED BY <3>1, <3>2, <3>3 DEF Synchronises
  <2>5. ASSUME IsFile(q) PROVE <<"contents", q>> \in d
    <3>1. PICK i \in (k + 1)..Len(s) : s[i].verb = "syncFile" /\ s[i].path = q
      BY <2>3, <2>5 DEF Later
    <3>2. i \in 1..Len(s)
      BY <1>1
    <3> QED BY <1>1, <3>1, <3>2 DEF Staged, Synchronises
  <2> QED BY <2>4, <2>5
<1> QED BY <1>2, <1>3, <1>4 DEF Safe

LEMMA PrefixFacts ==
    ASSUME NEW q \in Paths, NEW n \in 1..Len(q)
    PROVE  /\ SubSeq(q, 1, n) \in Paths /\ Len(SubSeq(q, 1, n)) = n
           /\ Registry!Front(SubSeq(q, 1, n)) = SubSeq(q, 1, n - 1)
           /\ \A m \in 1..n : SubSeq(SubSeq(q, 1, n), 1, m) = SubSeq(q, 1, m)
<1> USE DEF Paths
<1>1. q \in Seq(Words) /\ Len(q) \in Nat
  BY LenProperties
<1>2. SubSeq(q, 1, n) \in Seq(Words) /\ Len(SubSeq(q, 1, n)) = n
  BY <1>1
<1>3. ASSUME NEW m \in 0..n
      PROVE  SubSeq(SubSeq(q, 1, n), 1, m) = SubSeq(q, 1, m)
  <2> DEFINE s == SubSeq(q, 1, n)  a == SubSeq(s, 1, m)  b == SubSeq(q, 1, m)
  <2>0. s \in Seq(Words) /\ Len(s) = n /\ \A k \in 1..n : s[k] = q[k]
    BY <1>1
  <2>1. b \in Seq(Words) /\ Len(b) = m /\ \A k \in 1..m : b[k] = q[k]
    BY <1>1
  <2> HIDE DEF s
  <2>2. a \in Seq(Words) /\ Len(a) = m /\ \A k \in 1..m : a[k] = s[k]
    BY <2>0
  <2> HIDE DEF a, b
  <2>3. \A k \in 1..m : a[k] = b[k]
    BY <2>0, <2>1, <2>2
  <2>4. a = b
    BY <2>1, <2>2, <2>3, SeqEqual
  <2> QED BY <2>4 DEF a, b, s
<1>4. Registry!Front(SubSeq(q, 1, n)) = SubSeq(SubSeq(q, 1, n), 1, n - 1)
  BY <1>2 DEF Registry!Front
<1> QED BY <1>2, <1>3, <1>4

\* Every directory above a path is in the tree.
LEMMA PrefixClosed ==
    ASSUME NEW t \in Trees, Shape(t), NEW q \in t.paths, NEW n \in 1..Len(q)
    PROVE  SubSeq(q, 1, n) \in t.paths
<1>1. q \in Paths /\ Len(q) \in Nat
  BY LenProperties DEF Trees, Paths
<1> DEFINE T == {m \in 0..(Len(q) - 1) : SubSeq(q, 1, Len(q) - m) \notin t.paths}
<1>2. T = {}
  <2> SUFFICES ASSUME T # {} PROVE FALSE OBVIOUS
  <2>1. PICK m \in T : \A y \in T : m <= y
    <3>1. T \subseteq Nat
      OBVIOUS
    <3> HIDE DEF T
    <3> QED BY <3>1, LeastNat
  <2>2. m \in 0..(Len(q) - 1) /\ SubSeq(q, 1, Len(q) - m) \notin t.paths
    OBVIOUS
  <2>3. m # 0
    <3>1. SubSeq(q, 1, Len(q)) = q
      BY <1>1, SubSeqFull DEF Paths
    <3>2. ASSUME m = 0 PROVE Len(q) - m = Len(q)
      BY <1>1, <3>2
    <3> HIDE DEF T
    <3> QED BY <2>2, <3>1, <3>2
  <2>4. SubSeq(q, 1, Len(q) - (m - 1)) \in t.paths
    <3>1. m - 1 \in 0..(Len(q) - 1) /\ ~(m <= m - 1)
      BY <1>1, <2>2, <2>3
    <3>2. m - 1 \notin T
      <4> HIDE DEF T
      <4> QED BY <2>1, <3>1
    <3> QED BY <3>1, <3>2
  <2> HIDE DEF T
  <2> DEFINE k == Len(q) - (m - 1)
  <2>5. k \in 1..Len(q) /\ k > 1 /\ k - 1 = Len(q) - m
    BY <1>1, <2>2, <2>3
  <2>6. SubSeq(q, 1, k) \in t.paths
    BY <2>4
  <2> HIDE DEF k
  <2>7. Len(SubSeq(q, 1, k)) = k /\ Registry!Front(SubSeq(q, 1, k)) = SubSeq(q, 1, k - 1)
    BY <1>1, <2>5, PrefixFacts
  <2>8. SubSeq(q, 1, k - 1) \in t.paths
    BY <2>5, <2>6, <2>7 DEF Shape
  <2> QED BY <2>2, <2>5, <2>8
<1>3. Len(q) - n \in 0..(Len(q) - 1) /\ Len(q) - (Len(q) - n) = n
  BY <1>1
<1>4. Len(q) - n \notin T
  BY <1>2
<1> QED BY <1>3, <1>4

LEMMA SurvivesUp ==
    ASSUME NEW q \in Paths, Len(q) > 1, NEW d, Registry!Survives(d, q)
    PROVE  Registry!Survives(d, Registry!Front(q))
<1>1. Len(q) \in Nat /\ Len(q) - 1 \in 1..Len(q)
  BY LenProperties DEF Paths
<1> DEFINE u == SubSeq(q, 1, Len(q) - 1)
<1>2. Registry!Front(q) = u /\ Len(u) = Len(q) - 1
  BY <1>1, PrefixFacts DEF Registry!Front
<1>3. ASSUME NEW n \in 1..Len(u) PROVE <<"entry", SubSeq(u, 1, n)>> \in d
  <2>1. SubSeq(u, 1, n) = SubSeq(q, 1, n) /\ n \in 1..Len(q)
    BY <1>1, <1>2, PrefixFacts
  <2> QED BY <2>1 DEF Registry!Survives
<1> HIDE DEF u
<1> QED BY <1>2, <1>3 DEF Registry!Survives

\* A power failure leaves a tree, and all of a tree that is safe.
LEMMA OnDiskFacts ==
    ASSUME NEW t \in Trees, Shape(t), NEW d
    PROVE  /\ Registry!OnDisk(t, d) \in Trees /\ Shape(Registry!OnDisk(t, d))
           /\ t.paths = {} => Registry!OnDisk(t, d) = t
           /\ Safe(t, d) => Registry!OnDisk(t, d) = t
<1> DEFINE paths == {q \in t.paths : Registry!Survives(d, q)}
           unwritten == {q \in paths : IsFile(q) /\ <<"contents", q>> \notin d}
           bad == (t.bad \cap paths) \cup unwritten
<1>1. Registry!OnDisk(t, d) = [paths |-> paths, bad |-> bad]
  BY DEF Registry!OnDisk, IsFile
<1>2. paths \subseteq t.paths /\ bad \subseteq paths /\ t.paths \subseteq Paths
  BY DEF Trees
<1>3. ASSUME NEW q \in paths PROVE q # <<>> /\ (Len(q) > 1 => Registry!Front(q) \in paths)
  <2>1. q \in Paths /\ Registry!Survives(d, q) /\ q \in t.paths
    BY <1>2
  <2>2. q # <<>> /\ (Len(q) > 1 => Registry!Front(q) \in t.paths)
    BY <2>1 DEF Shape
  <2>3. Len(q) > 1 => Registry!Survives(d, Registry!Front(q))
    BY <2>1, SurvivesUp
  <2> QED BY <2>2, <2>3
<1>4. ASSUME Safe(t, d) PROVE paths = t.paths /\ unwritten = {}
  <2>1. ASSUME NEW q \in t.paths PROVE Registry!Survives(d, q)
    BY <1>4, PrefixClosed DEF Safe, Registry!Survives
  <2>2. ASSUME NEW q \in t.paths, IsFile(q) PROVE <<"contents", q>> \in d
    BY <1>4, <2>2 DEF Safe
  <2> QED BY <2>1, <2>2
<1>5. t = [paths |-> t.paths, bad |-> t.bad] /\ t.bad \subseteq t.paths
  BY DEF Trees, Shape
<1>6. ASSUME t.paths = {} PROVE paths = t.paths /\ unwritten = {}
  BY <1>6
<1>7. ASSUME paths = t.paths, unwritten = {} PROVE Registry!OnDisk(t, d) = t
  BY <1>1, <1>5, <1>7
<1> HIDE DEF paths, bad, unwritten
<1>8. Registry!OnDisk(t, d) \in Trees
  BY <1>1, <1>2 DEF Trees
<1>9. Shape(Registry!OnDisk(t, d))
  BY <1>1, <1>2, <1>3 DEF Shape
<1> QED BY <1>4, <1>6, <1>7, <1>8, <1>9

-----------------------------------------------------------------------------
(* The inductive invariant of the publication of registries.               *)

Statuses == {"new", "staging", "renamed", "published", "failed", "littered", "doubtful",
             "lost"}

RegistryTypes ==
    /\ graphs \in [Publishers -> GraphLists] /\ status \in [Publishers -> Statuses]
    /\ step \in [Publishers -> Nat \ {0}]
    /\ tree \in [Publishers -> Trees] /\ durable \in [Publishers -> SUBSET Synchronised]
    /\ stages \subseteq Publishers
    /\ root \in Publishers \cup {Nobody} /\ rootOnDisk \in {root, Nobody}
    /\ \A p \in Publishers : Shape(tree[p])

\* Where each publisher is in its program, and what it has staged by then.
Placed(p) ==
    LET last == Len(Body(graphs[p])) IN
    /\ step[p] <= last + 3
    /\ status[p] \in {"new", "failed"} => p \notin stages /\ tree[p] = Registry!EmptyTree
    /\ status[p] = "new" => step[p] = 1 /\ durable[p] = {}
    /\ status[p] \in {"new", "failed", "staging"} => root # p
    /\ status[p] = "staging" =>
          step[p] <= last + 1 /\ Staged(Body(graphs[p]), step[p], tree[p], durable[p])
    /\ status[p] = "renamed" =>
          /\ root = p /\ step[p] \in {last + 2, last + 3}
          /\ step[p] = last + 3 => rootOnDisk = p
    /\ status[p] = "published" => root = p /\ rootOnDisk = p

\* Whatever is at the target is complete, and all of it is on disk.
Whole(p) == Registry!Complete(p) /\ Safe(tree[p], durable[p])

RegistryInv ==
    /\ RegistryTypes
    /\ \A p \in Publishers : Placed(p)
    /\ root # Nobody => Whole(root)

LEMMA NobodyFacts == Nobody \notin Publishers /\ Nobody # "damaged"
BY GraphsAssumption DEF Registry!RegistryAssumption

LEMMA RegistryInitInv == Registry!Init => RegistryInv
<1> SUFFICES ASSUME Registry!Init PROVE RegistryInv
  OBVIOUS
<1>1. RegistryTypes
  <2>1. Registry!EmptyTree \in Trees /\ Shape(Registry!EmptyTree)
    BY DEF Registry!EmptyTree, Trees, Shape
  <2> QED BY <2>1 DEF Registry!Init, RegistryTypes, Statuses
<1>2. ASSUME NEW p \in Publishers PROVE Placed(p)
  <2>1. graphs[p] \in GraphLists
    BY <1>1 DEF RegistryTypes
  <2>2. Len(Body(graphs[p])) \in Nat
    BY <2>1, ProgramIs
  <2> QED BY <2>2, NobodyFacts DEF Registry!Init, Placed
<1> QED BY <1>1, <1>2 DEF Registry!Init, RegistryInv

\* One more step of the program.
LEMMA MadeToNext ==
    ASSUME NEW s, NEW n \in Nat \ {0}
    PROVE  MadeTo(s, n + 1)
             = MadeTo(s, n) \cup (IF s[n].verb \in Making THEN {s[n].path} ELSE {})
<1>1. \A k \in 1..(n + 1 - 1) : k \in 1..(n - 1) \/ k = n
  OBVIOUS
<1>2. n \in 1..(n + 1 - 1) /\ \A k \in 1..(n - 1) : k \in 1..(n + 1 - 1)
  OBVIOUS
<1>3. MadeTo(s, n + 1)
        \subseteq MadeTo(s, n) \cup (IF s[n].verb \in Making THEN {s[n].path} ELSE {})
  BY <1>1 DEF MadeTo
<1>4. MadeTo(s, n) \subseteq MadeTo(s, n + 1)
  BY <1>2 DEF MadeTo
<1>5. s[n].verb \in Making => s[n].path \in MadeTo(s, n + 1)
  BY <1>2 DEF MadeTo
<1> QED BY <1>3, <1>4, <1>5

\* A staging step on the state of one publisher: the next step of its program is done.
LEMMA StagingStep ==
    ASSUME NEW s \in Seq(Steps), Sound(s, {}, {}), NEW n \in 1..Len(s),
           NEW t \in Trees, NEW d \in SUBSET Synchronised, Shape(t), Staged(s, n, t, d),
           NEW u, NEW e,
           \/ s[n].verb \in Making /\ e = d /\ u.paths = t.paths \cup {s[n].path}
                /\ u.bad \in {t.bad, t.bad \cup {s[n].path}}
                /\ (u.bad # t.bad => s[n].verb = "copy")
           \/ s[n].verb = "verify" /\ s[n].path \notin t.bad /\ u = t /\ e = d
           \/ s[n].verb = "syncFile" /\ u = t /\ e = d \cup {<<"contents", s[n].path>>}
           \/ s[n].verb = "sync" /\ u = t
                /\ e = d \cup {<<"entry", q>> : q \in {q \in t.paths :
                                                          Registry!Front(q) = s[n].path}},
           u \in [paths : SUBSET Paths, bad : SUBSET Paths]
    PROVE  e \in SUBSET Synchronised /\ Shape(u) /\ Staged(s, n + 1, u, e)
<1>0. s[n] \in Steps /\ n \in Nat \ {0}
  BY ElementOfSeq
<1>1. e \in SUBSET Synchronised
  BY <1>0 DEF Synchronised, Steps, Trees
<1>2. MadeTo(s, n + 1) = MadeTo(s, n) \cup (IF s[n].verb \in Making THEN {s[n].path} ELSE {})
  BY <1>0, MadeToNext
<1>3. /\ t.paths = MadeTo(s, n) /\ Unverified(s, n, t.bad) /\ Synchronises(s, n, d)
  BY DEF Staged
<1>4. u.paths = MadeTo(s, n + 1)
  BY <1>2, <1>3 DEF Making
<1>5. Shape(u)
  <2>1. CASE s[n].verb \in Making
    <3>1. SoundAt(s, n, {}, {})
      BY <2>1 DEF Sound
    <3>2. s[n].path # <<>>
      BY <3>1 DEF SoundAt
    <3>3. ASSUME Len(s[n].path) > 1 PROVE Registry!Front(s[n].path) \in t.paths
      <4>1. Earlier(s, n, Registry!Front(s[n].path))
        BY <3>1, <3>3 DEF SoundAt
      <4> QED BY <1>3, <4>1 DEF Earlier, MadeTo
    <3>4. u.paths = t.paths \cup {s[n].path} /\ u.bad \subseteq t.bad \cup {s[n].path}
      BY <2>1 DEF Making
    <3> QED BY <3>2, <3>3, <3>4 DEF Shape
  <2>2. CASE s[n].verb \notin Making
    BY <2>2
  <2> QED BY <2>1, <2>2
<1>6. Unverified(s, n + 1, u.bad)
  <2> SUFFICES ASSUME NEW q \in u.bad
               PROVE  \E k \in 1..n : /\ s[k].verb = "copy" /\ s[k].path = q
                                      /\ \A i \in (k + 1)..n : s[i].verb = "verify" => s[i].path # q
    BY <1>0 DEF Unverified
  <2>1. CASE q \in t.bad
    <3>1. PICK k \in 1..(n - 1) :
              /\ s[k].verb = "copy" /\ s[k].path = q
              /\ \A i \in (k + 1)..(n - 1) : s[i].verb = "verify" => s[i].path # q
      BY <1>3, <2>1 DEF Unverified
    <3>2. s[n].verb = "verify" => s[n].path # q
      BY <2>1 DEF Making
    <3>3. \A i \in (k + 1)..n : i \in (k + 1)..(n - 1) \/ i = n
      BY <1>0
    <3>4. k \in 1..n
      BY <1>0
    <3>5. \A i \in (k + 1)..n : s[i].verb = "verify" => s[i].path # q
      BY <3>1, <3>2, <3>3
    <3> QED BY <3>1, <3>4, <3>5
  <2>2. CASE q \notin t.bad
    <3>1. s[n].verb = "copy" /\ s[n].path = q
      BY <2>2
    <3>2. n \in 1..n /\ \A i \in (n + 1)..n : FALSE
      BY <1>0
    <3> QED BY <3>1, <3>2
  <2> QED BY <2>1, <2>2
<1>7. Synchronises(s, n + 1, e)
  <2>1. \A i \in 1..(n + 1 - 1) : i \in 1..(n - 1) \/ i = n
    BY <1>0
  <2>2. d \subseteq e
    OBVIOUS
  <2>3. ASSUME NEW i \in 1..(n + 1 - 1), NEW q \in MadeTo(s, i), s[i].verb = "sync",
               Registry!Front(q) = s[i].path
        PROVE  <<"entry", q>> \in e
    <3>1. CASE i \in 1..(n - 1)
      BY <1>3, <2>2, <2>3, <3>1 DEF Synchronises
    <3>2. CASE i = n
      BY <1>3, <2>3, <3>2 DEF Making
    <3> QED BY <2>1, <3>1, <3>2
  <2>4. ASSUME NEW i \in 1..(n + 1 - 1), s[i].verb = "syncFile"
        PROVE  <<"contents", s[i].path>> \in e
    <3>1. CASE i \in 1..(n - 1)
      BY <1>3, <2>2, <2>4, <3>1 DEF Synchronises
    <3>2. CASE i = n
      BY <2>4, <3>2 DEF Making
    <3> QED BY <2>1, <3>1, <3>2
  <2> QED BY <2>3, <2>4 DEF Synchronises
<1> QED BY <1>1, <1>4, <1>5, <1>6, <1>7 DEF Staged

Kept(q) ==
    /\ graphs' = graphs /\ status'[q] = status[q] /\ step'[q] = step[q]
    /\ tree'[q] = tree[q] /\ durable'[q] = durable[q]
    /\ (q \in stages') <=> (q \in stages)

\* What one publisher does leaves the others where they are.
LEMMA OthersPlaced ==
    ASSUME RegistryInv, NEW q \in Publishers, Kept(q),
           \/ root' = root /\ rootOnDisk' \in {rootOnDisk, root}
           \/ root = Nobody /\ root' # q
    PROVE  Placed(q)'
<1>1. Placed(q) /\ root \in Publishers \cup {Nobody} /\ rootOnDisk \in {root, Nobody}
  BY DEF RegistryInv, RegistryTypes
<1>2. Body(graphs[q])' = Body(graphs[q])
  BY DEF Kept
<1> QED BY <1>1, <1>2, NobodyFacts DEF Kept, Placed

LEMMA WholeKept ==
    ASSUME RegistryInv, root' = root, root # Nobody => Kept(root)
    PROVE  root' # Nobody => Whole(root)'
<1> SUFFICES ASSUME root # Nobody PROVE Whole(root)'
  OBVIOUS
<1>1. Whole(root) /\ Kept(root)
  BY DEF RegistryInv
<1> QED BY <1>1 DEF Whole, Kept, Registry!Complete

LEMMA BeginStep ==
    ASSUME RegistryInv, NEW p \in Publishers, Registry!Begin(p)
    PROVE  RegistryInv'
<1> USE DEF Registry!Begin
<1>0. RegistryTypes /\ graphs[p] \in GraphLists
  BY DEF RegistryInv, RegistryTypes
<1>1. RegistryTypes'
  BY <1>0 DEF RegistryTypes, Statuses
<1>2. Placed(p)'
  <2>1. Placed(p) /\ Len(Body(graphs[p])) \in Nat
    BY <1>0, ProgramIs DEF RegistryInv
  <2>2. /\ \/ status'[p] \in {"staging", "littered"}
           \/ status'[p] = "failed" /\ p \notin stages'
        /\ step'[p] = 1 /\ root' # p
    BY <1>0, <2>1 DEF Placed, RegistryTypes
  <2>3. Staged(Body(graphs[p]), 1, Registry!EmptyTree, {})
    BY DEF Staged, MadeTo, Unverified, Synchronises, Registry!EmptyTree
  <2>4. /\ tree'[p] = Registry!EmptyTree /\ durable'[p] = {}
        /\ Body(graphs[p])' = Body(graphs[p])
    BY <2>1 DEF Placed
  <2> HIDE DEF Registry!Begin
  <2> QED BY <2>1, <2>2, <2>3, <2>4 DEF Placed
<1>3. \A q \in Publishers \ {p} : Placed(q)'
  <2>1. \A q \in Publishers \ {p} : Kept(q)
    BY <1>0 DEF RegistryTypes, Kept
  <2> QED BY <2>1, OthersPlaced
<1>4. root' # Nobody => Whole(root)'
  <2>1. Whole(root)' <=> Whole(root)
    BY DEF Whole, Registry!Complete
  <2> QED BY <2>1 DEF RegistryInv
<1> QED BY <1>1, <1>2, <1>3, <1>4 DEF RegistryInv

LEMMA FailStep ==
    ASSUME RegistryInv, NEW p \in Publishers, Registry!Active(p), Registry!FailWith(p)
    PROVE  RegistryInv'
<1> USE DEF Registry!FailWith
<1>0. RegistryTypes /\ graphs[p] \in GraphLists
  BY DEF RegistryInv, RegistryTypes
<1>1. RegistryTypes'
  <2>1. Registry!EmptyTree \in Trees /\ Shape(Registry!EmptyTree)
    BY DEF Registry!EmptyTree, Trees, Shape
  <2> QED BY <1>0, <2>1 DEF RegistryTypes, Statuses
<1>2. Placed(p)'
  <2>1. Placed(p) /\ Len(Body(graphs[p])) \in Nat
    BY <1>0, ProgramIs DEF RegistryInv
  <2>2. \/ status'[p] \in {"doubtful", "littered"}
        \/ /\ status'[p] = "failed" /\ root' # p
           /\ p \notin stages' /\ tree'[p] = Registry!EmptyTree
    BY <1>0 DEF RegistryTypes
  <2> QED BY <2>1, <2>2 DEF Placed
<1>3. \A q \in Publishers \ {p} : Kept(q)
  BY <1>0 DEF RegistryTypes, Kept
<1>4. \A q \in Publishers \ {p} : Placed(q)'
  BY <1>3, OthersPlaced
<1>5. root' # Nobody => Whole(root)'
  <2>1. CASE root = p
    BY <2>1 DEF RegistryInv, Whole, Registry!Complete
  <2>2. CASE root # p
    BY <1>0, <1>3, <2>2, WholeKept DEF RegistryTypes
  <2> QED BY <2>1, <2>2
<1> QED BY <1>1, <1>2, <1>4, <1>5 DEF RegistryInv

LEMMA ReturnStep ==
    ASSUME RegistryInv, NEW p \in Publishers, Registry!Return(p)
    PROVE  RegistryInv' /\ root = p
<1> USE DEF Registry!Return, Registry!Active
<1>0. RegistryTypes /\ graphs[p] \in GraphLists
  BY DEF RegistryInv, RegistryTypes
<1>1. RegistryTypes'
  BY <1>0 DEF RegistryTypes, Statuses
<1>2. root = p /\ rootOnDisk = p
  <2>1. /\ Placed(p) /\ Len(Body(graphs[p])) \in Nat /\ step[p] \in Nat
        /\ step[p] > Len(Body(graphs[p])) + 2
    BY <1>0, ProgramIs DEF RegistryInv, RegistryTypes
  <2>2. status[p] = "renamed" /\ step[p] = Len(Body(graphs[p])) + 3
    BY <2>1 DEF Placed
  <2> QED BY <2>1, <2>2 DEF Placed
<1>3. Placed(p)'
  <2>1. status'[p] = "published"
    BY <1>0 DEF RegistryTypes
  <2> QED BY <1>2, <2>1 DEF RegistryInv, Placed
<1>4. \A q \in Publishers \ {p} : Placed(q)'
  <2>1. \A q \in Publishers \ {p} : Kept(q)
    BY <1>0 DEF RegistryTypes, Kept
  <2> QED BY <2>1, OthersPlaced
<1>5. root' # Nobody => Whole(root)'
  <2>1. Whole(root)' <=> Whole(root)
    BY DEF Whole, Registry!Complete
  <2> QED BY <2>1 DEF RegistryInv
<1> QED BY <1>1, <1>2, <1>3, <1>4, <1>5 DEF RegistryInv

LEMMA ProgramStep ==
    ASSUME RegistryInv, NEW p \in Publishers, Registry!Step(p)
    PROVE  /\ RegistryInv'
           /\ root' # root => root = Nobody /\ root' = p
<1> DEFINE s == Body(graphs[p])  n == step[p]  do == Registry!Program(graphs[p])[n]
<1>0. /\ RegistryTypes /\ graphs[p] \in GraphLists /\ Placed(p)
      /\ n \in Nat \ {0} /\ tree[p] \in Trees /\ Shape(tree[p])
      /\ durable[p] \in SUBSET Synchronised
  BY DEF RegistryInv, RegistryTypes
<1>1. /\ s \in Seq(Steps) /\ Len(s) \in Nat /\ Sound(s, {}, {})
      /\ Made(s) = Registry!Expected(graphs[p])
      /\ Len(Registry!Program(graphs[p])) = Len(s) + 2
      /\ n <= Len(s) => do = s[n]
      /\ n = Len(s) + 1 => do.verb = "rename"
      /\ n = Len(s) + 2 => do.verb = "syncParent"
  BY <1>0, ProgramIs
<1>2. /\ status[p] \in {"staging", "renamed"} /\ n <= Len(s) + 2
      /\ Registry!Staging(p, do) \/ Registry!Publishing(p, do)
      /\ step' = [step EXCEPT ![p] = n + 1] /\ graphs' = graphs
  BY <1>1 DEF Registry!Step, Registry!Active
<1>3. s' = s
  BY <1>2
<1> HIDE DEF do
<1>4. CASE n <= Len(s)
  <2>1. n \in 1..Len(s) /\ do = s[n] /\ do.verb \in Verbs
    <3>1. n \in 1..Len(s)
      BY <1>0, <1>1, <1>4
    <3> HIDE DEF s, n
    <3>2. s[n] \in Steps
      BY <1>1, <3>1, ElementOfSeq
    <3> QED BY <1>1, <1>4, <3>1, <3>2 DEF Steps
  <2>2. status[p] = "staging" /\ Staged(s, n, tree[p], durable[p]) /\ root # p
    BY <1>0, <1>1, <1>2, <1>4 DEF Placed
  <2>3. Registry!Staging(p, do)
    BY <1>2, <2>1 DEF Registry!Publishing, Verbs, Making
  <2>4. PICK t, d : /\ Registry!Advance(p, t, d)
                    /\ \/ do.verb \in Making /\ d = durable[p]
                             /\ t.paths = tree[p].paths \cup {do.path}
                             /\ t.bad \in {tree[p].bad, tree[p].bad \cup {do.path}}
                             /\ (t.bad # tree[p].bad => do.verb = "copy")
                       \/ do.verb = "verify" /\ do.path \notin tree[p].bad /\ t = tree[p]
                             /\ d = durable[p]
                       \/ do.verb = "syncFile" /\ t = tree[p]
                             /\ d = durable[p] \cup {<<"contents", do.path>>}
                       \/ do.verb = "sync" /\ t = tree[p]
                             /\ d = durable[p] \cup {<<"entry", q>> : q \in
                                      {q \in tree[p].paths : Registry!Front(q) = do.path}}
                    /\ t \in [paths : SUBSET Paths, bad : SUBSET Paths]
    <3>0. do.path \in Paths /\ tree[p] = [paths |-> tree[p].paths, bad |-> tree[p].bad]
      <4>1. do \in Steps
        BY <2>1, <1>1, ElementOfSeq
      <4> QED BY <1>0, <4>1 DEF Steps, Trees
    <3>1. CASE do.verb \in {"mkdir", "write", "ensure"}
      <4> DEFINE t == [tree[p] EXCEPT !.paths = @ \cup {do.path}]
      <4>1. Registry!Advance(p, t, durable[p])
        BY <2>3, <3>1 DEF Registry!Staging
      <4>2. t.paths = tree[p].paths \cup {do.path} /\ t.bad = tree[p].bad /\ t \in Trees
        BY <1>0, <3>0 DEF Trees
      <4> HIDE DEF t
      <4> QED BY <3>1, <4>1, <4>2 DEF Making, Trees
    <3>2. CASE do.verb = "copy"
      <4>1. PICK bad \in {{}, {do.path}} :
               Registry!Advance(p, [paths |-> tree[p].paths \cup {do.path},
                                    bad |-> tree[p].bad \cup bad], durable[p])
        BY <2>3, <3>2 DEF Registry!Staging
      <4> DEFINE t == [paths |-> tree[p].paths \cup {do.path}, bad |-> tree[p].bad \cup bad]
      <4>2. /\ t.paths = tree[p].paths \cup {do.path} /\ t \in Trees
            /\ t.bad \in {tree[p].bad, tree[p].bad \cup {do.path}}
        BY <1>0, <3>0 DEF Trees
      <4>3. Registry!Advance(p, t, durable[p])
        BY <4>1
      <4> HIDE DEF t
      <4> QED BY <3>2, <4>2, <4>3 DEF Making, Trees
    <3>3. CASE do.verb = "verify"
      BY <1>0, <2>3, <3>3 DEF Registry!Staging, Trees
    <3>4. CASE do.verb = "syncFile"
      BY <1>0, <2>3, <3>4 DEF Registry!Staging, Trees
    <3>5. CASE do.verb = "sync"
      BY <1>0, <2>3, <3>5 DEF Registry!Staging, Trees
    <3>6. do.verb # "fail"
      BY <2>3 DEF Registry!Staging
    <3> QED BY <2>1, <3>1, <3>2, <3>3, <3>4, <3>5, <3>6 DEF Verbs, Making
  <2>5. d \in SUBSET Synchronised /\ Shape(t) /\ Staged(s, n + 1, t, d)
    <3>1. \/ s[n].verb \in Making /\ d = durable[p] /\ t.paths = tree[p].paths \cup {s[n].path}
               /\ t.bad \in {tree[p].bad, tree[p].bad \cup {s[n].path}}
               /\ (t.bad # tree[p].bad => s[n].verb = "copy")
          \/ s[n].verb = "verify" /\ s[n].path \notin tree[p].bad /\ t = tree[p] /\ d = durable[p]
          \/ s[n].verb = "syncFile" /\ t = tree[p]
               /\ d = durable[p] \cup {<<"contents", s[n].path>>}
          \/ s[n].verb = "sync" /\ t = tree[p]
               /\ d = durable[p] \cup {<<"entry", q>> : q \in
                        {q \in tree[p].paths : Registry!Front(q) = s[n].path}}
      BY <2>1, <2>4
    <3> HIDE DEF s, n
    <3> QED BY <1>0, <1>1, <2>1, <2>2, <2>4, <3>1, StagingStep
  <2>6. /\ tree' = [tree EXCEPT ![p] = t] /\ durable' = [durable EXCEPT ![p] = d]
        /\ UNCHANGED <<stages, root, rootOnDisk, status>> /\ t \in Trees
    BY <2>4 DEF Registry!Advance, Trees
  <2>7. RegistryTypes'
    BY <1>0, <1>2, <2>5, <2>6 DEF RegistryTypes
  <2>8. Placed(p)'
    <3>1. /\ tree'[p] = t /\ durable'[p] = d /\ step'[p] = n + 1 /\ status'[p] = "staging"
          /\ root' # p
      BY <1>0, <1>2, <2>2, <2>6 DEF RegistryTypes
    <3>2. n + 1 <= Len(s) + 3 /\ n + 1 <= Len(s) + 1
      BY <1>1, <1>4, <1>0
    <3>3. Body(graphs[p])' = s
      BY <1>3
    <3>4. Staged(s, n + 1, t, d)
      BY <2>5
    <3> QED BY <3>1, <3>2, <3>3, <3>4 DEF Placed
  <2>9. \A q \in Publishers \ {p} : Kept(q)
    BY <1>0, <1>2, <2>6 DEF RegistryTypes, Kept
  <2>10. \A q \in Publishers \ {p} : Placed(q)'
    BY <2>6, <2>9, OthersPlaced
  <2>11. root' # Nobody => Whole(root)'
    <3>1. root # Nobody => Kept(root)
      BY <1>0, <2>2, <2>9 DEF RegistryTypes
    <3> QED BY <2>6, <3>1, WholeKept
  <2> QED BY <2>6, <2>7, <2>8, <2>10, <2>11 DEF RegistryInv
<1>5. CASE n = Len(s) + 1
  <2>1. do.verb = "rename"
    BY <1>1, <1>5
  <2>2. /\ root = Nobody /\ root' = p /\ status' = [status EXCEPT ![p] = "renamed"]
        /\ stages' = stages \ {p} /\ UNCHANGED <<tree, durable, rootOnDisk>>
    BY <1>2, <2>1 DEF Registry!Staging, Registry!Publishing
  <2>3. status[p] = "staging" /\ Staged(s, Len(s) + 1, tree[p], durable[p])
    BY <1>0, <1>1, <1>2, <1>5 DEF Placed
  <2>4. Whole(p)
    <3>1. tree[p].bad \subseteq tree[p].paths
      BY <1>0 DEF Shape
    <3>2. tree[p].paths = Made(s) /\ tree[p].bad = {} /\ Safe(tree[p], durable[p])
      BY <1>1, <2>3, <3>1, StagedIsSafe
    <3> QED BY <1>1, <3>2 DEF Whole, Registry!Complete
  <2>5. Whole(root)'
    <3>1. Whole(p)'
      BY <1>2, <2>2, <2>4 DEF Whole, Registry!Complete
    <3> QED BY <2>2, <3>1
  <2>6. RegistryTypes'
    BY <1>0, <1>2, <2>2 DEF RegistryTypes, Statuses
  <2>7. Placed(p)'
    <3>1. status'[p] = "renamed" /\ step'[p] = Len(s) + 2 /\ root' = p
      BY <1>0, <1>2, <1>5, <2>2 DEF RegistryTypes
    <3> QED BY <1>1, <1>2, <3>1 DEF Placed
  <2>8. \A q \in Publishers \ {p} : Kept(q)
    BY <1>0, <1>2, <2>2 DEF RegistryTypes, Kept
  <2>9. \A q \in Publishers \ {p} : Placed(q)'
    BY <2>2, <2>8, OthersPlaced
  <2> QED BY <2>2, <2>5, <2>6, <2>7, <2>9 DEF RegistryInv
<1>6. CASE n = Len(s) + 2
  <2>1. do.verb = "syncParent"
    BY <1>1, <1>6
  <2>2. /\ rootOnDisk' = root /\ UNCHANGED <<tree, stages, durable, status, root>>
    BY <1>2, <2>1 DEF Registry!Staging, Registry!Publishing
  <2>3. status[p] = "renamed" /\ root = p
    BY <1>0, <1>1, <1>2, <1>6 DEF Placed
  <2>4. RegistryTypes'
    BY <1>0, <1>2, <2>2 DEF RegistryTypes
  <2>5. Placed(p)'
    <3>1. status'[p] = "renamed" /\ step'[p] = Len(s) + 3 /\ root' = p /\ rootOnDisk' = p
      BY <1>0, <1>2, <1>6, <2>2, <2>3 DEF RegistryTypes
    <3> QED BY <1>1, <1>2, <3>1 DEF Placed
  <2>6. \A q \in Publishers \ {p} : Kept(q)
    BY <1>0, <1>2, <2>2 DEF RegistryTypes, Kept
  <2>7. \A q \in Publishers \ {p} : Placed(q)'
    BY <2>2, <2>6, OthersPlaced
  <2>8. root' # Nobody => Whole(root)'
    <3>1. Whole(root)' <=> Whole(root)
      BY <1>2, <2>2 DEF Whole, Registry!Complete
    <3> QED BY <2>2, <3>1 DEF RegistryInv
  <2> QED BY <2>2, <2>4, <2>5, <2>7, <2>8 DEF RegistryInv
<1>7. n <= Len(s) \/ n = Len(s) + 1 \/ n = Len(s) + 2
  BY <1>0, <1>1, <1>2
<1> QED BY <1>4, <1>5, <1>6, <1>7


AfterPowerFailure(what) ==
    IF what \in {"staging", "renamed"} THEN "lost"
    ELSE IF what = "failed" THEN "littered" ELSE what

\* A power failure takes back what was not on disk, and nothing that anyone was told of.
LEMMA PowerFailureStep ==
    ASSUME RegistryInv, Registry!PowerFailure
    PROVE  /\ RegistryInv'
           /\ root' \in {root, Nobody} /\ graphs' = graphs
           /\ root' # root => \A p \in Publishers : status[p] # "published"
           /\ root' # Nobody => tree'[root] = tree[root]
           /\ \A p \in Publishers :
                 status'[p] = AfterPowerFailure(status[p])
<1>0. /\ RegistryTypes /\ \A p \in Publishers : Placed(p)
      /\ root \in Publishers \cup {Nobody} /\ rootOnDisk \in {root, Nobody}
  BY DEF RegistryInv, RegistryTypes
<1>1. /\ root' \in {root, rootOnDisk} /\ rootOnDisk' = root'
      /\ graphs' = graphs /\ step' = step /\ durable' = durable
      /\ tree' = tree \/ tree' = [p \in Publishers |-> Registry!OnDisk(tree[p], durable[p])]
      /\ status' = [p \in Publishers |-> AfterPowerFailure(status[p])]
      /\ stages' = stages \cup ({root} \ {root', Nobody})
  BY DEF Registry!PowerFailure, Registry!Active, AfterPowerFailure
<1>2. ASSUME NEW p \in Publishers
      PROVE  /\ tree'[p] \in Trees /\ Shape(tree'[p])
             /\ tree[p] = Registry!EmptyTree => tree'[p] = Registry!EmptyTree
             /\ Safe(tree[p], durable[p]) => tree'[p] = tree[p]
  <2>1. tree[p] \in Trees /\ Shape(tree[p])
    BY <1>0 DEF RegistryTypes
  <2>2. tree[p] = Registry!EmptyTree => tree[p].paths = {}
    BY DEF Registry!EmptyTree
  <2>3. tree'[p] = tree[p] \/ tree'[p] = Registry!OnDisk(tree[p], durable[p])
    BY <1>1
  <2> QED BY <2>1, <2>2, <2>3, OnDiskFacts
<1>3. tree' \in [Publishers -> Trees]
  <2>1. CASE tree' = tree
    BY <1>0, <2>1 DEF RegistryTypes
  <2>2. CASE tree' = [p \in Publishers |-> Registry!OnDisk(tree[p], durable[p])]
    <3>1. \A p \in Publishers : Registry!OnDisk(tree[p], durable[p]) \in Trees
      BY <1>2, <2>2
    <3> QED BY <2>2, <3>1
  <2> QED BY <1>1, <2>1, <2>2
<1>4. \A p \in Publishers : status'[p] = AfterPowerFailure(status[p])
  BY <1>1
<1>5. RegistryTypes'
  <2>1. status' \in [Publishers -> Statuses]
    BY <1>0, <1>1 DEF RegistryTypes, Statuses, AfterPowerFailure
  <2>2. \A p \in Publishers : Shape(tree[p])'
    BY <1>2
  <2>3. /\ root' \in Publishers \cup {Nobody} /\ rootOnDisk' \in {root', Nobody}
        /\ stages' \subseteq Publishers
    BY <1>0, <1>1 DEF RegistryTypes
  <2> QED BY <1>0, <1>1, <1>3, <2>1, <2>2, <2>3 DEF RegistryTypes
<1>6. ASSUME NEW p \in Publishers PROVE Placed(p)'
  <2>1. Placed(p) /\ Body(graphs[p])' = Body(graphs[p]) /\ p # Nobody
    BY <1>0, <1>1, NobodyFacts
  <2>2. step'[p] = step[p] /\ durable'[p] = durable[p]
    BY <1>1
  <2>3. /\ status'[p] \notin {"staging", "renamed", "failed"}
        /\ status'[p] \in {"new", "published"} => status'[p] = status[p]
    BY <1>4 DEF AfterPowerFailure
  <2>6. status'[p] = "new" => p \notin stages'
    BY <1>1, <2>1, <2>3 DEF Placed
  <2>4. root # p => root' # p
    BY <1>0, <1>1, <2>1
  <2>5. root = p /\ rootOnDisk = p => root' = p /\ rootOnDisk' = p
    BY <1>1
  <2> QED BY <1>2, <2>1, <2>2, <2>3, <2>4, <2>5, <2>6 DEF Placed
<1>7. root' # Nobody => root' = root /\ Whole(root) /\ tree'[root] = tree[root]
  BY <1>0, <1>1, <1>2 DEF RegistryInv, Whole
<1>8. root' # Nobody => Whole(root)'
  BY <1>1, <1>7 DEF Whole, Registry!Complete
<1>9. root' # root => \A p \in Publishers : status[p] # "published"
  BY <1>0, <1>1 DEF Placed
<1>10. RegistryInv'
  BY <1>5, <1>6, <1>8 DEF RegistryInv
<1> QED BY <1>0, <1>1, <1>4, <1>7, <1>9, <1>10

LEMMA RegistryNextInv ==
    ASSUME RegistryInv, [Registry!Next]_(Registry!vars)
    PROVE  RegistryInv'
<1>1. CASE Registry!PowerFailure
  BY <1>1, PowerFailureStep
<1>2. ASSUME NEW p \in Publishers, Registry!Begin(p) PROVE RegistryInv'
  BY <1>2, BeginStep
<1>3. ASSUME NEW p \in Publishers, Registry!Step(p) PROVE RegistryInv'
  BY <1>3, ProgramStep
<1>4. ASSUME NEW p \in Publishers, Registry!Refused(p) \/ Registry!Error(p) PROVE RegistryInv'
  <2>1. Registry!Active(p) /\ Registry!FailWith(p)
    BY <1>4 DEF Registry!Refused, Registry!Error
  <2> QED BY <2>1, FailStep
<1>5. ASSUME NEW p \in Publishers, Registry!Return(p) PROVE RegistryInv'
  BY <1>5, ReturnStep
<1>6. CASE UNCHANGED Registry!vars
  <2>1. UNCHANGED <<graphs, status, step, tree, stages, durable, root, rootOnDisk>>
    BY <1>6 DEF Registry!vars
  <2>2. RegistryTypes'
    BY <2>1 DEF RegistryTypes, RegistryInv
  <2>3. \A p \in Publishers : Kept(p)
    BY <2>1 DEF Kept
  <2>4. \A p \in Publishers : Placed(p)'
    BY <2>1, <2>3, OthersPlaced
  <2>5. root \in Publishers \cup {Nobody}
    BY DEF RegistryInv, RegistryTypes
  <2>6. root' # Nobody => Whole(root)'
    BY <2>1, <2>3, <2>5, WholeKept
  <2> QED BY <2>2, <2>4, <2>6 DEF RegistryInv
<1> QED BY <1>1, <1>2, <1>3, <1>4, <1>5, <1>6 DEF Registry!Next

\* What a publisher was told, and what is at the target.
Failures == {"failed", "littered", "doubtful"}
PublisherAnswer(p) ==
    IF status[p] = "published" THEN "success"
    ELSE IF status[p] \in Failures THEN "failure" ELSE "none"
TargetContent ==
    IF root = Nobody THEN Nobody ELSE IF Registry!Complete(root) THEN root ELSE "damaged"

LEMMA WholeContent ==
    ASSUME RegistryInv
    PROVE  TargetContent = root
BY DEF RegistryInv, Whole, TargetContent

\* A step that changes what one publisher was told, and nothing of the target.
LEMMA AnswerOne ==
    ASSUME RegistryInv, NEW p \in Publishers, NEW next \in Statuses,
           status' = [status EXCEPT ![p] = next], root' = root, TargetContent' = TargetContent,
           status[p] \in {"new", "staging", "renamed"}, next # "new",
           next = "published" => root = p
    PROVE  [Registry!Publication!Next]_(Registry!Publication!vars)
<1> DEFINE answer == [q \in Publishers |-> PublisherAnswer(q)]
<1>1. TargetContent = root
  BY WholeContent
<1>2. /\ \A q \in Publishers \ {p} : PublisherAnswer(q)' = PublisherAnswer(q)
      /\ PublisherAnswer(p) = "none"
      /\ PublisherAnswer(p)' = IF next = "published" THEN "success"
                               ELSE IF next \in Failures THEN "failure" ELSE "none"
  BY DEF PublisherAnswer, Failures, RegistryInv, RegistryTypes
<1>3. answer' = [answer EXCEPT ![p] = PublisherAnswer(p)']
  BY <1>2
<1>4. CASE next \notin {"published"} \cup Failures
  <2>1. answer' = answer
    BY <1>2, <1>4
  <2> QED BY <2>1 DEF Registry!Publication!vars, TargetContent, PublisherAnswer, Failures
<1>5. CASE next \in Failures
  <2>1. Registry!Publication!Fail(p)
    BY <1>2, <1>3, <1>5 DEF Registry!Publication!Fail, TargetContent, PublisherAnswer, Failures
  <2> QED BY <2>1 DEF Registry!Publication!Next
<1>6. CASE next = "published"
  <2>1. Registry!Publication!Succeed(p)
    BY <1>1, <1>2, <1>3, <1>6
    DEF Registry!Publication!Succeed, TargetContent, PublisherAnswer, Failures
  <2> QED BY <2>1 DEF Registry!Publication!Next
<1> QED BY <1>4, <1>5, <1>6

\* Every step is one of the abstract publication, or is not seen by publishers and readers.
LEMMA RegistryImplements ==
    ASSUME RegistryInv, [Registry!Next]_(Registry!vars)
    PROVE  [Registry!Publication!Next]_(Registry!Publication!vars)
<1>0. /\ RegistryInv' /\ TargetContent = root /\ TargetContent' = root'
      /\ root \in Publishers \cup {Nobody} /\ status \in [Publishers -> Statuses]
  <2>1. RegistryInv'
    BY RegistryNextInv
  <2>2. TargetContent = root
    BY WholeContent
  <2>3. TargetContent' = root'
    BY <2>1 DEF RegistryInv, Whole, TargetContent
  <2> QED BY <2>1, <2>2, <2>3 DEF RegistryInv, RegistryTypes
<1>1. CASE Registry!PowerFailure
  <2>1. /\ root' \in {root, Nobody}
        /\ root' # root => \A p \in Publishers : status[p] # "published"
        /\ \A p \in Publishers : status'[p] = AfterPowerFailure(status[p])
    BY <1>1, PowerFailureStep
  <2>2. \A p \in Publishers : PublisherAnswer(p)' = PublisherAnswer(p)
    BY <2>1 DEF PublisherAnswer, AfterPowerFailure, Failures
  <2>3. CASE root' = root
    BY <1>0, <2>2, <2>3 DEF Registry!Publication!vars, TargetContent, PublisherAnswer, Failures
  <2>4. CASE root' # root
    <3>1. \A p \in Publishers : PublisherAnswer(p) # "success"
      BY <2>1, <2>4 DEF PublisherAnswer
    <3>2. TargetContent # Nobody /\ TargetContent' = Nobody
      BY <1>0, <2>1, <2>4
    <3>3. Registry!Publication!Vanish
      BY <2>2, <3>1, <3>2 DEF Registry!Publication!Vanish, TargetContent, PublisherAnswer, Failures
    <3> QED BY <3>3 DEF Registry!Publication!Next
  <2> QED BY <2>3, <2>4
<1>2. ASSUME NEW p \in Publishers, Registry!Begin(p)
      PROVE  [Registry!Publication!Next]_(Registry!Publication!vars)
  <2>1. PICK next \in {"failed", "littered", "staging"} : status' = [status EXCEPT ![p] = next]
    BY <1>2 DEF Registry!Begin
  <2>2. status[p] = "new" /\ root' = root
    BY <1>2 DEF Registry!Begin
  <2> QED BY <1>0, <2>1, <2>2, AnswerOne DEF Statuses
<1>3. ASSUME NEW p \in Publishers, Registry!Step(p)
      PROVE  [Registry!Publication!Next]_(Registry!Publication!vars)
  <2>1. /\ status[p] \in {"staging", "renamed"}
        /\ status' = status \/ status' = [status EXCEPT ![p] = "renamed"]
    <3>1. PICK do : Registry!Staging(p, do) \/ Registry!Publishing(p, do)
      BY <1>3 DEF Registry!Step
    <3> QED BY <1>3, <3>1 DEF Registry!Step, Registry!Active, Registry!Staging,
                              Registry!Publishing, Registry!Advance
  <2>2. root' # root => root = Nobody /\ root' = p
    BY <1>3, ProgramStep
  <2>3. /\ PublisherAnswer(p) = "none"
        /\ \A q \in Publishers : PublisherAnswer(q)' = PublisherAnswer(q)
    BY <1>0, <2>1 DEF PublisherAnswer, Failures
  <2>4. CASE root' = root
    BY <1>0, <2>3, <2>4 DEF Registry!Publication!vars, TargetContent, PublisherAnswer, Failures
  <2>5. CASE root' # root
    <3>1. TargetContent = Nobody /\ TargetContent' = p
      BY <1>0, <2>2, <2>5
    <3>2. Registry!Publication!Appear(p)
      BY <2>3, <3>1 DEF Registry!Publication!Appear, TargetContent, PublisherAnswer, Failures
    <3> QED BY <3>2 DEF Registry!Publication!Next
  <2> QED BY <2>4, <2>5
<1>4. ASSUME NEW p \in Publishers, Registry!Refused(p) \/ Registry!Error(p)
      PROVE  [Registry!Publication!Next]_(Registry!Publication!vars)
  <2>1. status[p] \in {"staging", "renamed"} /\ Registry!FailWith(p)
    BY <1>4 DEF Registry!Refused, Registry!Error, Registry!Active
  <2>2. PICK next \in {"doubtful", "failed", "littered"} : status' = [status EXCEPT ![p] = next]
    BY <2>1 DEF Registry!FailWith
  <2>3. root' = root
    BY <2>1 DEF Registry!FailWith
  <2> QED BY <1>0, <2>1, <2>2, <2>3, AnswerOne DEF Statuses
<1>5. ASSUME NEW p \in Publishers, Registry!Return(p)
      PROVE  [Registry!Publication!Next]_(Registry!Publication!vars)
  <2>1. /\ status[p] \in {"staging", "renamed"} /\ root' = root
        /\ status' = [status EXCEPT ![p] = "published"]
    BY <1>5 DEF Registry!Return, Registry!Active
  <2>2. root = p
    BY <1>5, ReturnStep
  <2> QED BY <1>0, <2>1, <2>2, AnswerOne DEF Statuses
<1>6. CASE UNCHANGED Registry!vars
  BY <1>6 DEF Registry!vars, Registry!Publication!vars, Registry!Complete
<1> QED BY <1>1, <1>2, <1>3, <1>4, <1>5, <1>6 DEF Registry!Next

LEMMA RegistryInitImplements == Registry!Init => Registry!Publication!Init
  BY DEF Registry!Init, Registry!Publication!Init

LEMMA RegistryIsSound == RegistryInv => Registry!TypeOK /\ Registry!OutcomeIsFinal
<1> SUFFICES ASSUME RegistryInv PROVE Registry!TypeOK /\ Registry!OutcomeIsFinal
  OBVIOUS
<1>1. RegistryTypes /\ \A p \in Publishers : Placed(p)
  BY DEF RegistryInv
<1>2. ASSUME NEW p \in Publishers
      PROVE  step[p] \in 1..(Len(Registry!Program(graphs[p])) + 1)
  <2>1. graphs[p] \in GraphLists /\ step[p] \in Nat \ {0} /\ Placed(p)
    BY <1>1 DEF RegistryTypes
  <2>2. Len(Body(graphs[p])) \in Nat
        /\ Len(Registry!Program(graphs[p])) = Len(Body(graphs[p])) + 2
    BY <2>1, ProgramIs
  <2>3. step[p] <= Len(Body(graphs[p])) + 3
    BY <2>1 DEF Placed
  <2> QED BY <2>1, <2>2, <2>3
<1>3. \A p \in Publishers :
          /\ tree[p].bad \subseteq tree[p].paths
          /\ \A path \in tree[p].paths : Len(path) > 1 => Registry!Front(path) \in tree[p].paths
  BY <1>1 DEF RegistryTypes, Shape
<1>4. Registry!TypeOK
  BY <1>1, <1>2, <1>3 DEF RegistryTypes, Statuses, Registry!TypeOK
<1>5. Registry!OutcomeIsFinal
  BY <1>1 DEF Placed, Registry!OutcomeIsFinal
<1> QED BY <1>4, <1>5

-----------------------------------------------------------------------------
(***************************************************************************)
(* Both publications, in any order of their steps.                         *)
(***************************************************************************)
PublicationsInv == RegistryInv /\ PackageInv

LEMMA PublicationStep ==
    ASSUME PublicationsInv, [PublicationNext]_<<registry, acquisition>>
    PROVE  /\ [Registry!Next]_(Registry!vars) /\ [Package!Next]_(Package!vars)
           /\ PublicationsInv'
<1>1. [Registry!Next]_(Registry!vars)
  BY DEF PublicationNext, registry, Registry!vars
<1>2. [Package!Next]_(Package!vars)
  BY DEF PublicationNext, acquisition, Package!vars
<1>3. RegistryInv' /\ PackageInv'
  BY <1>1, <1>2, RegistryNextInv, PackageNextInv DEF PublicationsInv
<1> QED BY <1>1, <1>2, <1>3 DEF PublicationsInv

\* publishFreshRuntimeRegistry and acquireNativePackage at any point, with calls that fail,
\* interrupts, processes that die and the power that fails: what is staged, what is at each
\* place and what is on disk agree.
THEOREM PublicationInvariance == PublicationSpec => []PublicationsInv
<1>1. PublicationInit => PublicationsInv
  BY RegistryInitInv, PackageInitInv DEF PublicationInit, PublicationsInv
<1>2. PublicationsInv /\ [PublicationNext]_<<registry, acquisition>> => PublicationsInv'
  BY PublicationStep
<1> QED BY <1>1, <1>2, PTL DEF PublicationSpec

\* A publisher that publishFreshRuntimeRegistry returned to has its registry at the target for
\* good, also after a power failure; one that failed before its rename leaves nothing beside
\* the target, unless the chmod or the removal of its stage was what failed, or the power failed
\* since; no path is made before its directory; and a call of acquireNativePackage that ended
\* without dying left no scratch, unless it failed because it could not remove it.
THEOREM Soundness == PublicationSpec => []PublishersAreSound
<1>1. PublicationsInv => PublishersAreSound
  <2> SUFFICES ASSUME PublicationsInv PROVE PublishersAreSound
    OBVIOUS
  <2>1. Registry!TypeOK /\ Registry!OutcomeIsFinal
    BY RegistryIsSound DEF PublicationsInv
  <2>2. Package!TypeOK /\ Package!NoScratchLeft
    BY PackageIsSound DEF PublicationsInv
  <2> QED BY <2>1, <2>2 DEF PublishersAreSound
<1> QED BY <1>1, PublicationInvariance, PTL

\* A reader finds at the target of publishFreshRuntimeRegistry nothing or all of one
\* publisher's registry, each file as its authenticated record says, before and after a power
\* failure, and at the place of a native package nothing or one verified copy of it; neither
\* goes once somebody was told of it, and two publishers never succeed with different trees.
THEOREM Wholeness == PublicationSpec => PublicationsAreWhole
<1>1. PublicationInit => Registry!Publication!Init /\ Package!Publication!Init
  BY RegistryInitImplements, PackageInitImplements DEF PublicationInit
<1>2. PublicationsInv /\ [PublicationNext]_<<registry, acquisition>>
      => /\ [Registry!Publication!Next]_(Registry!Publication!vars)
         /\ [Package!Publication!Next]_(Package!Publication!vars)
  <2> SUFFICES ASSUME PublicationsInv, [PublicationNext]_<<registry, acquisition>>
               PROVE  /\ [Registry!Publication!Next]_(Registry!Publication!vars)
                      /\ [Package!Publication!Next]_(Package!Publication!vars)
    OBVIOUS
  <2>1. [Registry!Next]_(Registry!vars) /\ [Package!Next]_(Package!vars)
    BY PublicationStep
  <2> QED BY <2>1, RegistryImplements, AcquisitionImplements DEF PublicationsInv
<1> QED
  BY <1>1, <1>2, PublicationInvariance, PTL
  DEF PublicationSpec, PublicationsAreWhole, Registry!ImplementsPublication,
      Package!ImplementsPublication, Registry!Publication!Spec, Package!Publication!Spec

\* "Do not turn an interrupt during cache verification into a successful acquisition": a call of
\* acquireNativePackage that was interrupted does not return a package, whatever else goes on.
THEOREM InterruptedCalls == PublicationSpec => InterruptedNeverReturns
<1>1. PublicationsInv /\ [PublicationNext]_<<registry, acquisition>>
      => [\A c \in Checkouts :
             aborted[c] /\ at[c] # "returned" => at'[c] # "returned"]_(Package!vars)
  <2> SUFFICES ASSUME PublicationsInv, [PublicationNext]_<<registry, acquisition>>
               PROVE  [\A c \in Checkouts :
                         aborted[c] /\ at[c] # "returned" => at'[c] # "returned"]_(Package!vars)
    OBVIOUS
  <2>1. [Package!Next]_(Package!vars)
    BY PublicationStep
  <2> QED BY <2>1, InterruptionStep DEF PublicationsInv
<1> QED
  BY <1>1, PublicationInvariance, PTL
  DEF PublicationSpec, InterruptedNeverReturns, Package!InterruptedNeverReturns

=============================================================================
