-------------------------- MODULE MaterialSession --------------------------
(***************************************************************************)
(* One artifact material session: its construction, the compilations that  *)
(* run in it, the work they leave in flight, its finalization, and the     *)
(* graph builders that claim reports of that work                          *)
(* (scripts/lib/convex-wasm-artifact-pipeline.mjs).                        *)
(*                                                                         *)
(* Work of the session is base support, the base artifacts prelinked from  *)
(* it, their AOT readiness, and the snapshot of the runtime headers.  It   *)
(* uses the session's native scratch and outlives the compilation that     *)
(* starts it: finalization drains it before the scratch goes.  A token of  *)
(* the deployment (startConvexWasmModuleGraphBaseSupportPreactivation) may *)
(* be ahead with the support objects and the engine probe, in a scratch of *)
(* its own.                                                                *)
(*                                                                         *)
(* The waits for idle schedulers in finalization are not modelled: a       *)
(* scheduler is idle between two commands of one piece of work too, so     *)
(* that its work is over does not follow from them.                        *)
(***************************************************************************)
EXTENDS Naturals, FiniteSets

CONSTANTS
    Compilations,  \* calls that compile in the session
    Speculative,   \* those of them that only preactivate a physical unit
    Graphs,        \* module-graph builds that claim the shared phases
    None

VARIABLES
    fin,           \* how far the session is, see Stages
    failing,       \* finalization has an error
    scratch,       \* the session's native scratch exists
    call,          \* each compilation: "new", "active" or "ended"
    activeCompilations,
    work,          \* of "support", "base" and "aot": where its promise is, see Progresses
    snapshot,      \* the two flights the header snapshot can take
    speculation,   \* runtimeHeaderSnapshotStartedSpeculatively
    retried,       \* an ordinary consumer retries the speculative flight if it fails
    drained,       \* the flight whose end finalization waits for
    objects,       \* the token's support objects
    tokenScratch,  \* "present", "removed" or "stuck", when its removal failed
    revoked, claimed,   \* the token
    adoption,      \* the one call of adoptConvexWasmModuleGraphBaseSupportPreactivation
    status,        \* sharedPhaseReporting.status
    reports,       \* sharedPhaseReporting.reports
    sessionReport, \* shared phases in the finalization report, None before it is attached
    pendingReport, \* shared phases of the report that finalization builds
    graph,         \* each graph build: "new", "claiming", "claimed", "failed"
    awaited        \* the phases that the claim of a graph build awaits

token == <<objects, tokenScratch, revoked, claimed, adoption>>
header == <<snapshot, speculation, retried>>
reporting == <<status, reports, sessionReport, pendingReport, graph, awaited>>
session == <<fin, failing, scratch, drained>>
calls == <<call, activeCompilations>>
vars == <<session, calls, work, header, token, reporting>>

Stages == {"absent", "creating", "undoing", "open", "preparations", "aot", "token",
           "inputs", "verify", "scratch", "succeeded", "failed"}
Phases == {"support", "base"}

ASSUME MaterialAssumption ==
    /\ Speculative \subseteq Compilations
    /\ \A other \in {1, 2} \cup SUBSET Phases : None # other

Work == Phases \cup {"aot"}
\* "waiting" for what it is made from.
Progresses == {"none", "waiting", "working", "ok", "failed"}
Quiet == {"none", "ok", "failed"}

Init ==
    /\ fin = "absent" /\ failing = FALSE /\ scratch = FALSE /\ drained = None
    /\ call = [c \in Compilations |-> "new"] /\ activeCompilations = 0
    /\ work = [w \in Work |-> "none"]
    /\ snapshot = [f \in 1 .. 2 |-> "none"] /\ speculation = FALSE /\ retried = FALSE
    /\ objects = "working" /\ tokenScratch = "present" /\ revoked = FALSE /\ claimed = FALSE /\ adoption = "new"
    /\ status = "unclaimed" /\ reports = {} /\ sessionReport = None /\ pendingReport = {}
    /\ graph = [g \in Graphs |-> "new"] /\ awaited = [g \in Graphs |-> {}]

-----------------------------------------------------------------------------
(* The deployment's token.                                                 *)

SettleObjects ==
    /\ objects = "working" /\ objects' \in {"ok", "failed"}
    /\ UNCHANGED <<session, calls, work, header, tokenScratch, revoked, claimed,
                   adoption, reporting>>

\* drainPromise: when the objects and the engine probe settled, the scratch they share is
\* removed.  Nothing but this step depends on the engine probe, so it is not seen apart.
RemoveTokenScratch ==
    /\ tokenScratch = "present" /\ objects \in Quiet
    /\ tokenScratch' \in {"removed", "stuck"}
    /\ UNCHANGED <<session, calls, work, header, objects, revoked, claimed,
                   adoption, reporting>>

\* The deployment drains its token after a failure of its own.
Revoke ==
    /\ ~revoked /\ revoked' = TRUE
    /\ UNCHANGED <<session, calls, work, header, objects, tokenScratch, claimed,
                   adoption, reporting>>

\* The first checks of the adoption; the token's identities are awaited.
AdoptStart ==
    /\ fin = "open" /\ adoption = "new" /\ ~claimed /\ ~revoked
    /\ adoption' = "awaiting"
    /\ UNCHANGED <<session, calls, work, header, objects, tokenScratch, revoked,
                   claimed, reporting>>

\* Mutant: what was checked before the await is not checked again.
AdoptUnchecked ==
    /\ adoption = "awaiting" /\ adoption' = "ended"
    /\ claimed' \in {TRUE, FALSE}
    /\ UNCHANGED <<session, calls, work, header, objects, tokenScratch, revoked,
                   reporting>>

\* The checks again; the identities may differ.
Adopt ==
    /\ adoption = "awaiting" /\ adoption' = "ended"
    /\ claimed' \in {fin = "open" /\ ~revoked, FALSE}
    /\ UNCHANGED <<session, calls, work, header, objects, tokenScratch, revoked,
                   reporting>>

-----------------------------------------------------------------------------
(* Construction and compilations.                                          *)

\* createArtifactMaterialSession, to the end of its one-shot claim of the token's
\* materials, which ends without an await, and with its scratch.
Create ==
    /\ fin = "absent" /\ fin' = "creating" /\ scratch' = TRUE
    /\ claimed' \in {FALSE, ~revoked}
    /\ UNCHANGED <<failing, drained, calls, work, header, objects, tokenScratch,
                   revoked, adoption, reporting>>

\* The session record exists; or a step before it failed: a claimed token is drained.
Created ==
    /\ fin = "creating"
    /\ \/ fin' = "open" /\ UNCHANGED revoked
       \/ fin' = "undoing" /\ revoked' = (revoked \/ claimed)
    /\ UNCHANGED <<failing, scratch, drained, calls, work, header, objects,
                   tokenScratch, claimed, adoption, reporting>>

TokenDrained == claimed => tokenScratch # "present"

Undo ==
    /\ fin = "undoing" /\ TokenDrained
    /\ fin' = "failed" /\ scratch' = FALSE
    /\ UNCHANGED <<failing, drained, calls, work, header, token, reporting>>

\* A compilation starts: it is counted before its first await.
Start(c) ==
    /\ call[c] = "new" /\ fin = "open"
    /\ call' = [call EXCEPT ![c] = "active"]
    /\ activeCompilations' = activeCompilations + 1
    /\ UNCHANGED <<session, work, header, token, reporting>>

\* It returns, or throws at any of its awaits.
Return(c) ==
    /\ call[c] = "active"
    /\ call' = [call EXCEPT ![c] = "ended"]
    /\ activeCompilations' = activeCompilations - 1
    /\ UNCHANGED <<session, work, header, token, reporting>>

Compiling(c) == call[c] = "active" /\ c \notin Speculative

\* startModuleGraphBaseSupportPreparation: from the claimed token, or as work of its own.
StartSupport(c) ==
    /\ Compiling(c) /\ work["support"] = "none"
    /\ work' = [work EXCEPT !["support"] = IF claimed THEN "waiting" ELSE "working"]
    /\ UNCHANGED <<session, calls, header, token, reporting>>

\* Mutant: a revoked or failed token leaves the preparation without objects.
SupportOnlyFromToken ==
    /\ work["support"] = "waiting" /\ objects = "ok" /\ ~revoked
    /\ work' = [work EXCEPT !["support"] = "ok"]
    /\ UNCHANGED <<session, calls, header, token, reporting>>

\* The token's objects settled: they are taken over, or built by the session.
SupportFromToken ==
    /\ work["support"] = "waiting" /\ objects \in Quiet
    /\ work' = [work EXCEPT !["support"] =
                  IF objects = "ok" /\ ~revoked THEN "ok" ELSE "working"]
    /\ UNCHANGED <<session, calls, header, token, reporting>>

\* startModuleGraphBaseArtifactsPreactivation, with or without the AOT readiness.
StartBase(c) ==
    /\ Compiling(c) /\ work["support"] # "none"
    /\ \E w \in {"base", "aot"} :
          /\ work[w] = "none"
          /\ work' = [work EXCEPT !["base"] = IF @ = "none" THEN "waiting" ELSE @,
                                  ![w] = "waiting"]
    /\ UNCHANGED <<session, calls, header, token, reporting>>

\* The base artifacts await support, and the AOT readiness the base artifacts.
Proceed(w, input) ==
    /\ work[w] = "waiting" /\ work[input] \in {"ok", "failed"}
    /\ work' = [work EXCEPT ![w] = IF work[input] = "ok" THEN "working" ELSE "failed"]
    /\ UNCHANGED <<session, calls, header, token, reporting>>

SettleWork(w) ==
    /\ work[w] = "working"
    /\ \E outcome \in {"ok", "failed"} : work' = [work EXCEPT ![w] = outcome]
    /\ UNCHANGED <<session, calls, header, token, reporting>>

\* runtimeHeaderSnapshotPromise.
CurrentFlight == IF snapshot[2] # "none" THEN 2 ELSE 1

\* ensureRuntimeHeaderSnapshot: the first caller starts the flight.  An ordinary one that
\* finds a speculative flight retries it when it fails, and starts again if it has failed.
EnsureSnapshot(c) ==
    /\ call[c] = "active"
    /\ \/ /\ snapshot[1] = "none"
          /\ snapshot' = [snapshot EXCEPT ![1] = "working"]
          /\ speculation' = (c \in Speculative)
          /\ UNCHANGED retried
       \/ /\ snapshot[1] # "none" /\ snapshot[2] = "none"
          /\ speculation /\ c \notin Speculative /\ snapshot[1] # "ok" /\ ~retried
          /\ retried' = TRUE
          /\ IF snapshot[1] = "failed"
             THEN snapshot' = [snapshot EXCEPT ![2] = "working"] /\ speculation' = FALSE
             ELSE UNCHANGED <<snapshot, speculation>>
    /\ UNCHANGED <<session, calls, work, token, reporting>>

\* A flight settles; the retry is the first reaction to its failure.
SettleSnapshot(f) ==
    /\ snapshot[f] = "working"
    /\ \/ snapshot' = [snapshot EXCEPT ![f] = "ok"] /\ UNCHANGED speculation
       \/ IF f = 1 /\ retried
          THEN snapshot' = [snapshot EXCEPT ![1] = "failed", ![2] = "working"]
               /\ speculation' = FALSE
          ELSE snapshot' = [snapshot EXCEPT ![f] = "failed"] /\ UNCHANGED speculation
    /\ UNCHANGED <<session, calls, work, retried, token, reporting>>

-----------------------------------------------------------------------------
(* finalizeConvexWasmArtifactMaterialSession.                              *)

\* Everything but the session and `rest' is left alone.
Finalizing(rest) == UNCHANGED <<calls, work, header, objects, tokenScratch, claimed, adoption, rest>>

Finalize ==
    /\ fin = "open" /\ activeCompilations = 0
    /\ fin' = "preparations"
    /\ UNCHANGED <<failing, scratch, drained>> /\ Finalizing(<<revoked, reporting>>)

Settled(w) == work[w] \in Quiet

DrainPreparations ==
    /\ fin = "preparations" /\ Settled("support") /\ Settled("base")
    /\ fin' = "aot"
    /\ failing' = \E w \in Phases : work[w] = "failed"
    /\ UNCHANGED <<scratch, drained>> /\ Finalizing(<<revoked, reporting>>)

\* Mutant: AOT readiness is nobody's, since it cannot fail the session.
LeaveAot ==
    /\ fin = "aot"
    /\ fin' = "token" /\ revoked' = (revoked \/ claimed)
    /\ UNCHANGED <<failing, scratch, drained>> /\ Finalizing(reporting)

\* AOT readiness has no failure authority.  Then the claimed token is revoked and drained.
DrainAot ==
    /\ fin = "aot" /\ Settled("aot")
    /\ fin' = "token" /\ revoked' = (revoked \/ claimed)
    /\ UNCHANGED <<failing, scratch, drained>> /\ Finalizing(reporting)

\* The archive and the snapshot flight that is current are drained next, whether or not
\* something failed.
DrainToken ==
    /\ fin = "token" /\ TokenDrained
    /\ failing' = (failing \/ (claimed /\ tokenScratch = "stuck"))
    /\ fin' = "inputs" /\ drained' = CurrentFlight
    /\ UNCHANGED scratch /\ Finalizing(<<revoked, reporting>>)

\* Without a failure so far, the snapshot is authenticated again and a report is made.
DrainInputs ==
    /\ fin = "inputs" /\ snapshot[drained] \in Quiet
    /\ fin' = IF failing THEN "scratch" ELSE "verify"
    /\ UNCHANGED <<failing, scratch, drained>> /\ Finalizing(<<revoked, reporting>>)

Started == {w \in Phases : work[w] # "none"}

\* verifyRuntimeHeaderSnapshot of the flight that is current by now; then the report.
Report ==
    /\ fin = "verify" /\ snapshot[CurrentFlight] \in Quiet
    /\ fin' = "scratch"
    /\ \/ /\ failing' = TRUE
          /\ UNCHANGED <<reports, pendingReport>>
       \/ /\ snapshot[CurrentFlight] # "failed"
          /\ failing' = (snapshot[drained] = "failed")
          /\ reports' = reports \cup Started
          /\ pendingReport' = IF status = "module-graph" THEN {} ELSE reports'
    /\ UNCHANGED <<scratch, drained, status, sessionReport, graph, awaited>>
    /\ Finalizing(revoked)

\* Mutant: a claim that came while the scratch was removed is overlooked.
RemoveScratchUnreconciled ==
    /\ fin = "scratch"
    /\ scratch' = FALSE
    /\ \/ fin' = "failed" /\ failing' = TRUE /\ UNCHANGED sessionReport
       \/ /\ ~failing /\ fin' = "succeeded" /\ UNCHANGED failing
          /\ sessionReport' = pendingReport
    /\ UNCHANGED <<drained, status, reports, pendingReport, graph, awaited>>
    /\ Finalizing(revoked)

\* The scratch is removed, which may fail.  The report is attached without the phases
\* that a graph claimed meanwhile.
RemoveScratch ==
    /\ fin = "scratch"
    /\ scratch' = FALSE
    /\ \/ fin' = "failed" /\ failing' = TRUE /\ UNCHANGED sessionReport
       \/ /\ ~failing /\ fin' = "succeeded" /\ UNCHANGED failing
          /\ sessionReport' = IF status = "module-graph" THEN pendingReport \ reports
                              ELSE pendingReport
    /\ UNCHANGED <<drained, status, reports, pendingReport, graph, awaited>>
    /\ Finalizing(revoked)

-----------------------------------------------------------------------------
(* claimModuleGraphSharedPhaseReports.                                     *)

ClaimStart(g) ==
    /\ graph[g] = "new" /\ fin # "failed" /\ work["support"] # "none"
    /\ graph' = [graph EXCEPT ![g] = "claiming"]
    /\ awaited' = [awaited EXCEPT ![g] = Started]
    /\ UNCHANGED <<session, calls, work, header, token, status, reports, sessionReport,
                   pendingReport>>

\* The awaited phases settled: the first graph takes the reports over, a later one shares
\* them.
Claim(g) ==
    /\ graph[g] = "claiming" /\ \A w \in awaited[g] : Settled(w)
    /\ LET ok == \A w \in awaited[g] : work[w] = "ok"
           owned == reports \cup awaited[g]
           disagree == sessionReport # None /\ ~(owned \subseteq sessionReport)
           takes == ok /\ status = "unclaimed" IN
       /\ graph' = [graph EXCEPT ![g] = IF ok /\ ~(takes /\ disagree) THEN "claimed" ELSE "failed"]
       /\ reports' = IF takes THEN owned ELSE reports
       /\ status' = IF takes /\ ~disagree THEN "module-graph" ELSE status
       /\ sessionReport' = IF takes /\ ~disagree /\ sessionReport # None
                           THEN sessionReport \ owned ELSE sessionReport
    /\ UNCHANGED <<session, calls, work, header, token, pendingReport, awaited>>

-----------------------------------------------------------------------------

\* What is bound to happen: work ends, as native commands under a timeout and file
\* operations do, and reactions run.  Nothing obliges a caller to compile, to finalize or
\* to claim.
Progress ==
    \/ SettleObjects
    \/ RemoveTokenScratch
    \/ Adopt
    \/ Created
    \/ Undo
    \/ \E c \in Compilations : Return(c)
    \/ SupportFromToken
    \/ Proceed("base", "support")
    \/ Proceed("aot", "base")
    \/ \E w \in Work : SettleWork(w)
    \/ \E f \in DOMAIN snapshot : SettleSnapshot(f)
    \/ DrainPreparations
    \/ DrainAot
    \/ DrainToken
    \/ DrainInputs
    \/ Report
    \/ RemoveScratch
    \/ \E g \in Graphs : Claim(g)

Next ==
    \/ Revoke
    \/ AdoptStart
    \/ Create
    \/ \E c \in Compilations : Start(c)
    \/ \E c \in Compilations : StartSupport(c)
    \/ \E c \in Compilations : StartBase(c)
    \/ \E c \in Compilations : EnsureSnapshot(c)
    \/ Finalize
    \/ \E g \in Graphs : ClaimStart(g)
    \/ Progress

Spec == Init /\ [][Next]_vars

-----------------------------------------------------------------------------
(* Properties.                                                             *)

TypeOK ==
    /\ fin \in Stages /\ failing \in BOOLEAN /\ scratch \in BOOLEAN /\ drained \in {None, 1, 2}
    /\ call \in [Compilations -> {"new", "active", "ended"}]
    /\ activeCompilations = Cardinality({c \in Compilations : call[c] = "active"})
    /\ work \in [Work -> Progresses]
    /\ snapshot \in [1 .. 2 -> Progresses] /\ speculation \in BOOLEAN /\ retried \in BOOLEAN
    /\ objects \in {"working", "ok", "failed"}
    /\ tokenScratch \in {"present", "removed", "stuck"}
    /\ revoked \in BOOLEAN /\ claimed \in BOOLEAN /\ adoption \in {"new", "awaiting", "ended"}
    /\ status \in {"unclaimed", "module-graph"}
    /\ reports \subseteq Phases /\ pendingReport \subseteq Phases
    /\ sessionReport \in (SUBSET Phases) \cup {None}
    /\ graph \in [Graphs -> {"new", "claiming", "claimed", "failed"}]
    /\ awaited \in [Graphs -> SUBSET Phases]

Ended == {"succeeded", "failed"}

\* What uses the session's scratch: compilations, work of the session that is not the
\* token's, and the flights of the header snapshot.
UsesScratch(flights) ==
    \/ \E c \in Compilations : call[c] = "active"
    \/ \E w \in Work : work[w] = "working"
    \/ \E f \in flights : snapshot[f] = "working"

\* The native scratch of the session outlives everything at work in it, on every path
\* through finalization; and no work starts in a session without it.  A retry that
\* finalization did not wait for is excepted: see EveryFlightDrained.
ScratchOutlivesWork ==
    UsesScratch(IF drained = None THEN 1 .. 2 ELSE {f \in 1 .. 2 : f <= drained}) => scratch

\* "An earlier finalization failure may bypass snapshot verification, so always drain that
\* speculative work before removing its scratch": no flight at all is at work without it.
EveryFlightDrained == UsesScratch({1, 2}) => scratch

\* A session that ended has no compilation at work, all shared work settled, whoever started
\* it, a token that it took was revoked and drained, with its scratch, and the header-snapshot
\* flight that finalization awaited is over.  One that succeeded had no work that failed, and
\* no other flight goes on either.
EndedSessionIsQuiet ==
    /\ fin \in Ended => /\ \A c \in Compilations : call[c] # "active"
                        /\ \A w \in Work : Settled(w)
                        /\ claimed => revoked /\ tokenScratch # "present"
                        /\ drained # None => snapshot[drained] \in Quiet
    /\ fin = "succeeded" =>
          /\ \A w \in Phases : work[w] # "failed"
          /\ \A f \in 1 .. 2 : snapshot[f] \in Quiet

\* Each shared phase has exactly one owner, the report of the session or the reports that
\* the module graphs own (those of a first claim and what finalization adds to them), whether
\* a graph claims before, during or after finalization; and no phase that did not happen does.
PhaseReportedOnce ==
    LET byGraphs == IF status = "module-graph" THEN reports ELSE {} IN
    fin = "succeeded" =>
        /\ sessionReport \cap byGraphs = {}
        /\ sessionReport \cup byGraphs = Started

\* No construction, finalization or claim is under way.
SessionSettled ==
    fin \in Ended \cup {"absent", "open"} /\ \A g \in Graphs : graph[g] # "claiming"

=============================================================================
