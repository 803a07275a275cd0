---------------------------- MODULE PipelineProofs ----------------------------
(***************************************************************************)
(* Proofs about the material session (any number of compilations, warm-ups *)
(* and module-graph builds, with work that ends in any order), about the   *)
(* maps over a shared scheduler (any number of maps of any length and any  *)
(* concurrency), and about MCPipeline, which puts them together.           *)
(***************************************************************************)
EXTENDS MCPipeline, FunctionTheorems, FiniteSetTheorems, SequenceTheorems, TLAPS

-----------------------------------------------------------------------------
(* The material session.                                                   *)

\* What compiles now is finite, as activeCompilations counts it.
ActiveFinite == IsFiniteSet({c \in Compilations : call[c] = "active"})

Early == {"absent", "creating", "undoing"}
\* A session that was never open, and one whose finalization began.
NeverOpen == fin \in Early \/ (fin = "failed" /\ drained = None)
Draining == {"preparations", "aot", "token", "inputs", "verify", "scratch"}
PastPreparations == (Draining \ {"preparations"}) \cup Ended
PastAot == PastPreparations \ {"aot"}
PastToken == PastAot \ {"token"}

\* Work starts only in an open session, and once finalization has drained a kind of it,
\* none of it is under way again.
StageInv ==
    /\ scratch <=> fin \notin Ended \cup {"absent"}
    /\ NeverOpen => /\ call = [c \in Compilations |-> "new"] /\ work = [w \in Work |-> "none"]
                    /\ snapshot = [f \in 1 .. 2 |-> "none"] /\ adoption = "new"
    /\ fin \in Draining \cup Ended => \A c \in Compilations : call[c] # "active"
    /\ fin \in Early \cup {"open", "preparations", "aot", "token"} => drained = None
    /\ fin \in {"inputs", "verify", "scratch", "succeeded"} => drained # None
    /\ fin \in PastPreparations => Settled("support") /\ Settled("base")
    /\ fin \in PastAot => Settled("aot")
    /\ fin \in PastPreparations /\ ~failing => \A w \in Phases : work[w] # "failed"
    /\ fin \in {"verify", "succeeded"} => ~failing

\* The retry is the second flight, and starts when the first has failed.
FlightInv ==
    /\ snapshot[2] # "none" => snapshot[1] = "failed"
    /\ drained = 2 => snapshot[2] # "none"
    /\ fin \in {"verify", "scratch", "succeeded"} => snapshot[drained] \in Quiet
    /\ fin = "failed" /\ drained # None => snapshot[drained] \in Quiet
    /\ fin \in {"scratch", "succeeded"} /\ ~failing => \A f \in 1 .. 2 : snapshot[f] \in Quiet

\* A token is claimed until the end of finalization at the latest, which revokes it.
TokenInv ==
    /\ adoption = "awaiting" => ~claimed
    /\ fin \in PastAot \cup {"undoing"} /\ claimed => revoked
    /\ fin \in PastToken /\ claimed => tokenScratch # "present"

\* From the report that finalization builds on, the reports are all that there will be.
ReportInv ==
    /\ reports \subseteq Started
    /\ \A g \in Graphs : awaited[g] \subseteq Started
    /\ sessionReport # None => fin = "succeeded"
    /\ fin \in {"scratch", "succeeded"} /\ ~failing => reports = Started
    /\ fin = "scratch" /\ ~failing =>
          pendingReport = Started \/ (pendingReport = {} /\ status = "module-graph")
    /\ fin = "succeeded" => sessionReport = (IF status = "module-graph" THEN {} ELSE Started)

SessionInv == TypeOK /\ ActiveFinite /\ StageInv /\ FlightInv /\ TokenInv /\ ReportInv

\* The initial state has the invariant.
LEMMA InitInv == Init => SessionInv
<1> SUFFICES ASSUME Init PROVE SessionInv
  OBVIOUS
<1> USE DEF Init, Stages, Phases, Work, Progresses, Quiet, Started, Ended, Early, NeverOpen,
            Draining, PastPreparations, PastAot, PastToken
<1>1. {c \in Compilations : call[c] = "active"} = {}
  OBVIOUS
<1>2. IsFiniteSet({}) /\ Cardinality({}) = 0
  BY FS_EmptySet
<1>3. ActiveFinite /\ activeCompilations = Cardinality({c \in Compilations : call[c] = "active"})
  BY <1>1, <1>2 DEF ActiveFinite
<1>4. TypeOK
  <2>1. /\ failing \in BOOLEAN /\ scratch \in BOOLEAN /\ speculation \in BOOLEAN
        /\ retried \in BOOLEAN /\ revoked \in BOOLEAN /\ claimed \in BOOLEAN
    BY Zenon
  <2>2. /\ call \in [Compilations -> {"new", "active", "ended"}]
        /\ work \in [Work -> Progresses] /\ snapshot \in [1 .. 2 -> Progresses]
        /\ graph \in [Graphs -> {"new", "claiming", "claimed", "failed"}]
        /\ awaited \in [Graphs -> SUBSET Phases]
    OBVIOUS
  <2>3. /\ reports \subseteq Phases /\ pendingReport \subseteq Phases
        /\ sessionReport = None /\ drained = None
    OBVIOUS
  <2>4. /\ fin \in Stages /\ status \in {"unclaimed", "module-graph"}
        /\ objects \in {"working", "ok", "failed"} /\ adoption \in {"new", "awaiting", "ended"}
        /\ tokenScratch \in {"present", "removed", "stuck"}
    OBVIOUS
  <2> HIDE DEF Init, Stages, Phases, Work, Progresses
  <2> QED
    BY <1>3, <2>1, <2>2, <2>3, <2>4, Zenon DEF TypeOK
<1>5. StageInv
  BY MaterialAssumption DEF StageInv
<1>6. FlightInv
  BY MaterialAssumption DEF FlightInv
<1>7. TokenInv /\ ReportInv
  BY DEF TokenInv, ReportInv
<1> QED
  BY <1>3, <1>4, <1>5, <1>6, <1>7 DEF SessionInv

\* activeCompilations counts the calls that compile.
LEMMA CallStep ==
    ASSUME TypeOK, ActiveFinite, NEW c \in Compilations, Start(c) \/ Return(c)
    PROVE  TypeOK' /\ ActiveFinite'
<1> DEFINE Active == {d \in Compilations : call[d] = "active"}
<1> USE DEF session, header, token, reporting
<1>1. CASE Start(c)
  <2>1. Active' = Active \cup {c} /\ c \notin Active
    BY <1>1 DEF Start, TypeOK
  <2>2. IsFiniteSet(Active') /\ Cardinality(Active') = Cardinality(Active) + 1
    BY <2>1, FS_AddElement DEF ActiveFinite
  <2> HIDE DEF Active
  <2>3. activeCompilations' = Cardinality(Active')
    BY <1>1, <2>2 DEF Start, TypeOK, Active
  <2> QED
    BY <1>1, <2>2, <2>3 DEF Start, TypeOK, ActiveFinite, Active
<1>2. CASE Return(c)
  <2>1. Active' = Active \ {c} /\ c \in Active
    BY <1>2 DEF Return, TypeOK
  <2>2. IsFiniteSet(Active') /\ Cardinality(Active') = Cardinality(Active) - 1
    BY <2>1, FS_RemoveElement DEF ActiveFinite
  <2> HIDE DEF Active
  <2>3. activeCompilations' = Cardinality(Active')
    BY <1>2, <2>2 DEF Return, TypeOK, Active
  <2> QED
    BY <1>2, <2>2, <2>3 DEF Return, TypeOK, ActiveFinite, Active
<1> QED
  BY <1>1, <1>2

\* Finalization starts with nobody compiling.
LEMMA NobodyCompiles ==
    ASSUME TypeOK, ActiveFinite, activeCompilations = 0
    PROVE  \A c \in Compilations : call[c] # "active"
<1> DEFINE Active == {c \in Compilations : call[c] = "active"}
<1>1. IsFiniteSet(Active) /\ Cardinality(Active) = 0
  BY DEF TypeOK, ActiveFinite
<1>2. Active = {}
  BY <1>1, FS_EmptySet
<1> QED
  BY <1>2

\* Every step of the session and of its callers keeps the invariant.
LEMMA InvStep == SessionInv /\ [Next]_vars => SessionInv'
<1> SUFFICES ASSUME SessionInv, [Next]_vars PROVE SessionInv'
  OBVIOUS
<1> USE MaterialAssumption
    DEF SessionInv, session, calls, header, token, reporting, Finalizing, CurrentFlight, Started,
        Settled, TokenDrained, Early, NeverOpen, Draining, PastPreparations, PastAot, PastToken,
        Ended, Stages, Phases, Work, Progresses, Quiet
<1>1. CASE SettleObjects
  <2> USE <1>1 DEF SettleObjects
  <2>1. TypeOK'
    BY DEF TypeOK
  <2>2. ActiveFinite'
    BY DEF ActiveFinite
  <2>3. StageInv'
    BY DEF TypeOK, StageInv, FlightInv, TokenInv
  <2>4. FlightInv'
    BY DEF TypeOK, StageInv, FlightInv
  <2>5. TokenInv'
    BY DEF TypeOK, StageInv, TokenInv
  <2>6. ReportInv'
    BY DEF TypeOK, StageInv, ReportInv
  <2> QED
    BY <2>1, <2>2, <2>3, <2>4, <2>5, <2>6
<1>2. CASE RemoveTokenScratch
  <2> USE <1>2 DEF RemoveTokenScratch
  <2>1. TypeOK'
    BY DEF TypeOK
  <2>2. ActiveFinite'
    BY DEF ActiveFinite
  <2>3. StageInv'
    BY DEF TypeOK, StageInv, FlightInv, TokenInv
  <2>4. FlightInv'
    BY DEF TypeOK, StageInv, FlightInv
  <2>5. TokenInv'
    BY DEF TypeOK, StageInv, TokenInv
  <2>6. ReportInv'
    BY DEF TypeOK, StageInv, ReportInv
  <2> QED
    BY <2>1, <2>2, <2>3, <2>4, <2>5, <2>6
<1>3. CASE Revoke
  <2> USE <1>3 DEF Revoke
  <2>1. TypeOK'
    BY DEF TypeOK
  <2>2. ActiveFinite'
    BY DEF ActiveFinite
  <2>3. StageInv'
    BY DEF TypeOK, StageInv, FlightInv, TokenInv
  <2>4. FlightInv'
    BY DEF TypeOK, StageInv, FlightInv
  <2>5. TokenInv'
    BY DEF TypeOK, StageInv, TokenInv
  <2>6. ReportInv'
    BY DEF TypeOK, StageInv, ReportInv
  <2> QED
    BY <2>1, <2>2, <2>3, <2>4, <2>5, <2>6
<1>4. CASE AdoptStart
  <2> USE <1>4 DEF AdoptStart
  <2>1. TypeOK'
    BY DEF TypeOK
  <2>2. ActiveFinite'
    BY DEF ActiveFinite
  <2>3. StageInv'
    BY DEF TypeOK, StageInv, FlightInv, TokenInv
  <2>4. FlightInv'
    BY DEF TypeOK, StageInv, FlightInv
  <2>5. TokenInv'
    BY DEF TypeOK, StageInv, TokenInv
  <2>6. ReportInv'
    BY DEF TypeOK, StageInv, ReportInv
  <2> QED
    BY <2>1, <2>2, <2>3, <2>4, <2>5, <2>6
<1>5. CASE Adopt
  <2> USE <1>5 DEF Adopt
  <2>1. TypeOK'
    <3>1. claimed' \in BOOLEAN
      BY Zenon DEF TypeOK
    <3> QED
      BY <3>1 DEF TypeOK
  <2>2. ActiveFinite'
    BY DEF ActiveFinite
  <2>3. StageInv'
    BY DEF TypeOK, StageInv, FlightInv, TokenInv
  <2>4. FlightInv'
    BY DEF TypeOK, StageInv, FlightInv
  <2>5. TokenInv'
    BY DEF TypeOK, StageInv, TokenInv
  <2>6. ReportInv'
    BY DEF TypeOK, StageInv, ReportInv
  <2> QED
    BY <2>1, <2>2, <2>3, <2>4, <2>5, <2>6
<1>6. CASE Create
  <2> USE <1>6 DEF Create
  <2>1. TypeOK'
    <3>1. scratch' \in BOOLEAN
      BY Zenon DEF TypeOK
    <3>2. claimed' \in BOOLEAN
      BY Zenon DEF TypeOK
    <3> QED
      BY <3>1, <3>2 DEF TypeOK
  <2>2. ActiveFinite'
    BY DEF ActiveFinite
  <2>3. StageInv'
    BY DEF TypeOK, StageInv, FlightInv, TokenInv
  <2>4. FlightInv'
    BY DEF TypeOK, StageInv, FlightInv
  <2>5. TokenInv'
    BY DEF TypeOK, StageInv, TokenInv
  <2>6. ReportInv'
    BY DEF TypeOK, StageInv, ReportInv
  <2> QED
    BY <2>1, <2>2, <2>3, <2>4, <2>5, <2>6
<1>7. CASE Created
  <2> USE <1>7 DEF Created
  <2>1. TypeOK'
    BY DEF TypeOK
  <2>2. ActiveFinite'
    BY DEF ActiveFinite
  <2>3. StageInv'
    BY DEF TypeOK, StageInv, FlightInv, TokenInv
  <2>4. FlightInv'
    BY DEF TypeOK, StageInv, FlightInv
  <2>5. TokenInv'
    BY DEF TypeOK, StageInv, TokenInv
  <2>6. ReportInv'
    BY DEF TypeOK, StageInv, ReportInv
  <2> QED
    BY <2>1, <2>2, <2>3, <2>4, <2>5, <2>6
<1>8. CASE Undo
  <2> USE <1>8 DEF Undo
  <2>1. TypeOK'
    <3>1. scratch' \in BOOLEAN
      BY Zenon DEF TypeOK
    <3> QED
      BY <3>1 DEF TypeOK
  <2>2. ActiveFinite'
    BY DEF ActiveFinite
  <2>3. StageInv'
    BY DEF TypeOK, StageInv, FlightInv, TokenInv
  <2>4. FlightInv'
    BY DEF TypeOK, StageInv, FlightInv
  <2>5. TokenInv'
    BY DEF TypeOK, StageInv, TokenInv
  <2>6. ReportInv'
    BY DEF TypeOK, StageInv, ReportInv
  <2> QED
    BY <2>1, <2>2, <2>3, <2>4, <2>5, <2>6
<1>9. ASSUME NEW c \in Compilations, Start(c)
      PROVE  SessionInv'
  <2> USE <1>9 DEF Start
  <2>1. TypeOK' /\ ActiveFinite'
    BY CallStep
  <2>3. StageInv'
    BY DEF TypeOK, StageInv, FlightInv, TokenInv
  <2>4. FlightInv'
    BY DEF TypeOK, StageInv, FlightInv
  <2>5. TokenInv'
    BY DEF TypeOK, StageInv, TokenInv
  <2>6. ReportInv'
    BY DEF TypeOK, StageInv, ReportInv
  <2> QED
    BY <2>1, <2>3, <2>4, <2>5, <2>6
<1>10. ASSUME NEW c \in Compilations, Return(c)
      PROVE  SessionInv'
  <2> USE <1>10 DEF Return
  <2>1. TypeOK' /\ ActiveFinite'
    BY CallStep
  <2>3. StageInv'
    BY DEF TypeOK, StageInv, FlightInv, TokenInv
  <2>4. FlightInv'
    BY DEF TypeOK, StageInv, FlightInv
  <2>5. TokenInv'
    BY DEF TypeOK, StageInv, TokenInv
  <2>6. ReportInv'
    BY DEF TypeOK, StageInv, ReportInv
  <2> QED
    BY <2>1, <2>3, <2>4, <2>5, <2>6
<1>11. ASSUME NEW c \in Compilations, StartSupport(c)
      PROVE  SessionInv'
  <2> USE <1>11 DEF StartSupport, Compiling
  <2>1. TypeOK'
    BY DEF TypeOK
  <2>2. ActiveFinite'
    BY DEF ActiveFinite
  <2>3. StageInv'
    BY DEF TypeOK, StageInv, FlightInv, TokenInv
  <2>4. FlightInv'
    BY DEF TypeOK, StageInv, FlightInv
  <2>5. TokenInv'
    BY DEF TypeOK, StageInv, TokenInv
  <2>6. ReportInv'
    BY DEF TypeOK, StageInv, ReportInv
  <2> QED
    BY <2>1, <2>2, <2>3, <2>4, <2>5, <2>6
<1>12. ASSUME NEW c \in Compilations, StartBase(c)
      PROVE  SessionInv'
  <2> USE <1>12 DEF StartBase, Compiling
  <2>1. TypeOK'
    BY DEF TypeOK
  <2>2. ActiveFinite'
    BY DEF ActiveFinite
  <2>3. StageInv'
    BY DEF TypeOK, StageInv, FlightInv, TokenInv
  <2>4. FlightInv'
    BY DEF TypeOK, StageInv, FlightInv
  <2>5. TokenInv'
    BY DEF TypeOK, StageInv, TokenInv
  <2>6. ReportInv'
    BY DEF TypeOK, StageInv, ReportInv
  <2> QED
    BY <2>1, <2>2, <2>3, <2>4, <2>5, <2>6
<1>13. ASSUME NEW c \in Compilations, EnsureSnapshot(c)
      PROVE  SessionInv'
  <2> USE <1>13 DEF EnsureSnapshot
  <2>1. TypeOK'
    <3>1. speculation' \in BOOLEAN /\ retried' \in BOOLEAN
      <4>1. CASE snapshot[1] = "none" /\ c \in Speculative
        BY <4>1, Zenon DEF TypeOK
      <4>2. CASE snapshot[1] = "none" /\ c \notin Speculative
        <5>1. speculation' = (c \in Speculative)
          BY <4>2, Zenon
        <5>2. (c \in Speculative) = FALSE
          BY <4>2
        <5>3. retried' = retried
          BY <4>2
        <5> QED
          BY <5>1, <5>2, <5>3, Zenon DEF TypeOK
      <4>3. CASE snapshot[1] = "failed"
        BY <4>3, Zenon DEF TypeOK
      <4>4. CASE snapshot[1] \notin {"none", "failed"}
        BY <4>4, Zenon DEF TypeOK
      <4> QED
        BY <4>1, <4>2, <4>3, <4>4
    <3> QED
      BY <3>1 DEF TypeOK
  <2>2. ActiveFinite'
    BY DEF ActiveFinite
  <2>3. StageInv'
    BY DEF TypeOK, StageInv, FlightInv, TokenInv
  <2>4. FlightInv'
    BY DEF TypeOK, StageInv, FlightInv
  <2>5. TokenInv'
    BY DEF TypeOK, StageInv, TokenInv
  <2>6. ReportInv'
    BY DEF TypeOK, StageInv, ReportInv
  <2> QED
    BY <2>1, <2>2, <2>3, <2>4, <2>5, <2>6
<1>14. CASE SupportFromToken
  <2> USE <1>14 DEF SupportFromToken
  <2>1. TypeOK'
    BY DEF TypeOK
  <2>2. ActiveFinite'
    BY DEF ActiveFinite
  <2>3. StageInv'
    BY DEF TypeOK, StageInv, FlightInv, TokenInv
  <2>4. FlightInv'
    BY DEF TypeOK, StageInv, FlightInv
  <2>5. TokenInv'
    BY DEF TypeOK, StageInv, TokenInv
  <2>6. ReportInv'
    BY DEF TypeOK, StageInv, ReportInv
  <2> QED
    BY <2>1, <2>2, <2>3, <2>4, <2>5, <2>6
<1>15. CASE Proceed("base", "support")
  <2> USE <1>15 DEF Proceed
  <2>1. TypeOK'
    BY DEF TypeOK
  <2>2. ActiveFinite'
    BY DEF ActiveFinite
  <2>3. StageInv'
    BY DEF TypeOK, StageInv, FlightInv, TokenInv
  <2>4. FlightInv'
    BY DEF TypeOK, StageInv, FlightInv
  <2>5. TokenInv'
    BY DEF TypeOK, StageInv, TokenInv
  <2>6. ReportInv'
    BY DEF TypeOK, StageInv, ReportInv
  <2> QED
    BY <2>1, <2>2, <2>3, <2>4, <2>5, <2>6
<1>16. CASE Proceed("aot", "base")
  <2> USE <1>16 DEF Proceed
  <2>1. TypeOK'
    BY DEF TypeOK
  <2>2. ActiveFinite'
    BY DEF ActiveFinite
  <2>3. StageInv'
    BY DEF TypeOK, StageInv, FlightInv, TokenInv
  <2>4. FlightInv'
    BY DEF TypeOK, StageInv, FlightInv
  <2>5. TokenInv'
    BY DEF TypeOK, StageInv, TokenInv
  <2>6. ReportInv'
    BY DEF TypeOK, StageInv, ReportInv
  <2> QED
    BY <2>1, <2>2, <2>3, <2>4, <2>5, <2>6
<1>17. ASSUME NEW w \in Work, SettleWork(w)
      PROVE  SessionInv'
  <2> USE <1>17 DEF SettleWork
  <2>1. TypeOK'
    BY DEF TypeOK
  <2>2. ActiveFinite'
    BY DEF ActiveFinite
  <2>3. StageInv'
    BY DEF TypeOK, StageInv, FlightInv, TokenInv
  <2>4. FlightInv'
    BY DEF TypeOK, StageInv, FlightInv
  <2>5. TokenInv'
    BY DEF TypeOK, StageInv, TokenInv
  <2>6. ReportInv'
    BY DEF TypeOK, StageInv, ReportInv
  <2> QED
    BY <2>1, <2>2, <2>3, <2>4, <2>5, <2>6
<1>18. ASSUME NEW f \in 1 .. 2, SettleSnapshot(f)
      PROVE  SessionInv'
  <2> USE <1>18 DEF SettleSnapshot
  <2>1. TypeOK'
    <3>1. speculation' \in BOOLEAN
      BY Zenon DEF TypeOK
    <3> QED
      BY <3>1 DEF TypeOK
  <2>2. ActiveFinite'
    BY DEF ActiveFinite
  <2>3. StageInv'
    BY DEF TypeOK, StageInv, FlightInv, TokenInv
  <2>4. FlightInv'
    BY DEF TypeOK, StageInv, FlightInv
  <2>5. TokenInv'
    BY DEF TypeOK, StageInv, TokenInv
  <2>6. ReportInv'
    BY DEF TypeOK, StageInv, ReportInv
  <2> QED
    BY <2>1, <2>2, <2>3, <2>4, <2>5, <2>6
<1>19. CASE Finalize
  <2> USE <1>19 DEF Finalize
  <2>1. TypeOK'
    BY DEF TypeOK
  <2>2. ActiveFinite'
    BY DEF ActiveFinite
  <2>3. StageInv'
    BY NobodyCompiles DEF TypeOK, StageInv
  <2>4. FlightInv'
    BY DEF TypeOK, StageInv, FlightInv
  <2>5. TokenInv'
    BY DEF TypeOK, StageInv, TokenInv
  <2>6. ReportInv'
    BY DEF TypeOK, StageInv, ReportInv
  <2> QED
    BY <2>1, <2>2, <2>3, <2>4, <2>5, <2>6
<1>20. CASE DrainPreparations
  <2> USE <1>20 DEF DrainPreparations
  <2>1. TypeOK'
    BY DEF TypeOK
  <2>2. ActiveFinite'
    BY DEF ActiveFinite
  <2>3. StageInv'
    BY DEF TypeOK, StageInv, FlightInv, TokenInv
  <2>4. FlightInv'
    BY DEF TypeOK, StageInv, FlightInv
  <2>5. TokenInv'
    BY DEF TypeOK, StageInv, TokenInv
  <2>6. ReportInv'
    BY DEF TypeOK, StageInv, ReportInv
  <2> QED
    BY <2>1, <2>2, <2>3, <2>4, <2>5, <2>6
<1>21. CASE DrainAot
  <2> USE <1>21 DEF DrainAot
  <2>1. TypeOK'
    BY DEF TypeOK
  <2>2. ActiveFinite'
    BY DEF ActiveFinite
  <2>3. StageInv'
    BY DEF TypeOK, StageInv, FlightInv, TokenInv
  <2>4. FlightInv'
    BY DEF TypeOK, StageInv, FlightInv
  <2>5. TokenInv'
    BY DEF TypeOK, StageInv, TokenInv
  <2>6. ReportInv'
    BY DEF TypeOK, StageInv, ReportInv
  <2> QED
    BY <2>1, <2>2, <2>3, <2>4, <2>5, <2>6
<1>22. CASE DrainToken
  <2> USE <1>22 DEF DrainToken
  <2>1. TypeOK'
    BY DEF TypeOK
  <2>2. ActiveFinite'
    BY DEF ActiveFinite
  <2>3. StageInv'
    BY DEF TypeOK, StageInv, FlightInv, TokenInv
  <2>4. FlightInv'
    BY DEF TypeOK, StageInv, FlightInv
  <2>5. TokenInv'
    BY DEF TypeOK, StageInv, TokenInv
  <2>6. ReportInv'
    BY DEF TypeOK, StageInv, ReportInv
  <2> QED
    BY <2>1, <2>2, <2>3, <2>4, <2>5, <2>6
<1>23. CASE DrainInputs
  <2> USE <1>23 DEF DrainInputs
  <2>1. TypeOK'
    BY DEF TypeOK
  <2>2. ActiveFinite'
    BY DEF ActiveFinite
  <2>3. StageInv'
    BY DEF TypeOK, StageInv, FlightInv, TokenInv
  <2>4. FlightInv'
    BY DEF TypeOK, StageInv, FlightInv
  <2>5. TokenInv'
    BY DEF TypeOK, StageInv, TokenInv
  <2>6. ReportInv'
    BY DEF TypeOK, StageInv, ReportInv
  <2> QED
    BY <2>1, <2>2, <2>3, <2>4, <2>5, <2>6
<1>24. CASE Report
  <2> USE <1>24 DEF Report
  <2>1. TypeOK'
    <3>1. failing' \in BOOLEAN
      BY Zenon DEF TypeOK
    <3>2. reports' \subseteq Phases /\ pendingReport' \subseteq Phases
      BY DEF TypeOK
    <3> QED
      BY <3>1, <3>2 DEF TypeOK
  <2>2. ActiveFinite'
    BY DEF ActiveFinite
  <2>3. StageInv'
    BY DEF TypeOK, StageInv, FlightInv, TokenInv
  <2>4. FlightInv'
    BY DEF TypeOK, StageInv, FlightInv
  <2>5. TokenInv'
    BY DEF TypeOK, StageInv, TokenInv
  <2>6. ReportInv'
    <3>1. /\ UNCHANGED <<work, graph, awaited, sessionReport, status>>
          /\ fin = "verify" /\ fin' = "scratch"
      OBVIOUS
    <3>2. failing' \/ (/\ reports' = reports \cup Started
                      /\ pendingReport' = IF status = "module-graph" THEN {} ELSE reports')
      OBVIOUS
    <3>3. reports' = reports \/ reports' = reports \cup Started
      OBVIOUS
    <3> QED
      <4>1. Started' = Started /\ sessionReport = None
        BY <3>1 DEF ReportInv
      <4> HIDE DEF Started
      <4>2. reports' \subseteq Started /\ (failing' \/ reports' = Started)
        BY <3>2, <3>3 DEF ReportInv
      <4> QED
        BY <3>1, <3>2, <4>1, <4>2 DEF ReportInv
  <2> QED
    BY <2>1, <2>2, <2>3, <2>4, <2>5, <2>6
<1>25. CASE RemoveScratch
  <2> USE <1>25 DEF RemoveScratch
  <2>1. TypeOK'
    <3>1. failing' \in BOOLEAN /\ scratch' \in BOOLEAN
      BY Zenon DEF TypeOK
    <3>2. sessionReport' \in (SUBSET Phases) \cup {None}
      BY DEF TypeOK
    <3> QED
      BY <3>1, <3>2 DEF TypeOK
  <2>2. ActiveFinite'
    BY DEF ActiveFinite
  <2>3. StageInv'
    BY DEF TypeOK, StageInv, FlightInv, TokenInv
  <2>4. FlightInv'
    BY DEF TypeOK, StageInv, FlightInv
  <2>5. TokenInv'
    BY DEF TypeOK, StageInv, TokenInv
  <2>6. ReportInv'
    <3>1. UNCHANGED <<work, graph, awaited, status, reports, pendingReport>> /\ fin = "scratch"
      OBVIOUS
    <3>2. \/ fin' = "failed" /\ failing' /\ UNCHANGED sessionReport
          \/ /\ ~failing /\ fin' = "succeeded"
             /\ sessionReport' = IF status = "module-graph" THEN pendingReport \ reports
                                 ELSE pendingReport
      OBVIOUS
    <3>. Started' = Started
      BY <3>1
    <3> HIDE DEF Started
    <3>3. CASE fin' = "failed"
      BY <3>1, <3>2, <3>3 DEF TypeOK, ReportInv
    <3>4. CASE fin' = "succeeded"
      BY <3>1, <3>2, <3>4 DEF TypeOK, ReportInv
    <3> QED
      BY <3>2, <3>3, <3>4
  <2> QED
    BY <2>1, <2>2, <2>3, <2>4, <2>5, <2>6
<1>26. ASSUME NEW g \in Graphs, ClaimStart(g)
      PROVE  SessionInv'
  <2> USE <1>26 DEF ClaimStart
  <2>1. TypeOK'
    BY DEF TypeOK
  <2>2. ActiveFinite'
    BY DEF ActiveFinite
  <2>3. StageInv'
    BY DEF TypeOK, StageInv, FlightInv, TokenInv
  <2>4. FlightInv'
    BY DEF TypeOK, StageInv, FlightInv
  <2>5. TokenInv'
    BY DEF TypeOK, StageInv, TokenInv
  <2>6. ReportInv'
    BY DEF TypeOK, StageInv, ReportInv
  <2> QED
    BY <2>1, <2>2, <2>3, <2>4, <2>5, <2>6
<1>27. ASSUME NEW g \in Graphs, Claim(g)
      PROVE  SessionInv'
  <2> USE <1>27 DEF Claim
  <2>1. TypeOK'
    <3> DEFINE owned == reports \cup awaited[g]
    <3>1. reports' \subseteq Phases /\ status' \in {"unclaimed", "module-graph"}
      BY DEF TypeOK
    <3>2. sessionReport' \in (SUBSET Phases) \cup {None}
      BY DEF TypeOK
    <3>3. graph' \in [Graphs -> {"new", "claiming", "claimed", "failed"}]
      BY DEF TypeOK
    <3> QED
      BY <3>1, <3>2, <3>3 DEF TypeOK
  <2>2. ActiveFinite'
    BY DEF ActiveFinite
  <2>3. StageInv'
    BY DEF TypeOK, StageInv, FlightInv, TokenInv
  <2>4. FlightInv'
    BY DEF TypeOK, StageInv, FlightInv
  <2>5. TokenInv'
    BY DEF TypeOK, StageInv, TokenInv
  <2>6. ReportInv'
    <3> DEFINE owned == reports \cup awaited[g]
    <3>1. Started' = Started /\ UNCHANGED <<fin, failing, pendingReport, awaited>>
      OBVIOUS
    <3>2. owned \subseteq Started
      BY DEF ReportInv
    <3> HIDE DEF Started, owned
    <3>3. CASE UNCHANGED <<reports, status, sessionReport>>
      BY <3>1, <3>3 DEF ReportInv
    <3>4. CASE /\ status = "unclaimed" /\ reports' = owned
               /\ ~(sessionReport # None /\ ~(owned \subseteq sessionReport))
               /\ status' = "module-graph"
               /\ sessionReport' = IF sessionReport # None THEN sessionReport \ owned
                                   ELSE sessionReport
      <4>1. reports \subseteq owned
        BY DEF owned
      <4>2. CASE sessionReport = None
        <5>1. fin # "succeeded"
          BY <3>4, <4>2 DEF Started, ReportInv
        <5> QED
          BY <3>1, <3>2, <3>4, <4>1, <4>2, <5>1 DEF ReportInv
      <4>3. CASE sessionReport # None
        <5>1. fin = "succeeded" /\ sessionReport = Started /\ reports = Started
          BY <3>4, <4>3 DEF StageInv, ReportInv
        <5> QED
          BY <3>1, <3>2, <3>4, <4>1, <4>3, <5>1 DEF ReportInv
      <4> QED
        BY <4>2, <4>3
    <3>5. CASE /\ status = "unclaimed" /\ reports' = owned
               /\ sessionReport # None /\ ~(owned \subseteq sessionReport)
      BY <3>1, <3>2, <3>5 DEF TypeOK, StageInv, ReportInv
    <3> QED
      BY <3>3, <3>4, <3>5 DEF owned
  <2> QED
    BY <2>1, <2>2, <2>3, <2>4, <2>5, <2>6
<1>28. CASE UNCHANGED vars
  BY <1>28 DEF vars, TypeOK, ActiveFinite, StageInv, FlightInv, TokenInv, ReportInv
<1> QED
  <2>1. DOMAIN snapshot = 1 .. 2
    BY DEF TypeOK
  <2> QED
    BY <2>1, <1>1, <1>2, <1>3, <1>4, <1>5, <1>6, <1>7, <1>8, <1>9, <1>10, <1>11, <1>12, <1>13,
       <1>14, <1>15, <1>16, <1>17, <1>18, <1>19, <1>20, <1>21, <1>22, <1>23, <1>24, <1>25, <1>26,
       <1>27, <1>28 DEF Next, Progress

\* Every behaviour of a session keeps the inductive invariant.
THEOREM Invariance == Spec => []SessionInv
BY InitInv, InvStep, PTL DEF Spec

\* The variables keep their types, and activeCompilations counts the calls that compile.
THEOREM TypeCorrect == Spec => []TypeOK
BY Invariance, PTL DEF SessionInv

\* No compilation, work of the session or flight that finalization waits for is under way
\* without the session's native scratch, whatever fails and whoever started it.
THEOREM ScratchOutlives == Spec => []ScratchOutlivesWork
<1>1. SessionInv => ScratchOutlivesWork
  <2> SUFFICES ASSUME SessionInv, ~scratch
               PROVE  ~UsesScratch(IF drained = None THEN 1 .. 2 ELSE {f \in 1 .. 2 : f <= drained})
    BY DEF ScratchOutlivesWork
  <2> USE MaterialAssumption DEF SessionInv, Early, NeverOpen, Draining, PastPreparations, PastAot,
                                 Ended, Stages, Phases, Work, Progresses, Quiet, Settled
  <2>1. fin \in {"absent", "succeeded", "failed"}
    BY DEF TypeOK, StageInv
  <2>2. CASE NeverOpen
    BY <2>2 DEF UsesScratch, TypeOK, StageInv
  <2>3. CASE ~NeverOpen
    <3>1. fin \in Ended /\ drained \in {1, 2}
      BY <2>1, <2>3 DEF TypeOK, StageInv
    <3>2. \A c \in Compilations : call[c] # "active"
      BY <3>1 DEF StageInv
    <3>3. \A w \in Work : work[w] # "working"
      BY <3>1 DEF StageInv
    <3>4. \A f \in 1 .. 2 : f <= drained => snapshot[f] # "working"
      BY <3>1 DEF FlightInv
    <3> QED
      BY <3>1, <3>2, <3>3, <3>4 DEF UsesScratch
  <2> QED
    BY <2>2, <2>3
<1> QED
  BY <1>1, Invariance, PTL

\* When finalizeConvexWasmArtifactMaterialSession has ended, compilations, shared work, the
\* token that the session claimed and the flight of the header snapshot that was awaited are
\* over; when it succeeded, the work was good and no other flight is left.
THEOREM EndedQuiet == Spec => []EndedSessionIsQuiet
<1>1. SessionInv => EndedSessionIsQuiet
  BY DEF SessionInv, TypeOK, StageInv, FlightInv, TokenInv, EndedSessionIsQuiet, Ended, Draining,
         PastPreparations, PastAot, PastToken, Work, Phases, Settled, Quiet
<1> QED
  BY <1>1, Invariance, PTL

\* The session and the module graphs together report every phase that happened, once.
THEOREM ReportedOnce == Spec => []PhaseReportedOnce
<1>1. SessionInv => PhaseReportedOnce
  BY DEF SessionInv, StageInv, ReportInv, PhaseReportedOnce
<1> QED
  BY <1>1, Invariance, PTL

-----------------------------------------------------------------------------
(* The maps.                                                               *)

MapsSpec == WorkMap!Init /\ [][WorkMap!Next]_(WorkMap!vars)

MapsTypes ==
    /\ item \in [WorkMap!Items -> WorkMap!ItemStates]
    /\ nextIndex \in [Maps -> Nat \ {0}]
    /\ failed \in [Maps -> BOOLEAN] /\ failures \in [Maps -> SUBSET WorkMap!Indices]
    /\ exited \in [Maps -> Nat]
    /\ outcome \in [Maps -> {"new", "pending", "ok", "failed"}]

\* The queue has each queued operation once, and the scheduler runs no more than it may.
QueueOf(waiting, states) ==
    /\ waiting \in Seq(WorkMap!Items)
    /\ \A j, k \in 1 .. Len(waiting) : waiting[j] = waiting[k] => j = k
    /\ \A k \in 1 .. Len(waiting) : states[waiting[k]] = "queued"
QueueInv == QueueOf(queue, item) /\ activeCount \in Int /\ activeCount <= Concurrency

\* The values of a map that were handed to the scheduler and are not done.
InFlight(m) == {i \in WorkMap!Indices : item[<<m, i>>] \notin {"new", "done"}}

\* A worker of a map has an operation in flight or has returned.  It returns after a failure
\* or when no value is left, and values are taken in order.
MapOk(m) ==
    /\ outcome[m] = "new" =>
          /\ \A i \in WorkMap!Indices : item[<<m, i>>] = "new"
          /\ nextIndex[m] = 1 /\ exited[m] = 0
    /\ outcome[m] # "new" => Cardinality(InFlight(m)) + exited[m] = WorkMap!Workers
    /\ \A i \in WorkMap!Indices : item[<<m, i>>] = "new" <=> i >= nextIndex[m]
    /\ exited[m] > 0 /\ ~failed[m] => nextIndex[m] > Length
    /\ outcome[m] \in {"ok", "failed"} => exited[m] = WorkMap!Workers
    /\ outcome[m] = "ok" => ~failed[m]
MapInv == \A m \in Maps : MapOk(m)

\* The failure of a callback is on record before the scheduler hears of it.
FailureInv == \A x \in WorkMap!Items : item[x] \in {"thrown", "error"} => failed[x[1]]

OrchestrationInv == MapsTypes /\ QueueInv /\ MapInv /\ FailureInv

LEMMA WorkersNat ==
    WorkMap!Workers \in Nat /\ WorkMap!Workers <= Length /\ (Length > 0 => WorkMap!Workers > 0)
BY SchedulerAssumption DEF WorkMap!Workers

\* The values of a map are finitely many.
LEMMA InFlightFinite ==
    ASSUME NEW m
    PROVE  IsFiniteSet(InFlight(m)) /\ Cardinality(InFlight(m)) \in Nat
<1>1. IsFiniteSet(WorkMap!Indices)
  BY FS_Interval, SchedulerAssumption DEF WorkMap!Indices
<1> QED
  BY <1>1, FS_Subset, FS_CardinalityType DEF InFlight

LEMMA MapsInitInv ==
    ASSUME WorkMap!Init
    PROVE  OrchestrationInv
<1>1. MapsTypes
  BY DEF WorkMap!Init, MapsTypes, WorkMap!ItemStates
<1>2. QueueInv
  BY SchedulerAssumption DEF WorkMap!Init, QueueInv, QueueOf
<1>3. MapInv
  BY SchedulerAssumption DEF WorkMap!Init, MapInv, MapOk, WorkMap!Indices, WorkMap!Items
<1>4. FailureInv
  BY DEF WorkMap!Init, FailureInv
<1> QED
  BY <1>1, <1>2, <1>3, <1>4 DEF OrchestrationInv

\* drain() admits the first operations and leaves the others as they are.
LEMMA DrainEffect ==
    ASSUME NEW waiting, NEW active \in Int, NEW states \in [WorkMap!Items -> WorkMap!ItemStates],
           QueueOf(waiting, states), active <= Concurrency, WorkMap!Drain(waiting, active, states)
    PROVE  /\ item' \in [WorkMap!Items -> WorkMap!ItemStates] /\ QueueInv'
           /\ \A x \in WorkMap!Items : \/ item'[x] = states[x]
                                       \/ states[x] = "queued" /\ item'[x] = "admitted"
<1> DEFINE room == Concurrency - active
           count == IF room < Len(waiting) THEN room ELSE Len(waiting)
<1>1. /\ queue' = SubSeq(waiting, count + 1, Len(waiting))
      /\ activeCount' = active + count
      /\ item' = [x \in WorkMap!Items |->
                    IF \E k \in 1 .. count : waiting[k] = x THEN "admitted" ELSE states[x]]
  BY DEF WorkMap!Drain
<1>2. /\ waiting \in Seq(WorkMap!Items) /\ Len(waiting) \in Nat
      /\ count \in Nat /\ count <= Len(waiting) /\ count <= room
  BY SchedulerAssumption DEF QueueOf
<1> HIDE DEF count
<1>3. \A x \in WorkMap!Items : \/ item'[x] = states[x]
                               \/ states[x] = "queued" /\ item'[x] = "admitted"
  BY <1>1, <1>2 DEF QueueOf
<1>4. item' \in [WorkMap!Items -> WorkMap!ItemStates]
  BY <1>1 DEF WorkMap!ItemStates
<1>5. /\ queue' \in Seq(WorkMap!Items) /\ Len(queue') = Len(waiting) - count
      /\ \A k \in 1 .. Len(queue') : queue'[k] = waiting[count + k]
  BY <1>1, <1>2, SubSeqProperties
<1>6. QueueOf(queue', item')
  <2>1. ASSUME NEW j \in 1 .. Len(queue'), NEW k \in 1 .. Len(queue'), queue'[j] = queue'[k]
        PROVE  j = k
    <3>1. /\ count + j \in 1 .. Len(waiting) /\ queue'[j] = waiting[count + j]
          /\ count + k \in 1 .. Len(waiting) /\ queue'[k] = waiting[count + k]
      BY <1>2, <1>5
    <3>2. count + j = count + k
      BY <2>1, <3>1 DEF QueueOf
    <3> QED
      BY <1>2, <3>2
  <2>2. ASSUME NEW k \in 1 .. Len(queue')
        PROVE  item'[queue'[k]] = "queued"
    <3>1. count + k \in 1 .. Len(waiting) /\ queue'[k] = waiting[count + k]
      BY <1>2, <1>5
    <3>2. \A j \in 1 .. count : waiting[j] # waiting[count + k]
      BY <1>2, <3>1 DEF QueueOf
    <3>3. waiting[count + k] \in WorkMap!Items /\ states[waiting[count + k]] = "queued"
      BY <1>2, <3>1 DEF QueueOf
    <3> QED
      BY <1>1, <3>1, <3>2, <3>3
  <2> QED
    BY <1>5, <2>1, <2>2 DEF QueueOf
<1>7. activeCount' \in Int /\ activeCount' <= Concurrency
  BY <1>1, <1>2, SchedulerAssumption
<1> QED
  BY <1>3, <1>4, <1>6, <1>7 DEF QueueInv

\* The operations of `new', queued.
QueuedUp(new, states) ==
    [x \in WorkMap!Items |-> IF \E k \in 1 .. Len(new) : new[k] = x THEN "queued" ELSE states[x]]

LEMMA LongerQueue ==
    ASSUME NEW new \in Seq(WorkMap!Items), NEW states \in [WorkMap!Items -> WorkMap!ItemStates],
           QueueOf(queue, states),
           \A j, k \in 1 .. Len(new) : new[j] = new[k] => j = k,
           \A k \in 1 .. Len(new) : states[new[k]] = "new"
    PROVE  /\ QueuedUp(new, states) \in [WorkMap!Items -> WorkMap!ItemStates]
           /\ QueueOf(queue \o new, QueuedUp(new, states))
<1> DEFINE waiting == queue \o new
           queued == QueuedUp(new, states)
<1>1. /\ queued \in [WorkMap!Items -> WorkMap!ItemStates]
      /\ \A x \in WorkMap!Items :
            queued[x] = IF \E k \in 1 .. Len(new) : new[k] = x THEN "queued" ELSE states[x]
  BY DEF WorkMap!ItemStates, QueuedUp
<1>2. /\ waiting \in Seq(WorkMap!Items) /\ Len(waiting) = Len(queue) + Len(new)
      /\ Len(queue) \in Nat /\ Len(new) \in Nat
      /\ \A k \in 1 .. Len(waiting) :
            waiting[k] = IF k <= Len(queue) THEN queue[k] ELSE new[k - Len(queue)]
  BY ConcatProperties DEF QueueOf
<1> HIDE DEF waiting, queued
<1>3. ASSUME NEW j \in 1 .. Len(waiting), NEW k \in 1 .. Len(waiting),
             waiting[j] = waiting[k]
      PROVE  j = k
  <2>1. CASE j <= Len(queue) /\ k <= Len(queue)
    <3>1. /\ j \in 1 .. Len(queue) /\ k \in 1 .. Len(queue)
          /\ waiting[j] = queue[j] /\ waiting[k] = queue[k]
      BY <1>2, <2>1
    <3> QED
      BY <1>3, <3>1 DEF QueueOf
  <2>2. CASE j > Len(queue) /\ k > Len(queue)
    <3>1. /\ j - Len(queue) \in 1 .. Len(new) /\ k - Len(queue) \in 1 .. Len(new)
          /\ waiting[j] = new[j - Len(queue)] /\ waiting[k] = new[k - Len(queue)]
      BY <1>2, <2>2
    <3>2. j - Len(queue) = k - Len(queue)
      BY <1>3, <3>1
    <3> QED
      BY <1>2, <3>2
  <2>3. CASE j <= Len(queue) /\ k > Len(queue)
    <3>1. /\ j \in 1 .. Len(queue) /\ k - Len(queue) \in 1 .. Len(new)
          /\ waiting[j] = queue[j] /\ waiting[k] = new[k - Len(queue)]
      BY <1>2, <2>3
    <3> QED
      BY <1>3, <3>1 DEF QueueOf
  <2>4. CASE j > Len(queue) /\ k <= Len(queue)
    <3>1. /\ k \in 1 .. Len(queue) /\ j - Len(queue) \in 1 .. Len(new)
          /\ waiting[k] = queue[k] /\ waiting[j] = new[j - Len(queue)]
      BY <1>2, <2>4
    <3> QED
      BY <1>3, <3>1 DEF QueueOf
  <2> QED
    BY <1>2, <2>1, <2>2, <2>3, <2>4
<1>4. ASSUME NEW k \in 1 .. Len(waiting)
      PROVE  queued[waiting[k]] = "queued"
  <2>1. CASE k <= Len(queue)
    <3>1. k \in 1 .. Len(queue) /\ waiting[k] = queue[k] /\ queue[k] \in WorkMap!Items
      BY <1>2, <2>1 DEF QueueOf
    <3> QED
      BY <1>1, <3>1 DEF QueueOf
  <2>2. CASE k > Len(queue)
    <3>1. k - Len(queue) \in 1 .. Len(new) /\ waiting[k] = new[k - Len(queue)]
      BY <1>2, <2>2
    <3>2. waiting[k] \in WorkMap!Items
      BY <3>1
    <3> QED
      BY <1>1, <3>1, <3>2
  <2> QED
    BY <1>2, <2>1, <2>2
<1> QED
  BY <1>1, <1>2, <1>3, <1>4 DEF QueueOf, waiting, queued

\* run() queues, admits or refuses the new operations and may admit operations of the queue.
LEMMA RunEffect ==
    ASSUME NEW new \in Seq(WorkMap!Items), NEW states \in [WorkMap!Items -> WorkMap!ItemStates],
           QueueOf(queue, states), activeCount \in Int, activeCount <= Concurrency,
           \A j, k \in 1 .. Len(new) : new[j] = new[k] => j = k,
           \A k \in 1 .. Len(new) : states[new[k]] = "new",
           WorkMap!Run(new, states)
    PROVE  /\ item' \in [WorkMap!Items -> WorkMap!ItemStates] /\ QueueInv'
           /\ \A x \in WorkMap!Items :
                 IF \E k \in 1 .. Len(new) : new[k] = x
                 THEN item'[x] \in {"queued", "admitted", "refused"}
                 ELSE \/ item'[x] = states[x]
                      \/ states[x] = "queued" /\ item'[x] = "admitted"
<1>1. CASE stopped
  <2>1. /\ item' = [x \in WorkMap!Items |->
                       IF \E k \in 1 .. Len(new) : new[k] = x THEN "refused" ELSE states[x]]
        /\ queue' = queue /\ activeCount' = activeCount
    BY <1>1 DEF WorkMap!Run
  <2>2. \A k \in 1 .. Len(queue) : \A j \in 1 .. Len(new) : new[j] # queue[k]
    BY DEF QueueOf
  <2>3. \A k \in 1 .. Len(queue) : queue[k] \in WorkMap!Items
    BY DEF QueueOf
  <2>4. QueueOf(queue', item')
    BY <2>1, <2>2, <2>3 DEF QueueOf
  <2>5. item' \in [WorkMap!Items -> WorkMap!ItemStates]
    BY <2>1 DEF WorkMap!ItemStates
  <2> QED
    BY <2>1, <2>4, <2>5 DEF QueueInv
<1>2. CASE ~stopped
  <2>1. WorkMap!Drain(queue \o new, activeCount, QueuedUp(new, states))
    BY <1>2 DEF WorkMap!Run, QueuedUp
  <2>2. /\ item' \in [WorkMap!Items -> WorkMap!ItemStates] /\ QueueInv'
        /\ \A x \in WorkMap!Items :
              \/ item'[x] = QueuedUp(new, states)[x]
              \/ QueuedUp(new, states)[x] = "queued" /\ item'[x] = "admitted"
    BY <2>1, LongerQueue, DrainEffect
  <2> QED
    BY <2>2 DEF QueuedUp
<1> QED
  BY <1>1, <1>2

\* While a value of a map is in flight, a worker of the map is, and the map is pending.
LEMMA PendingInFlight ==
    ASSUME MapsTypes, MapInv, NEW x \in WorkMap!Items, item[x] \notin {"new", "done"}
    PROVE  /\ x[1] \in Maps /\ x[2] \in WorkMap!Indices /\ x = <<x[1], x[2]>>
           /\ x[2] \in InFlight(x[1]) /\ outcome[x[1]] = "pending"
<1> DEFINE m == x[1]
<1>1. m \in Maps /\ x[2] \in WorkMap!Indices /\ x = <<m, x[2]>>
  BY DEF WorkMap!Items
<1>2. x[2] \in InFlight(m)
  BY <1>1 DEF InFlight
<1>3. Cardinality(InFlight(m)) \in Nat /\ Cardinality(InFlight(m)) # 0
  BY <1>2, InFlightFinite, FS_EmptySet
<1>4. outcome[m] # "new"
  BY <1>1 DEF MapInv, MapOk
<1>5. exited[m] # WorkMap!Workers
  BY <1>1, <1>3, <1>4, WorkersNat DEF MapInv, MapOk, MapsTypes
<1> QED
  BY <1>1, <1>2, <1>4, <1>5 DEF MapInv, MapOk, MapsTypes

\* Steps of operations that are and stay in flight, and failures of pending maps, keep
\* the accounts of the maps.
LEMMA QuietStep ==
    ASSUME MapsTypes, MapInv, failed' \in [Maps -> BOOLEAN],
           \A x \in WorkMap!Items : /\ item'[x] = "new" <=> item[x] = "new"
                                    /\ item'[x] = "done" <=> item[x] = "done",
           \A m \in Maps : /\ failed[m] => failed'[m]
                           /\ failed'[m] # failed[m] => outcome[m] = "pending",
           UNCHANGED <<nextIndex, exited, outcome>>
    PROVE  MapInv'
<1> SUFFICES ASSUME NEW m \in Maps
             PROVE  MapOk(m)'
  BY DEF MapInv
<1>1. \A i \in WorkMap!Indices : <<m, i>> \in WorkMap!Items
  BY DEF WorkMap!Items
<1>2. InFlight(m)' = InFlight(m)
  BY <1>1 DEF InFlight
<1>3. \A i \in WorkMap!Indices : item'[<<m, i>>] = "new" <=> item[<<m, i>>] = "new"
  BY <1>1
<1>4. MapOk(m)
  BY DEF MapInv
<1> QED
  BY <1>2, <1>3, <1>4 DEF MapOk, MapsTypes

\* A worker that returns gives up its operation in flight.
LEMMA WorkerReturns ==
    ASSUME MapsTypes, MapInv, NEW x \in WorkMap!Items,
           item[x] \notin {"new", "done"},
           item' = [item EXCEPT ![x] = "done"],
           exited' = [exited EXCEPT ![x[1]] = @ + 1],
           outcome' = outcome,
           failed' \in [Maps -> BOOLEAN], nextIndex' \in [Maps -> Nat \ {0}],
           \A m \in Maps : /\ failed[m] => failed'[m]
                           /\ m # x[1] => failed'[m] = failed[m] /\ nextIndex'[m] = nextIndex[m],
           \/ nextIndex'[x[1]] = nextIndex[x[1]]
           \/ nextIndex[x[1]] > Length /\ nextIndex'[x[1]] > Length,
           failed'[x[1]] \/ nextIndex'[x[1]] > Length
    PROVE  MapInv'
<1> SUFFICES ASSUME NEW m \in Maps
             PROVE  MapOk(m)'
  BY DEF MapInv
<1>1. /\ x[1] \in Maps /\ x[2] \in WorkMap!Indices /\ x = <<x[1], x[2]>>
      /\ x[2] \in InFlight(x[1]) /\ outcome[x[1]] = "pending"
  BY PendingInFlight
<1>2. \A i \in WorkMap!Indices : <<m, i>> \in WorkMap!Items
  BY DEF WorkMap!Items
<1>3. MapOk(m)
  BY DEF MapInv
<1>4. /\ IsFiniteSet(InFlight(m)) /\ Cardinality(InFlight(m)) \in Nat
      /\ WorkMap!Workers \in Nat /\ exited[m] \in Nat /\ nextIndex[m] \in Nat \ {0}
      /\ failed[m] \in BOOLEAN /\ failed'[m] \in BOOLEAN /\ nextIndex'[m] \in Nat \ {0}
  BY InFlightFinite, WorkersNat DEF MapsTypes
<1>5. CASE m # x[1]
  <2>1. \A i \in WorkMap!Indices : item'[<<m, i>>] = item[<<m, i>>]
    BY <1>1, <1>2, <1>5 DEF MapsTypes
  <2>2. InFlight(m)' = InFlight(m)
    BY <2>1 DEF InFlight
  <2>3. exited'[m] = exited[m] /\ failed'[m] = failed[m] /\ nextIndex'[m] = nextIndex[m]
    BY <1>5 DEF MapsTypes
  <2> QED
    BY <1>3, <2>1, <2>2, <2>3 DEF MapOk
<1>6. CASE m = x[1]
  <2>1. \A i \in WorkMap!Indices : item'[<<m, i>>] = IF i = x[2] THEN "done" ELSE item[<<m, i>>]
    BY <1>1, <1>2, <1>6 DEF MapsTypes
  <2>2. InFlight(m)' = InFlight(m) \ {x[2]}
    BY <2>1 DEF InFlight
  <2>3. Cardinality(InFlight(m)') = Cardinality(InFlight(m)) - 1
    <3>1. x[2] \in InFlight(m)
      BY <1>1, <1>6
    <3>2. Cardinality(InFlight(m) \ {x[2]}) = Cardinality(InFlight(m)) - 1
      BY <1>4, <3>1, FS_RemoveElement
    <3> QED
      BY <2>2, <3>2
  <2>4. exited'[m] = exited[m] + 1
    BY <1>6 DEF MapsTypes
  <2>5. \A i \in WorkMap!Indices : item'[<<m, i>>] = "new" <=> i >= nextIndex'[m]
    <3>1. \A i \in WorkMap!Indices : item'[<<m, i>>] = "new" <=> item[<<m, i>>] = "new"
      BY <1>1, <1>6, <2>1
    <3>2. \A i \in WorkMap!Indices : i \in 1 .. Length
      BY DEF WorkMap!Indices
    <3>3. Length \in Nat
      BY SchedulerAssumption
    <3> QED
      BY <1>3, <1>4, <1>6, <3>1, <3>2, <3>3 DEF MapOk
  <2> QED
    BY <1>1, <1>3, <1>4, <1>6, <2>1, <2>3, <2>4, <2>5 DEF MapOk
<1> QED
  BY <1>5, <1>6

LEMMA StartStep ==
    ASSUME OrchestrationInv, NEW m \in Maps, WorkMap!Start(m)
    PROVE  OrchestrationInv'
<1> DEFINE new == [k \in 1 .. WorkMap!Workers |-> <<m, k>>]
<1>1. MapsTypes /\ QueueInv /\ MapInv /\ FailureInv
  BY DEF OrchestrationInv
<1>2. /\ outcome[m] = "new" /\ outcome' = [outcome EXCEPT ![m] = "pending"]
      /\ nextIndex' = [nextIndex EXCEPT ![m] = WorkMap!Workers + 1]
      /\ WorkMap!Run(new, item)
      /\ UNCHANGED <<failed, failures, exited>>
  BY DEF WorkMap!Start
<1>3. WorkMap!Workers \in Nat /\ WorkMap!Workers <= Length /\ Length \in Nat
  BY WorkersNat, SchedulerAssumption
<1>4. /\ \A i \in WorkMap!Indices : item[<<m, i>>] = "new"
      /\ nextIndex[m] = 1 /\ exited[m] = 0
  BY <1>1, <1>2 DEF MapInv, MapOk
<1>5. /\ new \in Seq(WorkMap!Items) /\ Len(new) = WorkMap!Workers
      /\ \A k \in 1 .. WorkMap!Workers : new[k] = <<m, k>> /\ k \in WorkMap!Indices
  <2>1. \A k \in 1 .. WorkMap!Workers : k \in WorkMap!Indices /\ <<m, k>> \in WorkMap!Items
    BY <1>3 DEF WorkMap!Indices, WorkMap!Items
  <2> QED
    BY <1>3, <2>1
<1> HIDE DEF new
<1>6. /\ item' \in [WorkMap!Items -> WorkMap!ItemStates] /\ QueueInv'
      /\ \A x \in WorkMap!Items :
            IF \E k \in 1 .. Len(new) : new[k] = x
            THEN item'[x] \in {"queued", "admitted", "refused"}
            ELSE \/ item'[x] = item[x]
                 \/ item[x] = "queued" /\ item'[x] = "admitted"
  <2>1. \A j, k \in 1 .. Len(new) : new[j] = new[k] => j = k
    BY <1>3, <1>5
  <2>2. \A k \in 1 .. Len(new) : item[new[k]] = "new"
    BY <1>4, <1>5
  <2>3. item \in [WorkMap!Items -> WorkMap!ItemStates] /\ QueueOf(queue, item)
        /\ activeCount \in Int /\ activeCount <= Concurrency
    BY <1>1 DEF MapsTypes, QueueInv
  <2> QED
    BY <1>2, <1>5, <2>1, <2>2, <2>3, RunEffect
<1>7. MapsTypes'
  BY <1>1, <1>2, <1>3, <1>6 DEF MapsTypes
<1>8. FailureInv'
  BY <1>1, <1>2, <1>6 DEF FailureInv
<1>9. MapInv'
  <2> SUFFICES ASSUME NEW n \in Maps
               PROVE  MapOk(n)'
    BY DEF MapInv
  <2>1. \A i \in WorkMap!Indices : <<n, i>> \in WorkMap!Items
    BY DEF WorkMap!Items
  <2>2. CASE n # m
    <3>1. \A i \in WorkMap!Indices : ~ \E k \in 1 .. Len(new) : new[k] = <<n, i>>
      BY <1>5, <2>2
    <3>2. \A i \in WorkMap!Indices : /\ item'[<<n, i>>] = "new" <=> item[<<n, i>>] = "new"
                                     /\ item'[<<n, i>>] = "done" <=> item[<<n, i>>] = "done"
      BY <1>6, <2>1, <3>1
    <3>3. InFlight(n)' = InFlight(n)
      BY <3>2 DEF InFlight
    <3>4. outcome'[n] = outcome[n] /\ nextIndex'[n] = nextIndex[n]
      BY <1>1, <1>2, <2>2 DEF MapsTypes
    <3>5. MapOk(n)
      BY <1>1 DEF MapInv
    <3> QED
      BY <1>2, <3>2, <3>3, <3>4, <3>5 DEF MapOk
  <2>3. CASE n = m
    <3>1. \A i \in WorkMap!Indices : IF i <= WorkMap!Workers
                            THEN item'[<<m, i>>] \in {"queued", "admitted", "refused"}
                            ELSE item'[<<m, i>>] = "new"
      <4> SUFFICES ASSUME NEW i \in WorkMap!Indices
                   PROVE  IF i <= WorkMap!Workers
                          THEN item'[<<m, i>>] \in {"queued", "admitted", "refused"}
                          ELSE item'[<<m, i>>] = "new"
        OBVIOUS
      <4>1. i \in 1 .. Length
        BY DEF WorkMap!Indices
      <4>2. CASE i <= WorkMap!Workers
        <5>1. i \in 1 .. Len(new) /\ new[i] = <<m, i>>
          BY <1>3, <1>5, <4>1, <4>2
        <5>2. <<m, i>> \in WorkMap!Items
          BY <2>1, <2>3
        <5> QED
          BY <1>6, <4>2, <5>1, <5>2
      <4>3. CASE ~(i <= WorkMap!Workers)
        <5>1. ~ \E k \in 1 .. Len(new) : new[k] = <<m, i>>
          BY <1>3, <1>5, <4>1, <4>3
        <5>2. <<m, i>> \in WorkMap!Items /\ item[<<m, i>>] = "new"
          BY <1>4, <2>1, <2>3
        <5>3. item'[<<m, i>>] = "new"
          BY <1>6, <5>1, <5>2
        <5> QED
          BY <4>3, <5>3
      <4> QED
        BY <4>2, <4>3
    <3>2. InFlight(m)' = 1 .. WorkMap!Workers
      BY <1>3, <3>1 DEF InFlight, WorkMap!Indices
    <3>3. Cardinality(InFlight(m)') = WorkMap!Workers
      BY <1>3, <3>2, FS_Interval
    <3>4. outcome'[m] = "pending" /\ nextIndex'[m] = WorkMap!Workers + 1 /\ exited'[m] = 0
      BY <1>1, <1>2, <1>4 DEF MapsTypes
    <3>5. \A i \in WorkMap!Indices :
              i \in Nat /\ (item'[<<m, i>>] = "new" <=> i >= WorkMap!Workers + 1)
      BY <1>3, <3>1 DEF WorkMap!Indices
    <3> QED
      BY <1>3, <2>3, <3>3, <3>4, <3>5 DEF MapOk
  <2> QED
    BY <2>2, <2>3
<1> QED
  BY <1>6, <1>7, <1>8, <1>9 DEF OrchestrationInv

\* A step of one operation that is not queued leaves the queue as it is.
LEMMA QueueKept ==
    ASSUME MapsTypes, QueueInv, NEW x \in WorkMap!Items, item[x] # "queued",
           NEW state \in WorkMap!ItemStates,
           item' = [item EXCEPT ![x] = state], UNCHANGED <<queue, activeCount>>
    PROVE  QueueInv'
<1>1. \A k \in 1 .. Len(queue) : queue[k] \in WorkMap!Items /\ queue[k] # x
  BY DEF QueueInv, QueueOf
<1>2. \A k \in 1 .. Len(queue) : item'[queue[k]] = "queued"
  BY <1>1 DEF QueueInv, QueueOf, MapsTypes
<1> QED
  BY <1>2 DEF QueueInv, QueueOf

LEMMA CallbackStep ==
    ASSUME OrchestrationInv, NEW x \in WorkMap!Items,
           WorkMap!Begin(x) \/ WorkMap!Return(x) \/ WorkMap!Throw(x)
    PROVE  OrchestrationInv'
<1>1. MapsTypes /\ QueueInv /\ MapInv /\ FailureInv
  BY DEF OrchestrationInv
<1>2. item[x] \in {"admitted", "running"}
  BY DEF WorkMap!Begin, WorkMap!Return, WorkMap!Throw
<1>3. /\ x[1] \in Maps /\ x[2] \in WorkMap!Indices /\ outcome[x[1]] = "pending"
  BY <1>1, <1>2, PendingInFlight
<1>4. PICK state \in {"skipped", "running", "returned", "thrown"} :
          /\ item' = [item EXCEPT ![x] = state]
          /\ UNCHANGED <<queue, activeCount, nextIndex, exited, outcome>>
          /\ \/ state # "thrown" /\ UNCHANGED <<failed, failures>>
             \/ /\ failures' = [failures EXCEPT ![x[1]] = @ \cup {x[2]}]
                /\ failed' = [failed EXCEPT ![x[1]] = TRUE]
  BY DEF WorkMap!Begin, WorkMap!Return, WorkMap!Throw, WorkMap!RecordFailure
<1>5. state \in WorkMap!ItemStates
  BY DEF WorkMap!ItemStates
<1>6. MapsTypes'
  <2>1. item' \in [WorkMap!Items -> WorkMap!ItemStates]
    BY <1>1, <1>4, <1>5 DEF MapsTypes
  <2>2. failed' \in [Maps -> BOOLEAN]
    BY <1>1, <1>4 DEF MapsTypes
  <2>3. failures' \in [Maps -> SUBSET WorkMap!Indices]
    BY <1>1, <1>3, <1>4 DEF MapsTypes
  <2> QED
    BY <1>1, <1>4, <2>1, <2>2, <2>3 DEF MapsTypes
<1>7. QueueInv'
  BY <1>1, <1>2, <1>4, <1>5, QueueKept
<1>8. \A m \in Maps : /\ failed[m] => failed'[m]
                      /\ failed'[m] # failed[m] => m = x[1]
  BY <1>1, <1>4 DEF MapsTypes
<1>9. MapInv'
  <2>1. \A y \in WorkMap!Items : /\ item'[y] = "new" <=> item[y] = "new"
                                 /\ item'[y] = "done" <=> item[y] = "done"
    BY <1>1, <1>2, <1>4 DEF MapsTypes
  <2>2. failed' \in [Maps -> BOOLEAN]
    BY <1>6 DEF MapsTypes
  <2> QED
    BY <1>1, <1>3, <1>4, <1>8, <2>1, <2>2, QuietStep
<1>10. FailureInv'
  <2> SUFFICES ASSUME NEW y \in WorkMap!Items, item'[y] \in {"thrown", "error"}
               PROVE  failed'[y[1]]
    BY DEF FailureInv
  <2>1. y[1] \in Maps
    BY DEF WorkMap!Items
  <2>2. CASE y # x
    BY <1>1, <1>4, <1>8, <2>1, <2>2 DEF FailureInv, MapsTypes
  <2>3. CASE y = x
    BY <1>1, <1>4, <2>1, <2>3 DEF MapsTypes
  <2> QED
    BY <2>2, <2>3
<1> QED
  BY <1>6, <1>7, <1>9, <1>10 DEF OrchestrationInv

LEMMA ItemSettles ==
    ASSUME OrchestrationInv, NEW x \in WorkMap!Items, WorkMap!Settle(x)
    PROVE  OrchestrationInv'
<1> DEFINE settled == [item EXCEPT ![x] = IF item[x] = "thrown" THEN "error" ELSE "ok"]
           refused == [y \in WorkMap!Items |->
                         IF settled[y] = "queued" THEN "refused" ELSE settled[y]]
<1>1. MapsTypes /\ QueueInv /\ MapInv /\ FailureInv
  BY DEF OrchestrationInv
<1>2. /\ item[x] \in {"skipped", "returned", "thrown"}
      /\ \/ WorkMap!Drain(<<>>, activeCount - 1, refused)
         \/ WorkMap!Drain(queue, activeCount - 1, settled)
      /\ UNCHANGED <<nextIndex, failed, failures, exited, outcome>>
  BY DEF WorkMap!Settle
<1>3. /\ settled \in [WorkMap!Items -> WorkMap!ItemStates]
      /\ \A y \in WorkMap!Items : settled[y] = IF y # x THEN item[y]
                                      ELSE IF item[x] = "thrown" THEN "error" ELSE "ok"
  BY <1>1 DEF MapsTypes, WorkMap!ItemStates
<1> HIDE DEF settled
<1>4. /\ refused \in [WorkMap!Items -> WorkMap!ItemStates]
      /\ \A y \in WorkMap!Items :
            refused[y] = IF settled[y] = "queued" THEN "refused" ELSE settled[y]
  BY <1>3 DEF WorkMap!ItemStates
<1> HIDE DEF refused
<1>5. QueueOf(queue, settled)
  BY <1>1, <1>2, <1>3 DEF QueueInv, QueueOf
<1>6. QueueOf(<<>>, refused)
  BY DEF QueueOf
<1>7. activeCount - 1 \in Int /\ activeCount - 1 <= Concurrency
  BY <1>1, SchedulerAssumption DEF QueueInv
<1>8. /\ item' \in [WorkMap!Items -> WorkMap!ItemStates] /\ QueueInv'
      /\ \A y \in WorkMap!Items : \/ item'[y] = settled[y]
                                  \/ settled[y] = "queued" /\ item'[y] \in {"admitted", "refused"}
  <2>1. CASE WorkMap!Drain(<<>>, activeCount - 1, refused)
    <3>1. /\ item' \in [WorkMap!Items -> WorkMap!ItemStates] /\ QueueInv'
          /\ \A y \in WorkMap!Items : \/ item'[y] = refused[y]
                                      \/ refused[y] = "queued" /\ item'[y] = "admitted"
      BY <1>4, <1>6, <1>7, <2>1, DrainEffect
    <3> QED
      BY <1>4, <3>1
  <2>2. CASE WorkMap!Drain(queue, activeCount - 1, settled)
    <3>1. /\ item' \in [WorkMap!Items -> WorkMap!ItemStates] /\ QueueInv'
          /\ \A y \in WorkMap!Items : \/ item'[y] = settled[y]
                                      \/ settled[y] = "queued" /\ item'[y] = "admitted"
      BY <1>3, <1>5, <1>7, <2>2, DrainEffect
    <3> QED
      BY <3>1
  <2> QED
    BY <1>2, <2>1, <2>2
<1>9. MapsTypes'
  BY <1>1, <1>2, <1>8 DEF MapsTypes
<1>10. MapInv'
  <2>1. \A y \in WorkMap!Items : /\ item'[y] = "new" <=> item[y] = "new"
                                 /\ item'[y] = "done" <=> item[y] = "done"
    BY <1>2, <1>3, <1>8
  <2>2. failed' \in [Maps -> BOOLEAN] /\ failed' = failed
    BY <1>2, <1>9 DEF MapsTypes
  <2> QED
    BY <1>1, <1>2, <2>1, <2>2, QuietStep
<1>11. FailureInv'
  <2>1. \A y \in WorkMap!Items : item'[y] \in {"thrown", "error"} => item[y] \in {"thrown", "error"}
    BY <1>2, <1>3, <1>8
  <2> QED
    BY <1>1, <1>2, <2>1 DEF FailureInv
<1> QED
  BY <1>8, <1>9, <1>10, <1>11 DEF OrchestrationInv

LEMMA AbandonStep ==
    ASSUME OrchestrationInv, NEW x \in WorkMap!Items, WorkMap!Abandon(x)
    PROVE  OrchestrationInv'
<1>1. MapsTypes /\ QueueInv /\ MapInv /\ FailureInv
  BY DEF OrchestrationInv
<1>2. /\ item[x] \in {"error", "refused"}
      /\ item' = [item EXCEPT ![x] = "done"]
      /\ failures' = [failures EXCEPT ![x[1]] = @ \cup {x[2]}]
      /\ failed' = [failed EXCEPT ![x[1]] = TRUE]
      /\ exited' = [exited EXCEPT ![x[1]] = @ + 1]
      /\ UNCHANGED <<queue, activeCount, nextIndex, outcome>>
  BY DEF WorkMap!Abandon, WorkMap!RecordFailure, WorkMap!WorkerExits
<1>3. x[1] \in Maps /\ x[2] \in WorkMap!Indices
  BY DEF WorkMap!Items
<1>4. MapsTypes'
  <2>1. item' \in [WorkMap!Items -> WorkMap!ItemStates]
    BY <1>1, <1>2 DEF MapsTypes, WorkMap!ItemStates
  <2>2. failed' \in [Maps -> BOOLEAN]
    BY <1>1, <1>2 DEF MapsTypes
  <2>3. failures' \in [Maps -> SUBSET WorkMap!Indices]
    BY <1>1, <1>2, <1>3 DEF MapsTypes
  <2>4. exited' \in [Maps -> Nat]
    BY <1>1, <1>2, <1>3 DEF MapsTypes
  <2> QED
    BY <1>1, <1>2, <2>1, <2>2, <2>3, <2>4 DEF MapsTypes
<1>5. QueueInv'
  <2>1. "done" \in WorkMap!ItemStates
    BY DEF WorkMap!ItemStates
  <2> QED
    BY <1>1, <1>2, <2>1, QueueKept
<1>6. \A m \in Maps : /\ failed[m] => failed'[m]
                      /\ m # x[1] => failed'[m] = failed[m] /\ nextIndex'[m] = nextIndex[m]
  BY <1>1, <1>2 DEF MapsTypes
<1>7. MapInv'
  <2>1. failed'[x[1]] /\ nextIndex'[x[1]] = nextIndex[x[1]]
    BY <1>1, <1>2, <1>3 DEF MapsTypes
  <2>2. failed' \in [Maps -> BOOLEAN] /\ nextIndex' \in [Maps -> Nat \ {0}]
    BY <1>4 DEF MapsTypes
  <2>3. outcome' = outcome /\ item[x] \notin {"new", "done"}
    BY <1>2
  <2> QED
    BY <1>1, <1>2, <1>6, <2>1, <2>2, <2>3, WorkerReturns
<1>8. FailureInv'
  <2> SUFFICES ASSUME NEW y \in WorkMap!Items, item'[y] \in {"thrown", "error"}
               PROVE  failed'[y[1]]
    BY DEF FailureInv
  <2>1. y[1] \in Maps /\ y # x
    BY <1>1, <1>2 DEF WorkMap!Items, MapsTypes
  <2> QED
    BY <1>1, <1>2, <1>6, <2>1 DEF FailureInv, MapsTypes
<1> QED
  BY <1>4, <1>5, <1>7, <1>8 DEF OrchestrationInv

LEMMA EndStep ==
    ASSUME OrchestrationInv, NEW m \in Maps, WorkMap!End(m)
    PROVE  OrchestrationInv'
<1>1. MapsTypes /\ QueueInv /\ MapInv /\ FailureInv
  BY DEF OrchestrationInv
<1>2. /\ outcome[m] = "pending" /\ exited[m] = WorkMap!Workers
      /\ outcome' = [outcome EXCEPT ![m] = IF failed[m] THEN "failed" ELSE "ok"]
      /\ UNCHANGED <<item, queue, activeCount, nextIndex, failed, failures, exited>>
  BY DEF WorkMap!End
<1>3. MapsTypes'
  BY <1>1, <1>2 DEF MapsTypes
<1>4. QueueInv' /\ FailureInv'
  BY <1>1, <1>2 DEF QueueInv, FailureInv
<1>5. MapInv'
  <2> SUFFICES ASSUME NEW n \in Maps
               PROVE  MapOk(n)'
    BY DEF MapInv
  <2>1. MapOk(n)
    BY <1>1 DEF MapInv
  <2>2. InFlight(n)' = InFlight(n)
    BY <1>2 DEF InFlight
  <2>3. outcome'[n] = IF n = m THEN IF failed[m] THEN "failed" ELSE "ok" ELSE outcome[n]
    BY <1>1, <1>2 DEF MapsTypes
  <2> QED
    BY <1>2, <2>1, <2>2, <2>3 DEF MapOk
<1> QED
  BY <1>3, <1>4, <1>5 DEF OrchestrationInv

\* The worker takes its next value: one operation of the map is done, another in flight.
LEMMA WorkerGoesOn ==
    ASSUME OrchestrationInv, NEW x \in WorkMap!Items, item[x] = "ok",
           ~failed[x[1]], nextIndex[x[1]] <= Length,
           nextIndex' = [nextIndex EXCEPT ![x[1]] = @ + 1],
           WorkMap!Run(<< <<x[1], nextIndex[x[1]]>> >>, [item EXCEPT ![x] = "done"]),
           UNCHANGED <<exited, failed, failures, outcome>>
    PROVE  OrchestrationInv'
<1> DEFINE m == x[1]
           next == nextIndex[m]
           new == << <<m, next>> >>
           settled == [item EXCEPT ![x] = "done"]
<1>1. MapsTypes /\ QueueInv /\ MapInv /\ FailureInv
  BY DEF OrchestrationInv
<1>2. /\ m \in Maps /\ x[2] \in WorkMap!Indices /\ x = <<m, x[2]>>
      /\ x[2] \in InFlight(m) /\ outcome[m] = "pending"
  BY <1>1, PendingInFlight
<1>3. /\ next \in WorkMap!Indices /\ next \in Nat /\ <<m, next>> \in WorkMap!Items
      /\ item[<<m, next>>] = "new" /\ <<m, next>> # x
  <2>1. next \in WorkMap!Indices /\ next \in Nat
    BY <1>1, <1>2, SchedulerAssumption DEF MapsTypes, WorkMap!Indices
  <2>2. <<m, next>> \in WorkMap!Items
    BY <1>2, <2>1 DEF WorkMap!Items
  <2>3. item[<<m, next>>] = "new"
    BY <1>1, <1>2, <2>1 DEF MapInv, MapOk
  <2> QED
    BY <2>1, <2>2, <2>3
<1>4. /\ settled \in [WorkMap!Items -> WorkMap!ItemStates]
      /\ \A y \in WorkMap!Items : settled[y] = IF y = x THEN "done" ELSE item[y]
  BY <1>1 DEF MapsTypes, WorkMap!ItemStates
<1>5. /\ new \in Seq(WorkMap!Items) /\ Len(new) = 1 /\ new[1] = <<m, next>>
  BY <1>3
<1>6. WorkMap!Run(new, settled)
  OBVIOUS
<1> HIDE DEF next, new, settled
<1>7. QueueOf(queue, settled)
  BY <1>1, <1>4 DEF QueueInv, QueueOf
<1>8. /\ item' \in [WorkMap!Items -> WorkMap!ItemStates] /\ QueueInv'
      /\ item'[<<m, next>>] \in {"queued", "admitted", "refused"}
      /\ \A y \in WorkMap!Items : y # <<m, next>> =>
            \/ item'[y] = settled[y]
            \/ settled[y] = "queued" /\ item'[y] = "admitted"
  <2>1. \A j, k \in 1 .. Len(new) : new[j] = new[k] => j = k
    BY <1>5
  <2>2. \A k \in 1 .. Len(new) : settled[new[k]] = "new"
    BY <1>3, <1>4, <1>5
  <2>3. activeCount \in Int /\ activeCount <= Concurrency
    BY <1>1 DEF QueueInv
  <2>4. /\ item' \in [WorkMap!Items -> WorkMap!ItemStates] /\ QueueInv'
        /\ \A y \in WorkMap!Items :
              IF \E k \in 1 .. Len(new) : new[k] = y
              THEN item'[y] \in {"queued", "admitted", "refused"}
              ELSE \/ item'[y] = settled[y]
                   \/ settled[y] = "queued" /\ item'[y] = "admitted"
    BY <1>4, <1>5, <1>6, <1>7, <2>1, <2>2, <2>3, RunEffect
  <2>5. \A y : (\E k \in 1 .. Len(new) : new[k] = y) <=> y = <<m, next>>
    BY <1>5
  <2> QED
    BY <1>3, <2>4, <2>5
<1>9. MapsTypes'
  <2>1. nextIndex' \in [Maps -> Nat \ {0}]
    BY <1>1, <1>2 DEF MapsTypes
  <2> QED
    BY <1>1, <1>8, <2>1 DEF MapsTypes
<1>10. FailureInv'
  <2>1. \A y \in WorkMap!Items : item'[y] \in {"thrown", "error"} => item[y] \in {"thrown", "error"}
    BY <1>4, <1>8
  <2> QED
    BY <1>1, <2>1 DEF FailureInv
<1>11. MapInv'
  <2> SUFFICES ASSUME NEW n \in Maps
               PROVE  MapOk(n)'
    BY DEF MapInv
  <2>1. MapOk(n)
    BY <1>1 DEF MapInv
  <2>2. \A i \in WorkMap!Indices : <<n, i>> \in WorkMap!Items
    BY DEF WorkMap!Items
  <2>3. CASE n # m
    <3>1. \A i \in WorkMap!Indices : <<n, i>> # <<m, next>> /\ <<n, i>> # x
      BY <1>2, <2>3
    <3>2. \A i \in WorkMap!Indices : /\ item'[<<n, i>>] = "new" <=> item[<<n, i>>] = "new"
                                     /\ item'[<<n, i>>] = "done" <=> item[<<n, i>>] = "done"
      BY <1>4, <1>8, <2>2, <3>1
    <3>3. InFlight(n)' = InFlight(n)
      BY <3>2 DEF InFlight
    <3>4. nextIndex'[n] = nextIndex[n]
      BY <1>1, <2>3 DEF MapsTypes
    <3> QED
      BY <2>1, <3>2, <3>3, <3>4 DEF MapOk
  <2>4. CASE n = m
    <3>1. /\ item'[<<m, next>>] \notin {"new", "done"}
          /\ item'[<<m, x[2]>>] = "done" /\ next # x[2]
      BY <1>2, <1>3, <1>4, <1>8
    <3>2. \A i \in WorkMap!Indices : i # next /\ i # x[2] =>
              /\ item'[<<m, i>>] = "new" <=> item[<<m, i>>] = "new"
              /\ item'[<<m, i>>] = "done" <=> item[<<m, i>>] = "done"
      BY <1>2, <1>4, <1>8, <2>2, <2>4
    <3>3. InFlight(m)' = (InFlight(m) \ {x[2]}) \cup {next}
      BY <1>2, <1>3, <3>1, <3>2 DEF InFlight
    <3>4. next \notin InFlight(m)
      BY <1>3 DEF InFlight
    <3>5. IsFiniteSet(InFlight(m)) /\ Cardinality(InFlight(m)) \in Nat
      BY InFlightFinite
    <3>6. /\ IsFiniteSet(InFlight(m) \ {x[2]})
          /\ Cardinality(InFlight(m) \ {x[2]}) = Cardinality(InFlight(m)) - 1
      BY <1>2, <3>5, FS_RemoveElement
    <3>7. Cardinality((InFlight(m) \ {x[2]}) \cup {next}) = Cardinality(InFlight(m))
      <4> DEFINE rest == InFlight(m) \ {x[2]}
      <4>1. IsFiniteSet(rest) /\ next \notin rest
        BY <3>4, <3>6
      <4>2. Cardinality(rest) = Cardinality(InFlight(m)) - 1
        BY <3>6
      <4> HIDE DEF rest
      <4>3. Cardinality(rest \cup {next}) = Cardinality(rest) + 1
        BY <4>1, FS_AddElement
      <4>4. Cardinality(rest \cup {next}) = Cardinality(InFlight(m))
        BY <3>5, <4>2, <4>3
      <4> QED
        BY <4>4 DEF rest
    <3>8. nextIndex'[m] = next + 1
      BY <1>1, <1>2 DEF MapsTypes, next
    <3>9. \A i \in WorkMap!Indices : item'[<<m, i>>] = "new" <=> i >= next + 1
      <4>1. \A i \in WorkMap!Indices : i \in Nat /\ (item[<<m, i>>] = "new" <=> i >= next)
        BY <2>1, <2>4 DEF MapOk, WorkMap!Indices, next
      <4>2. item[<<m, x[2]>>] # "new"
        BY <1>2
      <4> QED
        BY <1>2, <1>3, <3>1, <3>2, <4>1, <4>2
    <3>10. exited[m] = 0
      <4>1. exited[m] \in Nat /\ next \in Nat /\ Length \in Nat /\ next <= Length
        BY <1>1, <1>2, <1>3, SchedulerAssumption DEF MapsTypes, next
      <4>2. ~(next > Length)
        BY <4>1
      <4>3. ~(exited[m] > 0)
        BY <2>1, <2>4, <4>2 DEF MapOk, next
      <4> QED
        BY <4>1, <4>3
    <3> QED
      BY <1>2, <1>3, <2>1, <2>4, <3>3, <3>7, <3>8, <3>9, <3>10 DEF MapOk
  <2> QED
    BY <2>3, <2>4
<1> QED
  BY <1>8, <1>9, <1>10, <1>11 DEF OrchestrationInv

LEMMA ContinueStep ==
    ASSUME OrchestrationInv, NEW x \in WorkMap!Items, WorkMap!Continue(x)
    PROVE  OrchestrationInv'
<1> DEFINE m == x[1]
<1>1. MapsTypes /\ QueueInv /\ MapInv /\ FailureInv
  BY DEF OrchestrationInv
<1>2. /\ item[x] = "ok" /\ UNCHANGED <<failed, failures, outcome>>
      /\ m \in Maps /\ failed[m] \in BOOLEAN
      /\ nextIndex[m] \in Nat /\ Length \in Nat
  BY <1>1, SchedulerAssumption DEF WorkMap!Continue, WorkMap!Items, MapsTypes
<1>3. CASE failed[m] \/ nextIndex[m] > Length
  <2>1. /\ exited' = [exited EXCEPT ![m] = @ + 1]
        /\ item' = [item EXCEPT ![x] = "done"]
        /\ nextIndex' = [nextIndex EXCEPT ![m] = IF failed[m] THEN @ ELSE @ + 1]
        /\ UNCHANGED <<queue, activeCount>>
    BY <1>3 DEF WorkMap!Continue, WorkMap!WorkerExits
  <2>2. nextIndex' \in [Maps -> Nat \ {0}]
    BY <1>1, <1>2, <2>1 DEF MapsTypes
  <2>3. item' \in [WorkMap!Items -> WorkMap!ItemStates] /\ exited' \in [Maps -> Nat]
    BY <1>1, <1>2, <2>1 DEF MapsTypes, WorkMap!ItemStates
  <2>4. MapsTypes'
    BY <1>1, <1>2, <2>2, <2>3 DEF MapsTypes
  <2>5. QueueInv'
    <3>1. "done" \in WorkMap!ItemStates
      BY DEF WorkMap!ItemStates
    <3> QED
      BY <1>1, <1>2, <2>1, <3>1, QueueKept
  <2>6. MapInv'
    <3>1. nextIndex'[m] = IF failed[m] THEN nextIndex[m] ELSE nextIndex[m] + 1
      BY <1>1, <1>2, <2>1 DEF MapsTypes
    <3>2. \A n \in Maps : n # m => nextIndex'[n] = nextIndex[n]
      BY <1>1, <2>1 DEF MapsTypes
    <3>3. \/ nextIndex'[m] = nextIndex[m]
          \/ nextIndex[m] > Length /\ nextIndex'[m] > Length
      BY <1>2, <1>3, <3>1
    <3>4. failed'[m] \/ nextIndex'[m] > Length
      BY <1>2, <1>3, <3>1
    <3>5. failed' \in [Maps -> BOOLEAN]
      BY <2>4 DEF MapsTypes
    <3> QED
      BY <1>1, <1>2, <2>1, <2>2, <3>2, <3>3, <3>4, <3>5, WorkerReturns
  <2>7. FailureInv'
    BY <1>1, <1>2, <2>1 DEF FailureInv, MapsTypes
  <2> QED
    BY <2>4, <2>5, <2>6, <2>7 DEF OrchestrationInv
<1>4. CASE ~(failed[m] \/ nextIndex[m] > Length)
  <2>1. /\ nextIndex' = [nextIndex EXCEPT ![m] = @ + 1]
        /\ WorkMap!Run(<< <<m, nextIndex[m]>> >>, [item EXCEPT ![x] = "done"])
        /\ UNCHANGED <<exited, failed, failures, outcome>>
    BY <1>4 DEF WorkMap!Continue
  <2>2. ~failed[m] /\ nextIndex[m] <= Length
    BY <1>2, <1>4
  <2> QED
    BY <1>2, <2>1, <2>2, WorkerGoesOn
<1> QED
  BY <1>3, <1>4

LEMMA MapsNextInv ==
    ASSUME OrchestrationInv, [WorkMap!Next]_(WorkMap!vars)
    PROVE  OrchestrationInv'
<1>1. CASE \E m \in Maps : WorkMap!Start(m)
  BY <1>1, StartStep
<1>2. CASE \E x \in WorkMap!Items : WorkMap!Begin(x) \/ WorkMap!Return(x) \/ WorkMap!Throw(x)
  BY <1>2, CallbackStep
<1>3. CASE \E x \in WorkMap!Items : WorkMap!Settle(x)
  BY <1>3, ItemSettles
<1>4. CASE \E x \in WorkMap!Items : WorkMap!Continue(x)
  BY <1>4, ContinueStep
<1>5. CASE \E x \in WorkMap!Items : WorkMap!Abandon(x)
  BY <1>5, AbandonStep
<1>6. CASE \E m \in Maps : WorkMap!End(m)
  BY <1>6, EndStep
<1>7. CASE WorkMap!Idle \/ UNCHANGED WorkMap!vars
  <2>1. UNCHANGED <<item, queue, activeCount, nextIndex, failed, failures, exited, outcome>>
    BY <1>7 DEF WorkMap!Idle, WorkMap!vars
  <2>2. MapsTypes' /\ FailureInv'
    BY <2>1 DEF OrchestrationInv, MapsTypes, FailureInv
  <2>3. QueueInv'
    BY <2>1 DEF OrchestrationInv, QueueInv
  <2>4. MapInv'
    BY <2>1 DEF OrchestrationInv, MapInv, MapOk, InFlight
  <2> QED
    BY <2>2, <2>3, <2>4 DEF OrchestrationInv
<1> QED
  BY <1>1, <1>2, <1>3, <1>4, <1>5, <1>6, <1>7 DEF WorkMap!Next, WorkMap!Progress

\* The invariant the other theorems rest on: the queue has each queued operation once, no more
\* run than the scheduler may run, each worker of a map has one operation in flight or has
\* returned, and the failure of a callback is recorded before the scheduler reacts to it.
THEOREM MapsInvariance == MapsSpec => []OrchestrationInv
<1>1. WorkMap!Init => OrchestrationInv
  BY MapsInitInv
<1>2. OrchestrationInv /\ [WorkMap!Next]_(WorkMap!vars) => OrchestrationInv'
  BY MapsNextInv
<1> QED
  BY <1>1, <1>2, PTL DEF MapsSpec

LEMMA DrainedMaps ==
    ASSUME OrchestrationInv
    PROVE  WorkMap!EndedMeansDrained
<1> SUFFICES ASSUME NEW m \in Maps, outcome[m] \notin {"new", "pending"}
             PROVE  /\ \A i \in WorkMap!Indices : item[<<m, i>>] \in {"new", "done"}
                    /\ outcome[m] = "ok" => \A i \in WorkMap!Indices : item[<<m, i>>] = "done"
  BY DEF WorkMap!EndedMeansDrained
<1>1. MapsTypes /\ MapOk(m)
  BY DEF OrchestrationInv, MapInv
<1>2. outcome[m] \in {"ok", "failed"}
  BY <1>1 DEF MapsTypes
<1>3. /\ exited[m] = WorkMap!Workers /\ WorkMap!Workers \in Nat
      /\ Cardinality(InFlight(m)) + exited[m] = WorkMap!Workers
  BY <1>1, <1>2, WorkersNat DEF MapOk
<1>4. IsFiniteSet(InFlight(m)) /\ Cardinality(InFlight(m)) \in Nat
  BY InFlightFinite
<1>5. InFlight(m) = {}
  BY <1>3, <1>4, FS_EmptySet
<1>6. \A i \in WorkMap!Indices : item[<<m, i>>] \in {"new", "done"}
  BY <1>5 DEF InFlight
<1>7. ASSUME outcome[m] = "ok", NEW i \in WorkMap!Indices
      PROVE  item[<<m, i>>] = "done"
  <2>1. i \in Nat /\ 1 <= i /\ i <= Length /\ Length \in Nat
    BY SchedulerAssumption DEF WorkMap!Indices
  <2>2. exited[m] > 0
    BY <1>3, <2>1, WorkersNat
  <2>3. nextIndex[m] > Length /\ nextIndex[m] \in Nat
    BY <1>1, <1>7, <2>2 DEF MapOk, MapsTypes
  <2>4. ~(i >= nextIndex[m])
    BY <2>1, <2>3
  <2>5. item[<<m, i>>] # "new"
    BY <1>1, <2>4 DEF MapOk
  <2> QED
    BY <1>6, <2>5
<1> QED
  BY <1>6, <1>7

\* mapWithScheduler: a map that ended has no callback queued or running, so that its caller may
\* remove what they use; and if it succeeded, every one of its values was mapped.
THEOREM MapsDrained == MapsSpec => []WorkMap!EndedMeansDrained
BY DrainedMaps, MapsInvariance, PTL

\* drain() and the settlement of an operation start no callback.
LEMMA OnlyBeginRuns ==
    ASSUME MapsTypes, WorkMap!Next, NEW y \in WorkMap!Items,
           item[y] # "running", item'[y] = "running"
    PROVE  WorkMap!Begin(y)
<1>1. ASSUME NEW waiting, NEW count, NEW states, WorkMap!Drain(waiting, count, states)
      PROVE  states[y] = "running"
  BY <1>1 DEF WorkMap!Drain
<1>2. ASSUME NEW new, NEW states, WorkMap!Run(new, states)
      PROVE  states[y] = "running"
  BY <1>1, <1>2 DEF WorkMap!Run
<1>3. ASSUME NEW m \in Maps, WorkMap!Start(m)
      PROVE  FALSE
  BY <1>2, <1>3 DEF WorkMap!Start
<1>4. ASSUME NEW x \in WorkMap!Items, WorkMap!Begin(x)
      PROVE  WorkMap!Begin(y)
  BY <1>4 DEF WorkMap!Begin, MapsTypes
<1>5. ASSUME NEW x \in WorkMap!Items, WorkMap!Return(x) \/ WorkMap!Throw(x) \/ WorkMap!Abandon(x)
      PROVE  FALSE
  BY <1>5 DEF WorkMap!Return, WorkMap!Throw, WorkMap!Abandon, MapsTypes
<1>6. ASSUME NEW x \in WorkMap!Items, WorkMap!Settle(x)
      PROVE  FALSE
  <2> DEFINE settled == [item EXCEPT ![x] = IF item[x] = "thrown" THEN "error" ELSE "ok"]
             refused == [z \in WorkMap!Items |->
                           IF settled[z] = "queued" THEN "refused" ELSE settled[z]]
  <2>1. \/ WorkMap!Drain(<<>>, activeCount - 1, refused)
        \/ WorkMap!Drain(queue, activeCount - 1, settled)
    BY <1>6 DEF WorkMap!Settle
  <2>2. settled[y] # "running" /\ refused[y] # "running"
    BY DEF MapsTypes
  <2> QED
    BY <1>1, <2>1, <2>2
<1>7. ASSUME NEW x \in WorkMap!Items, WorkMap!Continue(x)
      PROVE  FALSE
  <2> DEFINE settled == [item EXCEPT ![x] = "done"]
  <2>1. settled[y] # "running"
    BY DEF MapsTypes
  <2>2. \/ item' = settled
        \/ WorkMap!Run(<< <<x[1], nextIndex[x[1]]>> >>, settled)
    BY <1>7 DEF WorkMap!Continue
  <2> QED
    BY <1>2, <2>1, <2>2
<1>8. ~WorkMap!Idle /\ \A m \in Maps : ~WorkMap!End(m)
  BY DEF WorkMap!Idle, WorkMap!End
<1> QED
  BY <1>3, <1>4, <1>5, <1>6, <1>7, <1>8 DEF WorkMap!Next, WorkMap!Progress

\* What NoStartAfterFailure says of a step.
NoneStarts ==
    \A x, y \in WorkMap!Items :
        x[1] = y[1] /\ item[x] \in {"thrown", "error"} /\ item[y] # "running"
          => item'[y] # "running"

LEMMA NoneStartsStep ==
    ASSUME OrchestrationInv, [WorkMap!Next]_(WorkMap!vars)
    PROVE  [NoneStarts]_(WorkMap!vars)
<1> SUFFICES ASSUME WorkMap!Next, NEW x \in WorkMap!Items, NEW y \in WorkMap!Items,
                    x[1] = y[1], item[x] \in {"thrown", "error"}, item[y] # "running",
                    item'[y] = "running"
             PROVE  FALSE
  BY DEF NoneStarts
<1>1. MapsTypes /\ FailureInv
  BY DEF OrchestrationInv
<1>2. failed[y[1]]
  BY <1>1 DEF FailureInv
<1>3. WorkMap!Begin(y)
  BY <1>1, OnlyBeginRuns
<1>4. item'[y] = "skipped"
  BY <1>1, <1>2, <1>3 DEF WorkMap!Begin, MapsTypes
<1> QED
  BY <1>4

-----------------------------------------------------------------------------
(* The scheduler's count: what it thinks runs is what holds a slot, what   *)
(* it keeps waiting is what is queued, and nothing waits beside a free     *)
(* slot.                                                                   *)

HoldersOf(states) == {x \in WorkMap!Items : states[x] \in WorkMap!Holding}
SlotsOf(active, states) ==
    IsFiniteSet(HoldersOf(states)) /\ active = Cardinality(HoldersOf(states))

Waiting(waiting, states) ==
    \A x \in WorkMap!Items : states[x] = "queued" => \E k \in 1 .. Len(waiting) : waiting[k] = x

Slots(active, waiting, states) ==
    /\ SlotsOf(active, states) /\ Waiting(waiting, states)
    /\ waiting # <<>> => active = Concurrency

\* A map takes one value too many for every worker that returned, at most.
TakenInv == \A m \in Maps : nextIndex[m] <= Length + 1 + exited[m]

SlotsInv ==
    /\ stopOnError \in BOOLEAN /\ stopped \in BOOLEAN /\ idling \in BOOLEAN
    /\ Slots(activeCount, queue, item)
    /\ idling => activeCount # 0
    /\ TakenInv

\* The first operations of a queue without repetitions are as many as they are.
FirstOf(f, n) == {f[k] : k \in 1 .. n}

LEMMA PrefixCount ==
    ASSUME NEW S, NEW f \in Seq(S), \A j, k \in 1 .. Len(f) : f[j] = f[k] => j = k,
           NEW n \in Nat, n <= Len(f)
    PROVE  IsFiniteSet(FirstOf(f, n)) /\ Cardinality(FirstOf(f, n)) = n
<1> DEFINE T == FirstOf(f, n)
           g == [k \in 1 .. n |-> f[k]]
<1>1. g \in [1 .. n -> T] /\ \A t \in T : \E k \in 1 .. n : g[k] = t
  BY DEF FirstOf
<1>2. \A j, k \in 1 .. n : g[j] = g[k] => j = k
  <2>1. \A j \in 1 .. n : j \in 1 .. Len(f)
    OBVIOUS
  <2> QED
    BY <2>1
<1> HIDE DEF T, g
<1>3. g \in Bijection(1 .. n, T)
  BY <1>1, <1>2, Fun_IsBij
<1>4. ExistsBijection(1 .. n, T)
  BY <1>3, Fun_ExistsBij
<1>5. IsFiniteSet(T) /\ Cardinality(T) = n
  BY <1>4, FS_NatBijection, FS_CountingElements
<1> QED
  BY <1>5 DEF T

\* Steps that change neither what holds a slot nor what is queued.
LEMMA SlotsKept ==
    ASSUME NEW active, NEW waiting, NEW states, NEW other, Slots(active, waiting, states),
           \A x \in WorkMap!Items :
              /\ other[x] \in WorkMap!Holding <=> states[x] \in WorkMap!Holding
              /\ other[x] = "queued" => states[x] = "queued"
    PROVE  Slots(active, waiting, other)
<1>1. HoldersOf(other) = HoldersOf(states)
  BY DEF HoldersOf
<1>2. Waiting(waiting, other)
  BY DEF Waiting, Slots
<1> QED
  BY <1>1, <1>2 DEF Slots, SlotsOf

LEMMA DrainCounts ==
    ASSUME NEW waiting, NEW active \in Int, NEW states \in [WorkMap!Items -> WorkMap!ItemStates],
           QueueOf(waiting, states), Waiting(waiting, states), SlotsOf(active, states),
           active <= Concurrency, WorkMap!Drain(waiting, active, states)
    PROVE  Slots(activeCount', queue', item') /\ activeCount' >= active
<1> DEFINE room == Concurrency - active
           count == IF room < Len(waiting) THEN room ELSE Len(waiting)
           first == FirstOf(waiting, count)
<1>1. /\ queue' = SubSeq(waiting, count + 1, Len(waiting))
      /\ activeCount' = active + count
      /\ item' = [x \in WorkMap!Items |->
                    IF \E k \in 1 .. count : waiting[k] = x THEN "admitted" ELSE states[x]]
  BY DEF WorkMap!Drain
<1>2. /\ waiting \in Seq(WorkMap!Items) /\ Len(waiting) \in Nat
      /\ count \in Nat /\ count <= Len(waiting) /\ count <= room
      /\ count = room \/ count = Len(waiting)
  BY SchedulerAssumption DEF QueueOf
<1> HIDE DEF count
<1>3. IsFiniteSet(first) /\ Cardinality(first) = count
  BY <1>2, PrefixCount DEF QueueOf
<1>4. /\ queue' \in Seq(WorkMap!Items) /\ Len(queue') = Len(waiting) - count
      /\ \A k \in 1 .. Len(queue') : queue'[k] = waiting[count + k]
  BY <1>1, <1>2, SubSeqProperties
<1>5. \A x \in first : x \in WorkMap!Items /\ states[x] = "queued"
  BY <1>2 DEF QueueOf, FirstOf
<1>6. \A x \in WorkMap!Items : item'[x] = IF x \in first THEN "admitted" ELSE states[x]
  BY <1>1 DEF FirstOf
<1> HIDE DEF first
<1>7. HoldersOf(item') = HoldersOf(states) \cup first /\ HoldersOf(states) \cap first = {}
  BY <1>5, <1>6 DEF HoldersOf, WorkMap!Holding
<1>8. SlotsOf(activeCount', item')
  <2>1. /\ IsFiniteSet(HoldersOf(states) \cup first)
        /\ Cardinality(HoldersOf(states) \cup first) = active + count - Cardinality({})
    BY <1>3, <1>7, FS_Union DEF SlotsOf
  <2>2. active + count - Cardinality({}) = active + count
    BY <1>2, FS_EmptySet
  <2> QED
    BY <1>1, <1>7, <2>1, <2>2 DEF SlotsOf
<1>9. Waiting(queue', item')
  <2> SUFFICES ASSUME NEW x \in WorkMap!Items, item'[x] = "queued"
               PROVE  \E k \in 1 .. Len(queue') : queue'[k] = x
    BY DEF Waiting
  <2>1. x \notin first /\ states[x] = "queued"
    BY <1>6
  <2>2. PICK k \in 1 .. Len(waiting) : waiting[k] = x
    BY <2>1 DEF Waiting
  <2>3. k > count
    BY <1>2, <2>1, <2>2 DEF first, FirstOf
  <2>4. k - count \in 1 .. Len(queue') /\ queue'[k - count] = x
    BY <1>2, <1>4, <2>2, <2>3
  <2> QED
    BY <2>4
<1>10. queue' # <<>> => activeCount' = Concurrency
  <2> SUFFICES ASSUME queue' # <<>> PROVE activeCount' = Concurrency
    OBVIOUS
  <2>1. Len(queue') # 0
    BY <1>4, EmptySeq
  <2>2. count = room
    BY <1>2, <1>4, <2>1
  <2> QED
    BY <1>1, <2>2, SchedulerAssumption
<1>11. activeCount' >= active
  BY <1>1, <1>2
<1> QED
  BY <1>8, <1>9, <1>10, <1>11 DEF Slots

LEMMA RunCounts ==
    ASSUME NEW new \in Seq(WorkMap!Items), NEW states \in [WorkMap!Items -> WorkMap!ItemStates],
           QueueOf(queue, states), activeCount \in Int, activeCount <= Concurrency,
           \A j, k \in 1 .. Len(new) : new[j] = new[k] => j = k,
           \A k \in 1 .. Len(new) : states[new[k]] = "new",
           Slots(activeCount, queue, states), WorkMap!Run(new, states)
    PROVE  Slots(activeCount', queue', item') /\ activeCount' >= activeCount
<1>1. \A k \in 1 .. Len(new) : new[k] \in WorkMap!Items
  OBVIOUS
<1>2. CASE stopped
  <2>1. /\ item' = [x \in WorkMap!Items |->
                       IF \E k \in 1 .. Len(new) : new[k] = x THEN "refused" ELSE states[x]]
        /\ queue' = queue /\ activeCount' = activeCount
    BY <1>2 DEF WorkMap!Run
  <2>2. \A x \in WorkMap!Items :
           /\ item'[x] \in WorkMap!Holding <=> states[x] \in WorkMap!Holding
           /\ item'[x] = "queued" => states[x] = "queued"
    BY <2>1 DEF WorkMap!Holding
  <2>3. Slots(activeCount, queue, item')
    BY <2>2, SlotsKept
  <2> QED
    BY <2>1, <2>3
<1>3. CASE ~stopped
  <2> DEFINE waiting == queue \o new
             queued == QueuedUp(new, states)
  <2>1. WorkMap!Drain(waiting, activeCount, queued)
    BY <1>3 DEF WorkMap!Run, QueuedUp
  <2>2. queued \in [WorkMap!Items -> WorkMap!ItemStates] /\ QueueOf(waiting, queued)
    BY LongerQueue
  <2>3. \A x \in WorkMap!Items :
           queued[x] = IF \E k \in 1 .. Len(new) : new[k] = x THEN "queued" ELSE states[x]
    BY DEF QueuedUp
  <2>4. /\ Len(waiting) = Len(queue) + Len(new) /\ Len(queue) \in Nat /\ Len(new) \in Nat
        /\ \A k \in 1 .. Len(waiting) :
              waiting[k] = IF k <= Len(queue) THEN queue[k] ELSE new[k - Len(queue)]
    BY ConcatProperties DEF QueueOf
  <2> HIDE DEF waiting, queued
  <2>5. HoldersOf(queued) = HoldersOf(states)
    BY <2>3 DEF HoldersOf, WorkMap!Holding
  <2>6. Waiting(waiting, queued)
    <3> SUFFICES ASSUME NEW x \in WorkMap!Items, queued[x] = "queued"
                 PROVE  \E k \in 1 .. Len(waiting) : waiting[k] = x
      BY DEF Waiting
    <3>1. CASE \E k \in 1 .. Len(new) : new[k] = x
      <4>1. PICK k \in 1 .. Len(new) : new[k] = x
        BY <3>1
      <4>2. k + Len(queue) \in 1 .. Len(waiting) /\ waiting[k + Len(queue)] = x
        BY <2>4, <4>1
      <4> QED
        BY <4>2
    <3>2. CASE ~ \E k \in 1 .. Len(new) : new[k] = x
      <4>1. PICK k \in 1 .. Len(queue) : queue[k] = x
        BY <2>3, <3>2 DEF Slots, Waiting
      <4>2. k \in 1 .. Len(waiting) /\ waiting[k] = x
        BY <2>4, <4>1
      <4> QED
        BY <4>2
    <3> QED
      BY <3>1, <3>2
  <2>7. SlotsOf(activeCount, queued)
    BY <2>5 DEF Slots, SlotsOf
  <2> QED
    BY <2>1, <2>2, <2>6, <2>7, DrainCounts
<1> QED
  BY <1>2, <1>3

LEMMA SlotsInit == ASSUME WorkMap!Init PROVE SlotsInv
<1> USE DEF WorkMap!Init
<1>1. HoldersOf(item) = {} /\ Waiting(queue, item)
  BY DEF HoldersOf, Waiting, WorkMap!Holding
<1>2. Slots(activeCount, queue, item)
  BY <1>1, FS_EmptySet DEF Slots, SlotsOf
<1>3. TakenInv
  BY SchedulerAssumption DEF TakenInv
<1> QED
  BY <1>2, <1>3 DEF SlotsInv

\* The steps of one operation that neither take a slot nor free one.
LEMMA OneItemStep ==
    ASSUME OrchestrationInv, SlotsInv, NEW x \in WorkMap!Items, NEW state \in WorkMap!ItemStates,
           item' = [item EXCEPT ![x] = state], state # "queued",
           state \in WorkMap!Holding <=> item[x] \in WorkMap!Holding,
           UNCHANGED <<stopOnError, stopped, queue, activeCount, idling>>, TakenInv'
    PROVE  SlotsInv'
<1>1. \A y \in WorkMap!Items :
         /\ item'[y] \in WorkMap!Holding <=> item[y] \in WorkMap!Holding
         /\ item'[y] = "queued" => item[y] = "queued"
  BY DEF OrchestrationInv, MapsTypes
<1>2. Slots(activeCount, queue, item')
  BY <1>1, SlotsKept DEF SlotsInv
<1> QED
  BY <1>2 DEF SlotsInv

LEMMA CallbackCounts ==
    ASSUME OrchestrationInv, SlotsInv, NEW x \in WorkMap!Items,
           WorkMap!Begin(x) \/ WorkMap!Return(x) \/ WorkMap!Throw(x)
    PROVE  SlotsInv'
<1>1. PICK state \in {"skipped", "running", "returned", "thrown"} :
          item' = [item EXCEPT ![x] = state]
  BY DEF WorkMap!Begin, WorkMap!Return, WorkMap!Throw
<1>2. /\ item[x] \in {"admitted", "running"}
      /\ UNCHANGED <<stopOnError, stopped, queue, activeCount, idling, nextIndex, exited>>
  BY DEF WorkMap!Begin, WorkMap!Return, WorkMap!Throw
<1>3. /\ state \in WorkMap!ItemStates /\ state # "queued"
      /\ state \in WorkMap!Holding /\ item[x] \in WorkMap!Holding
  BY <1>2 DEF WorkMap!ItemStates, WorkMap!Holding
<1>4. TakenInv'
  BY <1>2 DEF SlotsInv, TakenInv
<1> QED
  BY <1>1, <1>2, <1>3, <1>4, OneItemStep

LEMMA StartCounts ==
    ASSUME OrchestrationInv, SlotsInv, NEW m \in Maps, WorkMap!Start(m)
    PROVE  SlotsInv'
<1> DEFINE new == [k \in 1 .. WorkMap!Workers |-> <<m, k>>]
<1>1. MapsTypes /\ QueueInv /\ MapInv /\ Slots(activeCount, queue, item) /\ TakenInv
  BY DEF OrchestrationInv, SlotsInv
<1>2. /\ outcome[m] = "new" /\ nextIndex' = [nextIndex EXCEPT ![m] = WorkMap!Workers + 1]
      /\ WorkMap!Run(new, item) /\ UNCHANGED <<stopOnError, stopped, exited, idling>>
  BY DEF WorkMap!Start
<1>3. /\ WorkMap!Workers \in Nat /\ WorkMap!Workers <= Length /\ Length \in Nat
      /\ \A i \in WorkMap!Indices : item[<<m, i>>] = "new"
  BY <1>1, <1>2, WorkersNat, SchedulerAssumption DEF MapInv, MapOk
<1>4. /\ new \in Seq(WorkMap!Items) /\ Len(new) = WorkMap!Workers
      /\ \A k \in 1 .. WorkMap!Workers : new[k] = <<m, k>> /\ k \in WorkMap!Indices
  <2>1. \A k \in 1 .. WorkMap!Workers : k \in WorkMap!Indices /\ <<m, k>> \in WorkMap!Items
    BY <1>3 DEF WorkMap!Indices, WorkMap!Items
  <2> QED
    BY <1>3, <2>1
<1> HIDE DEF new
<1>5. Slots(activeCount', queue', item') /\ activeCount' >= activeCount
  <2>1. \A j, k \in 1 .. Len(new) : new[j] = new[k] => j = k
    BY <1>3, <1>4
  <2>2. \A k \in 1 .. Len(new) : item[new[k]] = "new"
    BY <1>3, <1>4
  <2>3. item \in [WorkMap!Items -> WorkMap!ItemStates] /\ QueueOf(queue, item)
        /\ activeCount \in Int /\ activeCount <= Concurrency
    BY <1>1 DEF MapsTypes, QueueInv
  <2> QED
    BY <1>1, <1>2, <1>4, <2>1, <2>2, <2>3, RunCounts
<1>6. activeCount \in Nat
  BY <1>1, FS_CardinalityType DEF Slots, SlotsOf
<1>7. activeCount' \in Nat
  BY <1>5, FS_CardinalityType DEF Slots, SlotsOf
<1>8. TakenInv'
  BY <1>1, <1>2, <1>3 DEF TakenInv, MapsTypes
<1> QED
  BY <1>2, <1>5, <1>6, <1>7, <1>8 DEF SlotsInv

LEMMA SettleCounts ==
    ASSUME OrchestrationInv, SlotsInv, NEW x \in WorkMap!Items, WorkMap!Settle(x)
    PROVE  SlotsInv'
<1> DEFINE settled == [item EXCEPT ![x] = IF item[x] = "thrown" THEN "error" ELSE "ok"]
           refused == [y \in WorkMap!Items |->
                         IF settled[y] = "queued" THEN "refused" ELSE settled[y]]
<1>1. MapsTypes /\ QueueInv /\ Slots(activeCount, queue, item) /\ TakenInv
  BY DEF OrchestrationInv, SlotsInv
<1>2. /\ item[x] \in {"skipped", "returned", "thrown"}
      /\ \/ WorkMap!Drain(<<>>, activeCount - 1, refused) /\ stopped' = TRUE
         \/ WorkMap!Drain(queue, activeCount - 1, settled) /\ stopped' = stopped
      /\ idling' = (idling /\ (activeCount' # 0 \/ queue' # <<>>))
      /\ UNCHANGED <<stopOnError, nextIndex, exited>>
  BY DEF WorkMap!Settle
<1>3. /\ settled \in [WorkMap!Items -> WorkMap!ItemStates]
      /\ \A y \in WorkMap!Items : settled[y] = IF y # x THEN item[y]
                                              ELSE IF item[x] = "thrown" THEN "error" ELSE "ok"
  BY <1>1 DEF MapsTypes, WorkMap!ItemStates
<1> HIDE DEF settled
<1>4. /\ refused \in [WorkMap!Items -> WorkMap!ItemStates]
      /\ \A y \in WorkMap!Items : refused[y] = (IF settled[y] = "queued" THEN "refused"
                                                ELSE settled[y])
  BY <1>3 DEF WorkMap!ItemStates
<1> HIDE DEF refused
<1>5. /\ HoldersOf(settled) = HoldersOf(item) \ {x} /\ x \in HoldersOf(item)
      /\ HoldersOf(refused) = HoldersOf(settled)
  BY <1>2, <1>3, <1>4 DEF HoldersOf, WorkMap!Holding
<1>6. SlotsOf(activeCount - 1, settled) /\ SlotsOf(activeCount - 1, refused)
  <2>1. /\ IsFiniteSet(HoldersOf(item) \ {x})
        /\ Cardinality(HoldersOf(item) \ {x}) = activeCount - 1
    BY <1>1, <1>5, FS_RemoveElement DEF Slots, SlotsOf
  <2> QED
    BY <1>5, <2>1 DEF SlotsOf
<1>7. /\ QueueOf(queue, settled) /\ Waiting(queue, settled)
      /\ QueueOf(<<>>, refused) /\ Waiting(<<>>, refused)
  <2>1. QueueOf(queue, settled)
    BY <1>1, <1>2, <1>3 DEF QueueInv, QueueOf
  <2>2. Waiting(queue, settled)
    BY <1>1, <1>3 DEF Slots, Waiting
  <2>3. QueueOf(<<>>, refused)
    BY DEF QueueOf
  <2>4. Waiting(<<>>, refused)
    BY <1>4 DEF Waiting
  <2> QED
    BY <2>1, <2>2, <2>3, <2>4
<1>8. activeCount - 1 \in Int /\ activeCount - 1 <= Concurrency
  BY <1>1, SchedulerAssumption DEF QueueInv
<1>9. Slots(activeCount', queue', item')
  <2>1. CASE WorkMap!Drain(<<>>, activeCount - 1, refused)
    BY <1>4, <1>6, <1>7, <1>8, <2>1, DrainCounts
  <2>2. CASE WorkMap!Drain(queue, activeCount - 1, settled)
    BY <1>3, <1>6, <1>7, <1>8, <2>2, DrainCounts
  <2> QED
    BY <1>2, <2>1, <2>2
<1>10. idling' \in BOOLEAN /\ (idling' => activeCount' # 0) /\ stopped' \in BOOLEAN
  BY <1>2, <1>9, SchedulerAssumption DEF Slots, SlotsInv
<1>11. TakenInv'
  BY <1>1, <1>2 DEF TakenInv
<1> QED
  BY <1>2, <1>9, <1>10, <1>11 DEF SlotsInv

LEMMA ContinueCounts ==
    ASSUME OrchestrationInv, SlotsInv, NEW x \in WorkMap!Items, WorkMap!Continue(x)
    PROVE  SlotsInv'
<1> DEFINE m == x[1]
           next == nextIndex[m]
           settled == [item EXCEPT ![x] = "done"]
<1>1. MapsTypes /\ QueueInv /\ MapInv /\ Slots(activeCount, queue, item) /\ TakenInv
  BY DEF OrchestrationInv, SlotsInv
<1>2. /\ item[x] = "ok" /\ UNCHANGED <<stopOnError, stopped, idling>>
      /\ m \in Maps /\ next \in Nat /\ Length \in Nat /\ exited[m] \in Nat /\ next # 0
      /\ failed[m] \in BOOLEAN
  BY <1>1, SchedulerAssumption DEF WorkMap!Continue, WorkMap!Items, MapsTypes
<1>3. CASE failed[m] \/ next > Length
  <2>1. /\ exited' = [exited EXCEPT ![m] = @ + 1] /\ item' = settled
        /\ nextIndex' = [nextIndex EXCEPT ![m] = IF failed[m] THEN @ ELSE @ + 1]
        /\ UNCHANGED <<queue, activeCount>>
    BY <1>3 DEF WorkMap!Continue, WorkMap!WorkerExits
  <2>2. TakenInv'
    <3> SUFFICES ASSUME NEW n \in Maps PROVE nextIndex'[n] <= Length + 1 + exited'[n]
      BY DEF TakenInv
    <3>1. nextIndex[n] <= Length + 1 + exited[n] /\ nextIndex[n] \in Nat /\ exited[n] \in Nat
      BY <1>1 DEF TakenInv, MapsTypes
    <3>2. exited'[n] = IF n = m THEN exited[n] + 1 ELSE exited[n]
      BY <1>1, <2>1 DEF MapsTypes
    <3>3. nextIndex'[n] = IF n = m /\ ~failed[m] THEN nextIndex[n] + 1 ELSE nextIndex[n]
      BY <1>1, <2>1 DEF MapsTypes
    <3> QED
      BY <1>2, <3>1, <3>2, <3>3
  <2>3. "done" \in WorkMap!ItemStates /\ "done" \notin WorkMap!Holding
        /\ item[x] \notin WorkMap!Holding
    BY <1>2 DEF WorkMap!ItemStates, WorkMap!Holding
  <2> QED
    BY <1>2, <2>1, <2>2, <2>3, OneItemStep
<1>4. CASE ~(failed[m] \/ next > Length)
  <2> DEFINE new == << <<m, next>> >>
  <2>1. /\ nextIndex' = [nextIndex EXCEPT ![m] = @ + 1] /\ WorkMap!Run(new, settled)
        /\ exited' = exited
    BY <1>4 DEF WorkMap!Continue
  <2>2. <<m, next>> \in WorkMap!Items /\ item[<<m, next>>] = "new" /\ <<m, next>> # x
    <3>1. next \in WorkMap!Indices
      BY <1>2, <1>4 DEF WorkMap!Indices
    <3>2. <<m, next>> \in WorkMap!Items
      BY <1>2, <3>1 DEF WorkMap!Items
    <3>3. item[<<m, next>>] = "new"
      BY <1>1, <1>2, <3>1 DEF MapInv, MapOk
    <3> QED
      BY <1>2, <3>2, <3>3
  <2>3. /\ settled \in [WorkMap!Items -> WorkMap!ItemStates]
        /\ \A y \in WorkMap!Items : settled[y] = IF y = x THEN "done" ELSE item[y]
    BY <1>1 DEF MapsTypes, WorkMap!ItemStates
  <2>4. new \in Seq(WorkMap!Items) /\ Len(new) = 1 /\ new[1] = <<m, next>>
    BY <2>2
  <2> HIDE DEF next, settled, new
  <2>5. QueueOf(queue, settled)
    BY <1>1, <1>2, <2>3 DEF QueueInv, QueueOf
  <2>6. Slots(activeCount, queue, settled)
    <3>1. \A y \in WorkMap!Items :
             /\ settled[y] \in WorkMap!Holding <=> item[y] \in WorkMap!Holding
             /\ settled[y] = "queued" => item[y] = "queued"
      BY <1>2, <2>3 DEF WorkMap!Holding
    <3> QED
      BY <1>1, <3>1, SlotsKept
  <2>7. /\ \A j, k \in 1 .. Len(new) : new[j] = new[k] => j = k
        /\ \A k \in 1 .. Len(new) : settled[new[k]] = "new"
    BY <2>2, <2>3, <2>4
  <2>8. activeCount \in Int /\ activeCount <= Concurrency
    BY <1>1 DEF QueueInv
  <2>9. Slots(activeCount', queue', item') /\ activeCount' >= activeCount
    BY <2>1, <2>3, <2>4, <2>5, <2>6, <2>7, <2>8, RunCounts
  <2>10. activeCount \in Nat /\ activeCount' \in Nat
    BY <1>1, <2>9, FS_CardinalityType DEF Slots, SlotsOf
  <2>11. TakenInv'
    <3> SUFFICES ASSUME NEW n \in Maps PROVE nextIndex'[n] <= Length + 1 + exited[n]
      BY <2>1 DEF TakenInv
    <3>1. nextIndex[n] <= Length + 1 + exited[n] /\ nextIndex[n] \in Nat /\ exited[n] \in Nat
      BY <1>1 DEF TakenInv, MapsTypes
    <3>2. nextIndex'[n] = IF n = m THEN nextIndex[n] + 1 ELSE nextIndex[n]
      BY <1>1, <2>1 DEF MapsTypes
    <3> QED
      BY <1>2, <1>4, <3>1, <3>2 DEF next
  <2> QED
    BY <1>2, <2>9, <2>10, <2>11 DEF SlotsInv
<1> QED
  BY <1>3, <1>4

LEMMA SlotsStep ==
    ASSUME OrchestrationInv, SlotsInv, [WorkMap!Next]_(WorkMap!vars)
    PROVE  SlotsInv'
<1>1. CASE \E m \in Maps : WorkMap!Start(m)
  BY <1>1, StartCounts
<1>2. CASE \E x \in WorkMap!Items : WorkMap!Begin(x) \/ WorkMap!Return(x) \/ WorkMap!Throw(x)
  BY <1>2, CallbackCounts
<1>3. CASE \E x \in WorkMap!Items : WorkMap!Settle(x)
  BY <1>3, SettleCounts
<1>4. CASE \E x \in WorkMap!Items : WorkMap!Continue(x)
  BY <1>4, ContinueCounts
<1>5. ASSUME NEW x \in WorkMap!Items, WorkMap!Abandon(x) PROVE SlotsInv'
  <2>1. /\ item[x] \in {"error", "refused"} /\ item' = [item EXCEPT ![x] = "done"]
        /\ exited' = [exited EXCEPT ![x[1]] = @ + 1]
        /\ UNCHANGED <<stopOnError, stopped, queue, activeCount, idling, nextIndex>>
    BY <1>5 DEF WorkMap!Abandon, WorkMap!WorkerExits
  <2>2. TakenInv'
    <3> SUFFICES ASSUME NEW n \in Maps PROVE nextIndex'[n] <= Length + 1 + exited'[n]
      BY DEF TakenInv
    <3>1. /\ nextIndex[n] <= Length + 1 + exited[n] /\ nextIndex[n] \in Nat
          /\ exited[n] \in Nat /\ exited'[n] = IF n = x[1] THEN exited[n] + 1 ELSE exited[n]
      BY <2>1 DEF SlotsInv, TakenInv, OrchestrationInv, MapsTypes
    <3> QED
      BY <2>1, <3>1, SchedulerAssumption
  <2>3. "done" \in WorkMap!ItemStates /\ "done" \notin WorkMap!Holding
        /\ item[x] \notin WorkMap!Holding
    BY <2>1 DEF WorkMap!ItemStates, WorkMap!Holding
  <2> QED
    BY <2>1, <2>2, <2>3, OneItemStep
<1>6. CASE \E m \in Maps : WorkMap!End(m)
  <2>1. UNCHANGED <<stopOnError, stopped, item, queue, activeCount, nextIndex, exited, idling>>
    BY <1>6 DEF WorkMap!End
  <2> QED
    BY <2>1 DEF SlotsInv, TakenInv
<1>7. CASE WorkMap!Idle
  <2>1. /\ activeCount # 0 \/ queue # <<>>
        /\ idling' = TRUE
        /\ UNCHANGED <<stopOnError, stopped, item, queue, activeCount, nextIndex, exited>>
    BY <1>7 DEF WorkMap!Idle
  <2>2. activeCount # 0
    BY <2>1, SchedulerAssumption DEF SlotsInv, Slots
  <2> QED
    BY <2>1, <2>2 DEF SlotsInv, TakenInv
<1>8. CASE UNCHANGED WorkMap!vars
  BY <1>8 DEF WorkMap!vars, SlotsInv, TakenInv
<1> QED
  BY <1>1, <1>2, <1>3, <1>4, <1>5, <1>6, <1>7, <1>8 DEF WorkMap!Next, WorkMap!Progress

\* The operator of an instance is the one of this module.
LEMMA SameCardinality == ASSUME NEW S PROVE WorkMap!Cardinality(S) = Cardinality(S)
BY DEF WorkMap!Cardinality, Cardinality

\* The invariants imply what the run checks of the maps.
LEMMA MapsAreSound ==
    ASSUME OrchestrationInv, SlotsInv
    PROVE  WorkMap!TypeOK /\ WorkMap!SchedulerIsSound /\ WorkMap!EndedMeansDrained
<1>1. MapsTypes /\ QueueInv /\ MapInv /\ Slots(activeCount, queue, item) /\ TakenInv
  BY DEF OrchestrationInv, SlotsInv
<1> DEFINE queued == {x \in WorkMap!Items : item[x] = "queued"}
<1>2. queue \in Seq(WorkMap!Items) /\ Len(queue) \in Nat /\ DOMAIN queue = 1 .. Len(queue)
  BY <1>1 DEF QueueInv, QueueOf
<1>3. queued = FirstOf(queue, Len(queue))
  BY <1>1, <1>2 DEF Slots, Waiting, QueueInv, QueueOf, FirstOf
<1> HIDE DEF queued
<1>4. Len(queue) = WorkMap!Cardinality(queued)
  <2>1. \A j, k \in 1 .. Len(queue) : queue[j] = queue[k] => j = k
    BY <1>1 DEF QueueInv, QueueOf
  <2>2. Cardinality(FirstOf(queue, Len(queue))) = Len(queue)
    BY <1>2, <2>1, PrefixCount
  <2> QED
    BY <1>3, <2>2, SameCardinality
<1>5. ASSUME NEW m \in Maps
      PROVE  exited[m] \in 0 .. WorkMap!Workers
             /\ nextIndex[m] \in 1 .. Length + 1 + WorkMap!Workers
  <2>1. /\ exited[m] \in Nat /\ nextIndex[m] \in Nat \ {0} /\ Length \in Nat
        /\ WorkMap!Workers \in Nat /\ Cardinality(InFlight(m)) \in Nat
        /\ nextIndex[m] <= Length + 1 + exited[m]
    BY <1>1, SchedulerAssumption, WorkersNat, InFlightFinite DEF MapsTypes, TakenInv
  <2>2. exited[m] <= WorkMap!Workers
    BY <1>1, <2>1 DEF MapInv, MapOk
  <2> QED
    BY <2>1, <2>2
<1>6. WorkMap!TypeOK
  <2>1. nextIndex \in [Maps -> 1 .. Length + 1 + WorkMap!Workers]
        /\ exited \in [Maps -> 0 .. WorkMap!Workers]
    BY <1>1, <1>5 DEF MapsTypes
  <2>2. WorkMap!IsInjective(queue) /\ \A k \in DOMAIN queue : item[queue[k]] = "queued"
    BY <1>1, <1>2 DEF WorkMap!IsInjective, QueueInv, QueueOf
  <2> QED
    BY <1>1, <1>4, <2>1, <2>2 DEF WorkMap!TypeOK, MapsTypes, SlotsInv, queued
<1>7. WorkMap!SchedulerIsSound
  <2>1. activeCount = WorkMap!Cardinality(HoldersOf(item))
    BY <1>1, SameCardinality DEF Slots, SlotsOf
  <2> QED
    BY <1>1, <2>1 DEF WorkMap!SchedulerIsSound, SlotsInv, Slots, HoldersOf, QueueInv
<1> QED
  BY <1>6, <1>7, DrainedMaps

-----------------------------------------------------------------------------
(* The pipeline.                                                           *)

PipelineInv == SessionInv /\ OrchestrationInv /\ SlotsInv

\* A step of the pipeline is one of its subject, and leaves the others as they are.
LEMMA PartSteps ==
    ASSUME [MCNext]_<<vars, maps, stage, subject>>
    PROVE  [Next]_vars /\ [WorkMap!Next]_(WorkMap!vars)
<1>1. UNCHANGED maps => UNCHANGED WorkMap!vars
  BY DEF maps, WorkMap!vars
<1> QED
  BY <1>1 DEF MCNext

\* A behaviour of the pipeline is one of a session and of the maps: what holds of these holds of it.
LEMMA Parts == MCSpec => Spec /\ MapsSpec
<1>1. MCInit => Init /\ WorkMap!Init
  BY DEF MCInit
<1> QED
  BY <1>1, PartSteps, PTL DEF MCSpec, Spec, MapsSpec

LEMMA PipelineInvariance == MCSpec => []PipelineInv
<1>1. MCInit => PipelineInv
  BY InitInv, MapsInitInv, SlotsInit DEF MCInit, PipelineInv
<1>2. PipelineInv /\ [MCNext]_<<vars, maps, stage, subject>> => PipelineInv'
  BY PartSteps, InvStep, MapsNextInv, SlotsStep DEF PipelineInv
<1> QED
  BY <1>1, <1>2, PTL DEF MCSpec

\* Types and counts of the session, and of the maps and the scheduler that they share
\* (createBoundedAsyncScheduler): it counts what runs, never runs more than it may, leaves
\* nothing queued beside a free slot and forgets nobody who waits for it to be idle; and a map
\* that ended has nothing queued or running.
THEOREM PipelineSound == MCSpec => []PipelineIsSound
<1>1. PipelineInv => PipelineIsSound
  BY MapsAreSound DEF PipelineInv, PipelineIsSound, SessionInv
<1> QED
  BY <1>1, PipelineInvariance, PTL

\* mapWithScheduler: after one of its callbacks threw a map starts no other, although operations
\* it queued are still admitted by the scheduler it shares.
THEOREM FailureStopsStarts == MCSpec => NoStartAfterFailure
<1>1. PipelineInv /\ [MCNext]_<<vars, maps, stage, subject>> => [NoneStarts]_(WorkMap!vars)
  BY PartSteps, NoneStartsStep DEF PipelineInv
<1> QED
  BY <1>1, PipelineInvariance, PTL
     DEF MCSpec, NoStartAfterFailure, WorkMap!NoStartAfterFailure, NoneStarts

=============================================================================
